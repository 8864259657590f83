------------------------------ MODULE NodeUpdates ------------------------------
(***************************************************************************)
(* Releases of a node: the one its portal names in every answer, what the  *)
(* owner asked for, the node's drain of its runs, the download, and the    *)
(* host's unit that takes the request and installs.  Node and unit write   *)
(* one status file; the node also keeps an update in memory, of which the  *)
(* later one counts.  Releases are numbers, in the order they are made.    *)
(***************************************************************************)
EXTENDS Naturals, TLAPS

CONSTANTS
  Releases,   \* 1..n; the node starts with release 0
  MaxDeaths   \* bound of the model: how often the node dies

ASSUME NodeUpdatesAssumption == Releases \subseteq Nat \ {0} /\ MaxDeaths \in Nat

VARIABLES
  named,      \* the release the portal names
  last,       \* the release the node heard of last
  mine,       \* the release that runs
  auto,       \* the owner has turned automatic installs on
  requested,  \* releases the owner asked for, in the node's memory
  upd, file,  \* the update in memory and in status.json: [state, release]
  newer,      \* status.json was written no earlier than the memory
  old,        \* what was written last was written long ago
  staging,    \* the release the download thread is at, or 0
  staged,     \* it has said so, and not yet left the request
  request,    \* the release in request.json, or 0
  unit,       \* the release the host's unit has taken, or 0
  work,       \* "none", "polling" for a run, or "run" when one is in hand
  (* history *)
  asked,      \* releases asked for, or named while automatic installs were on
  cut,        \* an install ended without a word
  deaths

owner == <<auto, requested, asked>>
portal == <<named, last>>
memory == <<upd, newer, old>>
download == <<staging, staged>>
vars == <<named, last, mine, auto, requested, upd, file, newer, old, staging, staged, request, unit,
          work, asked, cut, deaths>>

Nothing == [state |-> "none", release |-> 0]
In(state, c) == [state |-> state, release |-> c]
Updating == upd.state \in {"pending", "staged", "installing"}

Init ==
  /\ named = 0 /\ last = 0 /\ mine = 0
  /\ auto = FALSE /\ requested = {} /\ asked = {}
  /\ upd = Nothing /\ file = Nothing /\ newer = TRUE /\ old = FALSE
  /\ staging = 0 /\ staged = FALSE /\ request = 0 /\ unit = 0
  /\ work = "none" /\ cut = FALSE /\ deaths = 0

-----------------------------------------------------------------------------
(* What the node makes of the release it hears of.                         *)

\* The update as it stands: what the file says, unless the memory is later.
Reads == IF file # Nothing /\ (upd = Nothing \/ newer) THEN file ELSE upd

Keeps(u) == upd' = u /\ newer' = (newer \/ u # upd)
Remembers(u) == upd' = u /\ newer' = FALSE /\ old' = FALSE
Writes(u) == upd' = u /\ file' = u /\ newer' = TRUE /\ old' = FALSE

\* A staged request nobody took in time.  Variant: waited for without end.
WaitsOn(c, u, aged) == FALSE
GivesUpOn(c, u, aged) == u = In("staged", c) /\ aged

Waits(c, u, aged) ==
  /\ u.release = c
  /\ \/ u.state = "installing"
     \/ u.state = "staged" /\ ~GivesUpOn(c, u, aged)
     \/ u.state \in {"failed", "installed"} /\ ~aged

\* Installs on its own only what its owner asked for.  Variant: what the portal names.
AsksNobody(c, wanted) == TRUE
MayInstall(c, wanted) == c \in wanted \/ auto

\* Of release c, with update u, of some age, and file f at hand.
ConsiderRelease(c, wanted, u, f, aged) ==
  \/ /\ c = mine \/ Waits(c, u, aged)
     /\ Keeps(IF c = mine /\ u.release # c THEN Nothing ELSE u)
     /\ file' = f /\ old' = aged
     /\ UNCHANGED <<request, staging>>
  \/ /\ c # mine /\ GivesUpOn(c, u, aged)
     /\ request' = 0
     /\ Writes(In("failed", c))
     /\ UNCHANGED staging
  \/ /\ c # mine /\ ~Waits(c, u, aged) /\ ~GivesUpOn(c, u, aged)
     /\ LET install == work # "run" /\ MayInstall(c, wanted)
            state   == IF work = "run" \/ install THEN "pending" ELSE "available"
        IN /\ IF (install /\ staging # 0) \/ (~install /\ u = In(state, c))
                THEN Keeps(u) /\ old' = aged
                ELSE Remembers(In(state, c))
           /\ staging' = IF install /\ staging = 0 THEN c ELSE staging
     /\ file' = f
     /\ UNCHANGED request

Heartbeat ==
  /\ named # 0
  /\ last' = named
  /\ ConsiderRelease(named, requested, Reads, file, old)
  /\ UNCHANGED <<named, mine, owner, staged, unit, work, cut, deaths>>

\* From the rig's page or its portal's: a failure is not waited out, but forgotten, also
\* by the file.  A file older than what the memory said is older than that.
InstallOffered ==
  /\ last # 0
  /\ requested' = requested \cup {last}
  /\ asked' = asked \cup {last}
  /\ LET forgets == upd.state \in {"available", "failed"}
         f == IF forgets /\ file.state = "failed" THEN Nothing ELSE file
     IN \E aged \in {old} \cup (IF forgets /\ ~newer THEN {TRUE} ELSE {}) :
          ConsiderRelease(last, requested', IF forgets THEN f ELSE Reads, f, aged)
  /\ UNCHANGED <<portal, mine, auto, staged, unit, work, cut, deaths>>

SetAuto ==
  /\ auto' = ~auto
  /\ asked' = IF auto' THEN asked \cup ({named} \ {0}) ELSE asked
  /\ UNCHANGED <<portal, mine, requested, memory, file, download, request, unit, work, cut, deaths>>

\* The portal's newest release, in every later answer.
Names(c) ==
  /\ c = named + 1
  /\ named' = c
  /\ asked' = IF auto THEN asked \cup {c} ELSE asked
  /\ UNCHANGED <<last, mine, auto, requested, memory, file, download, request, unit, work, cut, deaths>>

\* The better part of an hour, by when a heartbeat has read what was written.
TimePasses ==
  /\ ~old /\ upd # Nothing /\ upd = Reads
  /\ old' = TRUE
  /\ UNCHANGED <<portal, mine, owner, upd, file, newer, download, request, unit, work, cut, deaths>>

-----------------------------------------------------------------------------
(* Runs.                                                                   *)

LeaseAsks ==
  /\ work = "none" /\ ~Updating
  /\ work' = "polling"
  /\ UNCHANGED <<portal, mine, owner, memory, file, download, request, unit, cut, deaths>>

LeaseAnswers ==
  /\ work = "polling"
  /\ work' \in {"none", "run"}
  /\ UNCHANGED <<portal, mine, owner, memory, file, download, request, unit, cut, deaths>>

\* Ended and reported.
RunEnds ==
  /\ work = "run"
  /\ work' = "none"
  /\ UNCHANGED <<portal, mine, owner, memory, file, download, request, unit, cut, deaths>>

-----------------------------------------------------------------------------
(* The download, and the host's unit.                                      *)

StageSays ==
  /\ staging # 0 /\ ~staged
  /\ staged' = TRUE
  /\ Writes(In("staged", staging))
  /\ UNCHANGED <<portal, mine, owner, staging, request, unit, work, cut, deaths>>

\* Last: the unit starts the moment the request exists.
StageRequests ==
  /\ staged
  /\ request' = staging
  /\ staging' = 0 /\ staged' = FALSE
  /\ UNCHANGED <<portal, mine, owner, memory, file, unit, work, cut, deaths>>

StageFails ==
  /\ staging # 0
  /\ Writes(In("failed", staging))
  /\ staging' = 0 /\ staged' = FALSE
  /\ UNCHANGED <<portal, mine, owner, request, unit, work, cut, deaths>>

UnitWrites(u) ==
  /\ file' = u /\ newer' = TRUE /\ old' = FALSE

UnitTakes ==
  /\ request # 0 /\ unit = 0
  /\ unit' = request
  /\ request' = 0
  /\ UNCHANGED <<portal, mine, owner, memory, file, download, work, cut, deaths>>

UnitBegins ==
  /\ unit # 0
  /\ UnitWrites(In("installing", unit))
  /\ UNCHANGED <<portal, mine, owner, upd, download, request, unit, work, cut, deaths>>

\* Under the rig lock: no run works while it installs and restarts the node.
UnitInstalls ==
  /\ unit # 0 /\ file = In("installing", unit) /\ work # "run" /\ mine # unit
  /\ mine' = unit
  /\ last' = 0 /\ requested' = {} /\ upd' = file /\ newer' = TRUE /\ old' = FALSE
  /\ staging' = 0 /\ staged' = FALSE /\ work' = "none"
  /\ UNCHANGED <<named, auto, asked, file, request, unit, cut, deaths>>

UnitEnds ==
  /\ unit # 0
  /\ UnitWrites(In(IF mine = unit THEN "installed" ELSE "failed", unit))
  /\ unit' = 0
  /\ UNCHANGED <<portal, mine, owner, upd, download, request, work, cut, deaths>>

\* A command of it fails outside any check, or the host goes down: it says nothing more.
UnitCut ==
  /\ unit # 0
  /\ unit' = 0
  /\ cut' = TRUE
  /\ UNCHANGED <<portal, mine, owner, memory, file, download, request, work, deaths>>

\* The node dies and comes back: what is in its files is what it knows.
NodeDies ==
  /\ deaths < MaxDeaths
  /\ deaths' = deaths + 1
  /\ last' = 0 /\ requested' = {}
  /\ upd' = file /\ newer' = TRUE
  /\ staging' = 0 /\ staged' = FALSE
  /\ work' = "none"
  /\ UNCHANGED <<named, mine, auto, asked, file, old, request, unit, cut>>

Unit == UnitBegins \/ UnitInstalls \/ UnitEnds \/ UnitCut

Next ==
  \/ Heartbeat \/ InstallOffered \/ SetAuto \/ TimePasses \/ (\E c \in Releases : Names(c))
  \/ LeaseAsks \/ LeaseAnswers \/ RunEnds
  \/ StageSays \/ StageRequests \/ StageFails
  \/ UnitTakes \/ Unit
  \/ NodeDies

\* The node's threads and the clock go on and runs end; the unit, once it has begun,
\* goes on to an end.  That it is enabled at all is not assumed.
Fairness ==
  /\ WF_vars(Heartbeat) /\ WF_vars(TimePasses)
  /\ WF_vars(LeaseAnswers \/ RunEnds)
  /\ WF_vars(StageSays \/ StageRequests \/ StageFails)
  /\ WF_vars(UnitEnds \/ UnitCut)

Spec == Init /\ [][Next]_vars /\ Fairness

-----------------------------------------------------------------------------
\* Every variable holds what the rest of the module takes it to hold.
TypeOK ==
  /\ {named, last, mine, staging, request, unit} \subseteq Releases \cup {0}
  /\ requested \cup asked \subseteq Releases
  /\ {upd, file} \subseteq {Nothing} \cup
       {In(s, c) : s \in {"available", "pending", "staged", "installing", "installed", "failed"}, c \in Releases}
  /\ {auto, newer, old, staged, cut} \subseteq BOOLEAN
  /\ work \in {"none", "polling", "run"} /\ deaths \in 0..MaxDeaths

\* A rig is never updated because a farm said so: what runs its owner asked for, or
\* was named while automatic installs were on, across restarts and later releases.
OnlyWhatWasAsked == {mine, unit, request} \subseteq asked \cup {0}

\* The node does not stay away from work over a release: unless an install ended
\* without a word, it takes runs again.
DrainEnds == Updating ~> (~Updating \/ cut)

\* What the update unit promises of every install.
InstallIsTold == unit # 0 ~> (unit = 0 /\ file.state # "installing")

\* What makes OnlyWhatWasAsked inductive: what is downloaded was asked for, so was what the
\* owner's request names, and what the portal names once the owner installs on its own.
AskedBefore ==
  /\ OnlyWhatWasAsked
  /\ staging \in asked \cup {0}
  /\ requested \subseteq asked
  /\ auto => named \in asked \cup {0}

-----------------------------------------------------------------------------
(* What runs was asked for, for every number of releases and of deaths of  *)
(* the node.                                                               *)

States == {"available", "pending", "staged", "installing", "installed", "failed"}
Updates == {Nothing} \cup {In(s, c) : s \in States, c \in Releases}

LEMMA AnUpdate == \A s \in States, c \in Releases : In(s, c) \in Updates
BY DEF Updates

(* What a node makes of a release leaves every variable in its type, and has it download     *)
(* nothing but that release, and only if it may.                                              *)
LEMMA ConsidersOnly ==
  ASSUME NEW c \in Releases, NEW wanted, NEW u \in Updates, NEW f \in Updates, NEW aged \in BOOLEAN,
         TypeOK, ConsiderRelease(c, wanted, u, f, aged)
  PROVE  /\ upd' \in Updates /\ file' \in Updates /\ newer' \in BOOLEAN /\ old' \in BOOLEAN
         /\ request' \in {request, 0}
         /\ staging' = staging \/ (staging' = c /\ MayInstall(c, wanted))
<1> DEFINE Goal == /\ upd' \in Updates /\ file' \in Updates /\ newer' \in BOOLEAN /\ old' \in BOOLEAN
                   /\ request' \in {request, 0}
                   /\ staging' = staging \/ (staging' = c /\ MayInstall(c, wanted))
<1>0. Nothing \in Updates /\ newer \in BOOLEAN
  BY DEF Updates, TypeOK
<1>f. In("failed", c) \in Updates /\ In("pending", c) \in Updates /\ In("available", c) \in Updates
  BY AnUpdate DEF States
<1> USE <1>0, <1>f
<1> DEFINE install == work # "run" /\ MayInstall(c, wanted)
           state   == IF work = "run" \/ install THEN "pending" ELSE "available"
<1>1. CASE /\ Keeps(IF c = mine /\ u.release # c THEN Nothing ELSE u)
           /\ file' = f /\ old' = aged
           /\ UNCHANGED <<request, staging>>
  BY <1>1 DEF Keeps
<1>2. CASE request' = 0 /\ Writes(In("failed", c)) /\ UNCHANGED staging
  BY <1>2 DEF Writes
<1>3. CASE /\ \/ Keeps(u) /\ old' = aged
              \/ Remembers(In(state, c))
           /\ staging' = IF install /\ staging = 0 THEN c ELSE staging
           /\ file' = f
           /\ UNCHANGED request
  BY <1>3 DEF Keeps, Remembers
<1> QED BY <1>1, <1>2, <1>3 DEF ConsiderRelease

LEMMA TypesStay ==
  ASSUME TypeOK, [Next]_vars
  PROVE  TypeOK'
<1> USE NodeUpdatesAssumption
<1>a. upd \in Updates /\ file \in Updates /\ Nothing \in Updates
  BY DEF TypeOK, Updates, States
<1>b. ASSUME upd' \in Updates, file' \in Updates
      PROVE  {upd', file'} \subseteq {Nothing} \cup
               {In(s, c) : s \in {"available", "pending", "staged", "installing", "installed", "failed"}, c \in Releases}
  BY <1>b DEF Updates, States
<1>c. /\ named \in Releases \cup {0} /\ last \in Releases \cup {0} /\ mine \in Releases \cup {0}
      /\ staging \in Releases \cup {0} /\ request \in Releases \cup {0} /\ unit \in Releases \cup {0}
      /\ requested \subseteq Releases /\ asked \subseteq Releases
      /\ auto \in BOOLEAN /\ newer \in BOOLEAN /\ old \in BOOLEAN /\ staged \in BOOLEAN /\ cut \in BOOLEAN
      /\ work \in {"none", "polling", "run"} /\ deaths \in 0..MaxDeaths
  BY DEF TypeOK
<1> DEFINE Typed ==
      /\ named' \in Releases \cup {0} /\ last' \in Releases \cup {0} /\ mine' \in Releases \cup {0}
      /\ staging' \in Releases \cup {0} /\ request' \in Releases \cup {0} /\ unit' \in Releases \cup {0}
      /\ requested' \subseteq Releases /\ asked' \subseteq Releases
      /\ upd' \in Updates /\ file' \in Updates
      /\ auto' \in BOOLEAN /\ newer' \in BOOLEAN /\ old' \in BOOLEAN /\ staged' \in BOOLEAN /\ cut' \in BOOLEAN
      /\ work' \in {"none", "polling", "run"} /\ deaths' \in 0..MaxDeaths
<1> SUFFICES Typed
  BY <1>b DEF TypeOK
<1>d. Reads \in Updates
  BY <1>a DEF Reads
<1>e. old \in BOOLEAN
  BY <1>c
<1>1. CASE Heartbeat
  <2>1. named \in Releases /\ ConsiderRelease(named, requested, Reads, file, old)
    BY <1>1, <1>c DEF Heartbeat
  <2>2. /\ upd' \in Updates /\ file' \in Updates /\ newer' \in BOOLEAN /\ old' \in BOOLEAN
        /\ request' \in {request, 0}
        /\ staging' = staging \/ (staging' = named /\ MayInstall(named, requested))
    BY <2>1, <1>a, <1>d, <1>e, ConsidersOnly
  <2> QED BY <1>1, <1>c, <2>1, <2>2 DEF Heartbeat, owner
<1>2. CASE InstallOffered
  <2>1. last \in Releases
    BY <1>2, <1>c DEF InstallOffered
  <2>2. PICK u \in Updates, f \in Updates, aged \in BOOLEAN : ConsiderRelease(last, requested', u, f, aged)
    BY <1>2, <1>a, <1>c, <1>d DEF InstallOffered
  <2>3. /\ upd' \in Updates /\ file' \in Updates /\ newer' \in BOOLEAN /\ old' \in BOOLEAN
        /\ request' \in {request, 0} /\ staging' \in {staging, last}
    BY <2>1, <2>2, ConsidersOnly
  <2> QED BY <1>2, <1>c, <2>1, <2>3 DEF InstallOffered, portal
<1> USE <1>a, <1>c DEF portal, owner, memory, download
<1>3. CASE SetAuto
  BY <1>3 DEF SetAuto
<1>4. CASE TimePasses
  BY <1>4 DEF TimePasses
<1>5. ASSUME NEW c \in Releases, Names(c)
      PROVE  Typed
  BY <1>5 DEF Names
<1>6. CASE LeaseAsks \/ LeaseAnswers \/ RunEnds
  BY <1>6 DEF LeaseAsks, LeaseAnswers, RunEnds
<1>7. CASE StageSays
  <2>1. In("staged", staging) \in Updates
    BY <1>7, AnUpdate DEF StageSays, States
  <2> QED BY <1>7, <2>1 DEF StageSays, Writes
<1>8. CASE StageRequests
  BY <1>8 DEF StageRequests
<1>9. CASE StageFails
  <2>1. In("failed", staging) \in Updates
    BY <1>9, AnUpdate DEF StageFails, States
  <2> QED BY <1>9, <2>1 DEF StageFails, Writes
<1>10. CASE UnitTakes
  BY <1>10 DEF UnitTakes
<1>11. CASE UnitBegins
  <2>1. In("installing", unit) \in Updates
    BY <1>11, AnUpdate DEF UnitBegins, States
  <2> QED BY <1>11, <2>1 DEF UnitBegins, UnitWrites
<1>12. CASE UnitInstalls
  BY <1>12 DEF UnitInstalls
<1>13. CASE UnitEnds
  <2>1. In("installed", unit) \in Updates /\ In("failed", unit) \in Updates
    BY <1>13, AnUpdate DEF UnitEnds, States
  <2>2. file' \in Updates
    BY <1>13, <2>1 DEF UnitEnds, UnitWrites
  <2> QED BY <1>13, <2>2 DEF UnitEnds, UnitWrites
<1>14. CASE UnitCut
  BY <1>14 DEF UnitCut
<1>15. CASE NodeDies
  <2>1. deaths' \in 0..MaxDeaths
    BY <1>15 DEF NodeDies
  <2> QED BY <1>15, <2>1 DEF NodeDies
<1>16. CASE UNCHANGED vars
  BY <1>16 DEF vars
<1> QED
  BY <1>1, <1>2, <1>3, <1>4, <1>5, <1>6, <1>7, <1>8, <1>9, <1>10, <1>11, <1>12, <1>13, <1>14,
     <1>15, <1>16 DEF Next, Unit

LEMMA AskedBeforeStays ==
  ASSUME TypeOK, AskedBefore, [Next]_vars
  PROVE  AskedBefore'
<1> USE DEF AskedBefore, OnlyWhatWasAsked, MayInstall, portal, owner, memory, download
<1>a. upd \in Updates /\ file \in Updates /\ Nothing \in Updates /\ old \in BOOLEAN
  BY DEF TypeOK, Updates, States
<1>b. Reads \in Updates
  BY <1>a DEF Reads
<1>1. CASE Heartbeat
  <2>1. named \in Releases /\ ConsiderRelease(named, requested, Reads, file, old)
    BY <1>1 DEF Heartbeat, TypeOK
  <2>2. request' \in {request, 0} /\ (staging' = staging \/ (staging' = named /\ MayInstall(named, requested)))
    BY <2>1, <1>a, <1>b, ConsidersOnly
  <2> QED BY <1>1, <2>2 DEF Heartbeat
<1>2. CASE InstallOffered
  <2>1. last \in Releases
    BY <1>2 DEF InstallOffered, TypeOK
  <2>2. PICK u \in Updates, f \in Updates, aged \in BOOLEAN : ConsiderRelease(last, requested', u, f, aged)
    BY <1>2, <1>a, <1>b DEF InstallOffered
  <2>3. request' \in {request, 0} /\ staging' \in {staging, last}
    BY <2>1, <2>2, ConsidersOnly
  <2> QED BY <1>2, <2>3 DEF InstallOffered
<1>3. CASE SetAuto
  BY <1>3 DEF SetAuto
<1>4. CASE TimePasses \/ LeaseAsks \/ LeaseAnswers \/ RunEnds
  BY <1>4 DEF TimePasses, LeaseAsks, LeaseAnswers, RunEnds
<1>5. ASSUME NEW c \in Releases, Names(c)
      PROVE  AskedBefore'
  BY <1>5 DEF Names
<1>6. CASE StageSays \/ StageRequests \/ StageFails
  BY <1>6 DEF StageSays, StageRequests, StageFails
<1>7. CASE UnitTakes \/ UnitBegins \/ UnitInstalls
  BY <1>7 DEF UnitTakes, UnitBegins, UnitInstalls
<1>8. CASE UnitEnds \/ UnitCut
  BY <1>8 DEF UnitEnds, UnitCut
<1>9. CASE NodeDies \/ UNCHANGED vars
  BY <1>9 DEF NodeDies, vars
<1> QED BY <1>1, <1>2, <1>3, <1>4, <1>5, <1>6, <1>7, <1>8, <1>9 DEF Next, Unit

(* What a node runs, and what it has asked its host's unit for, its owner asked for, or it    *)
(* was named while automatic installs were on (_consider_release, _install_release), however  *)
(* heartbeats, requests, the download, the unit and restarts fall together.                   *)
THEOREM OnlyAsked == Spec => [](TypeOK /\ OnlyWhatWasAsked)
<1>1. Init => TypeOK /\ AskedBefore
  <2> SUFFICES ASSUME Init
               PROVE  TypeOK /\ AskedBefore
    OBVIOUS
  <2>1. {named, last, mine, staging, request, unit} \subseteq Releases \cup {0}
    BY DEF Init
  <2>2. deaths \in 0..MaxDeaths /\ {upd, file} = {Nothing}
    BY NodeUpdatesAssumption DEF Init
  <2>3. /\ requested = {} /\ asked = {} /\ work = "none"
        /\ {auto, newer, old, staged, cut} \subseteq BOOLEAN
    BY DEF Init
  <2>4. TypeOK
    BY <2>1, <2>2, <2>3 DEF TypeOK
  <2>5. AskedBefore
    BY DEF Init, AskedBefore, OnlyWhatWasAsked
  <2> QED BY <2>4, <2>5
<1>2. TypeOK /\ AskedBefore /\ [Next]_vars => TypeOK' /\ AskedBefore'
  BY TypesStay, AskedBeforeStays
<1>3. AskedBefore => OnlyWhatWasAsked
  BY DEF AskedBefore
<1> QED BY <1>1, <1>2, <1>3, PTL DEF Spec
=============================================================================
