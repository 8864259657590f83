------------------------------- MODULE RunStages -------------------------------
(***************************************************************************)
(* What a suite run does between taking its boards and its verdict         *)
(* (_execute, and what _run_job makes of how it ends): the stages it       *)
(* reports, the profile's commands, and the images the boards carry from   *)
(* one run to the next.  A run takes the boards, flashes them unless they  *)
(* say that they carry its revision already, runs the suite and reports.   *)
(* Any command may fail, or be stopped by a cancellation; the service may  *)
(* die between any two steps.                                              *)
(***************************************************************************)
EXTENDS Naturals, SequencesExt

CONSTANTS
  Boards,
  Revisions,
  MaxRuns    \* bound: runs, one after another on the same boards

Stages == <<"build", "discover", "flash", "preflight", "test", "report">>
Blank  == "blank"   \* a board that a flash was stopped on

VARIABLES
  runs,      \* runs begun
  request,   \* of this one: [revision, reuse, identifies]
  at,        \* the step it is at, or "idle"
  stages,    \* [stage -> "pending", "running", "passed", "failed", "skipped"]
  image,     \* [Boards -> the revision it carries, or Blank]
  cancel,    \* somebody asked it to stop
  failure,   \* the suite's command failed
  verdict,   \* "none", "passed", "failed" or "cancelled"
  stopped,   \* the stage a failed run says it failed at, or "none"
  tested     \* history: every board carried the revision when the suite began

vars == <<runs, request, at, stages, image, cancel, failure, verdict, stopped, tested>>

Requests == [revision : Revisions, reuse : BOOLEAN, identifies : BOOLEAN]
Pending  == [s \in ToSet(Stages) |-> "pending"]

Init ==
  /\ runs = 0 /\ at = "idle"
  /\ request \in Requests
  /\ stages = Pending /\ verdict = "none" /\ stopped = "none"
  /\ image \in [Boards -> Revisions \cup {Blank}]
  /\ cancel = FALSE /\ failure = FALSE /\ tested = FALSE

Begins ==
  /\ at = "idle" /\ runs < MaxRuns
  /\ runs' = runs + 1
  /\ request' \in Requests
  /\ at' = "checkout"
  /\ stages' = Pending /\ verdict' = "none" /\ stopped' = "none"
  /\ cancel' = FALSE /\ failure' = FALSE /\ tested' = FALSE
  /\ UNCHANGED image

CancelAsked ==
  /\ at # "idle" /\ ~cancel
  /\ cancel' = TRUE
  /\ UNCHANGED <<runs, request, at, stages, image, failure, verdict, stopped, tested>>

-----------------------------------------------------------------------------
\* How a run ends (_run_job).  PipelineError: the stage it names is marked failed.
FailsAt(s) ==
  /\ at' = "idle" /\ verdict' = "failed" /\ stopped' = s
  /\ stages' = [stages EXCEPT ![s] = "failed"]

\* JobCancelled: a stage under way, or not begun, is skipped.  Variant: of those under
\* way, the one the run is at.
CancelSkipsOne(s) == IF s = at THEN "skipped" ELSE IF stages[s] = "pending" THEN "skipped" ELSE stages[s]

CancelSkips(s) == IF stages[s] \in {"running", "pending"} THEN "skipped" ELSE stages[s]

\* A command is stopped at its next look; what is left of it may or may not be done.
Commands == {"checkout", "ask", "flash", "preflight", "test", "report"}

Interrupted ==
  /\ cancel /\ at \in Commands
  /\ at' = "idle" /\ verdict' = "cancelled"
  /\ stages' = [s \in ToSet(Stages) |-> CancelSkips(s)]
  /\ UNCHANGED <<runs, request, image, cancel, failure, stopped, tested>>

\* Anything else that raises, and the restart after the service died: no stage is named.
Raises ==
  /\ at # "idle"
  /\ at' = "idle" /\ verdict' = "failed"
  /\ UNCHANGED <<runs, request, stages, image, cancel, failure, stopped, tested>>

Mark(s, status) == stages' = [stages EXCEPT ![s] = status]
Goes(where) ==
  /\ at' = where
  /\ UNCHANGED <<runs, request, cancel, verdict, stopped>>

-----------------------------------------------------------------------------
\* The suite's tree is fetched, and the bundle linked in.
Checkout ==
  /\ at = "checkout"
  /\ \/ Goes("build") /\ Mark("build", "running")
     \/ FailsAt("build") /\ UNCHANGED <<runs, request, cancel>>
  /\ UNCHANGED <<image, failure, tested>>

\* No bundle any more, or one that names no revision.
Build ==
  /\ at = "build"
  /\ \/ Goes("discover") /\ stages' = [stages EXCEPT !["build"] = "passed", !["discover"] = "running"]
     \/ FailsAt("build") /\ UNCHANGED <<runs, request, cancel>>
  /\ UNCHANGED <<image, failure, tested>>

\* Too few boards, or families the bundle has no image for.
AsksFirst == request.reuse /\ request.identifies

Discover ==
  /\ at = "discover"
  /\ \/ /\ Goes(IF AsksFirst THEN "ask" ELSE "flash")
        /\ stages' = [stages EXCEPT !["discover"] = "passed",
                                    ![IF AsksFirst THEN "preflight" ELSE "flash"] = "running"]
     \/ FailsAt("discover") /\ UNCHANGED <<runs, request, cancel>>
  /\ UNCHANGED <<image, failure, tested>>

\* The preflight asks every board what it carries; it may fail for other reasons.
AllCarryIt == \A b \in Boards : image[b] = request.revision

AlreadyThere ==
  /\ Goes("suite")
  /\ stages' = [stages EXCEPT !["flash"] = "skipped", !["preflight"] = "passed"]

\* Variant: one board that carries it will do.
AskAny ==
  /\ at = "ask"
  /\ \/ (\E b \in Boards : image[b] = request.revision) /\ AlreadyThere
     \/ Goes("flash") /\ Mark("flash", "running")
  /\ UNCHANGED <<image, failure, tested>>

Ask ==
  /\ at = "ask"
  /\ \/ AllCarryIt /\ AlreadyThere
     \/ Goes("flash") /\ Mark("flash", "running")
  /\ UNCHANGED <<image, failure, tested>>

\* The flash command writes board after board: one under way is blank until written.
FlashBegins(b) ==
  /\ at = "flash" /\ image[b] # Blank
  /\ image' = [image EXCEPT ![b] = Blank]
  /\ UNCHANGED <<runs, request, at, stages, cancel, failure, verdict, stopped, tested>>

FlashWrites(b) ==
  /\ at = "flash" /\ image[b] = Blank
  /\ image' = [image EXCEPT ![b] = request.revision]
  /\ UNCHANGED <<runs, request, at, stages, cancel, failure, verdict, stopped, tested>>

\* Where the boards can be asked afterwards, its success need not be theirs.
FlashEnds ==
  /\ at = "flash"
  /\ \/ /\ AllCarryIt \/ request.identifies
        /\ Goes(IF request.identifies THEN "preflight" ELSE "suite")
        /\ stages' = [stages EXCEPT !["flash"] = "passed",
                        !["preflight"] = IF request.identifies THEN "running" ELSE "skipped"]
     \/ FailsAt("flash") /\ UNCHANGED <<runs, request, cancel>>
  /\ UNCHANGED <<image, failure, tested>>

Preflight ==
  /\ at = "preflight"
  /\ \/ AllCarryIt /\ Goes("suite") /\ Mark("preflight", "passed")
     \/ FailsAt("preflight") /\ UNCHANGED <<runs, request, cancel>>
  /\ UNCHANGED <<image, failure, tested>>

Suite ==
  /\ at = "suite"
  /\ Goes("test") /\ Mark("test", "running")
  /\ tested' = AllCarryIt
  /\ UNCHANGED <<image, failure>>

\* A suite that failed or overran is reported first.
Test ==
  /\ at = "test"
  /\ Goes("report")
  /\ failure' \in BOOLEAN
  /\ stages' = [stages EXCEPT !["test"] = IF failure' THEN "running" ELSE "passed",
                              !["report"] = "running"]
  /\ UNCHANGED <<image, tested>>

Report ==
  /\ at = "report"
  /\ \/ Goes("verdict") /\ Mark("report", "passed")
     \/ FailsAt("report") /\ UNCHANGED <<runs, request, cancel>>
  /\ UNCHANGED <<image, failure, tested>>

\* A cancellation nobody looked for any more changes nothing.
Verdict ==
  /\ at = "verdict"
  /\ \/ failure /\ FailsAt("test")
     \/ /\ ~failure
        /\ at' = "idle" /\ verdict' = "passed"
        /\ UNCHANGED <<stages, stopped>>
  /\ UNCHANGED <<runs, request, image, cancel, failure, tested>>

Next ==
  \/ Begins \/ CancelAsked \/ Interrupted \/ Raises
  \/ Checkout \/ Build \/ Discover \/ Ask
  \/ \E b \in Boards : FlashBegins(b) \/ FlashWrites(b)
  \/ FlashEnds \/ Preflight \/ Suite \/ Test \/ Report \/ Verdict

Spec == Init /\ [][Next]_vars

-----------------------------------------------------------------------------
\* Every variable holds what the rest of the module takes it to hold.
TypeOK ==
  /\ runs \in 0 .. MaxRuns /\ request \in Requests
  /\ at \in Commands \cup {"idle", "build", "discover", "suite", "verdict"}
  /\ stages \in [ToSet(Stages) -> {"pending", "running", "passed", "failed", "skipped"}]
  /\ image \in [Boards -> Revisions \cup {Blank}]
  /\ verdict \in {"none", "passed", "failed", "cancelled"}
  /\ stopped \in ToSet(Stages) \cup {"none"}

\* A run that passed tested its own revision on every board, whatever the runs before
\* it left there, its suite did not fail, and each of its stages passed or was skipped.
PassedMeansShown ==
  verdict = "passed" =>
    /\ tested /\ ~failure
    /\ \A s \in ToSet(Stages) : stages[s] \in {"passed", "skipped"}

\* A cancelled run leaves no stage running or pending.  A run that failed at a stage shows
\* that stage failed and those before it passed or skipped, but for a suite that
\* failed and whose report failed too: then the run says "report", and the suite is
\* still shown running.
EndsAreTold ==
  /\ verdict = "cancelled" => \A s \in ToSet(Stages) : stages[s] \notin {"running", "pending"}
  /\ stopped # "none" =>
       \A i \in 1 .. Len(Stages) :
         /\ Stages[i] = stopped => stages[stopped] = "failed"
         /\ (\E j \in i + 1 .. Len(Stages) : Stages[j] = stopped) =>
              \/ stages[Stages[i]] \in {"passed", "skipped"}
              \/ failure /\ stopped = "report" /\ Stages[i] = "test"

-----------------------------------------------------------------------------
(* What makes both inductive: what is known at each step of a run.         *)

\* The stages before the one it is at have passed or were skipped.
StagesSoFar ==
  /\ at \notin {"idle", "checkout", "build"} => stages["build"] = "passed"
  /\ at \notin {"idle", "checkout", "build", "discover"} => stages["discover"] = "passed"
  /\ at = "preflight" => stages["flash"] = "passed"
  /\ at \in {"suite", "test", "report", "verdict"} =>
       {stages["flash"], stages["preflight"]} \subseteq {"passed", "skipped"}
  /\ at \in {"report", "verdict"} => stages["test"] = IF failure THEN "running" ELSE "passed"
  /\ at = "verdict" => stages["report"] = "passed"

\* The suite is started on boards that carry its revision.
RightImages == (at = "suite" => AllCarryIt) /\ (at \in {"test", "report", "verdict"} => tested)

Undecided == at # "idle" => verdict = "none" /\ stopped = "none"

Inductive ==
  /\ TypeOK /\ {cancel, failure, tested} \subseteq BOOLEAN
  /\ StagesSoFar /\ RightImages /\ Undecided
  /\ PassedMeansShown /\ EndsAreTold
=============================================================================
