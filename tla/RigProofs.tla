-------------------------------- MODULE RigProofs --------------------------------
(***************************************************************************)
(* What the components a run meets on its rig keep, step by step: for each *)
(* its inductive invariant, as its own module states it, holds at first,   *)
(* is kept by every step, and says what is promised.                       *)
(***************************************************************************)
EXTENDS RigParts, Sequences, FiniteSetTheorems, WellFoundedInduction, TLAPS

-----------------------------------------------------------------------------
(* The stages of a run (RunStages).                                        *)

LEMMA SixStages ==
  /\ Len(Stages!Stages) = 6
  /\ Stages!Stages[1] = "build" /\ Stages!Stages[2] = "discover" /\ Stages!Stages[3] = "flash"
  /\ Stages!Stages[4] = "preflight" /\ Stages!Stages[5] = "test" /\ Stages!Stages[6] = "report"
  /\ Stages!ToSet(Stages!Stages)
       = {"build", "discover", "flash", "preflight", "test", "report"}
<1>1. Len(Stages!Stages) = 6 /\ DOMAIN Stages!Stages = 1 .. 6
  BY DEF Stages!Stages
<1>2. Stages!Stages[1] = "build" /\ Stages!Stages[2] = "discover"
  BY DEF Stages!Stages
<1>3. Stages!Stages[3] = "flash" /\ Stages!Stages[4] = "preflight"
  BY DEF Stages!Stages
<1>4. Stages!Stages[5] = "test" /\ Stages!Stages[6] = "report"
  BY DEF Stages!Stages
<1>5. Stages!ToSet(Stages!Stages) = {Stages!Stages[i] : i \in 1 .. 6}
  BY <1>1 DEF Stages!ToSet
<1>6. 1 .. 6 = {1, 2, 3, 4, 5, 6}
  OBVIOUS
<1> QED BY <1>1, <1>2, <1>3, <1>4, <1>5, <1>6

LEMMA StagesTypes ==
  ASSUME Stages!TypeOK, {v6, v7, v10} \subseteq BOOLEAN, [Stages!Next]_(Stages!vars)
  PROVE  Stages!TypeOK' /\ ({v6, v7, v10} \subseteq BOOLEAN)'
<1> DEFINE Six == {"build", "discover", "flash", "preflight", "test", "report"}
           Typed == Stages!TypeOK /\ {v6, v7, v10} \subseteq BOOLEAN
<1>0. Stages!ToSet(Stages!Stages) = Six
  BY SixStages
<1> USE <1>0, RunStagesAssumption
<1> USE DEF Stages!TypeOK, Stages!Commands, Stages!Goes, Stages!Mark, Stages!FailsAt
<1>1. CASE Stages!Begins
  <2>1. v1' \in 0 .. MaxRuns
    BY <1>1 DEF Stages!Begins
  <2>2. v4' \in [Six -> {"pending", "running", "passed", "failed", "skipped"}]
    BY <1>1 DEF Stages!Begins, Stages!Pending
  <2>3. v2' \in Stages!Requests /\ v3' = "checkout" /\ v8' = "none" /\ v9' = "none" /\ v5' = v5
    BY <1>1 DEF Stages!Begins
  <2>4. ({v6, v7, v10} \subseteq BOOLEAN)'
    BY <1>1 DEF Stages!Begins
  <2> QED BY <2>1, <2>2, <2>3, <2>4
<1>2. CASE Stages!CancelAsked
  BY <1>2 DEF Stages!CancelAsked
<1>3. CASE Stages!Interrupted
  BY <1>3 DEF Stages!Interrupted, Stages!CancelSkips
<1>4. CASE Stages!Raises
  BY <1>4 DEF Stages!Raises
<1>5. CASE Stages!Checkout
  BY <1>5 DEF Stages!Checkout
<1>6. CASE Stages!Build
  BY <1>6 DEF Stages!Build
<1>7. CASE Stages!Discover
  BY <1>7 DEF Stages!Discover
<1>8. CASE Stages!Ask
  BY <1>8 DEF Stages!Ask, Stages!AlreadyThere
<1>9. ASSUME NEW b \in RunBoards, Stages!FlashBegins(b) \/ Stages!FlashWrites(b)
      PROVE  Typed'
  BY <1>9 DEF Stages!FlashBegins, Stages!FlashWrites, Stages!Requests
<1>10. CASE Stages!FlashEnds
  BY <1>10 DEF Stages!FlashEnds
<1>11. CASE Stages!Preflight
  BY <1>11 DEF Stages!Preflight
<1>12. CASE Stages!Suite
  BY <1>12 DEF Stages!Suite, Stages!AllCarryIt
<1>13. CASE Stages!Test
  BY <1>13 DEF Stages!Test
<1>14. CASE Stages!Report
  BY <1>14 DEF Stages!Report
<1>15. CASE Stages!Verdict
  BY <1>15 DEF Stages!Verdict
<1>16. CASE UNCHANGED Stages!vars
  BY <1>16 DEF Stages!vars
<1> QED
  BY <1>1, <1>2, <1>3, <1>4, <1>5, <1>6, <1>7, <1>8, <1>9, <1>10, <1>11, <1>12, <1>13, <1>14,
     <1>15, <1>16 DEF Stages!Next

(* What is known at each step of a run, but for how it ended. *)
LEMMA StagesKnown ==
  ASSUME Stages!Inductive, [Stages!Next]_(Stages!vars)
  PROVE  Stages!StagesSoFar' /\ Stages!RightImages' /\ Stages!Undecided'
<1> DEFINE Six == {"build", "discover", "flash", "preflight", "test", "report"}
           Known == Stages!StagesSoFar /\ Stages!RightImages /\ Stages!Undecided
<1>0. /\ v4 \in [Six -> {"pending", "running", "passed", "failed", "skipped"}]
      /\ v7 \in BOOLEAN /\ v3' \in Stages!Commands \cup {"idle", "build", "discover", "suite", "verdict"}
  BY SixStages, StagesTypes DEF Stages!Inductive, Stages!TypeOK
<1>k. Known
  BY DEF Stages!Inductive
<1> USE <1>0, <1>k DEF Stages!StagesSoFar, Stages!RightImages, Stages!Undecided, Stages!Goes,
        Stages!Mark, Stages!FailsAt
<1>1. CASE Stages!Begins
  BY <1>1 DEF Stages!Begins
<1>2. CASE Stages!CancelAsked
  BY <1>2 DEF Stages!CancelAsked, Stages!AllCarryIt
<1>3. CASE Stages!Interrupted \/ Stages!Raises
  BY <1>3 DEF Stages!Interrupted, Stages!Raises
<1>5. CASE Stages!Checkout \/ Stages!Build
  BY <1>5 DEF Stages!Checkout, Stages!Build
<1>7. CASE Stages!Discover
  BY <1>7 DEF Stages!Discover
<1>8. CASE Stages!Ask
  BY <1>8 DEF Stages!Ask, Stages!AlreadyThere, Stages!AllCarryIt
<1>9. ASSUME NEW b \in RunBoards, Stages!FlashBegins(b) \/ Stages!FlashWrites(b)
      PROVE  Known'
  BY <1>9 DEF Stages!FlashBegins, Stages!FlashWrites
<1>10. CASE Stages!FlashEnds
  BY <1>10 DEF Stages!FlashEnds, Stages!AllCarryIt
<1>11. CASE Stages!Preflight
  BY <1>11 DEF Stages!Preflight, Stages!AllCarryIt
<1>12. CASE Stages!Suite
  BY <1>12 DEF Stages!Suite, Stages!AllCarryIt
<1>13. CASE Stages!Test
  BY <1>13 DEF Stages!Test
<1>14. CASE Stages!Report
  BY <1>14 DEF Stages!Report
<1>15. CASE Stages!Verdict
  BY <1>15 DEF Stages!Verdict
<1>16. CASE UNCHANGED Stages!vars
  BY <1>16 DEF Stages!vars, Stages!AllCarryIt
<1> QED
  BY <1>1, <1>2, <1>3, <1>5, <1>7, <1>8, <1>9, <1>10, <1>11, <1>12, <1>13, <1>14,
     <1>15, <1>16 DEF Stages!Next

(* Of EndsAreTold: what a run that failed at stage w shows. *)
Shown(show, w, failed) ==
  \A i \in 1 .. Len(Stages!Stages) :
    /\ Stages!Stages[i] = w => show[w] = "failed"
    /\ (\E j \in i + 1 .. Len(Stages!Stages) : Stages!Stages[j] = w) =>
         \/ show[Stages!Stages[i]] \in {"passed", "skipped"}
         \/ failed /\ w = "report" /\ Stages!Stages[i] = "test"

(* It is enough to know each of the stages before it. *)
LEMMA ShownBefore ==
  ASSUME NEW show, NEW w, NEW failed \in BOOLEAN,
         show[w] = "failed",
         w \in {"discover", "flash", "preflight", "test", "report"} =>
           show["build"] \in {"passed", "skipped"},
         w \in {"flash", "preflight", "test", "report"} => show["discover"] \in {"passed", "skipped"},
         w \in {"preflight", "test", "report"} => show["flash"] \in {"passed", "skipped"},
         w \in {"test", "report"} => show["preflight"] \in {"passed", "skipped"},
         w = "report" => show["test"] \in {"passed", "skipped"} \/ failed
  PROVE  Shown(show, w, failed)
<1> SUFFICES ASSUME NEW i \in 1 .. 6, NEW j \in i + 1 .. 6, Stages!Stages[j] = w
             PROVE  \/ show[Stages!Stages[i]] \in {"passed", "skipped"}
                    \/ failed /\ w = "report" /\ Stages!Stages[i] = "test"
  BY SixStages DEF Shown
<1>1. CASE i = 1
  <2>1. j \in {2, 3, 4, 5, 6}
    BY <1>1
  <2> QED BY <1>1, <2>1, SixStages
<1>2. CASE i = 2
  <2>1. j \in {3, 4, 5, 6}
    BY <1>2
  <2> QED BY <1>2, <2>1, SixStages
<1>3. CASE i = 3
  <2>1. j \in {4, 5, 6}
    BY <1>3
  <2> QED BY <1>3, <2>1, SixStages
<1>4. CASE i = 4
  <2>1. j \in {5, 6}
    BY <1>4
  <2> QED BY <1>4, <2>1, SixStages
<1>5. CASE i \in {5, 6}
  <2>1. i = 5 /\ j = 6
    BY <1>5
  <2> QED BY <2>1, SixStages
<1> QED BY <1>1, <1>2, <1>3, <1>4, <1>5

(* How a run ends. *)
LEMMA StagesEnd ==
  ASSUME Stages!Inductive, [Stages!Next]_(Stages!vars)
  PROVE  Stages!PassedMeansShown' /\ Stages!EndsAreTold'
<1> DEFINE Six == {"build", "discover", "flash", "preflight", "test", "report"}
           Ends == Stages!PassedMeansShown /\ Stages!EndsAreTold
           Stops(w) == Stages!FailsAt(w) /\ v7' = v7
<1>0. /\ v4 \in [Six -> {"pending", "running", "passed", "failed", "skipped"}] /\ v7 \in BOOLEAN
      /\ Stages!StagesSoFar /\ Stages!RightImages /\ Stages!Undecided /\ Ends
      /\ Stages!ToSet(Stages!Stages) = Six
  BY SixStages DEF Stages!Inductive, Stages!TypeOK
<1>1. CASE v3' # "idle"
  BY <1>1, StagesKnown DEF Stages!Undecided, Stages!PassedMeansShown, Stages!EndsAreTold
<1>2. ASSUME NEW w \in Six, Stops(w),
             w \in {"discover", "flash", "preflight", "test", "report"} =>
               v4["build"] \in {"passed", "skipped"},
             w \in {"flash", "preflight", "test", "report"} => v4["discover"] \in {"passed", "skipped"},
             w \in {"preflight", "test", "report"} => v4["flash"] \in {"passed", "skipped"},
             w \in {"test", "report"} => v4["preflight"] \in {"passed", "skipped"},
             w = "report" => v4["test"] \in {"passed", "skipped"} \/ v7
      PROVE  Ends'
  <2>1. v8' = "failed" /\ v9' = w /\ v4' = [v4 EXCEPT ![w] = "failed"] /\ v7' = v7
    BY <1>2 DEF Stages!FailsAt
  <2>2. v4'[w] = "failed" /\ v7' \in BOOLEAN /\ \A s \in Six \ {w} : v4'[s] = v4[s]
    BY <1>0, <2>1
  <2>3. Shown(v4', w, v7')
    <3>1. w \in {"discover", "flash", "preflight", "test", "report"} =>
            v4'["build"] \in {"passed", "skipped"}
      BY <1>2, <2>2
    <3>2. w \in {"flash", "preflight", "test", "report"} =>
            v4'["discover"] \in {"passed", "skipped"}
      BY <1>2, <2>2
    <3>3. w \in {"preflight", "test", "report"} => v4'["flash"] \in {"passed", "skipped"}
      BY <1>2, <2>2
    <3>4. w \in {"test", "report"} => v4'["preflight"] \in {"passed", "skipped"}
      BY <1>2, <2>2
    <3>5. w = "report" => v4'["test"] \in {"passed", "skipped"} \/ v7'
      BY <1>2, <2>1, <2>2
    <3> QED BY <2>2, <3>1, <3>2, <3>3, <3>4, <3>5, ShownBefore
  <2>4. Stages!EndsAreTold'
    BY <2>1, <2>3 DEF Stages!EndsAreTold, Shown
  <2> QED BY <2>1, <2>4 DEF Stages!PassedMeansShown
<1>3. CASE Stages!Checkout \/ Stages!Build
  <2>1. v3' # "idle" \/ Stops("build")
    BY <1>3 DEF Stages!Checkout, Stages!Build, Stages!Goes
  <2> QED BY <1>1, <1>2, <2>1
<1>4. CASE Stages!Discover
  <2>1. v3' # "idle" \/ (Stops("discover") /\ v3 = "discover")
    BY <1>4 DEF Stages!Discover, Stages!Goes
  <2> QED BY <1>0, <1>1, <1>2, <2>1 DEF Stages!StagesSoFar
<1>5. CASE Stages!FlashEnds
  <2>1. v3' # "idle" \/ (Stops("flash") /\ v3 = "flash")
    BY <1>5 DEF Stages!FlashEnds, Stages!Goes
  <2> QED BY <1>0, <1>1, <1>2, <2>1 DEF Stages!StagesSoFar
<1>6. CASE Stages!Preflight
  <2>1. v3' # "idle" \/ (Stops("preflight") /\ v3 = "preflight")
    BY <1>6 DEF Stages!Preflight, Stages!Goes
  <2> QED BY <1>0, <1>1, <1>2, <2>1 DEF Stages!StagesSoFar
<1>7. CASE Stages!Report
  <2>1. v3' # "idle" \/ (Stops("report") /\ v3 = "report")
    BY <1>7 DEF Stages!Report, Stages!Goes
  <2> QED BY <1>0, <1>1, <1>2, <2>1 DEF Stages!StagesSoFar
<1>8. CASE Stages!Verdict
  <2>1. CASE v7
    <3>1. Stops("test") /\ v3 = "verdict"
      BY <1>8, <2>1 DEF Stages!Verdict
    <3> QED BY <1>0, <1>2, <3>1 DEF Stages!StagesSoFar
  <2>2. CASE ~v7
    <3>1. /\ v3 = "verdict" /\ v8' = "passed"
          /\ UNCHANGED <<v4, v7, v9, v10>>
      BY <1>8, <2>2 DEF Stages!Verdict, Stages!FailsAt
    <3> QED
      BY <1>0, <2>2, <3>1 DEF Stages!StagesSoFar, Stages!RightImages, Stages!Undecided,
         Stages!PassedMeansShown, Stages!EndsAreTold
  <2> QED BY <1>0, <2>1, <2>2
<1>9. CASE Stages!Interrupted
  <2>1. /\ v8' = "cancelled" /\ v9' = "none"
        /\ \A s \in Six : v4'[s] \notin {"running", "pending"}
    BY <1>0, <1>9 DEF Stages!Interrupted, Stages!CancelSkips, Stages!Undecided, Stages!Commands
  <2> QED BY <1>0, <2>1 DEF Stages!PassedMeansShown, Stages!EndsAreTold
<1>10. CASE Stages!Raises
  <2>1. v8' = "failed" /\ v9' = "none"
    BY <1>0, <1>10 DEF Stages!Raises, Stages!Undecided
  <2> QED BY <2>1 DEF Stages!PassedMeansShown, Stages!EndsAreTold
<1>11. CASE UNCHANGED Stages!vars
  BY <1>0, <1>11 DEF Stages!vars, Stages!PassedMeansShown, Stages!EndsAreTold
<1>12. CASE Stages!Begins \/ Stages!CancelAsked \/ Stages!Ask \/ Stages!Suite \/ Stages!Test
              \/ \E b \in RunBoards : Stages!FlashBegins(b) \/ Stages!FlashWrites(b)
  <2>1. v3' # "idle"
    BY <1>12 DEF Stages!Begins, Stages!CancelAsked, Stages!Ask, Stages!AlreadyThere, Stages!Suite,
       Stages!Test, Stages!FlashBegins, Stages!FlashWrites, Stages!Goes
  <2> QED BY <1>1, <2>1
<1> QED
  BY <1>3, <1>4, <1>5, <1>6, <1>7, <1>8, <1>9, <1>10, <1>11, <1>12 DEF Stages!Next

LEMMA StagesStart ==
  ASSUME Stages!Init
  PROVE  Stages!Inductive
<1>1. Stages!TypeOK
  BY SixStages, RunStagesAssumption DEF Stages!Init, Stages!TypeOK, Stages!Pending, Stages!Commands
<1>2. Stages!PassedMeansShown /\ Stages!EndsAreTold
  BY DEF Stages!Init, Stages!PassedMeansShown, Stages!EndsAreTold
<1> QED BY <1>1, <1>2 DEF Stages!Init, Stages!Inductive, Stages!StagesSoFar,
      Stages!RightImages, Stages!Undecided

-----------------------------------------------------------------------------
(* The bundles on a rig's disk (ArtifactStore).                            *)

LEMMA StoreTypes ==
  ASSUME Store!TypeOK, Store!AtOne, [Store!Next]_(Store!vars)
  PROVE  Store!TypeOK' /\ Store!AtOne'
<1> DEFINE Typed == Store!TypeOK /\ Store!AtOne
<1> USE ArtifactStoreAssumption
<1> USE DEF Store!TypeOK, Store!AtOne, Store!Working, Store!NoLinks, Store!places, Store!records, Store!runs,
        Store!remover, Store!Here
<1>1. ASSUME NEW b \in Sent, Store!AcceptChecks(b)
      PROVE  Typed'
  BY <1>1 DEF Store!AcceptChecks
<1>2. ASSUME NEW b \in Sent, Store!AcceptStores(b)
      PROVE  Typed'
  BY <1>2 DEF Store!AcceptStores
<1>3. ASSUME NEW j \in Jobs, Store!Submit(j) \/ Store!Start(j)
      PROVE  Typed'
  BY <1>3 DEF Store!Submit, Store!Start
<1>4. ASSUME NEW j \in Jobs, Store!Picks(j)
      PROVE  Typed'
  BY <1>4 DEF Store!Picks
<1>5. ASSUME NEW j \in Jobs, Store!FindsNone(j) \/ Store!Ends(j)
      PROVE  Typed'
  BY <1>5 DEF Store!FindsNone, Store!Ends
<1>6. ASSUME NEW j \in Jobs, Store!Links(j)
      PROVE  Typed'
  BY <1>6 DEF Store!Links
<1>7. ASSUME NEW j \in Jobs, Store!DeletesFiles(j)
      PROVE  Typed'
  BY <1>7 DEF Store!DeletesFiles
<1>8. ASSUME NEW j \in Jobs, Store!DeletesRow(j)
      PROVE  Typed'
  BY <1>8 DEF Store!DeletesRow
<1>9. ASSUME NEW b \in Bundles, Store!Pin(b) \/ Store!Unpin(b)
      PROVE  Typed'
  BY <1>9 DEF Store!Pin, Store!Unpin
<1>10. CASE Store!Chooses
  BY <1>10 DEF Store!Chooses, Store!Prunable
<1>11. CASE Store!RemovesTree
  BY <1>11 DEF Store!RemovesTree
<1>12. CASE Store!TreeStays
  BY <1>12 DEF Store!TreeStays
<1>13. CASE Store!Records
  BY <1>13 DEF Store!Records
<1>14. CASE Store!LetsGo
  BY <1>14 DEF Store!LetsGo
<1>15. ASSUME NEW b \in Bundles, Store!TakesLinks(b)
       PROVE  Typed'
  BY <1>15 DEF Store!TakesLinks
<1>16. ASSUME NEW b \in Bundles, Store!AlreadyGone(b)
       PROVE  Typed'
  BY <1>16 DEF Store!AlreadyGone
<1>17. CASE Store!Crash
  BY <1>17 DEF Store!Crash
<1>18. CASE UNCHANGED Store!vars
  BY <1>18 DEF Store!vars
<1> QED
  BY <1>1, <1>2, <1>3, <1>4, <1>5, <1>6, <1>7, <1>8, <1>9, <1>10, <1>11, <1>12, <1>13, <1>14,
     <1>15, <1>16, <1>17, <1>18 DEF Store!Next, Store!Removes

LEMMA StoreLock ==
  ASSUME Store!TypeOK, Store!LockIsHeld, [Store!Next]_(Store!vars)
  PROVE  Store!LockIsHeld'
<1>0. /\ v5 \in [Jobs -> {"none", "over", "gone"} \cup Store!Working]
      /\ v6 \in [Jobs -> Bundles \cup {NoBundle}] /\ v15 \in [Jobs -> {"no", "row"}]
      /\ v7 \in {"free", "store"} \cup Jobs /\ v9 \in {"idle", "next", "tree", "tell"}
      /\ "free" \notin Jobs /\ "store" \notin Jobs
  BY ArtifactStoreAssumption DEF Store!TypeOK
<1> USE <1>0 DEF Store!LockIsHeld, Store!Working, Store!NoLinks, Store!runs, Store!remover
<1>1. ASSUME NEW b \in Sent, Store!AcceptChecks(b) \/ Store!AcceptStores(b)
      PROVE  Store!LockIsHeld'
  BY <1>1 DEF Store!AcceptChecks, Store!AcceptStores
<1>2. ASSUME NEW j \in Jobs, Store!Submit(j) \/ Store!Start(j)
      PROVE  Store!LockIsHeld'
  BY <1>2 DEF Store!Submit, Store!Start
<1>3. ASSUME NEW j \in Jobs, Store!Picks(j)
      PROVE  Store!LockIsHeld'
  BY <1>3 DEF Store!Picks
<1>4. ASSUME NEW j \in Jobs, Store!FindsNone(j) \/ Store!Ends(j)
      PROVE  Store!LockIsHeld'
  BY <1>4 DEF Store!FindsNone, Store!Ends
<1>5. ASSUME NEW j \in Jobs, Store!Links(j)
      PROVE  Store!LockIsHeld'
  BY <1>5 DEF Store!Links
<1>6. ASSUME NEW j \in Jobs, Store!DeletesFiles(j)
      PROVE  Store!LockIsHeld'
  BY <1>6 DEF Store!DeletesFiles
<1>7. ASSUME NEW j \in Jobs, Store!DeletesRow(j)
      PROVE  Store!LockIsHeld'
  BY <1>7 DEF Store!DeletesRow
<1>8. ASSUME NEW b \in Bundles, Store!Pin(b) \/ Store!Unpin(b)
      PROVE  Store!LockIsHeld'
  BY <1>8 DEF Store!Pin, Store!Unpin
<1>9. CASE Store!Chooses
  BY <1>9 DEF Store!Chooses
<1>10. CASE Store!RemovesTree \/ Store!TreeStays \/ Store!Records
  BY <1>10 DEF Store!RemovesTree, Store!TreeStays, Store!Records
<1>11. CASE Store!LetsGo
  BY <1>11 DEF Store!LetsGo
<1>12. ASSUME NEW b \in Bundles, Store!TakesLinks(b) \/ Store!AlreadyGone(b)
       PROVE  Store!LockIsHeld'
  BY <1>12 DEF Store!TakesLinks, Store!AlreadyGone
<1>13. CASE Store!Crash
  BY <1>13 DEF Store!Crash
<1>14. CASE UNCHANGED Store!vars
  BY <1>14 DEF Store!vars
<1> QED
  BY <1>1, <1>2, <1>3, <1>4, <1>5, <1>6, <1>7, <1>8, <1>9, <1>10, <1>11, <1>12, <1>13, <1>14
  DEF Store!Next, Store!Removes

LEMMA StoreNew ==
  ASSUME Store!TypeOK, Store!NewIsNew, [Store!Next]_(Store!vars)
  PROVE  Store!NewIsNew'
<1>0. v1 \in [Bundles -> {"none", "whole", "part"}] /\ v8 \in [Sent -> {"new", "checked", "over"}]
  BY DEF Store!TypeOK
<1> USE <1>0, ArtifactStoreAssumption
<1> USE DEF Store!NewIsNew, Store!places
<1>1. ASSUME NEW b \in Sent, Store!AcceptChecks(b)
      PROVE  Store!NewIsNew'
  BY <1>1 DEF Store!AcceptChecks
<1>2. ASSUME NEW b \in Sent, Store!AcceptStores(b)
      PROVE  Store!NewIsNew'
  BY <1>2 DEF Store!AcceptStores
<1>3. ASSUME NEW j \in Jobs, Store!DeletesFiles(j)
      PROVE  Store!NewIsNew'
  BY <1>3 DEF Store!DeletesFiles, Store!Here
<1>4. CASE Store!RemovesTree
  BY <1>4 DEF Store!RemovesTree
<1>5. CASE Store!TreeStays
  BY <1>5 DEF Store!TreeStays, Store!Here
<1>6. CASE Store!Crash
  BY <1>6 DEF Store!Crash, Store!Here
<1>7. ASSUME NEW j \in Jobs,
             Store!Submit(j) \/ Store!Start(j) \/ Store!Picks(j) \/ Store!FindsNone(j)
               \/ Store!Links(j) \/ Store!Ends(j) \/ Store!DeletesRow(j)
      PROVE  UNCHANGED <<v1, v8, v16>>
  BY <1>7 DEF Store!Submit, Store!Start, Store!Picks, Store!FindsNone, Store!Links, Store!Ends,
     Store!DeletesRow
<1>8. ASSUME NEW b \in Bundles,
             Store!Pin(b) \/ Store!Unpin(b) \/ Store!TakesLinks(b) \/ Store!AlreadyGone(b)
      PROVE  UNCHANGED <<v1, v8, v16>>
  BY <1>8 DEF Store!Pin, Store!Unpin, Store!TakesLinks, Store!AlreadyGone
<1>9. ASSUME Store!Chooses \/ Store!Records \/ Store!LetsGo \/ UNCHANGED Store!vars
      PROVE  UNCHANGED <<v1, v8, v16>>
  BY <1>9 DEF Store!Chooses, Store!Records, Store!LetsGo, Store!vars
<1> QED
  BY <1>1, <1>2, <1>3, <1>4, <1>5, <1>6, <1>7, <1>8, <1>9 DEF Store!Next, Store!Removes

LEMMA StoreNoLink ==
  ASSUME Store!Inductive, [Store!Next]_(Store!vars)
  PROVE  Store!NoLinkYet'
<1>0. /\ v5 \in [Jobs -> {"none", "over", "gone"} \cup Store!Working]
      /\ v2 \in [Jobs -> Bundles \cup {NoBundle}] /\ v12 \in [Jobs -> Bundles \cup {NoBundle}]
      /\ v9 = "tree" => \A j \in v14 : v12[j] = v11 /\ v11 \in Bundles
  BY DEF Store!Inductive, Store!TypeOK, Store!LinksFirst, Store!AtOne
<1>1. Store!NoLinkYet
  BY DEF Store!Inductive
<1> USE <1>0, <1>1, ArtifactStoreAssumption
<1> USE DEF Store!NoLinkYet, Store!Working, Store!NoLinks, Store!places, Store!runs, Store!remover
<1>2. ASSUME NEW j \in Jobs, Store!Submit(j) \/ Store!Start(j) \/ Store!Picks(j)
      PROVE  Store!NoLinkYet'
  BY <1>2 DEF Store!Submit, Store!Start, Store!Picks
<1>3. ASSUME NEW j \in Jobs, Store!FindsNone(j) \/ Store!Ends(j) \/ Store!DeletesRow(j)
      PROVE  Store!NoLinkYet'
  BY <1>3 DEF Store!FindsNone, Store!Ends, Store!DeletesRow
<1>4. ASSUME NEW j \in Jobs, Store!Links(j) \/ Store!DeletesFiles(j)
      PROVE  Store!NoLinkYet'
  BY <1>4 DEF Store!Links, Store!DeletesFiles
<1>5. CASE Store!Chooses
  BY <1>5 DEF Store!Chooses
<1>6. ASSUME NEW b \in Bundles, Store!TakesLinks(b)
      PROVE  Store!NoLinkYet'
  BY <1>6 DEF Store!TakesLinks
<1>7. CASE Store!TreeStays
  BY <1>7 DEF Store!TreeStays
<1>8. CASE Store!LetsGo
  BY <1>8 DEF Store!LetsGo
<1>9. CASE Store!Crash
  BY <1>9 DEF Store!Crash
<1>10. ASSUME NEW b \in Sent, Store!AcceptChecks(b) \/ Store!AcceptStores(b)
       PROVE  UNCHANGED <<v2, v5, v12>>
  BY <1>10 DEF Store!AcceptChecks, Store!AcceptStores
<1>11. ASSUME NEW b \in Bundles, Store!Pin(b) \/ Store!Unpin(b) \/ Store!AlreadyGone(b)
       PROVE  UNCHANGED <<v2, v5, v12>>
  BY <1>11 DEF Store!Pin, Store!Unpin, Store!AlreadyGone
<1>12. ASSUME Store!RemovesTree \/ Store!Records \/ UNCHANGED Store!vars
       PROVE  UNCHANGED <<v2, v5, v12>>
  BY <1>12 DEF Store!RemovesTree, Store!Records, Store!vars
<1> QED
  BY <1>2, <1>3, <1>4, <1>5, <1>6, <1>7, <1>8, <1>9, <1>10, <1>11, <1>12
  DEF Store!Next, Store!Removes

(* The scan of a delete stands while it has the lock: nobody links meanwhile. *)
LEMMA StoreScan ==
  ASSUME Store!Inductive, [Store!Next]_(Store!vars)
  PROVE  Store!ScanStands'
<1>0. /\ v1 \in [Bundles -> {"none", "whole", "part"}]
      /\ v2 \in [Jobs -> Bundles \cup {NoBundle}] /\ v12 \in [Jobs -> Bundles \cup {NoBundle}]
      /\ v5 \in [Jobs -> {"none", "over", "gone"} \cup Store!Working]
      /\ v14 \subseteq Jobs
      /\ v9 = "tree" => v11 \notin v10 /\ v11 \in Bundles /\ \A j \in v14 : v12[j] = v11
      /\ \A j \in Jobs : v9 # "idle" => v5[j] # "picked" /\ v7 # "free"
      /\ \A j \in Jobs : v2[j] = NoBundle \/ Store!Here(v2[j]) \/ v2[j] \in v16
      /\ v16 \cap Sent = {} /\ v10 \subseteq Bundles
      /\ Store!NoLinkYet
  BY ArtifactStoreAssumption
  DEF Store!Inductive, Store!TypeOK, Store!LinksFirst, Store!AtOne, Store!LockIsHeld,
      Store!NewIsNew, Store!NothingPointsNowhere
<1>1. Store!ScanStands
  BY DEF Store!Inductive
<1> USE <1>0, <1>1, ArtifactStoreAssumption
<1> USE DEF Store!ScanStands, Store!Here, Store!places, Store!runs, Store!remover
<1>2. ASSUME NEW b \in Sent, Store!AcceptChecks(b) \/ Store!AcceptStores(b)
      PROVE  Store!ScanStands'
  BY <1>2 DEF Store!AcceptChecks, Store!AcceptStores
<1>3. ASSUME NEW j \in Jobs, Store!Submit(j) \/ Store!Start(j) \/ Store!Picks(j)
      PROVE  Store!ScanStands'
  BY <1>3 DEF Store!Submit, Store!Start, Store!Picks
<1>4. ASSUME NEW j \in Jobs, Store!FindsNone(j) \/ Store!Ends(j) \/ Store!DeletesRow(j)
      PROVE  Store!ScanStands'
  BY <1>4 DEF Store!FindsNone, Store!Ends, Store!DeletesRow
<1>5. ASSUME NEW j \in Jobs, Store!Links(j)
      PROVE  Store!ScanStands'
  BY <1>5 DEF Store!Links
<1>6. ASSUME NEW j \in Jobs, Store!DeletesFiles(j)
      PROVE  Store!ScanStands'
  BY <1>6 DEF Store!DeletesFiles
<1>7. CASE Store!Chooses
  BY <1>7 DEF Store!Chooses, Store!Prunable, Store!Held, Store!Working
<1>8. ASSUME NEW b \in Bundles, Store!TakesLinks(b)
      PROVE  Store!ScanStands'
  BY <1>8 DEF Store!TakesLinks
<1>9. ASSUME NEW b \in Bundles, Store!AlreadyGone(b)
      PROVE  Store!ScanStands'
  BY <1>9 DEF Store!AlreadyGone
<1>10. CASE Store!RemovesTree
  BY <1>10 DEF Store!RemovesTree
<1>11. CASE Store!TreeStays
  BY <1>11 DEF Store!TreeStays, Store!NoLinkYet
<1>12. ASSUME NEW b \in Bundles, Store!Pin(b) \/ Store!Unpin(b)
       PROVE  Store!ScanStands'
  BY <1>12 DEF Store!Pin, Store!Unpin
<1>13. CASE Store!Records
  BY <1>13 DEF Store!Records
<1>14. CASE Store!LetsGo \/ Store!Crash
  BY <1>14 DEF Store!LetsGo, Store!Crash
<1>15. CASE UNCHANGED Store!vars
  BY <1>15 DEF Store!vars
<1> QED
  BY <1>2, <1>3, <1>4, <1>5, <1>6, <1>7, <1>8, <1>9, <1>10, <1>11, <1>12, <1>13, <1>14, <1>15
  DEF Store!Next, Store!Removes

(* A bundle whose tree goes has no link, and is there, or went with the run that built it. *)
LEMMA StoreLinksFirst ==
  ASSUME Store!Inductive, [Store!Next]_(Store!vars)
  PROVE  Store!LinksFirst'
<1>0. /\ v1 \in [Bundles -> {"none", "whole", "part"}] /\ v2 \in [Jobs -> Bundles \cup {NoBundle}]
      /\ \A j \in Jobs : v9 # "idle" => v5[j] # "picked" /\ v7 # "free"
      /\ v14 \subseteq Jobs /\ Store!ScanStands /\ Store!LinksFirst
      /\ v9 \in {"tree", "tell"} => v11 \in Bundles
  BY ArtifactStoreAssumption DEF Store!Inductive, Store!TypeOK, Store!LockIsHeld, Store!AtOne
<1> USE <1>0, ArtifactStoreAssumption
<1> USE DEF Store!LinksFirst, Store!Here, Store!places, Store!runs, Store!remover
<1>1. CASE v9' # "tree"
  BY <1>1
<1>2. ASSUME NEW b \in Sent, Store!AcceptChecks(b) \/ Store!AcceptStores(b)
      PROVE  Store!LinksFirst'
  BY <1>2 DEF Store!AcceptChecks, Store!AcceptStores
<1>3. ASSUME NEW j \in Jobs,
             Store!Submit(j) \/ Store!Start(j) \/ Store!Picks(j) \/ Store!FindsNone(j)
               \/ Store!Ends(j) \/ Store!DeletesRow(j)
      PROVE  UNCHANGED <<v1, v2, v9, v10, v11, v12, v14, v16>>
  BY <1>3 DEF Store!Submit, Store!Start, Store!Picks, Store!FindsNone, Store!Ends, Store!DeletesRow
<1>4. ASSUME NEW j \in Jobs, Store!Links(j)
      PROVE  Store!LinksFirst'
  BY <1>4 DEF Store!Links
<1>5. ASSUME NEW j \in Jobs, Store!DeletesFiles(j)
      PROVE  Store!LinksFirst'
  BY <1>5 DEF Store!DeletesFiles
<1>6. ASSUME NEW b \in Bundles, Store!TakesLinks(b)
      PROVE  Store!LinksFirst'
  BY <1>6 DEF Store!TakesLinks, Store!ScanStands
<1>7. ASSUME NEW b \in Bundles, Store!Pin(b) \/ Store!Unpin(b)
      PROVE  UNCHANGED <<v1, v2, v9, v10, v11, v12, v14, v16>>
  BY <1>7 DEF Store!Pin, Store!Unpin
<1>8. ASSUME \/ \E b \in Bundles : Store!AlreadyGone(b)
             \/ Store!Chooses \/ Store!RemovesTree \/ Store!TreeStays \/ Store!Records
             \/ Store!LetsGo \/ Store!Crash
      PROVE  v9' # "tree"
  BY <1>8 DEF Store!AlreadyGone, Store!Chooses, Store!RemovesTree, Store!TreeStays, Store!Records,
     Store!LetsGo, Store!Crash
<1>9. CASE UNCHANGED Store!vars
  BY <1>9 DEF Store!vars
<1> QED
  BY <1>1, <1>2, <1>3, <1>4, <1>5, <1>6, <1>7, <1>8, <1>9 DEF Store!Next, Store!Removes

LEMMA StorePoints ==
  ASSUME Store!Inductive, [Store!Next]_(Store!vars)
  PROVE  Store!NothingPointsNowhere'
<1>0. /\ v1 \in [Bundles -> {"none", "whole", "part"}]
      /\ v2 \in [Jobs -> Bundles \cup {NoBundle}] /\ v6 \in [Jobs -> Bundles \cup {NoBundle}]
      /\ \A j \in Jobs : v5[j] # "picked" => v6[j] = NoBundle
      /\ \A j \in Jobs : v9 # "idle" => v6[j] = NoBundle
      /\ v9 = "tree" => /\ v11 \in Bundles /\ (Store!Here(v11) \/ v11 \in v16)
                        /\ \A j \in Jobs : v2[j] # v11
      /\ Store!NothingPointsNowhere
  BY ArtifactStoreAssumption
  DEF Store!Inductive, Store!TypeOK, Store!LockIsHeld, Store!LinksFirst, Store!AtOne
<1> USE <1>0, ArtifactStoreAssumption
<1> USE DEF Store!NothingPointsNowhere, Store!Here, Store!places, Store!runs
<1>1. ASSUME NEW b \in Sent, Store!AcceptChecks(b) \/ Store!AcceptStores(b)
      PROVE  Store!NothingPointsNowhere'
  BY <1>1 DEF Store!AcceptChecks, Store!AcceptStores
<1>2. ASSUME NEW j \in Jobs, Store!Picks(j)
      PROVE  Store!NothingPointsNowhere'
  BY <1>2 DEF Store!Picks
<1>3. ASSUME NEW j \in Jobs, Store!Links(j)
      PROVE  Store!NothingPointsNowhere'
  BY <1>3 DEF Store!Links
<1>4. ASSUME NEW j \in Jobs, Store!DeletesFiles(j)
      PROVE  Store!NothingPointsNowhere'
  BY <1>4 DEF Store!DeletesFiles
<1>5. ASSUME NEW b \in Bundles, Store!TakesLinks(b)
      PROVE  Store!NothingPointsNowhere'
  BY <1>5 DEF Store!TakesLinks
<1>6. CASE Store!RemovesTree
  BY <1>6 DEF Store!RemovesTree
<1>7. CASE Store!TreeStays
  BY <1>7 DEF Store!TreeStays
<1>8. CASE Store!LetsGo
  BY <1>8 DEF Store!LetsGo
<1>9. CASE Store!Crash
  BY <1>9 DEF Store!Crash, Store!NoLinks
<1>10. ASSUME \/ \E j \in Jobs : Store!Submit(j) \/ Store!Start(j) \/ Store!FindsNone(j)
                                  \/ Store!Ends(j) \/ Store!DeletesRow(j)
              \/ \E b \in Bundles : Store!Pin(b) \/ Store!Unpin(b) \/ Store!AlreadyGone(b)
              \/ Store!Chooses \/ Store!Records \/ UNCHANGED Store!vars
       PROVE  UNCHANGED <<v1, v2, v6, v16>>
  BY <1>10 DEF Store!Submit, Store!Start, Store!FindsNone, Store!Ends, Store!DeletesRow, Store!Pin,
     Store!Unpin, Store!AlreadyGone, Store!Chooses, Store!Records, Store!vars
<1> QED
  BY <1>1, <1>2, <1>3, <1>4, <1>5, <1>6, <1>7, <1>8, <1>9, <1>10 DEF Store!Next, Store!Removes

(* A step leaves a flashing run its link and the bundle behind it. *)
LEMMA StoreKeeps ==
  ASSUME Store!Inductive, [Store!Next]_(Store!vars)
  PROVE  Store!FlashingKeepsItsBundle
<1> SUFFICES ASSUME NEW k \in Jobs, v5[k] = "flashing", v5'[k] = "flashing", v2[k] # NoBundle
             PROVE  (v2'[k] = v2[k] /\ v1'[v2[k]] = v1[v2[k]]) \/ v2[k] \in v16'
  BY DEF Store!FlashingKeepsItsBundle
<1> DEFINE Kept == (v2'[k] = v2[k] /\ v1'[v2[k]] = v1[v2[k]]) \/ v2[k] \in v16'
<1>a. /\ v1 \in [Bundles -> {"none", "whole", "part"}]
      /\ v2 \in [Jobs -> Bundles \cup {NoBundle}]
      /\ v5 \in [Jobs -> {"none", "over", "gone"} \cup Store!Working]
      /\ v12 \in [Jobs -> Bundles \cup {NoBundle}] /\ v8 \in [Sent -> {"new", "checked", "over"}]
  BY DEF Store!Inductive, Store!TypeOK
<1>b. v9 = "tree" => v2[k] # v11 /\ \A j \in v14 : v2[j] = NoBundle
  BY DEF Store!Inductive, Store!LinksFirst
<1>c. Store!Here(v2[k]) \/ v2[k] \in v16
  BY DEF Store!Inductive, Store!NothingPointsNowhere
<1>d. Store!ScanStands /\ Store!NewIsNew
  BY DEF Store!Inductive
<1> USE <1>a, <1>b, <1>c, <1>d, ArtifactStoreAssumption
<1> USE DEF Store!Here, Store!places, Store!runs
<1>1. ASSUME NEW b \in Sent, Store!AcceptStores(b)
      PROVE  Kept
  BY <1>1 DEF Store!AcceptStores, Store!NewIsNew
<1>2. ASSUME NEW j \in Jobs, Store!Links(j)
      PROVE  Kept
  BY <1>2 DEF Store!Links
<1>3. ASSUME NEW j \in Jobs, Store!DeletesFiles(j)
      PROVE  Kept
  BY <1>3 DEF Store!DeletesFiles
<1>4. ASSUME NEW b \in Bundles, Store!TakesLinks(b)
      PROVE  Kept
  BY <1>4 DEF Store!TakesLinks, Store!ScanStands
<1>5. CASE Store!RemovesTree
  BY <1>5 DEF Store!RemovesTree
<1>6. CASE Store!TreeStays
  BY <1>6 DEF Store!TreeStays
<1>7. CASE Store!LetsGo
  BY <1>7 DEF Store!LetsGo
<1>8. CASE Store!Crash
  BY <1>8 DEF Store!Crash
<1>9. ASSUME \/ \E b \in Sent : Store!AcceptChecks(b)
             \/ \E j \in Jobs : Store!Submit(j) \/ Store!Start(j) \/ Store!Picks(j)
                                  \/ Store!FindsNone(j) \/ Store!Ends(j) \/ Store!DeletesRow(j)
             \/ \E b \in Bundles : Store!Pin(b) \/ Store!Unpin(b) \/ Store!AlreadyGone(b)
             \/ Store!Chooses \/ Store!Records \/ UNCHANGED Store!vars
      PROVE  UNCHANGED <<v1, v2>>
  BY <1>9 DEF Store!AcceptChecks, Store!Submit, Store!Start, Store!Picks, Store!FindsNone,
     Store!Ends, Store!DeletesRow, Store!Pin, Store!Unpin, Store!AlreadyGone, Store!Chooses,
     Store!Records, Store!vars
<1> QED
  BY <1>1, <1>2, <1>3, <1>4, <1>5, <1>6, <1>7, <1>8, <1>9 DEF Store!Next, Store!Removes

LEMMA StoreStarts ==
  ASSUME Store!Init
  PROVE  Store!Inductive
<1> USE ArtifactStoreAssumption
<1>1. Store!TypeOK /\ Store!AtOne
  BY DEF Store!Init, Store!TypeOK, Store!AtOne, Store!NoLinks, Store!Working
<1>2. Store!LockIsHeld /\ Store!NewIsNew
  BY DEF Store!Init, Store!LockIsHeld, Store!NewIsNew, Store!NoLinks
<1>3. Store!NoLinkYet /\ Store!ScanStands /\ Store!LinksFirst /\ Store!NothingPointsNowhere
  BY DEF Store!Init, Store!NoLinkYet, Store!ScanStands, Store!LinksFirst,
     Store!NothingPointsNowhere, Store!NoLinks
<1> QED BY <1>1, <1>2, <1>3 DEF Store!Inductive

-----------------------------------------------------------------------------
(* Storage figures (StorageFigures).                                       *)

(* Deleting an item makes it untold and leaves the rest as untold as it was. *)
LEMMA DeletesUntold ==
  ASSUME Figures!TypeOK, NEW r \in Removers, NEW i \in Things, Figures!Deletes(r, i)
  PROVE  Figures!Untold' = Figures!Untold \cup {i}
<1>1. v2'[r] = v2[r] \cup {i} /\ \A q \in Removers \ {r} : v2'[q] = v2[q]
  BY DEF Figures!Deletes, Figures!TypeOK
<1>2. UNCHANGED v8
  BY DEF Figures!Deletes
<1> QED BY <1>1, <1>2 DEF Figures!Untold

(* A thread that raises keeps untold what it had not told of.              *)
LEMMA RaisesUntold ==
  ASSUME Figures!TypeOK, NEW r \in Removers, Figures!Raises(r)
  PROVE  Figures!Untold' = Figures!Untold
<1>1. v2'[r] = {} /\ \A q \in Removers \ {r} : v2'[q] = v2[q]
  BY DEF Figures!Raises, Figures!TypeOK
<1>2. v8' = v8 \cup v2[r]
  BY DEF Figures!Raises
<1> QED BY <1>1, <1>2 DEF Figures!Untold

LEMMA FiguresInductive ==
  ASSUME Figures!Inductive, [Figures!Next]_(Figures!vars)
  PROVE  Figures!Inductive'
<1> USE DEF Figures!Inductive, Figures!WalkBegins, Figures!WalkIsCurrent,
            Figures!FreshCountsNoGhosts
<1>1. ASSUME NEW r \in Removers, NEW i \in Things, Figures!Deletes(r, i)
      PROVE  Figures!Inductive'
  <2>1. Figures!Untold' = Figures!Untold \cup {i}
    BY <1>1, DeletesUntold
  <2>2. Figures!TypeOK'
    BY <1>1 DEF Figures!TypeOK, Figures!Deletes
  <2>3. Figures!WalkBegins' /\ Figures!WalkIsCurrent'
    BY <1>1, <2>1 DEF Figures!Deletes
  <2>4. Figures!FreshCountsNoGhosts'
    BY <1>1, <2>1 DEF Figures!Deletes, Figures!Untold
  <2> QED BY <2>2, <2>3, <2>4
<1>2. ASSUME NEW r \in Removers, Figures!Raises(r)
      PROVE  Figures!Inductive'
  <2>1. Figures!Untold' = Figures!Untold
    BY <1>2, RaisesUntold
  <2>2. Figures!TypeOK'
    BY <1>2 DEF Figures!TypeOK, Figures!Raises
  <2>3. Figures!WalkBegins' /\ Figures!WalkIsCurrent'
    BY <1>2, <2>1 DEF Figures!Raises
  <2>4. Figures!FreshCountsNoGhosts'
    BY <1>2, <2>1 DEF Figures!Raises, Figures!Untold
  <2> QED BY <2>2, <2>3, <2>4
<1>3. ASSUME NEW r \in Removers, Figures!Tells(r)
      PROVE  Figures!Inductive'
  BY <1>3 DEF Figures!Tells, Figures!TypeOK
<1>4. ASSUME NEW i \in Things, Figures!Appears(i) \/ Figures!Walks(i)
      PROVE  Figures!Inductive'
  BY <1>4 DEF Figures!Appears, Figures!Walks, Figures!TypeOK, Figures!Untold
<1>5. CASE Figures!Expires
  BY <1>5 DEF Figures!Expires, Figures!TypeOK, Figures!Untold
<1>9. CASE Figures!MeasureIf
  BY <1>9 DEF Figures!MeasureIf, Figures!TypeOK
<1>6. CASE Figures!ReadsGeneration
  BY <1>6 DEF Figures!ReadsGeneration, Figures!TypeOK, Figures!Untold
<1>7. CASE Figures!Files
  BY <1>7 DEF Figures!Files, Figures!TypeOK, Figures!Untold
<1>8. CASE UNCHANGED Figures!vars
  BY <1>8 DEF Figures!vars, Figures!TypeOK, Figures!Untold
<1> QED BY <1>1, <1>2, <1>3, <1>4, <1>5, <1>6, <1>7, <1>8, <1>9 DEF Figures!Next

LEMMA FiguresStart ==
  ASSUME Figures!Init
  PROVE  Figures!Inductive
BY 
DEF Figures!Init, Figures!Inductive, Figures!TypeOK, Figures!WalkBegins, Figures!WalkIsCurrent,
    Figures!FreshCountsNoGhosts

-----------------------------------------------------------------------------
(* What the sweep takes (Retention).                                       *)

(* A plan names what has ended. *)
LEMMA PlansOfTheOver ==
  ASSUME Sweep!TypeOK, Sweep!NothingYet, Sweep!Plans
  PROVE  \A i \in v6' : i \in Sweep!Items /\ v1[i[1]] \in {"ending", "over", "gone"}
<1>1. ASSUME NEW i \in Sweep!OldEvidence
      PROVE  i \in Sweep!Items /\ v1[i[1]] \in {"ending", "over", "gone"}
  BY DEF Sweep!OldEvidence, Sweep!SweepableCaptures, Sweep!Rows, Sweep!Protected, Sweep!TypeOK,
         Sweep!Items, Sweep!Kinds
<1>2. ASSUME NEW old \in SUBSET (Numbers \ (Sweep!Protected \cup Sweep!Reserved)),
             NEW i \in Sweep!OldCheckouts(old)
      PROVE  i \in Sweep!Items /\ v1[i[1]] \in {"ending", "over", "gone"}
  BY DEF Sweep!OldCheckouts, Sweep!Rows, Sweep!Protected, Sweep!Reserved, Sweep!TypeOK,
         Sweep!NothingYet, Sweep!Items, Sweep!Kinds
<1> QED BY <1>1, <1>2 DEF Sweep!Plans

LEMMA SweepInductive ==
  ASSUME Sweep!Inductive, [Sweep!Next]_(Sweep!vars)
  PROVE  Sweep!Inductive'
<1> USE RetentionAssumption
<1> USE DEF Sweep!Inductive, Sweep!TypeOK, Sweep!NothingYet, Sweep!PlanIsOfTheOver, Sweep!NotesAnItem,
            Sweep!Items, Sweep!Kinds, Sweep!NoItem, Sweep!store, Sweep!sweep
<1>1. ASSUME NEW j \in Numbers, Sweep!Submits(j) \/ Sweep!Runs_(j)
      PROVE  Sweep!Inductive'
  BY <1>1 DEF Sweep!Submits, Sweep!Runs_
<1>2. ASSUME NEW j \in Numbers, Sweep!Settles(j) \/ Sweep!Leaves(j)
      PROVE  Sweep!Inductive'
  BY <1>2 DEF Sweep!Settles, Sweep!Leaves
<1>3. ASSUME NEW j \in Numbers, Sweep!CleansUp(j) \/ Sweep!Ages(j)
      PROVE  Sweep!Inductive'
  BY <1>3 DEF Sweep!CleansUp, Sweep!Ages, Sweep!Rows
<1>4. ASSUME NEW j \in Numbers, Sweep!Erases(j) \/ Sweep!ErasesRow(j)
      PROVE  Sweep!Inductive'
  BY <1>4 DEF Sweep!Erases, Sweep!ErasesRow
<1>5. CASE Sweep!Plans
  <2>1. UNCHANGED <<v1, v2, v3, v4, v7, v8, v9>> /\ v5' = "next"
    BY <1>5 DEF Sweep!Plans
  <2> QED BY <1>5, <2>1, PlansOfTheOver
<1>6. ASSUME NEW i \in Sweep!Items, Sweep!Takes(i)
      PROVE  Sweep!Inductive'
  BY <1>6 DEF Sweep!Takes
<1>7. CASE Sweep!Notes
  BY <1>7 DEF Sweep!Notes
<1>11. CASE Sweep!SweepEnds
  BY <1>11 DEF Sweep!SweepEnds
<1>8. CASE Sweep!NoteRaises
  BY <1>8 DEF Sweep!NoteRaises
<1>9. CASE Sweep!Dies
  BY <1>9 DEF Sweep!Dies
<1>10. CASE UNCHANGED Sweep!vars
  BY <1>10 DEF Sweep!vars
<1> QED
  BY <1>1, <1>2, <1>3, <1>4, <1>5, <1>6, <1>7, <1>8, <1>9, <1>10, <1>11
  DEF Sweep!Next, Sweep!SweepStep

(* A step takes files of no run that waits or works. *)
LEMMA SweepSpares ==
  ASSUME Sweep!Inductive, [Sweep!Next]_(Sweep!vars)
  PROVE  Sweep!SweepSparesTheLiving
<1> SUFFICES ASSUME NEW k \in Numbers, v1[k] \in {"queued", "running"}
             PROVE  v3[k] \subseteq v3'[k]
  BY DEF Sweep!SweepSparesTheLiving
<1> USE DEF Sweep!Inductive, Sweep!TypeOK, Sweep!store, Sweep!sweep
<1>1. ASSUME NEW j \in Numbers,
             Sweep!Submits(j) \/ Sweep!Settles(j) \/ Sweep!Leaves(j) \/ Sweep!Ages(j)
                \/ Sweep!ErasesRow(j)
      PROVE  v3[k] \subseteq v3'[k]
  BY <1>1 DEF Sweep!Submits, Sweep!Settles, Sweep!Leaves, Sweep!Ages, Sweep!ErasesRow
<1>2. ASSUME NEW j \in Numbers, Sweep!Runs_(j)
      PROVE  v3[k] \subseteq v3'[k]
  BY <1>2 DEF Sweep!Runs_, Sweep!NothingYet
<1>3. ASSUME NEW j \in Numbers, Sweep!CleansUp(j) \/ Sweep!Erases(j)
      PROVE  v3[k] \subseteq v3'[k]
  BY <1>3 DEF Sweep!CleansUp, Sweep!Erases
<1>4. ASSUME NEW i \in Sweep!Items, Sweep!Takes(i)
      PROVE  v3[k] \subseteq v3'[k]
  <2>1. i[1] # k
    BY <1>4 DEF Sweep!Takes, Sweep!PlanIsOfTheOver
  <2> QED BY <1>4, <2>1 DEF Sweep!Takes
<1>5. CASE Sweep!Plans \/ Sweep!Notes \/ Sweep!SweepEnds \/ Sweep!NoteRaises \/ Sweep!Dies
            \/ UNCHANGED Sweep!vars
  BY <1>5 DEF Sweep!Plans, Sweep!Notes, Sweep!SweepEnds, Sweep!NoteRaises, Sweep!Dies, Sweep!vars
<1> QED BY <1>1, <1>2, <1>3, <1>4, <1>5 DEF Sweep!Next, Sweep!SweepStep

LEMMA SweepStarts ==
  ASSUME Sweep!Init
  PROVE  Sweep!Inductive
BY RetentionAssumption
DEF Sweep!Init, Sweep!Inductive, Sweep!TypeOK, Sweep!NothingYet, Sweep!PlanIsOfTheOver,
    Sweep!NotesAnItem

-----------------------------------------------------------------------------
(* The history a rig brings to its portal (HistoryExport).                 *)

LEMMA NextStep ==
  /\ History!After("evidence") = "log" /\ History!After("log") = "link" /\ History!After("link") = "row"
BY DEF History!After

(* A call for the run in hand: made, and the next one is due, or failed. *)
LEMMA FileSent ==
  ASSUME History!TypeOK, History!SendsFile
  PROVE  /\ v11.job \in Ran /\ v11.step \in {"evidence", "log"}
         /\ v5' = v5 \/ v5' = v5 \cup {<<v11.job, v11.step>>}
         /\ v13' = v13 \/ v13' = v13 \cup {<<v11.job, v11.step>>}
         /\ \/ v11' = History!NoRun /\ v12' = TRUE
            \/ /\ v11' = [job |-> v11.job, step |-> IF v11.step = "evidence" THEN "log" ELSE "link"]
               /\ v12' = v12 /\ <<v11.job, v11.step>> \in v5' \cup v13'
         /\ UNCHANGED <<v1, v2, v3, v4, v6, v7, v8, v9, v10, v14, v15, v16>>
<1>1. v11 \in [job : Ran \cup {Nobody}, step : {"evidence", "log", "link", "row"}]
  BY DEF History!TypeOK, History!Files
<1>2. v11.job \in Ran /\ v11.step \in {"evidence", "log"}
  BY <1>1 DEF History!SendsFile, History!Files
<1>3. [v11 EXCEPT !.step = History!After(@)]
        = [job |-> v11.job, step |-> IF v11.step = "evidence" THEN "log" ELSE "link"]
  BY <1>1, <1>2, NextStep
<1>4. CASE <<v11.job, v11.step>> \in v2
  BY <1>2, <1>3, <1>4 DEF History!SendsFile, History!Sends, History!NotMade, History!rig, History!portal
<1>5. CASE <<v11.job, v11.step>> \notin v2
  BY <1>2, <1>3, <1>5 DEF History!SendsFile, History!Skips, History!rig, History!portal
<1> QED BY <1>4, <1>5

LEMMA LinkSent ==
  ASSUME History!TypeOK, v11.job = Nobody => v11 = History!NoRun, History!SendsLink
  PROVE  /\ v11.job \in Ran /\ v11.step = "link"
         /\ v5' = v5 \/ v5' = v5 \cup {<<v11.job, "link">>}
         /\ v13' = v13 \/ v13' = v13 \cup {<<v11.job, "link">>}
         /\ v14' = v14 \/ v14' = v14 \cup {v11.job}
         /\ \/ v11' = History!NoRun /\ v12' = TRUE
            \/ /\ v11' = [job |-> v11.job, step |-> "row"] /\ v12' = v12
               /\ <<v11.job, "link">> \in v5' \cup v13' \/ v11.job \in v14'
         /\ UNCHANGED <<v1, v2, v3, v4, v6, v7, v8, v9, v10, v15, v16>>
<1>1. v11 \in [job : Ran \cup {Nobody}, step : {"evidence", "log", "link", "row"}]
  BY DEF History!TypeOK, History!Files
<1>2. v11.job \in Ran /\ v11.step = "link"
  BY <1>1 DEF History!SendsLink, History!NoRun
<1>3. [v11 EXCEPT !.step = History!After(@)] = [job |-> v11.job, step |-> "row"]
  BY <1>1, <1>2, NextStep
<1>4. CASE v11.job \in v8.links /\ LinkOf[v11.job] \in v10
  BY <1>2, <1>3, <1>4 DEF History!SendsLink, History!Sends, History!NotMade, History!rig, History!portal
<1>5. CASE ~(v11.job \in v8.links /\ LinkOf[v11.job] \in v10)
  BY <1>2, <1>3, <1>5 DEF History!SendsLink, History!Skips, History!rig, History!portal
<1> QED BY <1>4, <1>5

(* The same, as the run in hand sees it. *)
LEMMA FileLeavesHand ==
  ASSUME History!TypeOK, History!SendsFile
  PROVE  \/ v11'.job = Nobody /\ v11' = History!NoRun /\ v12' = TRUE
         \/ /\ v11'.job = v11.job /\ v12' = v12 /\ <<v11.job, v11.step>> \in v5' \cup v13'
            /\ v11'.step = IF v11.step = "evidence" THEN "log" ELSE "link"
<1>1. CASE v11' = History!NoRun /\ v12' = TRUE
  BY <1>1 DEF History!NoRun
<1>2. CASE /\ v11' = [job |-> v11.job, step |-> IF v11.step = "evidence" THEN "log" ELSE "link"]
           /\ v12' = v12 /\ <<v11.job, v11.step>> \in v5' \cup v13'
  BY <1>2
<1> QED BY <1>1, <1>2, FileSent

LEMMA LinkLeavesHand ==
  ASSUME History!TypeOK, v11.job = Nobody => v11 = History!NoRun, History!SendsLink
  PROVE  \/ v11'.job = Nobody /\ v11' = History!NoRun /\ v12' = TRUE
         \/ /\ v11'.job = v11.job /\ v12' = v12 /\ v11'.step = "row"
            /\ <<v11.job, "link">> \in v5' \cup v13' \/ v11.job \in v14'
<1>1. CASE v11' = History!NoRun /\ v12' = TRUE
  BY <1>1 DEF History!NoRun
<1>2. CASE /\ v11' = [job |-> v11.job, step |-> "row"] /\ v12' = v12
           /\ <<v11.job, "link">> \in v5' \cup v13' \/ v11.job \in v14'
  BY <1>2
<1> QED BY <1>1, <1>2, LinkSent

LEMMA RowSent ==
  ASSUME History!SendsRow
  PROVE  /\ v11.step = "row" /\ v11' = History!NoRun /\ v12' \in {v12, TRUE}
         /\ v4' = v4 \cup {v11.job} \/ (v4' = v4 /\ v12' = TRUE)
         /\ UNCHANGED <<v5, v6, v7, v8, v9, v10, v13, v14, v15>>
<1>1. v11.step = "row" /\ v11' = History!NoRun
  BY DEF History!SendsRow
<1>2. CASE v4' = v4 \cup {v11.job} /\ v12' \in {v12, TRUE} /\ UNCHANGED <<v5, v6>>
  <2>1. UNCHANGED <<v7, v8, v9, v10, v13, v14, v15>>
    BY DEF History!SendsRow, History!history
  <2>2. v12' \in {v12, TRUE} /\ v4' = v4 \cup {v11.job} /\ UNCHANGED <<v5, v6>>
    BY <1>2
  <2> QED BY <1>1, <2>1, <2>2
<1>3. CASE v12' = TRUE /\ UNCHANGED <<v4, v5, v6>>
  BY <1>1, <1>3 DEF History!SendsRow, History!history
<1> QED BY <1>2, <1>3 DEF History!SendsRow, History!portal

LEMMA FileKeepsTypes ==
  ASSUME History!TypeOK, History!SendsFile
  PROVE  History!TypeOK'
<1>1. v11.job \in Ran /\ v11.step \in {"evidence", "log"}
  BY FileSent
<1>2. v11' \in [job : Ran \cup {Nobody}, step : {"evidence", "log", "link", "row"}]
  <2>1. CASE v11' = History!NoRun
    BY <2>1 DEF History!NoRun
  <2>2. CASE v11' = [job |-> v11.job, step |-> IF v11.step = "evidence" THEN "log" ELSE "link"]
    BY <1>1, <2>2
  <2> QED BY <2>1, <2>2, FileSent
<1>3. v5' = v5 \/ v5' = v5 \cup {<<v11.job, v11.step>>}
  BY FileSent
<1>4. v12' \in BOOLEAN
  BY FileSent DEF History!TypeOK
<1>5. UNCHANGED <<v1, v2, v3, v4, v6, v7, v8, v9, v10, v14>>
  BY FileSent
<1> QED BY <1>1, <1>2, <1>3, <1>4, <1>5 DEF History!TypeOK, History!Files

LEMMA LinkKeepsTypes ==
  ASSUME History!TypeOK, v11.job = Nobody => v11 = History!NoRun, History!SendsLink
  PROVE  History!TypeOK'
<1>1. v11.job \in Ran
  BY LinkSent
<1>2. v11' \in [job : Ran \cup {Nobody}, step : {"evidence", "log", "link", "row"}]
  <2>1. CASE v11' = History!NoRun
    BY <2>1 DEF History!NoRun
  <2>2. CASE v11' = [job |-> v11.job, step |-> "row"]
    BY <1>1, <2>2
  <2> QED BY <2>1, <2>2, LinkSent
<1>3. v5' = v5 \/ v5' = v5 \cup {<<v11.job, "link">>}
  BY LinkSent
<1>4. v12' \in BOOLEAN
  BY LinkSent DEF History!TypeOK
<1>5. v14' = v14 \/ v14' = v14 \cup {v11.job}
  BY LinkSent
<1>6. UNCHANGED <<v1, v2, v3, v4, v6, v7, v8, v9, v10>>
  BY LinkSent
<1> QED BY <1>1, <1>2, <1>3, <1>4, <1>5, <1>6 DEF History!TypeOK, History!Files

LEMMA HistoryTypes ==
  ASSUME History!TypeOK, v11.job = Nobody => v11 = History!NoRun, [History!Next]_(History!vars)
  PROVE  History!TypeOK'
<1> USE HistoryExportAssumption
<1>0. History!TypeOK
  OBVIOUS
<1> USE DEF History!TypeOK, History!Files, History!rig, History!portal, History!history
<1>1. ASSUME NEW j \in Ran, History!RunEnds(j)
      PROVE  History!TypeOK'
  BY <1>1 DEF History!RunEnds
<1>2. ASSUME NEW j \in Ran, History!RowGoes(j)
      PROVE  History!TypeOK'
  BY <1>2 DEF History!RowGoes
<1>3. ASSUME NEW j \in Ran, History!TurnsTo(j)
      PROVE  History!TypeOK'
  BY <1>3 DEF History!TurnsTo
<1>4. ASSUME NEW j \in Ran, NEW k \in History!Files, History!FileGoes(j, k)
      PROVE  History!TypeOK'
  BY <1>4 DEF History!FileGoes
<1>5. ASSUME NEW b \in Builds, History!BundleGoes(b)
      PROVE  History!TypeOK'
  BY <1>5 DEF History!BundleGoes
<1>6. ASSUME NEW b \in Builds, History!SendsBundle(b)
      PROVE  History!TypeOK'
  <2>1. v9' \in [jobs : SUBSET Ran, bundles : SUBSET Builds]
    BY <1>6 DEF History!SendsBundle
  <2>2. v6' \in {v6, v6 \cup {b}} /\ v10' \in {v10, v10 \cup {b}} /\ v12' \in BOOLEAN
    BY <1>6 DEF History!SendsBundle
  <2>3. UNCHANGED <<v1, v2, v3, v4, v5, v7, v8, v11, v14>>
    BY <1>6 DEF History!SendsBundle
  <2> QED BY <2>1, <2>2, <2>3
<1>7. CASE History!ReadsRows
  BY <1>7 DEF History!ReadsRows, History!Nothing, History!Over
<1>8. CASE History!ScansStore
  BY <1>8 DEF History!ScansStore
<1>9. CASE History!AsksKnown
  BY <1>9 DEF History!AsksKnown
<1>10. CASE History!SendsFile
  BY <1>0, <1>10, FileKeepsTypes
<1>11. CASE History!SendsLink
  BY <1>0, <1>11, LinkKeepsTypes
<1>12. CASE History!SendsRow
  <2>1. v11.job \in Ran
    BY <1>12 DEF History!SendsRow, History!NoRun
  <2>2. v11' = History!NoRun /\ v4' \in {v4, v4 \cup {v11.job}} /\ v12' \in BOOLEAN
    BY <1>12 DEF History!SendsRow
  <2>3. UNCHANGED <<v1, v2, v3, v5, v6, v7, v8, v9, v10, v14>>
    BY <1>12 DEF History!SendsRow
  <2> QED BY <2>1, <2>2, <2>3 DEF History!NoRun
<1>13. CASE History!Ends
  BY <1>13 DEF History!Ends, History!Nothing
<1>14. CASE History!Interrupted
  BY <1>14 DEF History!Interrupted, History!Nothing, History!Empty, History!NoRun
<1>15. CASE UNCHANGED History!vars
  BY <1>15 DEF History!vars
<1> QED
  BY <1>1, <1>2, <1>3, <1>4, <1>5, <1>6, <1>7, <1>8, <1>9, <1>10, <1>11, <1>12, <1>13, <1>14, <1>15
     DEF History!Next

LEMMA HistoryInductive ==
  ASSUME History!Inductive, [History!Next]_(History!vars)
  PROVE  History!Inductive'
<1> DEFINE Rest == /\ History!AtRest /\ History!InHand /\ History!NoneForgotten /\ History!BroughtWhole
<1>0. History!TypeOK /\ (v11.job = Nobody => v11 = History!NoRun)
  BY DEF History!Inductive, History!AtRest
<1>t. History!TypeOK'
  BY <1>0, HistoryTypes
<1>y. /\ v4 \subseteq Ran /\ v5 \subseteq Ran \X {"evidence", "log", "link"}
      /\ v8 \in [jobs : SUBSET Ran, bundles : SUBSET Builds, links : SUBSET Ran]
      /\ v9 \in [jobs : SUBSET Ran, bundles : SUBSET Builds]
      /\ v11 \in [job : Ran \cup {Nobody}, step : {"evidence", "log", "link", "row"}]
      /\ v7 \in {"idle", "read", "scanned", "known"} /\ v12 \in BOOLEAN
  BY <1>0 DEF History!TypeOK, History!Files
<1>r. Rest
  BY DEF History!Inductive
<1> SUFFICES Rest'
  BY <1>t DEF History!Inductive
<1> USE <1>y, <1>r, HistoryExportAssumption
<1> USE DEF History!AtRest, History!InHand, History!NoneForgotten, History!BroughtWhole, History!Files,
            History!NoRun, History!Empty
<1>1. ASSUME UNCHANGED <<v4, v5, v6, v7, v8, v9, v10, v11, v12, v13, v14, v15>>
      PROVE  Rest'
  BY <1>1
<1>2. ASSUME NEW j \in Ran, History!RunEnds(j) \/ History!RowGoes(j)
      PROVE  Rest'
  BY <1>1, <1>2 DEF History!RunEnds, History!RowGoes, History!portal, History!history
<1>3. ASSUME NEW j \in Ran, NEW k \in History!Files, History!FileGoes(j, k)
      PROVE  Rest'
  BY <1>1, <1>3 DEF History!FileGoes, History!portal, History!history
<1>4. ASSUME NEW b \in Builds, History!BundleGoes(b)
      PROVE  Rest'
  BY <1>1, <1>4 DEF History!BundleGoes, History!portal, History!history
<1>5. ASSUME NEW j \in Ran, History!TurnsTo(j)
      PROVE  Rest'
  BY <1>5 DEF History!TurnsTo, History!portal, History!history
<1>6. ASSUME NEW b \in Builds, History!SendsBundle(b)
      PROVE  Rest'
  BY <1>6 DEF History!SendsBundle, History!history
<1>7. CASE History!ReadsRows
  BY <1>7 DEF History!ReadsRows, History!portal, History!history
<1>8. CASE History!ScansStore
  BY <1>8 DEF History!ScansStore, History!portal, History!history
<1>9. CASE History!AsksKnown
  BY <1>9 DEF History!AsksKnown, History!portal, History!history
<1>10. CASE History!SendsFile
  <2>1. /\ v11.job \in Ran /\ v11.step \in {"evidence", "log"}
        /\ v5 \subseteq v5' /\ v13 \subseteq v13'
        /\ v5' \subseteq v5 \cup {<<v11.job, v11.step>>}
        /\ UNCHANGED <<v4, v6, v7, v8, v9, v10, v14, v15>>
    BY <1>0, <1>10, FileSent
  <2>2. \/ v11'.job = Nobody /\ v11' = History!NoRun /\ v12' = TRUE
        \/ /\ v11'.job = v11.job /\ v12' = v12 /\ <<v11.job, v11.step>> \in v5' \cup v13'
           /\ v11'.step = IF v11.step = "evidence" THEN "log" ELSE "link"
    BY <1>0, <1>10, FileLeavesHand
  <2>3. v11.job # Nobody /\ v7 = "known"
    BY <2>1
  <2>4. History!AtRest'
    BY <2>1, <2>2, <2>3
  <2>5. History!InHand'
    BY <2>1, <2>2, <2>3
  <2>6. History!NoneForgotten'
    BY <2>1, <2>2, <2>3
  <2>7. History!BroughtWhole'
    BY <2>1, <2>2, <2>3
  <2> QED BY <2>4, <2>5, <2>6, <2>7
<1>11. CASE History!SendsLink
  <2>1. /\ v11.job \in Ran /\ v11.step = "link"
        /\ v5 \subseteq v5' /\ v13 \subseteq v13' /\ v14 \subseteq v14'
        /\ v5' \subseteq v5 \cup {<<v11.job, "link">>}
        /\ UNCHANGED <<v4, v6, v7, v8, v9, v10, v15>>
    BY <1>0, <1>11, LinkSent
  <2>2. \/ v11'.job = Nobody /\ v11' = History!NoRun /\ v12' = TRUE
        \/ /\ v11'.job = v11.job /\ v12' = v12 /\ v11'.step = "row"
           /\ <<v11.job, "link">> \in v5' \cup v13' \/ v11.job \in v14'
    BY <1>0, <1>11, LinkLeavesHand
  <2>3. v11.job # Nobody /\ v7 = "known"
    BY <2>1
  <2>4. History!AtRest'
    BY <2>1, <2>2, <2>3
  <2>5. History!InHand'
    BY <2>1, <2>2, <2>3
  <2>6. History!NoneForgotten'
    BY <2>1, <2>2, <2>3
  <2>7. History!BroughtWhole'
    BY <2>1, <2>2, <2>3
  <2> QED BY <2>4, <2>5, <2>6, <2>7
<1>12. CASE History!SendsRow
  <2>1. /\ v11.step = "row" /\ v11' = History!NoRun /\ v12' \in {v12, TRUE}
        /\ v4' = v4 \cup {v11.job} \/ (v4' = v4 /\ v12' = TRUE)
        /\ UNCHANGED <<v5, v6, v7, v8, v9, v10, v13, v14, v15>>
    BY <1>12, RowSent
  <2>2. v11.job \in Ran /\ v7 = "known" /\ v11'.job = Nobody /\ v11'.step = "evidence"
    BY <2>1
  <2>3. History!AtRest'
    BY <2>1, <2>2
  <2>4. History!InHand'
    BY <2>1, <2>2
  <2>5. History!NoneForgotten'
    <3>1. CASE v12' = TRUE
      BY <3>1
    <3>2. CASE v12' # TRUE
      <4>1. ~v12 /\ v4' = v4 \cup {v11.job} /\ v8' = v8 /\ v9' = v9
        BY <2>1, <3>2
      <4>2. v8.jobs \subseteq v4 \cup v9.jobs \cup {v11.job}
        BY <2>2, <4>1
      <4> QED BY <4>1, <4>2
    <3> QED BY <3>1, <3>2
  <2>6. History!BroughtWhole'
    BY <2>1, <2>2
  <2> QED BY <2>3, <2>4, <2>5, <2>6
<1>13. CASE History!Ends
  BY <1>13 DEF History!Ends, History!portal, History!Nothing
<1>14. CASE History!Interrupted
  BY <1>14 DEF History!Interrupted, History!portal, History!history, History!Nothing
<1>15. CASE UNCHANGED History!vars
  BY <1>1, <1>15 DEF History!vars
<1> HIDE DEF Rest, History!Files
<1> QED
  BY <1>2, <1>3, <1>4, <1>5, <1>6, <1>7, <1>8, <1>9, <1>10, <1>11, <1>12, <1>13, <1>14, <1>15
     DEF History!Next

LEMMA HistoryStarts ==
  ASSUME History!Init
  PROVE  History!Inductive
<1> USE HistoryExportAssumption DEF History!Init, History!Empty, History!Nothing, History!NoRun, History!Files
<1>1. History!TypeOK
  BY DEF History!TypeOK, History!Over
<1>2. History!AtRest /\ History!InHand /\ History!NoneForgotten
  BY DEF History!AtRest, History!InHand, History!NoneForgotten
<1>3. History!BroughtWhole
  BY DEF History!BroughtWhole
<1> QED BY <1>1, <1>2, <1>3 DEF History!Inductive

-----------------------------------------------------------------------------
(* Projects and what their files say (Projects).                           *)

LEMMA CatalogueStarts ==
  ASSUME Catalogue!Init
  PROVE  Catalogue!Inductive
<1> USE ProjectsAssumption
<1> USE DEF Catalogue!Init, Catalogue!Absent, Catalogue!Earlier, Catalogue!Broken, Catalogue!AsShipped
<1>1. v3 \in [ProjectNames -> 0 .. MaxChanges + 2] /\ v3[HealthCheck] = 1
  BY DEF Catalogue!Effective, Catalogue!Hidden
<1>2. Catalogue!TypeOK
  BY <1>1 DEF Catalogue!TypeOK, Catalogue!Hidden, Catalogue!Overridden
<1>3. Catalogue!RequestsLawful
  BY <1>1 DEF Catalogue!RequestsLawful, Catalogue!Idle
<1>4. Catalogue!Apart /\ Catalogue!Made /\ Catalogue!Kept /\ Catalogue!ReadWhole /\ Catalogue!Runs
  BY DEF Catalogue!Apart, Catalogue!Made, Catalogue!Kept, Catalogue!ReadWhole, Catalogue!Runs
<1> QED BY <1>2, <1>3, <1>4 DEF Catalogue!Inductive

\* A request goes on: what it is for and what it met stay as they are.
Turns(c, at, back, listed, read) ==
  LET q == v7[c]
      r == v7'[c]
  IN /\ q \in Catalogue!Request /\ q # Catalogue!Idle
     /\ v7' = [v7 EXCEPT ![c] = r] /\ r \in Catalogue!Request /\ r # Catalogue!Idle
     /\ r.at = at /\ r.back = back /\ r.listed = listed /\ r.read = read
     /\ r.kind = q.kind /\ r.name = q.name /\ r.doc = q.doc
     /\ (r.alone <=> q.alone) /\ (r.single <=> q.single)
Goes(c, at) == Turns(c, at, v7[c].back, v7[c].listed, v7[c].read)

LEMMA CatalogueRow ==
  ASSUME Catalogue!RequestsLawful, NEW c \in Editors, v7[c].at # "idle"
  PROVE  v7[c] \in Catalogue!Request /\ v7[c] # Catalogue!Idle
BY DEF Catalogue!RequestsLawful, Catalogue!Idle

LEMMA CatalogueGoes ==
  ASSUME Catalogue!RequestsLawful, NEW c \in Editors, v7[c].at # "idle",
         NEW at \in Catalogue!Stages, Catalogue!GoesTo(c, at)
  PROVE  Goes(c, at)
<1> DEFINE q == v7[c]
           r == [q EXCEPT !.at = at]
<1>1. q \in Catalogue!Request /\ q # Catalogue!Idle
  BY CatalogueRow
<1>2. v7' = [v7 EXCEPT ![c] = r] /\ DOMAIN v7 = Editors
  BY DEF Catalogue!GoesTo, Catalogue!RequestsLawful
<1> HIDE DEF q
<1>3. /\ r \in Catalogue!Request /\ r.at = at /\ r.back = q.back /\ r.listed = q.listed
      /\ r.read = q.read /\ r.kind = q.kind /\ r.name = q.name /\ r.doc = q.doc
      /\ r.alone = q.alone /\ r.single = q.single
  BY <1>1 DEF Catalogue!Request
<1>4. r # Catalogue!Idle
  BY <1>3 DEF Catalogue!Idle, Catalogue!Stages
<1> HIDE DEF r
<1>5. v7'[c] = r
  BY <1>2
<1> QED BY <1>1, <1>2, <1>3, <1>4, <1>5 DEF Goes, Turns, q

LEMMA CatalogueTurns ==
  ASSUME Catalogue!TypeOK, Catalogue!RequestsLawful, NEW c \in Editors
  PROVE  /\ Catalogue!Checks(c) =>
              Goes(c, CASE v7[c].kind = "create" -> IF v7[c].name \in v4 THEN "unhides" ELSE "writes"
                        [] v7[c].kind = "update" -> "writes"
                        [] v7[c].kind = "delete" -> "unlinks"
                        [] OTHER -> "unhides")
         /\ Catalogue!Unhides(c) => Goes(c, IF v7[c].kind = "create" THEN "writes" ELSE "unlinks")
         /\ Catalogue!Writes(c) => Goes(c, "lists")
         /\ Catalogue!Unlinks(c) =>
              Goes(c, IF v7[c].kind = "delete" /\ v7[c].name \in ShippedOnes THEN "hides" ELSE "lists")
         /\ Catalogue!Hides(c) => Goes(c, "lists")
         /\ Catalogue!Raises(c) =>
              Goes(c, IF v7[c].at = "reads" /\ v7[c].kind \in {"create", "update"} /\ ~v7[c].back
                      THEN "takes back" ELSE "fails")
<1> USE DEF Catalogue!Under, Catalogue!Stages
<1>1. ASSUME Catalogue!Checks(c)
      PROVE  Goes(c, CASE v7[c].kind = "create" -> IF v7[c].name \in v4 THEN "unhides" ELSE "writes"
                       [] v7[c].kind = "update" -> "writes"
                       [] v7[c].kind = "delete" -> "unlinks"
                       [] OTHER -> "unhides")
  <2> DEFINE at == CASE v7[c].kind = "create" -> IF v7[c].name \in v4 THEN "unhides" ELSE "writes"
                     [] v7[c].kind = "update" -> "writes"
                     [] v7[c].kind = "delete" -> "unlinks"
                     [] OTHER -> "unhides"
  <2>1. at \in Catalogue!Stages
    OBVIOUS
  <2>2. v7[c].at # "idle" /\ Catalogue!GoesTo(c, at)
    BY <1>1 DEF Catalogue!Checks
  <2> HIDE DEF at
  <2>3. Goes(c, at)
    BY <2>1, <2>2, CatalogueGoes
  <2> QED BY <2>3 DEF at
<1>2. ASSUME Catalogue!Unhides(c)
      PROVE  Goes(c, IF v7[c].kind = "create" THEN "writes" ELSE "unlinks")
  BY <1>2, CatalogueGoes DEF Catalogue!Unhides
<1>3. ASSUME Catalogue!Writes(c)
      PROVE  Goes(c, "lists")
  BY <1>3, CatalogueGoes DEF Catalogue!Writes
<1>4. ASSUME Catalogue!Unlinks(c)
      PROVE  Goes(c, IF v7[c].kind = "delete" /\ v7[c].name \in ShippedOnes THEN "hides" ELSE "lists")
  BY <1>4, CatalogueGoes DEF Catalogue!Unlinks
<1>5. ASSUME Catalogue!Hides(c)
      PROVE  Goes(c, "lists")
  BY <1>5, CatalogueGoes DEF Catalogue!Hides
<1>6. ASSUME Catalogue!Raises(c)
      PROVE  Goes(c, IF v7[c].at = "reads" /\ v7[c].kind \in {"create", "update"} /\ ~v7[c].back
                     THEN "takes back" ELSE "fails")
  BY <1>6, CatalogueGoes DEF Catalogue!Raises
<1> QED BY <1>1, <1>2, <1>3, <1>4, <1>5, <1>6

(* What a reading has in hand on its way.                                  *)
LEMMA CatalogueReads ==
  ASSUME Catalogue!TypeOK, Catalogue!RequestsLawful, NEW c \in Editors
  PROVE  /\ Catalogue!Lists(c) =>
              Turns(c, "reads", v7[c].back, {n \in ProjectNames : v1[n] # Catalogue!Absent}, v7[c].read)
         /\ Catalogue!ReadsDocuments(c) =>
              Turns(c, "tombstones", v7[c].back, {},
                    [n \in ProjectNames |-> IF n \in v7[c].listed THEN v1[n] ELSE Catalogue!Absent])
         /\ Catalogue!ReadsTombstones(c) =>
              Turns(c, "sets", v7[c].back, v7[c].listed, Catalogue!Effective(v7[c].read, v2))
         /\ Catalogue!SetsProfiles(c) =>
              Turns(c, IF v7[c].back THEN "fails" ELSE "answers", v7[c].back, v7[c].listed, <<>>)
         /\ Catalogue!TakesBack(c) => Turns(c, "lists", TRUE, v7[c].listed, v7[c].read)
<1> USE ProjectsAssumption
<1> USE DEF Catalogue!Under
<1> DEFINE q == v7[c]
<1>0. ASSUME q.at # "idle"
      PROVE  q \in Catalogue!Request /\ q # Catalogue!Idle /\ DOMAIN v7 = Editors
             /\ Catalogue!Lawful(q)
  BY <1>0, CatalogueRow DEF Catalogue!RequestsLawful
<1>1. ASSUME Catalogue!Lists(c)
      PROVE  Turns(c, "reads", q.back, {n \in ProjectNames : v1[n] # Catalogue!Absent}, q.read)
  <2> DEFINE listed == {n \in ProjectNames : v1[n] # Catalogue!Absent}
             r == [q EXCEPT !.at = "reads", !.listed = listed]
  <2>1. q \in Catalogue!Request /\ q # Catalogue!Idle /\ DOMAIN v7 = Editors
    BY <1>0, <1>1 DEF Catalogue!Lists
  <2>2. v7' = [v7 EXCEPT ![c] = r]
    BY <1>1 DEF Catalogue!Lists
  <2>3. listed \in SUBSET ProjectNames
    OBVIOUS
  <2> HIDE DEF q, listed
  <2>4. /\ r \in Catalogue!Request /\ r.at = "reads" /\ r.back = q.back /\ r.listed = listed
        /\ r.read = q.read /\ r.kind = q.kind /\ r.name = q.name /\ r.doc = q.doc
        /\ r.alone = q.alone /\ r.single = q.single
    BY <2>1, <2>3 DEF Catalogue!Request, Catalogue!Stages
  <2>5. r # Catalogue!Idle
    BY <2>4 DEF Catalogue!Idle
  <2> HIDE DEF r
  <2>6. v7'[c] = r
    BY <2>1, <2>2
  <2> QED BY <2>1, <2>2, <2>4, <2>5, <2>6 DEF Turns, q, listed
<1>2. ASSUME Catalogue!ReadsDocuments(c)
      PROVE  Turns(c, "tombstones", q.back, {},
                   [n \in ProjectNames |-> IF n \in q.listed THEN v1[n] ELSE Catalogue!Absent])
  <2> DEFINE read == [n \in ProjectNames |-> IF n \in q.listed THEN v1[n] ELSE Catalogue!Absent]
             r == [q EXCEPT !.at = "tombstones", !.read = read, !.listed = {}]
  <2>1. q \in Catalogue!Request /\ q # Catalogue!Idle /\ DOMAIN v7 = Editors
    BY <1>0, <1>2 DEF Catalogue!ReadsDocuments
  <2>2. v7' = [v7 EXCEPT ![c] = r]
    BY <1>2 DEF Catalogue!ReadsDocuments
  <2>3. read \in [ProjectNames -> Catalogue!Texts]
    <3>1. \A n \in q.listed : v1[n] \notin {Catalogue!Absent, Catalogue!Broken}
      BY <1>2 DEF Catalogue!ReadsDocuments, Catalogue!Readable
    <3>2. \A n \in ProjectNames : v1[n] \in Catalogue!Absent .. Catalogue!Broken
      BY DEF Catalogue!TypeOK
    <3> HIDE DEF q
    <3>3. \A n \in ProjectNames :
            (IF n \in q.listed THEN v1[n] ELSE Catalogue!Absent) \in Catalogue!Texts
      BY <3>1, <3>2 DEF Catalogue!Texts, Catalogue!Absent, Catalogue!Broken, Catalogue!Earlier
    <3> QED BY <3>3
  <2> HIDE DEF q, read
  <2>4. /\ r \in Catalogue!Request /\ r.at = "tombstones" /\ r.back = q.back /\ r.listed = {}
        /\ r.read = read /\ r.kind = q.kind /\ r.name = q.name /\ r.doc = q.doc
        /\ r.alone = q.alone /\ r.single = q.single
    BY <2>1, <2>3 DEF Catalogue!Request, Catalogue!Stages
  <2>5. r # Catalogue!Idle
    BY <2>4 DEF Catalogue!Idle
  <2> HIDE DEF r
  <2>6. v7'[c] = r
    BY <2>1, <2>2
  <2> QED BY <2>1, <2>2, <2>4, <2>5, <2>6 DEF Turns, q, read
<1>3. ASSUME Catalogue!ReadsTombstones(c)
      PROVE  Turns(c, "sets", q.back, q.listed, Catalogue!Effective(q.read, v2))
  <2> DEFINE read == Catalogue!Effective(q.read, v2)
             r == [q EXCEPT !.at = "sets", !.read = read]
  <2>1. q \in Catalogue!Request /\ q # Catalogue!Idle /\ DOMAIN v7 = Editors /\ Catalogue!Lawful(q)
        /\ q.at = "tombstones"
    BY <1>0, <1>3 DEF Catalogue!ReadsTombstones
  <2>2. v7' = [v7 EXCEPT ![c] = r]
    BY <1>3 DEF Catalogue!ReadsTombstones
  <2>3. read \in [ProjectNames -> Catalogue!Texts]
    BY <2>1 DEF Catalogue!Lawful, Catalogue!Texts, Catalogue!Effective,
       Catalogue!Absent, Catalogue!Earlier, Catalogue!AsShipped
  <2> HIDE DEF q, read
  <2>4. /\ r \in Catalogue!Request /\ r.at = "sets" /\ r.back = q.back /\ r.listed = q.listed
        /\ r.read = read /\ r.kind = q.kind /\ r.name = q.name /\ r.doc = q.doc
        /\ r.alone = q.alone /\ r.single = q.single
    BY <2>1, <2>3 DEF Catalogue!Request, Catalogue!Stages
  <2>5. r # Catalogue!Idle
    BY <2>4 DEF Catalogue!Idle
  <2> HIDE DEF r
  <2>6. v7'[c] = r
    BY <2>1, <2>2
  <2> QED BY <2>1, <2>2, <2>4, <2>5, <2>6 DEF Turns, q, read
<1>4. ASSUME Catalogue!SetsProfiles(c)
      PROVE  Turns(c, IF q.back THEN "fails" ELSE "answers", q.back, q.listed, <<>>)
  <2> DEFINE at == IF q.back THEN "fails" ELSE "answers"
             r == [q EXCEPT !.at = at, !.read = <<>>]
  <2>1. q \in Catalogue!Request /\ q # Catalogue!Idle /\ DOMAIN v7 = Editors
    BY <1>0, <1>4 DEF Catalogue!SetsProfiles
  <2>2. v7' = [v7 EXCEPT ![c] = r]
    BY <1>4 DEF Catalogue!SetsProfiles
  <2>3. at \in Catalogue!Stages
    BY DEF Catalogue!Stages
  <2> HIDE DEF q, at
  <2>4. /\ r \in Catalogue!Request /\ r.at = at /\ r.back = q.back /\ r.listed = q.listed
        /\ r.read = <<>> /\ r.kind = q.kind /\ r.name = q.name /\ r.doc = q.doc
        /\ r.alone = q.alone /\ r.single = q.single
    BY <2>1, <2>3 DEF Catalogue!Request
  <2>5. r # Catalogue!Idle
    BY <2>3, <2>4 DEF Catalogue!Idle, Catalogue!Stages
  <2> HIDE DEF r
  <2>6. v7'[c] = r
    BY <2>1, <2>2
  <2> QED BY <2>1, <2>2, <2>4, <2>5, <2>6 DEF Turns, q, at
<1>5. ASSUME Catalogue!TakesBack(c)
      PROVE  Turns(c, "lists", TRUE, q.listed, q.read)
  <2> DEFINE r == [q EXCEPT !.at = "lists", !.back = TRUE]
  <2>1. q \in Catalogue!Request /\ q # Catalogue!Idle /\ DOMAIN v7 = Editors
    BY <1>0, <1>5 DEF Catalogue!TakesBack
  <2>2. v7' = [v7 EXCEPT ![c] = r]
    BY <1>5 DEF Catalogue!TakesBack
  <2> HIDE DEF q
  <2>4. /\ r \in Catalogue!Request /\ r.at = "lists" /\ r.back = TRUE /\ r.listed = q.listed
        /\ r.read = q.read /\ r.kind = q.kind /\ r.name = q.name /\ r.doc = q.doc
        /\ r.alone = q.alone /\ r.single = q.single
    BY <2>1 DEF Catalogue!Request, Catalogue!Stages
  <2>5. r # Catalogue!Idle
    BY <2>4 DEF Catalogue!Idle
  <2> HIDE DEF r
  <2>6. v7'[c] = r
    BY <2>1, <2>2
  <2> QED BY <2>1, <2>2, <2>4, <2>5, <2>6 DEF Turns, q
<1> QED BY <1>1, <1>2, <1>3, <1>4, <1>5

(* A request that begins has nothing in hand, and the others have met one.  *)
LEMMA CatalogueBegins ==
  ASSUME Catalogue!TypeOK, Catalogue!RequestsLawful, NEW c \in Editors, NEW kind \in Catalogue!Kinds,
         NEW n \in AskedOnes, Catalogue!Begins(c, kind, n)
  PROVE  /\ v7' \in [Editors -> {Catalogue!Idle} \cup Catalogue!Request]
         /\ v7[c] = Catalogue!Idle /\ v7'[c] # Catalogue!Idle /\ v7'[c].name = n
         /\ v7'[c].kind = kind /\ v7'[c].at = "checks" /\ ~v7'[c].back
         /\ kind \in {"create", "update"} => v7'[c].doc = v8 + 2
         /\ v7'[c].alone <=> ~Catalogue!Busy(n)
         /\ v7'[c].single <=> \A o \in Editors : v7[o] = Catalogue!Idle
         /\ \A d \in Editors : d # c => (v7'[d] = Catalogue!Idle <=> v7[d] = Catalogue!Idle)
         /\ \A d \in Editors : d # c /\ v7[d] # Catalogue!Idle =>
              /\ v7'[d].at = v7[d].at /\ v7'[d].back = v7[d].back /\ v7'[d].listed = v7[d].listed
              /\ v7'[d].read = v7[d].read /\ v7'[d].kind = v7[d].kind
              /\ v7'[d].name = v7[d].name /\ v7'[d].doc = v7[d].doc
              /\ v7'[d].alone <=> v7[d].alone /\ v7[d].name # n
              /\ ~v7'[d].single
<1> USE ProjectsAssumption
<1> DEFINE r == [kind |-> kind, name |-> n, at |-> "checks",
                 doc |-> IF kind \in {"create", "update"} THEN v8 + 2 ELSE Catalogue!Absent,
                 back |-> FALSE, listed |-> {}, read |-> <<>>, alone |-> ~Catalogue!Busy(n),
                 single |-> \A o \in Editors : v7[o] = Catalogue!Idle]
           Met(q) == [q EXCEPT !.alone = q.alone /\ q.name # n, !.single = FALSE]
<1>b. v8 < MaxChanges /\ v8 \in 0 .. MaxChanges
  BY DEF Catalogue!Begins, Catalogue!RequestsLawful
<1>1. /\ v7[c] = Catalogue!Idle
      /\ v7' = [d \in Editors |-> IF d = c THEN r ELSE IF v7[d] = Catalogue!Idle THEN Catalogue!Idle
                                 ELSE Met(v7[d])]
  BY DEF Catalogue!Begins, Catalogue!RequestsLawful
<1>2. /\ r.name = n /\ r.kind = kind /\ r.at = "checks" /\ ~r.back
      /\ kind \in {"create", "update"} => r.doc = v8 + 2
      /\ r.alone <=> ~Catalogue!Busy(n)
      /\ r.single <=> \A o \in Editors : v7[o] = Catalogue!Idle
  OBVIOUS
<1>3. r \in Catalogue!Request
  <2>1. (IF kind \in {"create", "update"} THEN v8 + 2 ELSE Catalogue!Absent)
          \in Catalogue!Absent .. MaxChanges + 1
    <3>1. v8 \in Nat /\ v8 + 2 <= MaxChanges + 1
      BY <1>b
    <3> QED BY <3>1 DEF Catalogue!Absent
  <2>2. {} \in SUBSET ProjectNames /\ "checks" \in Catalogue!Stages
    BY DEF Catalogue!Stages
  <2>3. (~Catalogue!Busy(n)) \in BOOLEAN
    OBVIOUS
  <2>4. (\A o \in Editors : v7[o] = Catalogue!Idle) \in BOOLEAN
    OBVIOUS
  <2> QED BY <2>1, <2>2, <2>3, <2>4 DEF Catalogue!Request
<1>4. r # Catalogue!Idle
  BY <1>2 DEF Catalogue!Idle
<1>5. ASSUME NEW d \in Editors, d # c, v7[d] # Catalogue!Idle
      PROVE  LET q == v7[d]
                 m == Met(v7[d])
             IN /\ m \in Catalogue!Request /\ m # Catalogue!Idle
                /\ m.at = q.at /\ m.back = q.back /\ m.listed = q.listed /\ m.read = q.read
                /\ m.kind = q.kind /\ m.name = q.name /\ m.doc = q.doc
                /\ m.alone <=> q.alone /\ q.name # n
                /\ ~m.single
  <2> DEFINE q == v7[d]
  <2>1. q \in Catalogue!Request
    BY <1>5 DEF Catalogue!RequestsLawful
  <2>a. (q.alone /\ q.name # n) \in BOOLEAN
    OBVIOUS
  <2> HIDE DEF q
  <2>2. /\ Met(q) \in Catalogue!Request
        /\ Met(q).at = q.at /\ Met(q).back = q.back /\ Met(q).listed = q.listed /\ Met(q).read = q.read
        /\ Met(q).kind = q.kind /\ Met(q).name = q.name /\ Met(q).doc = q.doc
    BY <2>1, <2>a DEF Catalogue!Request
  <2>3. (Met(q).alone <=> q.alone /\ q.name # n) /\ ~Met(q).single
    BY <2>1 DEF Catalogue!Request
  <2>4. Met(q) # Catalogue!Idle
    <3>1. q.at \in Catalogue!Stages
      BY <2>1 DEF Catalogue!Request
    <3> QED BY <2>2, <3>1 DEF Catalogue!Idle, Catalogue!Stages
  <2> QED BY <2>2, <2>3, <2>4 DEF q
<1> HIDE DEF r, Met
<1>6. v7' \in [Editors -> {Catalogue!Idle} \cup Catalogue!Request]
  BY <1>1, <1>3, <1>5
<1> QED BY <1>1, <1>2, <1>4, <1>5, <1>6

(* A request goes on with what it may have in hand.                        *)
LEMMA CatalogueLawful ==
  ASSUME Catalogue!Inductive, [Catalogue!Next]_(Catalogue!vars)
  PROVE  Catalogue!RequestsLawful'
<1> SUFFICES ASSUME Catalogue!TypeOK, Catalogue!RequestsLawful
             PROVE  Catalogue!RequestsLawful'
  BY DEF Catalogue!Inductive
<1> USE ProjectsAssumption
<1> USE DEF Catalogue!disk, Catalogue!memory
<1>0. /\ v7 \in [Editors -> {Catalogue!Idle} \cup Catalogue!Request] /\ v8 \in 0 .. MaxChanges
      /\ \A c \in Editors : v7[c] # Catalogue!Idle => v6 /\ Catalogue!Lawful(v7[c])
      /\ v1[HealthCheck] = Catalogue!Absent
      /\ v10 \in [ProjectNames -> Catalogue!Absent .. Catalogue!Broken]
  BY DEF Catalogue!RequestsLawful
<1>1. ASSUME NEW c \in Editors, NEW at, NEW back, NEW listed, NEW read,
             Turns(c, at, back, listed, read), v6' = v6, v8' = v8, v10' = v10,
             v1'[HealthCheck] = Catalogue!Absent, Catalogue!Lawful(v7'[c])
      PROVE  Catalogue!RequestsLawful'
  <2>1. /\ v7[c] # Catalogue!Idle /\ v7' = [v7 EXCEPT ![c] = v7'[c]]
        /\ v7'[c] \in Catalogue!Request
    BY <1>1 DEF Turns
  <2>2. v7' \in [Editors -> {Catalogue!Idle} \cup Catalogue!Request]
    BY <1>0, <2>1
  <2>3. \A d \in Editors : v7'[d] # Catalogue!Idle => v6' /\ Catalogue!Lawful(v7'[d])
    BY <1>0, <1>1, <2>1
  <2> QED BY <1>0, <1>1, <2>2, <2>3 DEF Catalogue!RequestsLawful, Catalogue!Lawful
<1>2. ASSUME NEW c \in Editors, v7' = [v7 EXCEPT ![c] = Catalogue!Idle], v6' = v6, v8' = v8,
             v1' = v1, v10' \in [ProjectNames -> Catalogue!Absent .. Catalogue!Broken]
      PROVE  Catalogue!RequestsLawful'
  BY <1>0, <1>2 DEF Catalogue!RequestsLawful, Catalogue!Lawful
<1>3. ASSUME NEW c \in Editors, NEW kind \in Catalogue!Kinds, NEW n \in AskedOnes,
             Catalogue!Begins(c, kind, n)
      PROVE  Catalogue!RequestsLawful'
  <2>1. v6 /\ v6' = v6 /\ v8' = v8 + 1 /\ v8 < MaxChanges /\ v10' = v10 /\ v1' = v1
    BY <1>3 DEF Catalogue!Begins
  <2>2. v7' \in [Editors -> {Catalogue!Idle} \cup Catalogue!Request]
    BY <1>3, CatalogueBegins
  <2>3. Catalogue!Lawful(v7'[c])
    <3>1. /\ v7'[c].at = "checks" /\ ~v7'[c].back
          /\ v7'[c].kind \in {"create", "update"} => v7'[c].doc = v8 + 2
      BY <1>3, CatalogueBegins
    <3>2. v8 + 2 > 1
      BY <1>0
    <3> QED BY <3>1, <3>2 DEF Catalogue!Lawful, Catalogue!AsShipped
  <2>4. ASSUME NEW d \in Editors, d # c, v7'[d] # Catalogue!Idle
        PROVE  Catalogue!Lawful(v7'[d])
    <3>1. /\ v7[d] # Catalogue!Idle
          /\ v7'[d].at = v7[d].at /\ v7'[d].back = v7[d].back /\ v7'[d].listed = v7[d].listed
          /\ v7'[d].read = v7[d].read /\ v7'[d].kind = v7[d].kind
          /\ v7'[d].name = v7[d].name /\ v7'[d].doc = v7[d].doc
      BY <1>3, <2>4, CatalogueBegins
    <3>2. Catalogue!Lawful(v7[d])
      BY <1>0, <3>1
    <3> QED BY <3>1, <3>2 DEF Catalogue!Lawful
  <2>5. v8' \in 0 .. MaxChanges
    BY <1>0, <2>1
  <2>6. \A d \in Editors : v7'[d] # Catalogue!Idle => v6' /\ Catalogue!Lawful(v7'[d])
    BY <2>1, <2>3, <2>4
  <2> QED BY <1>0, <2>1, <2>2, <2>5, <2>6 DEF Catalogue!RequestsLawful, Catalogue!Lawful
<1>4. ASSUME NEW c \in Editors, Catalogue!Checks(c)
      PROVE  Catalogue!RequestsLawful'
  <2> DEFINE at == CASE v7[c].kind = "create" -> IF v7[c].name \in v4 THEN "unhides" ELSE "writes"
                     [] v7[c].kind = "update" -> "writes"
                     [] v7[c].kind = "delete" -> "unlinks"
                     [] OTHER -> "unhides"
  <2>1. Goes(c, at)
    BY <1>4, CatalogueTurns
  <2>2. UNCHANGED <<v1, v6, v8, v10>> /\ Catalogue!MayChange(c) /\ v7[c].at = "checks"
    BY <1>4 DEF Catalogue!Checks, Catalogue!Under
  <2>3. v7[c] \in Catalogue!Request /\ Catalogue!Lawful(v7[c])
    BY <1>0, <2>1 DEF Goes, Turns
  <2>4. Catalogue!Lawful(v7'[c])
    BY <2>1, <2>2, <2>3 DEF Goes, Turns, Catalogue!Lawful, Catalogue!MayChange, Catalogue!Request,
       Catalogue!Kinds
  <2> QED BY <1>0, <1>1, <2>1, <2>2, <2>4 DEF Goes
<1>5. ASSUME NEW c \in Editors, Catalogue!Unhides(c)
      PROVE  Catalogue!RequestsLawful'
  <2>1. Goes(c, IF v7[c].kind = "create" THEN "writes" ELSE "unlinks")
    BY <1>5, CatalogueTurns
  <2>2. UNCHANGED <<v1, v6, v8, v10>> /\ v7[c].at = "unhides"
    BY <1>5 DEF Catalogue!Unhides, Catalogue!Under
  <2>3. v7[c] \in Catalogue!Request /\ Catalogue!Lawful(v7[c])
    BY <1>0, <2>1 DEF Goes, Turns
  <2>4. Catalogue!Lawful(v7'[c])
    BY <2>1, <2>2, <2>3 DEF Goes, Turns, Catalogue!Lawful, Catalogue!Request, Catalogue!Kinds
  <2> QED BY <1>0, <1>1, <2>1, <2>2, <2>4 DEF Goes
<1>6. ASSUME NEW c \in Editors, Catalogue!Writes(c) \/ Catalogue!Hides(c)
      PROVE  Catalogue!RequestsLawful'
  <2>1. Goes(c, "lists")
    BY <1>6, CatalogueTurns
  <2>2. v7[c] \in Catalogue!Request /\ Catalogue!Lawful(v7[c])
    BY <1>0, <2>1 DEF Goes, Turns
  <2>3. UNCHANGED <<v6, v8, v10>> /\ v7[c].at \in {"writes", "hides"}
        /\ (v1' = v1 \/ (v7[c].at = "writes" /\ v1' = [v1 EXCEPT ![v7[c].name] = v7[c].doc]))
    BY <1>6 DEF Catalogue!Writes, Catalogue!Hides, Catalogue!Under
  <2>4. v1'[HealthCheck] = Catalogue!Absent
    BY <1>0, <2>2, <2>3 DEF Catalogue!Lawful, Catalogue!TypeOK
  <2>5. Catalogue!Lawful(v7'[c])
    BY <2>1, <2>2, <2>3 DEF Goes, Turns, Catalogue!Lawful
  <2> QED BY <1>1, <2>1, <2>3, <2>4, <2>5 DEF Goes
<1>7. ASSUME NEW c \in Editors, Catalogue!Unlinks(c)
      PROVE  Catalogue!RequestsLawful'
  <2>1. Goes(c, IF v7[c].kind = "delete" /\ v7[c].name \in ShippedOnes THEN "hides" ELSE "lists")
    BY <1>7, CatalogueTurns
  <2>2. UNCHANGED <<v6, v8, v10>> /\ v7[c].at = "unlinks"
        /\ v1' = [v1 EXCEPT ![v7[c].name] = Catalogue!Absent]
    BY <1>7 DEF Catalogue!Unlinks, Catalogue!Under
  <2>3. v7[c] \in Catalogue!Request /\ Catalogue!Lawful(v7[c])
    BY <1>0, <2>1 DEF Goes, Turns
  <2>4. v1'[HealthCheck] = Catalogue!Absent
    BY <1>0, <2>2 DEF Catalogue!TypeOK
  <2>5. Catalogue!Lawful(v7'[c])
    BY <2>1, <2>2, <2>3 DEF Goes, Turns, Catalogue!Lawful
  <2> QED BY <1>1, <2>1, <2>2, <2>4, <2>5 DEF Goes
<1>8. ASSUME NEW c \in Editors, Catalogue!Lists(c)
      PROVE  Catalogue!RequestsLawful'
  <2>1. Turns(c, "reads", v7[c].back, {n \in ProjectNames : v1[n] # Catalogue!Absent}, v7[c].read)
    BY <1>8, CatalogueReads
  <2>2. UNCHANGED <<v1, v6, v8, v10>> /\ v7[c].at = "lists"
    BY <1>8 DEF Catalogue!Lists, Catalogue!Under
  <2>3. Catalogue!Lawful(v7[c])
    BY <1>0, <2>1 DEF Turns
  <2>4. Catalogue!Lawful(v7'[c])
    BY <2>1, <2>2, <2>3 DEF Turns, Catalogue!Lawful
  <2> QED BY <1>0, <1>1, <2>1, <2>2, <2>4
<1>9. ASSUME NEW c \in Editors, Catalogue!ReadsDocuments(c)
      PROVE  Catalogue!RequestsLawful'
  <2> DEFINE read == [n \in ProjectNames |-> IF n \in v7[c].listed THEN v1[n] ELSE Catalogue!Absent]
  <2>1. Turns(c, "tombstones", v7[c].back, {}, read)
    BY <1>9, CatalogueReads
  <2>2. UNCHANGED <<v1, v6, v8, v10>> /\ v7[c].at = "reads"
    BY <1>9 DEF Catalogue!ReadsDocuments, Catalogue!Under
  <2>3. Catalogue!Lawful(v7[c])
    BY <1>0, <2>1 DEF Turns
  <2>4. read # <<>> /\ read[HealthCheck] = Catalogue!Absent
    BY <1>0
  <2> HIDE DEF read
  <2>5. v7'[c].read \in [ProjectNames -> Catalogue!Texts]
    BY <2>1, <2>4 DEF Turns, Catalogue!Request
  <2>6. Catalogue!Lawful(v7'[c])
    BY <2>1, <2>2, <2>3, <2>4, <2>5 DEF Turns, Catalogue!Lawful
  <2> QED BY <1>0, <1>1, <2>1, <2>2, <2>6
<1>10. ASSUME NEW c \in Editors, Catalogue!ReadsTombstones(c)
      PROVE  Catalogue!RequestsLawful'
  <2> DEFINE read == Catalogue!Effective(v7[c].read, v2)
  <2>1. Turns(c, "sets", v7[c].back, v7[c].listed, read)
    BY <1>10, CatalogueReads
  <2>2. UNCHANGED <<v1, v6, v8, v10>> /\ v7[c].at = "tombstones"
    BY <1>10 DEF Catalogue!ReadsTombstones, Catalogue!Under
  <2>3. Catalogue!Lawful(v7[c])
    BY <1>0, <2>1 DEF Turns
  <2>4. read # <<>> /\ read[HealthCheck] = Catalogue!AsShipped
    BY <2>2, <2>3 DEF Catalogue!Lawful, Catalogue!Effective, Catalogue!Hidden
  <2> HIDE DEF read
  <2>5. v7'[c].read \in [ProjectNames -> Catalogue!Texts]
    BY <2>1, <2>4 DEF Turns, Catalogue!Request
  <2>6. Catalogue!Lawful(v7'[c])
    BY <2>1, <2>2, <2>3, <2>4, <2>5 DEF Turns, Catalogue!Lawful
  <2> QED BY <1>0, <1>1, <2>1, <2>2, <2>6
<1>11. ASSUME NEW c \in Editors, Catalogue!SetsProfiles(c)
      PROVE  Catalogue!RequestsLawful'
  <2>1. Turns(c, IF v7[c].back THEN "fails" ELSE "answers", v7[c].back, v7[c].listed, <<>>)
    BY <1>11, CatalogueReads
  <2>2. UNCHANGED <<v1, v6, v8, v10>> /\ v7[c].at = "sets"
    BY <1>11 DEF Catalogue!SetsProfiles, Catalogue!Under
  <2>3. Catalogue!Lawful(v7[c])
    BY <1>0, <2>1 DEF Turns
  <2>4. Catalogue!Lawful(v7'[c])
    BY <2>1, <2>2, <2>3 DEF Turns, Catalogue!Lawful
  <2> QED BY <1>0, <1>1, <2>1, <2>2, <2>4
<1>12. ASSUME NEW c \in Editors, Catalogue!Raises(c)
      PROVE  Catalogue!RequestsLawful'
  <2>1. Goes(c, IF v7[c].at = "reads" /\ v7[c].kind \in {"create", "update"} /\ ~v7[c].back
                THEN "takes back" ELSE "fails")
    BY <1>12, CatalogueTurns
  <2>2. UNCHANGED <<v1, v6, v8, v10>>
    BY <1>12 DEF Catalogue!Raises, Catalogue!Under
  <2>3. Catalogue!Lawful(v7[c])
    BY <1>0, <2>1 DEF Goes, Turns
  <2>4. CASE v7[c].at = "reads" /\ v7[c].kind \in {"create", "update"} /\ ~v7[c].back
    <3>1. Goes(c, "takes back")
      BY <2>1, <2>4
    <3>2. Catalogue!Lawful(v7'[c])
      BY <2>2, <2>3, <2>4, <3>1 DEF Goes, Turns, Catalogue!Lawful
    <3> QED BY <1>0, <1>1, <2>2, <3>1, <3>2 DEF Goes
  <2>5. CASE ~(v7[c].at = "reads" /\ v7[c].kind \in {"create", "update"} /\ ~v7[c].back)
    <3>1. Goes(c, "fails")
      BY <2>1, <2>5
    <3>2. v7[c].at # "checks"
      BY <1>12 DEF Catalogue!Raises, Catalogue!Under
    <3>3. Catalogue!Lawful(v7'[c])
      BY <2>2, <2>3, <3>1, <3>2 DEF Goes, Turns, Catalogue!Lawful
    <3> QED BY <1>0, <1>1, <2>2, <3>1, <3>3 DEF Goes
  <2> QED BY <2>4, <2>5
<1>13. ASSUME NEW c \in Editors, Catalogue!TakesBack(c)
      PROVE  Catalogue!RequestsLawful'
  <2>1. Turns(c, "lists", TRUE, v7[c].listed, v7[c].read)
    BY <1>13, CatalogueReads
  <2>2. UNCHANGED <<v6, v8, v10>> /\ v7[c].at = "takes back"
        /\ v1' = [v1 EXCEPT ![v7[c].name] = Catalogue!Absent]
    BY <1>13 DEF Catalogue!TakesBack, Catalogue!Under
  <2>3. Catalogue!Lawful(v7[c])
    BY <1>0, <2>1 DEF Turns
  <2>4. v1'[HealthCheck] = Catalogue!Absent
    BY <1>0, <2>2 DEF Catalogue!TypeOK
  <2>5. Catalogue!Lawful(v7'[c])
    BY <2>1, <2>2, <2>3 DEF Turns, Catalogue!Lawful
  <2> QED BY <1>1, <2>1, <2>2, <2>4, <2>5
<1>14. ASSUME NEW c \in Editors, Catalogue!Answers(c)
      PROVE  Catalogue!RequestsLawful'
  <2>1. v7[c] \in Catalogue!Request /\ UNCHANGED <<v1, v6, v8>>
        /\ v7' = [v7 EXCEPT ![c] = Catalogue!Idle]
    BY <1>14, CatalogueRow DEF Catalogue!Answers, Catalogue!Under
  <2>2. v7[c].doc \in Catalogue!Absent .. Catalogue!Broken
    BY <2>1 DEF Catalogue!Request, Catalogue!Absent, Catalogue!Broken
  <2>3. {Catalogue!Absent, Catalogue!AsShipped} \subseteq Catalogue!Absent .. Catalogue!Broken
    BY DEF Catalogue!Absent, Catalogue!Broken, Catalogue!AsShipped
  <2>4. v10' \in [ProjectNames -> Catalogue!Absent .. Catalogue!Broken]
    BY <1>0, <1>14, <2>2, <2>3 DEF Catalogue!Answers
  <2> QED BY <1>2, <2>1, <2>4
<1>15. ASSUME NEW c \in Editors, Catalogue!Refused(c) \/ Catalogue!Fails(c)
      PROVE  Catalogue!RequestsLawful'
  BY <1>0, <1>2, <1>15 DEF Catalogue!Refused, Catalogue!Fails
<1>16. ASSUME NEW n \in ProjectNames \ {HealthCheck}, Catalogue!Edits(n)
      PROVE  Catalogue!RequestsLawful'
  <2>1. v7' = v7 /\ v6' = v6 /\ v8' = v8 /\ v10' = v10 /\ v1'[HealthCheck] = v1[HealthCheck]
    BY <1>16 DEF Catalogue!Edits, Catalogue!TypeOK
  <2> QED BY <1>0, <2>1 DEF Catalogue!RequestsLawful, Catalogue!Lawful
<1>17. CASE Catalogue!Crash
  BY <1>0, <1>17 DEF Catalogue!Crash, Catalogue!RequestsLawful
<1>18. CASE Catalogue!Restart
  BY <1>0, <1>18 DEF Catalogue!Restart, Catalogue!RequestsLawful
<1>19. CASE UNCHANGED Catalogue!vars
  BY <1>0, <1>19 DEF Catalogue!vars, Catalogue!RequestsLawful, Catalogue!Lawful
<1> QED
  BY <1>3, <1>4, <1>5, <1>6, <1>7, <1>8, <1>9, <1>10, <1>11, <1>12, <1>13, <1>14, <1>15, <1>16,
     <1>17, <1>18, <1>19 DEF Catalogue!Next, Catalogue!CallStep, Catalogue!Kinds

(* Every step of a request but its first, in short.                        *)
LEMMA CatalogueSteps ==
  ASSUME Catalogue!TypeOK, Catalogue!RequestsLawful, [Catalogue!Next]_(Catalogue!vars)
  PROVE  \/ \E c \in Editors, kind \in Catalogue!Kinds, n \in AskedOnes : Catalogue!Begins(c, kind, n)
         \/ \E c \in Editors :
              /\ v6 /\ v6' = v6 /\ v7[c] # Catalogue!Idle /\ v7[c] \in Catalogue!Request
              /\ \/ /\ v7' = [v7 EXCEPT ![c] = Catalogue!Idle]
                    /\ Catalogue!Refused(c) \/ Catalogue!Answers(c) \/ Catalogue!Fails(c)
                 \/ /\ \E at \in Catalogue!Stages \ {"checks"}, back \in BOOLEAN :
                         Turns(c, at, back, v7'[c].listed, v7'[c].read)
                    /\ \/ Catalogue!Checks(c) \/ Catalogue!Unhides(c) \/ Catalogue!Writes(c)
                       \/ Catalogue!Unlinks(c) \/ Catalogue!Hides(c) \/ Catalogue!Lists(c)
                       \/ Catalogue!ReadsDocuments(c) \/ Catalogue!ReadsTombstones(c)
                       \/ Catalogue!SetsProfiles(c) \/ Catalogue!Raises(c)
                       \/ Catalogue!TakesBack(c)
         \/ \E n \in ProjectNames \ {HealthCheck} : Catalogue!Edits(n)
         \/ Catalogue!Crash
         \/ Catalogue!Restart
         \/ UNCHANGED Catalogue!vars
<1> DEFINE Turning(c) == \E at \in Catalogue!Stages \ {"checks"}, back \in BOOLEAN :
                           Turns(c, at, back, v7'[c].listed, v7'[c].read)
           Step(c) == \/ Catalogue!Checks(c) \/ Catalogue!Unhides(c) \/ Catalogue!Writes(c)
                      \/ Catalogue!Unlinks(c) \/ Catalogue!Hides(c) \/ Catalogue!Lists(c)
                      \/ Catalogue!ReadsDocuments(c) \/ Catalogue!ReadsTombstones(c)
                      \/ Catalogue!SetsProfiles(c) \/ Catalogue!Raises(c)
                      \/ Catalogue!TakesBack(c)
           Ending(c) == Catalogue!Refused(c) \/ Catalogue!Answers(c) \/ Catalogue!Fails(c)
<1>1. ASSUME NEW c \in Editors, NEW at \in Catalogue!Stages \ {"checks"}, NEW back, NEW listed, NEW read,
             Turns(c, at, back, listed, read)
      PROVE  Turning(c)
  <2>1. back = v7'[c].back /\ listed = v7'[c].listed /\ read = v7'[c].read /\ back \in BOOLEAN
    BY <1>1 DEF Turns, Catalogue!Request
  <2> QED BY <1>1, <2>1
<1>2. ASSUME NEW c \in Editors, Step(c)
      PROVE  Turning(c) /\ v6 /\ v6' = v6
  <2> DEFINE Q(at) == \E back, listed, read : Turns(c, at, back, listed, read)
  <2>1. v6 /\ v6' = v6
    BY <1>2 DEF Catalogue!Checks, Catalogue!Unhides, Catalogue!Writes, Catalogue!Unlinks,
       Catalogue!Hides, Catalogue!Lists, Catalogue!ReadsDocuments, Catalogue!ReadsTombstones,
       Catalogue!SetsProfiles, Catalogue!Raises, Catalogue!TakesBack, Catalogue!Under
  <2>2. CASE Catalogue!Checks(c) \/ Catalogue!Unhides(c)
    <3>1. Q("unhides") \/ Q("writes") \/ Q("unlinks")
      BY <2>2, CatalogueTurns DEF Goes
    <3> QED BY <1>1, <2>1, <3>1 DEF Catalogue!Stages
  <2>3. CASE Catalogue!Writes(c) \/ Catalogue!Unlinks(c) \/ Catalogue!Hides(c)
    <3>1. Q("lists") \/ Q("hides")
      BY <2>3, CatalogueTurns DEF Goes
    <3> QED BY <1>1, <2>1, <3>1 DEF Catalogue!Stages
  <2>4. CASE Catalogue!Raises(c)
    <3>1. Q("takes back") \/ Q("fails")
      BY <2>4, CatalogueTurns DEF Goes
    <3> QED BY <1>1, <2>1, <3>1 DEF Catalogue!Stages
  <2>5. CASE Catalogue!Lists(c) \/ Catalogue!ReadsDocuments(c) \/ Catalogue!ReadsTombstones(c)
    <3>1. Q("reads") \/ Q("tombstones") \/ Q("sets")
      BY <2>5, CatalogueReads
    <3> QED BY <1>1, <2>1, <3>1 DEF Catalogue!Stages
  <2>6. CASE Catalogue!SetsProfiles(c) \/ Catalogue!TakesBack(c)
    <3>1. Q("fails") \/ Q("answers") \/ Q("lists")
      BY <2>6, CatalogueReads
    <3> QED BY <1>1, <2>1, <3>1 DEF Catalogue!Stages
  <2> QED BY <1>2, <2>2, <2>3, <2>4, <2>5, <2>6
<1>3. ASSUME NEW c \in Editors, Step(c)
      PROVE  v7[c] # Catalogue!Idle /\ v7[c] \in Catalogue!Request
  BY <1>2, <1>3 DEF Turns
<1>4. ASSUME NEW c \in Editors, Ending(c)
      PROVE  /\ v6 /\ v6' = v6 /\ v7[c] # Catalogue!Idle /\ v7[c] \in Catalogue!Request
             /\ v7' = [v7 EXCEPT ![c] = Catalogue!Idle]
  <2>1. v6 /\ v6' = v6 /\ v7[c].at # "idle" /\ v7' = [v7 EXCEPT ![c] = Catalogue!Idle]
    BY <1>4 DEF Catalogue!Refused, Catalogue!Answers, Catalogue!Fails, Catalogue!Under
  <2> QED BY <2>1, CatalogueRow
<1>5. CASE \E c \in Editors : Catalogue!CallStep(c)
  <2>1. PICK c \in Editors : Catalogue!CallStep(c)
    BY <1>5
  <2>2. (\E kind \in Catalogue!Kinds, n \in AskedOnes : Catalogue!Begins(c, kind, n))
        \/ Step(c) \/ Ending(c)
    BY <2>1 DEF Catalogue!CallStep, Catalogue!Kinds
  <2> HIDE DEF Turning
  <2>3. CASE Step(c)
    <3>1. Turning(c) /\ v6 /\ v6' = v6 /\ v7[c] # Catalogue!Idle /\ v7[c] \in Catalogue!Request
      BY <1>2, <1>3, <2>3
    <3> QED BY <2>3, <3>1 DEF Turning
  <2>4. CASE Ending(c)
    BY <1>4, <2>4
  <2> QED BY <2>2, <2>3, <2>4
<1> QED BY <1>5 DEF Catalogue!Next

(* Who met nobody, still did not when a request goes on or ends.           *)
LEMMA CatalogueApart ==
  ASSUME Catalogue!Inductive, [Catalogue!Next]_(Catalogue!vars)
  PROVE  Catalogue!Apart'
<1> SUFFICES ASSUME Catalogue!TypeOK, Catalogue!RequestsLawful, Catalogue!Apart
             PROVE  Catalogue!Apart'
  BY DEF Catalogue!Inductive
<1>0. DOMAIN v7 = Editors
  BY DEF Catalogue!RequestsLawful
<1>1. ASSUME NEW c \in Editors, NEW at, NEW back, NEW listed, NEW read,
             Turns(c, at, back, listed, read)
      PROVE  Catalogue!Apart'
  BY <1>0, <1>1 DEF Turns, Catalogue!Apart
<1>2. ASSUME NEW c \in Editors, v7' = [v7 EXCEPT ![c] = Catalogue!Idle]
      PROVE  Catalogue!Apart'
  BY <1>0, <1>2 DEF Catalogue!Apart
<1>3. ASSUME NEW c \in Editors, NEW kind \in Catalogue!Kinds, NEW n \in AskedOnes,
             Catalogue!Begins(c, kind, n)
      PROVE  Catalogue!Apart'
  <2>1. /\ v7[c] = Catalogue!Idle /\ v7'[c].name = n
        /\ v7'[c].alone <=> ~Catalogue!Busy(n)
        /\ v7'[c].single <=> \A o \in Editors : v7[o] = Catalogue!Idle
        /\ \A d \in Editors : d # c => (v7'[d] = Catalogue!Idle <=> v7[d] = Catalogue!Idle)
        /\ \A d \in Editors : d # c /\ v7[d] # Catalogue!Idle =>
             v7'[d].name = v7[d].name /\ (v7'[d].alone <=> v7[d].alone /\ v7[d].name # n)
             /\ ~v7'[d].single
    BY <1>3, CatalogueBegins
  <2> QED BY <2>1 DEF Catalogue!Apart, Catalogue!Busy
<1>4. CASE v7' = v7
  BY <1>4 DEF Catalogue!Apart
<1>5. CASE Catalogue!Crash
  BY <1>5 DEF Catalogue!Crash, Catalogue!Apart
<1>6. CASE (\E n \in ProjectNames \ {HealthCheck} : Catalogue!Edits(n)) \/ Catalogue!Restart
           \/ UNCHANGED Catalogue!vars
  BY <1>4, <1>6 DEF Catalogue!Edits, Catalogue!Restart, Catalogue!vars
<1> QED BY CatalogueSteps, <1>1, <1>2, <1>3, <1>5, <1>6

LEMMA CatalogueTypes ==
  ASSUME Catalogue!Inductive, [Catalogue!Next]_(Catalogue!vars)
  PROVE  Catalogue!TypeOK'
<1> SUFFICES ASSUME Catalogue!TypeOK, Catalogue!RequestsLawful
             PROVE  Catalogue!TypeOK'
  BY DEF Catalogue!Inductive
<1> USE ProjectsAssumption
<1> USE DEF Catalogue!disk, Catalogue!memory, Catalogue!TypeOK, Catalogue!Absent, Catalogue!AsShipped,
            Catalogue!Earlier, Catalogue!Broken
<1>1. CASE UNCHANGED <<v1, v2, v3, v4, v5, v6, v11>>
  BY <1>1
<1>2. ASSUME NEW c \in Editors, v7[c] \in Catalogue!Request,
             Catalogue!Refused(c) \/ Catalogue!Answers(c) \/ Catalogue!Fails(c)
      PROVE  Catalogue!TypeOK'
  BY <1>2 DEF Catalogue!Refused, Catalogue!Answers, Catalogue!Fails, Catalogue!Request
<1>3. ASSUME NEW c \in Editors, v7[c] \in Catalogue!Request,
             \/ Catalogue!Checks(c) \/ Catalogue!Unhides(c) \/ Catalogue!Writes(c)
             \/ Catalogue!Unlinks(c) \/ Catalogue!Hides(c) \/ Catalogue!Lists(c)
             \/ Catalogue!ReadsDocuments(c) \/ Catalogue!Raises(c) \/ Catalogue!TakesBack(c)
      PROVE  Catalogue!TypeOK'
  <2>1. v7[c].name \in ProjectNames /\ v7[c].doc \in 0 .. MaxChanges + 1
    BY <1>3 DEF Catalogue!Request
  <2>2. UNCHANGED <<v3, v4, v5, v6, v11>>
    BY <1>3 DEF Catalogue!Checks, Catalogue!Unhides, Catalogue!Writes, Catalogue!Unlinks,
       Catalogue!Hides, Catalogue!Lists, Catalogue!ReadsDocuments, Catalogue!Raises,
       Catalogue!TakesBack
  <2>3. v2' = v2 \/ v2' = v2 \ {v7[c].name} \/ v2' = v2 \cup {v7[c].name}
    BY <1>3 DEF Catalogue!Checks, Catalogue!Unhides, Catalogue!Writes, Catalogue!Unlinks,
       Catalogue!Hides, Catalogue!Lists, Catalogue!ReadsDocuments, Catalogue!Raises,
       Catalogue!TakesBack
  <2>4. \/ v1' = v1 \/ v1' = [v1 EXCEPT ![v7[c].name] = v7[c].doc]
        \/ v1' = [v1 EXCEPT ![v7[c].name] = 0]
    BY <1>3 DEF Catalogue!Checks, Catalogue!Unhides, Catalogue!Writes, Catalogue!Unlinks,
       Catalogue!Hides, Catalogue!Lists, Catalogue!ReadsDocuments, Catalogue!Raises,
       Catalogue!TakesBack
  <2>5. v1' \in [ProjectNames -> 0 .. MaxChanges + 3]
    BY <2>1, <2>4
  <2>6. v2' \subseteq ProjectNames
    BY <2>1, <2>3
  <2> QED BY <2>2, <2>5, <2>6
<1>4. ASSUME NEW c \in Editors, Catalogue!ReadsTombstones(c)
      PROVE  Catalogue!TypeOK'
  BY <1>4 DEF Catalogue!ReadsTombstones, Catalogue!Overridden, Catalogue!Hidden
<1>5. ASSUME NEW c \in Editors, Catalogue!SetsProfiles(c)
      PROVE  Catalogue!TypeOK'
  <2>1. v7[c].read \in [ProjectNames -> Catalogue!Texts] /\ v7[c].read[HealthCheck] = 1
    BY <1>5, CatalogueRow DEF Catalogue!SetsProfiles, Catalogue!Under, Catalogue!RequestsLawful,
       Catalogue!Lawful
  <2>2. v3' \in [ProjectNames -> 0 .. MaxChanges + 2] /\ v3'[HealthCheck] = 1
    BY <1>5, <2>1 DEF Catalogue!SetsProfiles, Catalogue!Texts
  <2> QED BY <1>5, <2>2 DEF Catalogue!SetsProfiles
<1>6. ASSUME NEW n \in ProjectNames \ {HealthCheck}, Catalogue!Edits(n)
      PROVE  Catalogue!TypeOK'
  BY <1>6 DEF Catalogue!Edits
<1>7. CASE Catalogue!Crash
  BY <1>7 DEF Catalogue!Crash
<1>8. CASE Catalogue!Restart
  <2>1. \A n \in ProjectNames : v1[n] # MaxChanges + 3
    BY <1>8 DEF Catalogue!Restart, Catalogue!Readable
  <2>2. v3' \in [ProjectNames -> 0 .. MaxChanges + 2] /\ v3'[HealthCheck] = 1
    BY <1>8, <2>1 DEF Catalogue!Restart, Catalogue!Effective, Catalogue!Hidden,
       Catalogue!RequestsLawful
  <2> QED BY <1>8, <2>2 DEF Catalogue!Restart, Catalogue!Overridden, Catalogue!Hidden
<1>9. ASSUME NEW c \in Editors, NEW kind, NEW n, Catalogue!Begins(c, kind, n)
      PROVE  Catalogue!TypeOK'
  BY <1>1, <1>9 DEF Catalogue!Begins
<1>10. CASE UNCHANGED Catalogue!vars
  BY <1>1, <1>10 DEF Catalogue!vars
<1> QED BY CatalogueSteps, <1>2, <1>3, <1>4, <1>5, <1>6, <1>7, <1>8, <1>9, <1>10

(* What a project is, follows from its own files.                          *)
LEMMA CatalogueSame ==
  ASSUME NEW n \in ProjectNames, v1'[n] = v1[n], n \in v2' <=> n \in v2
  PROVE  Catalogue!Effective(v1, v2)'[n] = Catalogue!Effective(v1, v2)[n]
BY DEF Catalogue!Effective, Catalogue!Hidden

(* A request touches the files of its own project.                         *)
LEMMA CatalogueTouches ==
  ASSUME Catalogue!TypeOK, Catalogue!RequestsLawful, NEW c \in Editors,
         \/ Catalogue!Refused(c) \/ Catalogue!Answers(c) \/ Catalogue!Fails(c)
         \/ Catalogue!Checks(c) \/ Catalogue!Unhides(c) \/ Catalogue!Writes(c)
         \/ Catalogue!Unlinks(c) \/ Catalogue!Hides(c) \/ Catalogue!Lists(c)
         \/ Catalogue!ReadsDocuments(c) \/ Catalogue!ReadsTombstones(c)
         \/ Catalogue!SetsProfiles(c) \/ Catalogue!Raises(c) \/ Catalogue!TakesBack(c)
  PROVE  \A n \in ProjectNames : n # v7[c].name =>
           /\ v1'[n] = v1[n] /\ (n \in v2' <=> n \in v2) /\ (n \in v11' <=> n \in v11)
           /\ v10'[n] = v10[n]
           /\ Catalogue!Effective(v1, v2)'[n] = Catalogue!Effective(v1, v2)[n]
<1>1. ASSUME NEW n \in ProjectNames, n # v7[c].name
      PROVE  /\ v1'[n] = v1[n] /\ (n \in v2' <=> n \in v2) /\ (n \in v11' <=> n \in v11)
             /\ v10'[n] = v10[n]
  <2> USE <1>1 DEF Catalogue!TypeOK, Catalogue!disk
  <2>1. CASE Catalogue!Refused(c) \/ Catalogue!Checks(c) \/ Catalogue!Lists(c)
             \/ Catalogue!ReadsDocuments(c) \/ Catalogue!ReadsTombstones(c)
             \/ Catalogue!SetsProfiles(c) \/ Catalogue!Raises(c)
    BY <2>1 DEF Catalogue!Refused, Catalogue!Checks, Catalogue!Lists, Catalogue!ReadsDocuments,
       Catalogue!ReadsTombstones, Catalogue!SetsProfiles, Catalogue!Raises
  <2>2. CASE Catalogue!Unhides(c) \/ Catalogue!Writes(c) \/ Catalogue!Unlinks(c)
             \/ Catalogue!Hides(c) \/ Catalogue!TakesBack(c)
    BY <2>2 DEF Catalogue!Unhides, Catalogue!Writes, Catalogue!Unlinks, Catalogue!Hides,
       Catalogue!TakesBack
  <2>3. CASE Catalogue!Answers(c)
    <3>1. v10 \in [ProjectNames -> Catalogue!Absent .. Catalogue!Broken]
      BY DEF Catalogue!RequestsLawful
    <3>2. v1' = v1 /\ v2' = v2 /\ (v11' = v11 \ {v7[c].name} \/ v11' = v11 \cup {v7[c].name})
      BY <2>3 DEF Catalogue!Answers
    <3>3. v10'[n] = v10[n]
      BY <2>3, <3>1 DEF Catalogue!Answers
    <3> QED BY <3>2, <3>3
  <2>4. CASE Catalogue!Fails(c)
    BY <2>4 DEF Catalogue!Fails
  <2> QED BY <2>1, <2>2, <2>3, <2>4
<1> QED BY <1>1, CatalogueSame

(* By each step a request that met no other of its project has made it so. *)
LEMMA CatalogueMade ==
  ASSUME Catalogue!Inductive, [Catalogue!Next]_(Catalogue!vars)
  PROVE  Catalogue!Made'
<1> SUFFICES ASSUME Catalogue!TypeOK, Catalogue!RequestsLawful, Catalogue!Apart, Catalogue!Made
             PROVE  Catalogue!Made'
  BY DEF Catalogue!Inductive
<1> USE ProjectsAssumption
<1> USE DEF Catalogue!disk, Catalogue!memory
<1> DEFINE E == Catalogue!Effective(v1, v2)
           Fine(q) ==
             /\ q.at = "unlinks" /\ q.kind = "restore" => q.name \notin v2
             /\ q.at = "hides" => v1[q.name] = Catalogue!Absent
             /\ q.at \in {"lists", "reads", "tombstones", "sets", "answers"} /\ ~q.back =>
                  E[q.name] = Catalogue!Result(q)
           Later(q) ==
             /\ q.at = "unlinks" /\ q.kind = "restore" => q.name \notin v2'
             /\ q.at = "hides" => v1'[q.name] = Catalogue!Absent
             /\ q.at \in {"lists", "reads", "tombstones", "sets", "answers"} /\ ~q.back =>
                  E'[q.name] = Catalogue!Result(q)
<1>0. /\ \A c \in Editors : v7[c] # Catalogue!Idle /\ v7[c].alone => Fine(v7[c])
      /\ v7 \in [Editors -> {Catalogue!Idle} \cup Catalogue!Request]
      /\ \A c \in Editors : v7[c] # Catalogue!Idle => Catalogue!Lawful(v7[c])
  BY DEF Catalogue!Made, Catalogue!RequestsLawful
<1>g. ASSUME \A c \in Editors : v7'[c] # Catalogue!Idle /\ v7'[c].alone => Later(v7'[c])
      PROVE  Catalogue!Made'
  BY <1>g DEF Catalogue!Made, Catalogue!Result
<1>n. \A c \in Editors : v7[c] # Catalogue!Idle => v7[c].name \in ProjectNames
  BY <1>0 DEF Catalogue!Request
<1>s. ASSUME NEW d \in Editors, v7[d] # Catalogue!Idle, v7[d].alone, v7'[d] = v7[d],
             v1'[v7[d].name] = v1[v7[d].name], v7[d].name \in v2' <=> v7[d].name \in v2
      PROVE  Later(v7'[d])
  <2>1. E'[v7[d].name] = E[v7[d].name]
    BY <1>s, <1>n, CatalogueSame
  <2> HIDE DEF E
  <2> QED BY <1>0, <1>s, <2>1
<1>1. ASSUME NEW c \in Editors, v7[c] # Catalogue!Idle,
             \A d \in Editors : d # c => v7'[d] = v7[d],
             \A n \in ProjectNames : n # v7[c].name =>
               v1'[n] = v1[n] /\ (n \in v2' <=> n \in v2),
             v7'[c] # Catalogue!Idle /\ v7'[c].alone => Later(v7'[c])
      PROVE  Catalogue!Made'
  <2>1. ASSUME NEW d \in Editors, d # c, v7[d] # Catalogue!Idle, v7[d].alone
        PROVE  Later(v7'[d])
    <3>1. v7[d].name # v7[c].name /\ v7[d].name \in ProjectNames
      BY <1>1, <1>n, <2>1 DEF Catalogue!Apart
    <3>2. v7'[d] = v7[d] /\ v1'[v7[d].name] = v1[v7[d].name]
          /\ (v7[d].name \in v2' <=> v7[d].name \in v2)
      BY <1>1, <2>1, <3>1
    <3> HIDE DEF Later
    <3> QED BY <1>s, <2>1, <3>2
  <2> HIDE DEF Later
  <2>2. ASSUME NEW d \in Editors, v7'[d] # Catalogue!Idle, v7'[d].alone
        PROVE  Later(v7'[d])
    BY <1>1, <2>1, <2>2
  <2> QED BY <1>g, <2>2
<1>2. ASSUME NEW c \in Editors, NEW at, NEW back, NEW listed, NEW read,
             Turns(c, at, back, listed, read),
             \A n \in ProjectNames : n # v7[c].name =>
               v1'[n] = v1[n] /\ (n \in v2' <=> n \in v2),
             v7[c].alone => Later(v7'[c])
      PROVE  Catalogue!Made'
  <2>1. v7[c] # Catalogue!Idle /\ (\A d \in Editors : d # c => v7'[d] = v7[d])
        /\ (v7'[c].alone <=> v7[c].alone)
    BY <1>0, <1>2 DEF Turns
  <2> HIDE DEF Later
  <2> QED BY <1>1, <1>2, <2>1
<1>3. ASSUME NEW c \in Editors, v7[c] # Catalogue!Idle, v7' = [v7 EXCEPT ![c] = Catalogue!Idle],
             \A n \in ProjectNames : n # v7[c].name =>
               v1'[n] = v1[n] /\ (n \in v2' <=> n \in v2)
      PROVE  Catalogue!Made'
  <2>1. v7'[c] = Catalogue!Idle /\ (\A d \in Editors : d # c => v7'[d] = v7[d])
    BY <1>0, <1>3
  <2> HIDE DEF Later
  <2> QED BY <1>1, <1>3, <2>1
<1>4. ASSUME NEW c \in Editors, NEW kind \in Catalogue!Kinds, NEW n \in AskedOnes,
             Catalogue!Begins(c, kind, n)
      PROVE  Catalogue!Made'
  <2>1. v1' = v1 /\ v2' = v2
    BY <1>4 DEF Catalogue!Begins
  <2>2. Later(v7'[c])
    <3>1. v7'[c].at = "checks"
      BY <1>4, CatalogueBegins
    <3> QED BY <3>1
  <2>3. ASSUME NEW d \in Editors, d # c, v7'[d] # Catalogue!Idle, v7'[d].alone
        PROVE  Later(v7'[d])
    <3>1. /\ v7[d] # Catalogue!Idle /\ v7[d].alone
          /\ v7'[d].at = v7[d].at /\ v7'[d].back = v7[d].back /\ v7'[d].kind = v7[d].kind
          /\ v7'[d].name = v7[d].name /\ v7'[d].doc = v7[d].doc
      BY <1>4, <2>3, CatalogueBegins
    <3>2. E' = E
      BY <2>1
    <3> HIDE DEF E
    <3> QED BY <1>0, <2>1, <3>1, <3>2 DEF Catalogue!Result
  <2> HIDE DEF Later
  <2> QED BY <1>g, <2>2, <2>3
<1>5. ASSUME v7' = v7, v1' = v1, v2' = v2
      PROVE  Catalogue!Made'
  <2>1. E' = E
    BY <1>5
  <2> QED BY <1>0, <1>5, <1>g, <2>1
<1>6. ASSUME NEW c \in Editors, Catalogue!Checks(c)
      PROVE  Catalogue!Made'
  <2> DEFINE at == CASE v7[c].kind = "create" -> IF v7[c].name \in v4 THEN "unhides" ELSE "writes"
                     [] v7[c].kind = "update" -> "writes"
                     [] v7[c].kind = "delete" -> "unlinks"
                     [] OTHER -> "unhides"
  <2>1. Goes(c, at) /\ v1' = v1 /\ v2' = v2
    BY <1>6, CatalogueTurns DEF Catalogue!Checks
  <2>2. at \in {"unhides", "writes", "unlinks"} /\ (at = "unlinks" => v7[c].kind = "delete")
    OBVIOUS
  <2> HIDE DEF at
  <2>3. Later(v7'[c])
    BY <2>1, <2>2 DEF Goes, Turns
  <2> HIDE DEF Later
  <2> QED BY <1>2, <2>1, <2>3 DEF Goes
<1>7. ASSUME NEW c \in Editors, Catalogue!Unhides(c)
      PROVE  Catalogue!Made'
  <2>1. Goes(c, IF v7[c].kind = "create" THEN "writes" ELSE "unlinks")
    BY <1>7, CatalogueTurns
  <2>2. v1' = v1 /\ v2' = v2 \ {v7[c].name}
    BY <1>7 DEF Catalogue!Unhides
  <2>3. Later(v7'[c])
    BY <2>1, <2>2 DEF Goes, Turns
  <2> HIDE DEF Later
  <2> QED BY <1>2, <2>1, <2>2, <2>3 DEF Goes
<1>8. ASSUME NEW c \in Editors, Catalogue!Writes(c)
      PROVE  Catalogue!Made'
  <2>1. Goes(c, "lists")
    BY <1>8, CatalogueTurns
  <2>2. v1' = [v1 EXCEPT ![v7[c].name] = v7[c].doc] /\ v2' = v2 /\ v7[c].at = "writes"
    BY <1>8 DEF Catalogue!Writes, Catalogue!Under
  <2>3. v7[c].name \in ProjectNames /\ v7[c].kind \in {"create", "update"} /\ v7[c].doc > 1
    <3>1. v7[c] \in Catalogue!Request /\ v7[c] # Catalogue!Idle
      BY <2>1 DEF Goes, Turns
    <3>2. Catalogue!Lawful(v7[c]) /\ v7[c].name \in ProjectNames
      BY <1>0, <1>n, <3>1
    <3> QED BY <2>2, <3>2 DEF Catalogue!Lawful, Catalogue!AsShipped
  <2>4. E'[v7[c].name] = v7[c].doc
    <3>1. v1'[v7[c].name] = v7[c].doc /\ v7[c].doc # Catalogue!Absent
      BY <2>2, <2>3 DEF Catalogue!TypeOK, Catalogue!Absent
    <3> QED BY <2>3, <3>1 DEF Catalogue!Effective
  <2> HIDE DEF E
  <2>5. Later(v7'[c])
    BY <2>1, <2>3, <2>4 DEF Goes, Turns, Catalogue!Result
  <2> HIDE DEF Later
  <2> QED BY <1>2, <1>8, <2>1, <2>5, CatalogueTouches DEF Goes
<1>9. ASSUME NEW c \in Editors, Catalogue!Unlinks(c)
      PROVE  Catalogue!Made'
  <2>1. Goes(c, IF v7[c].kind = "delete" /\ v7[c].name \in ShippedOnes THEN "hides" ELSE "lists")
    BY <1>9, CatalogueTurns
  <2>2. v1' = [v1 EXCEPT ![v7[c].name] = Catalogue!Absent] /\ v2' = v2 /\ v7[c].at = "unlinks"
    BY <1>9 DEF Catalogue!Unlinks, Catalogue!Under
  <2>3. v7[c].name \in ProjectNames /\ v7[c].kind \in {"delete", "restore"}
        /\ (v7[c].kind = "restore" => v7[c].name \in ShippedOnes)
        /\ v7[c] # Catalogue!Idle
    BY <1>0, <2>1, <2>2 DEF Goes, Turns, Catalogue!Request, Catalogue!Lawful
  <2>4. v1'[v7[c].name] = Catalogue!Absent
    BY <2>2, <2>3 DEF Catalogue!TypeOK
  <2>5. ASSUME v7[c].alone, v7[c].kind = "restore"
        PROVE  E'[v7[c].name] = Catalogue!AsShipped
    <3>1. v7[c].name \notin v2'
      BY <1>0, <2>2, <2>3, <2>5
    <3> QED BY <2>3, <2>4, <2>5, <3>1 DEF Catalogue!Effective, Catalogue!Hidden
  <2>6. ASSUME v7[c].name \notin ShippedOnes
        PROVE  E'[v7[c].name] = Catalogue!Absent
    BY <2>3, <2>4, <2>6 DEF Catalogue!Effective
  <2> HIDE DEF E
  <2>7. ASSUME v7[c].alone
        PROVE  Later(v7'[c])
    BY <2>1, <2>3, <2>4, <2>5, <2>6, <2>7 DEF Goes, Turns, Catalogue!Result
  <2> HIDE DEF Later
  <2> QED BY <1>2, <1>9, <2>1, <2>7, CatalogueTouches DEF Goes
<1>10. ASSUME NEW c \in Editors, Catalogue!Hides(c)
      PROVE  Catalogue!Made'
  <2>1. Goes(c, "lists")
    BY <1>10, CatalogueTurns
  <2>2. v1' = v1 /\ v2' = v2 \cup {v7[c].name} /\ v7[c].at = "hides"
    BY <1>10 DEF Catalogue!Hides, Catalogue!Under
  <2>3. v7[c].name \in ProjectNames /\ v7[c].kind = "delete" /\ v7[c].name # HealthCheck
        /\ v7[c] # Catalogue!Idle
    BY <1>0, <2>1, <2>2 DEF Goes, Turns, Catalogue!Request, Catalogue!Lawful
  <2>4. ASSUME v7[c].alone
        PROVE  E'[v7[c].name] = Catalogue!Absent
    <3>1. v1'[v7[c].name] = Catalogue!Absent
      BY <1>0, <2>2, <2>3, <2>4
    <3> QED BY <2>2, <2>3, <3>1 DEF Catalogue!Effective, Catalogue!Hidden
  <2> HIDE DEF E
  <2>5. ASSUME v7[c].alone
        PROVE  Later(v7'[c])
    BY <2>1, <2>3, <2>4, <2>5 DEF Goes, Turns, Catalogue!Result
  <2> HIDE DEF Later
  <2> QED BY <1>2, <1>10, <2>1, <2>5, CatalogueTouches DEF Goes
<1>11. ASSUME NEW c \in Editors, Catalogue!TakesBack(c)
      PROVE  Catalogue!Made'
  <2>1. Turns(c, "lists", TRUE, v7[c].listed, v7[c].read)
    BY <1>11, CatalogueReads
  <2>2. Later(v7'[c])
    BY <2>1 DEF Turns
  <2> HIDE DEF Later
  <2> QED BY <1>2, <1>11, <2>1, <2>2, CatalogueTouches
<1>12. ASSUME NEW c \in Editors, v1' = v1, v2' = v2,
              NEW at \in {"reads", "tombstones", "sets", "fails", "answers", "takes back"},
              v7[c].at \in {"lists", "reads", "tombstones", "sets"} \/ at \in {"fails", "takes back"},
              NEW listed, NEW read, Turns(c, at, v7[c].back, listed, read)
      PROVE  Catalogue!Made'
  <2>1. E' = E
    BY <1>12
  <2>2. v7[c] # Catalogue!Idle
    BY <1>12 DEF Turns
  <2> HIDE DEF E
  <2>3. ASSUME v7[c].alone
        PROVE  Later(v7'[c])
    BY <1>0, <1>12, <2>1, <2>2, <2>3 DEF Turns, Catalogue!Result
  <2> HIDE DEF Later
  <2> QED BY <1>2, <1>12, <2>3
<1>13. ASSUME NEW c \in Editors, Catalogue!Lists(c) \/ Catalogue!ReadsDocuments(c)
                               \/ Catalogue!ReadsTombstones(c)
      PROVE  Catalogue!Made'
  <2>1. v1' = v1 /\ v2' = v2 /\ v7[c].at \in {"lists", "reads", "tombstones", "sets"}
    BY <1>13 DEF Catalogue!Lists, Catalogue!ReadsDocuments, Catalogue!ReadsTombstones, Catalogue!Under
  <2>2. \E at \in {"reads", "tombstones", "sets"} : \E listed, read :
          Turns(c, at, v7[c].back, listed, read)
    BY <1>13, CatalogueReads
  <2> QED BY <1>12, <2>1, <2>2
<1>14. ASSUME NEW c \in Editors, Catalogue!SetsProfiles(c) \/ Catalogue!Raises(c)
      PROVE  Catalogue!Made'
  <2>1. /\ v1' = v1 /\ v2' = v2
        /\ v7[c].at \in {"lists", "reads", "tombstones", "sets"} \/ Catalogue!Raises(c)
    BY <1>14 DEF Catalogue!SetsProfiles, Catalogue!Raises, Catalogue!Under
  <2>2. \E at \in {"fails", "answers", "takes back"} : \E listed, read :
          /\ Turns(c, at, v7[c].back, listed, read)
          /\ v7[c].at \in {"lists", "reads", "tombstones", "sets"} \/ at \in {"fails", "takes back"}
    BY <1>14, <2>1, CatalogueReads, CatalogueTurns DEF Goes
  <2> QED BY <1>12, <2>1, <2>2
<1>15. ASSUME NEW c \in Editors, v7[c] # Catalogue!Idle, v7' = [v7 EXCEPT ![c] = Catalogue!Idle],
              Catalogue!Refused(c) \/ Catalogue!Answers(c) \/ Catalogue!Fails(c)
      PROVE  Catalogue!Made'
  BY <1>3, <1>15, CatalogueTouches
<1>16. ASSUME \A c \in Editors : v7'[c] = Catalogue!Idle
      PROVE  Catalogue!Made'
  BY <1>16 DEF Catalogue!Made
<1>17. CASE Catalogue!Crash \/ (\E n \in ProjectNames \ {HealthCheck} : Catalogue!Edits(n))
  BY <1>16, <1>17 DEF Catalogue!Crash, Catalogue!Edits
<1>18. CASE Catalogue!Restart \/ UNCHANGED Catalogue!vars
  BY <1>5, <1>18 DEF Catalogue!Restart, Catalogue!vars
<1> HIDE DEF Fine, Later, E, Catalogue!disk, Catalogue!memory
<1> QED
  BY CatalogueSteps, <1>4, <1>6, <1>7, <1>8, <1>9, <1>10, <1>11, <1>13, <1>14, <1>15, <1>17, <1>18

(* A project nobody changes stays as it was answered.                      *)
LEMMA CatalogueKept ==
  ASSUME Catalogue!Inductive, [Catalogue!Next]_(Catalogue!vars)
  PROVE  Catalogue!Kept'
<1> SUFFICES ASSUME Catalogue!TypeOK, Catalogue!RequestsLawful, Catalogue!Made, Catalogue!Kept
             PROVE  Catalogue!Kept'
  BY DEF Catalogue!Inductive
<1> USE ProjectsAssumption
<1> USE DEF Catalogue!disk, Catalogue!memory
<1> DEFINE E == Catalogue!Effective(v1, v2)
           Still(n) == \A c \in Editors : v7[c] # Catalogue!Idle /\ v7[c].name = n => v7[c].at = "checks"
           Yet(n) == \A c \in Editors : v7'[c] # Catalogue!Idle /\ v7'[c].name = n => v7'[c].at = "checks"
<1>0. /\ \A n \in ProjectNames \ v11 : Still(n) => E[n] = v10[n]
      /\ v7 \in [Editors -> {Catalogue!Idle} \cup Catalogue!Request]
  BY DEF Catalogue!Kept, Catalogue!RequestsLawful
<1>g. ASSUME \A n \in ProjectNames \ v11' : Yet(n) => E'[n] = v10'[n]
      PROVE  Catalogue!Kept'
  BY <1>g DEF Catalogue!Kept
<1>1. ASSUME NEW n \in ProjectNames, v1'[n] = v1[n], n \in v2' <=> n \in v2, n \notin v11,
             v10'[n] = v10[n], Still(n)
      PROVE  E'[n] = v10'[n]
  <2>1. E'[n] = E[n]
    BY <1>1, CatalogueSame
  <2> HIDE DEF E, Still
  <2> QED BY <1>0, <1>1, <2>1
<1>2. ASSUME NEW c \in Editors, v7[c] # Catalogue!Idle,
             \A d \in Editors : d # c => v7'[d] = v7[d],
             \/ Catalogue!Refused(c) \/ Catalogue!Answers(c) \/ Catalogue!Fails(c)
             \/ Catalogue!Checks(c) \/ Catalogue!Unhides(c) \/ Catalogue!Writes(c)
             \/ Catalogue!Unlinks(c) \/ Catalogue!Hides(c) \/ Catalogue!Lists(c)
             \/ Catalogue!ReadsDocuments(c) \/ Catalogue!ReadsTombstones(c)
             \/ Catalogue!SetsProfiles(c) \/ Catalogue!Raises(c) \/ Catalogue!TakesBack(c),
             v7[c].name \in ProjectNames \ v11' /\ Yet(v7[c].name) =>
               E'[v7[c].name] = v10'[v7[c].name]
      PROVE  Catalogue!Kept'
  <2>1. ASSUME NEW n \in ProjectNames \ v11', Yet(n), n # v7[c].name
        PROVE  E'[n] = v10'[n]
    <3>1. v1'[n] = v1[n] /\ (n \in v2' <=> n \in v2) /\ (n \in v11' <=> n \in v11) /\ v10'[n] = v10[n]
      BY <1>2, <2>1, CatalogueTouches
    <3>2. Still(n)
      BY <1>2, <2>1
    <3> HIDE DEF E, Still, Yet
    <3> QED BY <1>1, <2>1, <3>1, <3>2
  <2> HIDE DEF E, Still, Yet
  <2> QED BY <1>2, <1>g, <2>1
<1>3. ASSUME NEW c \in Editors, NEW at \in Catalogue!Stages \ {"checks"}, NEW back, NEW listed,
             NEW read, Turns(c, at, back, listed, read),
             \/ Catalogue!Checks(c) \/ Catalogue!Unhides(c) \/ Catalogue!Writes(c)
             \/ Catalogue!Unlinks(c) \/ Catalogue!Hides(c) \/ Catalogue!Lists(c)
             \/ Catalogue!ReadsDocuments(c) \/ Catalogue!ReadsTombstones(c)
             \/ Catalogue!SetsProfiles(c) \/ Catalogue!Raises(c) \/ Catalogue!TakesBack(c)
      PROVE  Catalogue!Kept'
  <2>1. v7[c] # Catalogue!Idle /\ (\A d \in Editors : d # c => v7'[d] = v7[d])
    BY <1>0, <1>3 DEF Turns
  <2>2. ~Yet(v7[c].name)
    BY <1>3 DEF Turns
  <2> HIDE DEF E, Still, Yet
  <2> QED BY <1>2, <1>3, <2>1, <2>2
<1>4. ASSUME NEW c \in Editors, v7[c] # Catalogue!Idle, v7[c] \in Catalogue!Request,
             v7' = [v7 EXCEPT ![c] = Catalogue!Idle], Catalogue!Refused(c)
      PROVE  Catalogue!Kept'
  <2> DEFINE n == v7[c].name
  <2>1. \A d \in Editors : d # c => v7'[d] = v7[d]
    BY <1>0, <1>4
  <2>2. UNCHANGED <<v1, v2, v10, v11>> /\ v7[c].at = "checks"
    BY <1>4 DEF Catalogue!Refused, Catalogue!Under
  <2>3. ASSUME n \in ProjectNames \ v11', Yet(n)
        PROVE  E'[n] = v10'[n]
    <3>1. Still(n)
      BY <2>1, <2>2, <2>3
    <3> HIDE DEF E, Still, Yet
    <3> QED BY <1>1, <2>2, <2>3, <3>1
  <2> HIDE DEF E, Still, Yet
  <2> QED BY <1>2, <1>4, <2>1, <2>3
<1>5. ASSUME NEW c \in Editors, v7[c] # Catalogue!Idle, v7[c] \in Catalogue!Request,
             v7' = [v7 EXCEPT ![c] = Catalogue!Idle], Catalogue!Answers(c)
      PROVE  Catalogue!Kept'
  <2> DEFINE n == v7[c].name
  <2>1. \A d \in Editors : d # c => v7'[d] = v7[d]
    BY <1>0, <1>5
  <2>2. v1' = v1 /\ v2' = v2 /\ v7[c].at = "answers"
        /\ v11' = (IF v7[c].alone THEN v11 \ {n} ELSE v11 \cup {n})
    BY <1>5 DEF Catalogue!Answers, Catalogue!Under
  <2>3. ASSUME n \in ProjectNames \ v11'
        PROVE  E'[n] = v10'[n]
    <3>1. v7[c].alone
      BY <2>2, <2>3
    <3>2. ~v7[c].back
      BY <1>5, <2>2 DEF Catalogue!RequestsLawful, Catalogue!Lawful
    <3>3. E[n] = Catalogue!Result(v7[c])
      BY <1>5, <2>2, <3>1, <3>2 DEF Catalogue!Made
    <3>4. E' = E
      BY <2>2
    <3>5. v10 \in [ProjectNames -> Catalogue!Absent .. Catalogue!Broken]
      BY DEF Catalogue!RequestsLawful
    <3>6. v10'[n] = Catalogue!Result(v7[c])
      BY <1>5, <2>3, <3>5 DEF Catalogue!Answers, Catalogue!Result
    <3> HIDE DEF E
    <3> QED BY <3>3, <3>4, <3>6
  <2> HIDE DEF E, Still, Yet
  <2> QED BY <1>2, <1>5, <2>1, <2>3
<1>6. ASSUME NEW c \in Editors, v7[c] # Catalogue!Idle, v7[c] \in Catalogue!Request,
             v7' = [v7 EXCEPT ![c] = Catalogue!Idle], Catalogue!Fails(c)
      PROVE  Catalogue!Kept'
  <2>1. \A d \in Editors : d # c => v7'[d] = v7[d]
    BY <1>0, <1>6
  <2>2. v7[c].name \in v11'
    BY <1>6 DEF Catalogue!Fails
  <2> HIDE DEF E, Still, Yet
  <2> QED BY <1>2, <1>6, <2>1, <2>2
<1>7. ASSUME NEW c \in Editors, NEW kind \in Catalogue!Kinds, NEW n \in AskedOnes,
             Catalogue!Begins(c, kind, n)
      PROVE  Catalogue!Kept'
  <2>1. UNCHANGED <<v1, v2, v10, v11>>
    BY <1>7 DEF Catalogue!Begins
  <2>2. /\ v7[c] = Catalogue!Idle
        /\ \A d \in Editors : d # c => (v7'[d] = Catalogue!Idle <=> v7[d] = Catalogue!Idle)
        /\ \A d \in Editors : d # c /\ v7[d] # Catalogue!Idle =>
             v7'[d].name = v7[d].name /\ v7'[d].at = v7[d].at
    BY <1>7, CatalogueBegins
  <2>3. ASSUME NEW m \in ProjectNames \ v11', Yet(m)
        PROVE  E'[m] = v10'[m]
    <3>1. Still(m)
      BY <2>2, <2>3
    <3> HIDE DEF E, Still, Yet
    <3> QED BY <1>1, <2>1, <2>3, <3>1
  <2> HIDE DEF E, Still, Yet
  <2> QED BY <1>g, <2>3
<1>8. ASSUME NEW n \in ProjectNames \ {HealthCheck}, Catalogue!Edits(n)
      PROVE  Catalogue!Kept'
  <2>1. v2' = v2 /\ v7' = v7 /\ v10' = v10 /\ v11' = v11 \cup {n}
        /\ (v1' = [v1 EXCEPT ![n] = Catalogue!Broken] \/ v1' = [v1 EXCEPT ![n] = Catalogue!Absent])
    BY <1>8 DEF Catalogue!Edits
  <2>2. ASSUME NEW m \in ProjectNames \ v11', Yet(m)
        PROVE  E'[m] = v10'[m]
    <3>1. v1'[m] = v1[m] /\ m \notin v11
      BY <2>1, <2>2 DEF Catalogue!TypeOK
    <3>2. Still(m)
      BY <2>1, <2>2
    <3> HIDE DEF E, Still, Yet
    <3> QED BY <1>1, <2>1, <2>2, <3>1, <3>2
  <2> HIDE DEF E, Still, Yet
  <2> QED BY <1>g, <2>2
<1>9. CASE Catalogue!Crash
  <2>1. UNCHANGED <<v1, v2, v10>>
        /\ v11' = v11 \cup {n \in ProjectNames : \E c \in Editors : /\ v7[c] # Catalogue!Idle
                                                                /\ v7[c].at # "checks"
                                                                /\ v7[c].name = n}
    BY <1>9 DEF Catalogue!Crash
  <2>2. ASSUME NEW m \in ProjectNames \ v11'
        PROVE  E'[m] = v10'[m]
    <3>1. Still(m) /\ m \notin v11
      BY <2>1, <2>2
    <3> HIDE DEF E, Still, Yet
    <3> QED BY <1>1, <2>1, <2>2, <3>1
  <2> HIDE DEF E, Still, Yet
  <2> QED BY <1>g, <2>2
<1>10. CASE Catalogue!Restart \/ UNCHANGED Catalogue!vars
  <2>1. UNCHANGED <<v1, v2, v7, v10, v11>>
    BY <1>10 DEF Catalogue!Restart, Catalogue!vars
  <2>2. ASSUME NEW m \in ProjectNames \ v11', Yet(m)
        PROVE  E'[m] = v10'[m]
    <3>1. Still(m)
      BY <2>1, <2>2
    <3> HIDE DEF E, Still, Yet
    <3> QED BY <1>1, <2>1, <2>2, <3>1
  <2> HIDE DEF E, Still, Yet
  <2> QED BY <1>g, <2>2
<1> HIDE DEF E, Still, Yet, Catalogue!disk, Catalogue!memory
<1> QED BY CatalogueSteps, <1>3, <1>4, <1>5, <1>6, <1>7, <1>8, <1>9, <1>10

(* A request that met none reads what the files say.                       *)
LEMMA CatalogueReadWhole ==
  ASSUME Catalogue!Inductive, [Catalogue!Next]_(Catalogue!vars)
  PROVE  Catalogue!ReadWhole'
<1> SUFFICES ASSUME Catalogue!TypeOK, Catalogue!RequestsLawful, Catalogue!Apart, Catalogue!ReadWhole
             PROVE  Catalogue!ReadWhole'
  BY DEF Catalogue!Inductive
<1> USE ProjectsAssumption
<1> USE DEF Catalogue!disk, Catalogue!memory
<1> DEFINE Later(q) ==
             /\ q.at = "reads" => q.listed = {n \in ProjectNames : v1'[n] # Catalogue!Absent}
             /\ q.at = "tombstones" => q.read = v1'
             /\ q.at = "sets" => /\ q.read = Catalogue!Effective(v1', v2')
                                /\ v4' = Catalogue!Hidden(v1', v2') /\ v5' = Catalogue!Overridden(v1')
<1>g. ASSUME \A c \in Editors : v7'[c] # Catalogue!Idle /\ v7'[c].single => Later(v7'[c])
      PROVE  Catalogue!ReadWhole'
  BY <1>g DEF Catalogue!ReadWhole, Catalogue!Effective, Catalogue!Hidden, Catalogue!Overridden
<1>0. v7 \in [Editors -> {Catalogue!Idle} \cup Catalogue!Request]
  BY DEF Catalogue!RequestsLawful
<1>1. ASSUME NEW c \in Editors, NEW at, NEW back, NEW listed, NEW read,
             Turns(c, at, back, listed, read), v7[c].single => Later(v7'[c])
      PROVE  Catalogue!ReadWhole'
  <2>1. v7[c] # Catalogue!Idle /\ (\A d \in Editors : d # c => v7'[d] = v7[d])
        /\ (v7'[c].single <=> v7[c].single)
    BY <1>0, <1>1 DEF Turns
  <2>2. \A d \in Editors : d # c /\ v7[d] # Catalogue!Idle => ~v7[d].single
    BY <2>1 DEF Catalogue!Apart
  <2> HIDE DEF Later
  <2> QED BY <1>1, <1>g, <2>1, <2>2
<1>2. ASSUME NEW c \in Editors, v7[c] # Catalogue!Idle, v7' = [v7 EXCEPT ![c] = Catalogue!Idle]
      PROVE  Catalogue!ReadWhole'
  <2>1. v7'[c] = Catalogue!Idle /\ (\A d \in Editors : d # c => v7'[d] = v7[d])
    BY <1>0, <1>2
  <2>2. \A d \in Editors : d # c /\ v7[d] # Catalogue!Idle => ~v7[d].single
    BY <1>2 DEF Catalogue!Apart
  <2> HIDE DEF Later
  <2> QED BY <1>g, <2>1, <2>2
<1>3. ASSUME NEW c \in Editors, NEW kind \in Catalogue!Kinds, NEW n \in AskedOnes,
             Catalogue!Begins(c, kind, n)
      PROVE  Catalogue!ReadWhole'
  <2>1. /\ v7'[c].at = "checks"
        /\ \A d \in Editors : d # c => (v7'[d] = Catalogue!Idle <=> v7[d] = Catalogue!Idle)
        /\ \A d \in Editors : d # c /\ v7[d] # Catalogue!Idle => ~v7'[d].single
    BY <1>3, CatalogueBegins
  <2>2. Later(v7'[c])
    BY <2>1
  <2> HIDE DEF Later
  <2> QED BY <1>g, <2>1, <2>2
<1>4. ASSUME NEW c \in Editors,
             \/ Catalogue!Checks(c) \/ Catalogue!Unhides(c) \/ Catalogue!Writes(c)
             \/ Catalogue!Unlinks(c) \/ Catalogue!Hides(c) \/ Catalogue!SetsProfiles(c)
             \/ Catalogue!Raises(c) \/ Catalogue!TakesBack(c)
      PROVE  Catalogue!ReadWhole'
  <2>1. \E at \in {"unhides", "writes", "unlinks", "hides", "lists", "takes back", "answers", "fails"} :
          \E back, listed, read : Turns(c, at, back, listed, read)
    <3> DEFINE Q(at) == \E back, listed, read : Turns(c, at, back, listed, read)
    <3>1. CASE Catalogue!Checks(c) \/ Catalogue!Unhides(c)
      <4>1. Q("unhides") \/ Q("writes") \/ Q("unlinks")
        BY <3>1, CatalogueTurns DEF Goes
      <4> QED BY <4>1
    <3>2. CASE Catalogue!Writes(c) \/ Catalogue!Unlinks(c) \/ Catalogue!Hides(c)
      <4>1. Q("lists") \/ Q("hides")
        BY <3>2, CatalogueTurns DEF Goes
      <4> QED BY <4>1
    <3>3. CASE Catalogue!Raises(c)
      <4>1. Q("takes back") \/ Q("fails")
        BY <3>3, CatalogueTurns DEF Goes
      <4> QED BY <4>1
    <3>4. CASE Catalogue!SetsProfiles(c) \/ Catalogue!TakesBack(c)
      <4>1. Q("fails") \/ Q("answers") \/ Q("lists")
        BY <3>4, CatalogueReads
      <4> QED BY <4>1
    <3> QED BY <1>4, <3>1, <3>2, <3>3, <3>4
  <2>2. PICK at \in {"unhides", "writes", "unlinks", "hides", "lists", "takes back", "answers", "fails"} :
          \E back, listed, read : Turns(c, at, back, listed, read)
    BY <2>1
  <2>3. Later(v7'[c])
    BY <2>2 DEF Turns
  <2> HIDE DEF Later
  <2> QED BY <1>1, <2>2, <2>3
<1>5. ASSUME NEW c \in Editors, Catalogue!Lists(c)
      PROVE  Catalogue!ReadWhole'
  <2>1. Turns(c, "reads", v7[c].back, {n \in ProjectNames : v1[n] # Catalogue!Absent}, v7[c].read)
    BY <1>5, CatalogueReads
  <2>2. v1' = v1
    BY <1>5 DEF Catalogue!Lists
  <2>3. Later(v7'[c])
    BY <2>1, <2>2 DEF Turns
  <2> HIDE DEF Later
  <2> QED BY <1>1, <2>1, <2>3
<1>6. ASSUME NEW c \in Editors, Catalogue!ReadsDocuments(c)
      PROVE  Catalogue!ReadWhole'
  <2>1. Turns(c, "tombstones", v7[c].back, {},
              [n \in ProjectNames |-> IF n \in v7[c].listed THEN v1[n] ELSE Catalogue!Absent])
    BY <1>6, CatalogueReads
  <2>2. v1' = v1 /\ v7[c].at = "reads" /\ v7[c] # Catalogue!Idle
    BY <1>6, <2>1 DEF Catalogue!ReadsDocuments, Catalogue!Under, Turns
  <2>3. ASSUME v7[c].single
        PROVE  Later(v7'[c])
    <3>1. v7[c].listed = {n \in ProjectNames : v1[n] # Catalogue!Absent}
      BY <2>2, <2>3 DEF Catalogue!ReadWhole
    <3>2. v1 = [n \in ProjectNames |-> v1[n]]
      BY DEF Catalogue!TypeOK
    <3>3. \A n \in ProjectNames : (IF n \in v7[c].listed THEN v1[n] ELSE Catalogue!Absent) = v1[n]
      BY <3>1
    <3>4. [n \in ProjectNames |-> IF n \in v7[c].listed THEN v1[n] ELSE Catalogue!Absent] = v1
      BY <3>2, <3>3
    <3> QED BY <2>1, <2>2, <3>4 DEF Turns
  <2> HIDE DEF Later
  <2> QED BY <1>1, <2>1, <2>3
<1>7. ASSUME NEW c \in Editors, Catalogue!ReadsTombstones(c)
      PROVE  Catalogue!ReadWhole'
  <2>1. Turns(c, "sets", v7[c].back, v7[c].listed, Catalogue!Effective(v7[c].read, v2))
    BY <1>7, CatalogueReads
  <2>2. /\ v1' = v1 /\ v2' = v2 /\ v7[c].at = "tombstones" /\ v7[c] # Catalogue!Idle
        /\ v4' = Catalogue!Hidden(v7[c].read, v2) /\ v5' = Catalogue!Overridden(v7[c].read)
    BY <1>7, <2>1 DEF Catalogue!ReadsTombstones, Catalogue!Under, Turns
  <2>3. ASSUME v7[c].single
        PROVE  Later(v7'[c])
    <3>1. v7[c].read = v1
      BY <2>2, <2>3 DEF Catalogue!ReadWhole
    <3>2. v7'[c].at = "sets" /\ v7'[c].read = Catalogue!Effective(v1, v2)
      BY <2>1, <3>1 DEF Turns
    <3> QED BY <2>2, <3>1, <3>2
  <2> HIDE DEF Later
  <2> QED BY <1>1, <2>1, <2>3
<1>8. ASSUME \A c \in Editors : v7'[c] = Catalogue!Idle
      PROVE  Catalogue!ReadWhole'
  BY <1>8 DEF Catalogue!ReadWhole
<1>9. CASE Catalogue!Crash \/ Catalogue!Restart \/ \E n \in ProjectNames \ {HealthCheck} : Catalogue!Edits(n)
  BY <1>8, <1>9 DEF Catalogue!Crash, Catalogue!Edits, Catalogue!Restart, Catalogue!RequestsLawful
<1>10. CASE UNCHANGED Catalogue!vars
  BY <1>10 DEF Catalogue!vars, Catalogue!ReadWhole, Catalogue!Effective, Catalogue!Hidden,
     Catalogue!Overridden
<1> HIDE DEF Later, Catalogue!disk, Catalogue!memory
<1> QED BY CatalogueSteps, <1>2, <1>3, <1>4, <1>5, <1>6, <1>7, <1>9, <1>10

(* Memory is what such a request has read.                                 *)
LEMMA CatalogueRuns ==
  ASSUME Catalogue!Inductive, [Catalogue!Next]_(Catalogue!vars)
  PROVE  Catalogue!Runs'
<1> SUFFICES ASSUME Catalogue!TypeOK, Catalogue!RequestsLawful, Catalogue!ReadWhole, Catalogue!Runs
             PROVE  Catalogue!Runs'
  BY DEF Catalogue!Inductive
<1> USE DEF Catalogue!disk, Catalogue!memory
<1> DEFINE Calm == {"idle", "checks", "answers", "fails"}
<1>0. /\ v7 \in [Editors -> {Catalogue!Idle} \cup Catalogue!Request]
      /\ \A c \in Editors : v7[c] = Catalogue!Idle => v7[c].at = "idle"
  BY DEF Catalogue!RequestsLawful, Catalogue!Idle
<1>1. ASSUME UNCHANGED <<v1, v2, v3, v4, v5, v6, v12>>,
             \A c \in Editors : v7'[c].at \in Calm => v7[c].at \in Calm
      PROVE  Catalogue!Runs'
  BY <1>1 DEF Catalogue!Runs, Catalogue!Effective, Catalogue!Hidden, Catalogue!Overridden
<1>2. ASSUME NEW c \in Editors, v7'[c].at \notin Calm
      PROVE  Catalogue!Runs'
  BY <1>2 DEF Catalogue!Runs
<1>3. ASSUME NEW c \in Editors,
             \/ Catalogue!Checks(c) \/ Catalogue!Unhides(c) \/ Catalogue!Writes(c)
             \/ Catalogue!Unlinks(c) \/ Catalogue!Hides(c) \/ Catalogue!Lists(c)
             \/ Catalogue!ReadsDocuments(c) \/ Catalogue!ReadsTombstones(c) \/ Catalogue!TakesBack(c)
      PROVE  Catalogue!Runs'
  <2> DEFINE Q(at) == \E back, listed, read : Turns(c, at, back, listed, read)
  <2>1. CASE Catalogue!Checks(c) \/ Catalogue!Unhides(c)
    <3>1. Q("unhides") \/ Q("writes") \/ Q("unlinks")
      BY <2>1, CatalogueTurns DEF Goes
    <3> QED BY <1>2, <3>1 DEF Turns
  <2>2. CASE Catalogue!Writes(c) \/ Catalogue!Unlinks(c) \/ Catalogue!Hides(c)
    <3>1. Q("lists") \/ Q("hides")
      BY <2>2, CatalogueTurns DEF Goes
    <3> QED BY <1>2, <3>1 DEF Turns
  <2>3. CASE Catalogue!Lists(c) \/ Catalogue!ReadsDocuments(c)
    <3>1. Q("reads") \/ Q("tombstones")
      BY <2>3, CatalogueReads
    <3> QED BY <1>2, <3>1 DEF Turns
  <2>4. CASE Catalogue!ReadsTombstones(c) \/ Catalogue!TakesBack(c)
    <3>1. Q("sets") \/ Q("lists")
      BY <2>4, CatalogueReads
    <3> QED BY <1>2, <3>1 DEF Turns
  <2> QED BY <1>3, <2>1, <2>2, <2>3, <2>4
<1>4. ASSUME NEW c \in Editors, Catalogue!SetsProfiles(c)
      PROVE  Catalogue!Runs'
  <2>1. /\ v1' = v1 /\ v2' = v2 /\ v4' = v4 /\ v5' = v5 /\ v3' = v7[c].read
        /\ (v12' <=> ~v7[c].single) /\ v7[c].at = "sets"
    BY <1>4 DEF Catalogue!SetsProfiles, Catalogue!Under
  <2>2. v7[c] # Catalogue!Idle
    BY <2>1 DEF Catalogue!Idle
  <2>3. ASSUME v7[c].single
        PROVE  /\ v7[c].read = Catalogue!Effective(v1, v2)
               /\ v4 = Catalogue!Hidden(v1, v2) /\ v5 = Catalogue!Overridden(v1)
    BY <2>1, <2>2, <2>3 DEF Catalogue!ReadWhole
  <2> QED BY <2>1, <2>3 DEF Catalogue!Runs, Catalogue!Effective, Catalogue!Hidden, Catalogue!Overridden
<1>5. ASSUME NEW c \in Editors, v7[c] # Catalogue!Idle, v7' = [v7 EXCEPT ![c] = Catalogue!Idle],
             Catalogue!Refused(c) \/ Catalogue!Answers(c) \/ Catalogue!Fails(c)
      PROVE  Catalogue!Runs'
  <2>1. UNCHANGED <<v1, v2, v3, v4, v5, v6, v12>> /\ v7[c].at \in Calm
    BY <1>5 DEF Catalogue!Refused, Catalogue!Answers, Catalogue!Fails, Catalogue!Under
  <2>2. \A d \in Editors : d # c => v7'[d] = v7[d]
    BY <1>0, <1>5
  <2> HIDE DEF Calm
  <2> QED BY <1>1, <2>1, <2>2
<1>6. ASSUME NEW c \in Editors, NEW kind \in Catalogue!Kinds, NEW n \in AskedOnes,
             Catalogue!Begins(c, kind, n)
      PROVE  Catalogue!Runs'
  <2>1. UNCHANGED <<v1, v2, v3, v4, v5, v6, v12>>
    BY <1>6 DEF Catalogue!Begins
  <2>2. /\ v7[c] = Catalogue!Idle
        /\ \A d \in Editors : d # c /\ v7[d] # Catalogue!Idle => v7'[d].at = v7[d].at
    BY <1>6, CatalogueBegins
  <2>3. \A d \in Editors : v7'[d].at \in Calm => v7[d].at \in Calm
    BY <1>0, <2>2
  <2> HIDE DEF Calm
  <2> QED BY <1>1, <2>1, <2>3
<1>7. CASE Catalogue!Crash \/ (\E c \in Editors : Catalogue!Raises(c))
           \/ (\E n \in ProjectNames \ {HealthCheck} : Catalogue!Edits(n))
  BY <1>7 DEF Catalogue!Crash, Catalogue!Raises, Catalogue!Edits, Catalogue!Runs
<1>8. CASE Catalogue!Restart
  BY <1>8 DEF Catalogue!Restart, Catalogue!Runs, Catalogue!Effective, Catalogue!Hidden,
     Catalogue!Overridden
<1>9. CASE UNCHANGED Catalogue!vars
  BY <1>1, <1>9 DEF Catalogue!vars
<1> HIDE DEF Calm, Catalogue!disk, Catalogue!memory
<1> QED BY CatalogueSteps, <1>3, <1>4, <1>5, <1>6, <1>7, <1>8, <1>9

LEMMA CatalogueInductive ==
  ASSUME Catalogue!Inductive, [Catalogue!Next]_(Catalogue!vars)
  PROVE  Catalogue!Inductive'
BY CatalogueTypes, CatalogueLawful, CatalogueApart, CatalogueMade, CatalogueKept, CatalogueReadWhole,
   CatalogueRuns DEF Catalogue!Inductive

LEMMA CatalogueRight ==
  ASSUME Catalogue!Inductive
  PROVE  Catalogue!AnswersAreKept /\ Catalogue!RunsWhatIsWritten
<1>1. Catalogue!AnswersAreKept
  BY DEF Catalogue!Inductive, Catalogue!Kept, Catalogue!AnswersAreKept, Catalogue!Busy
<1>2. Catalogue!RunsWhatIsWritten
  BY DEF Catalogue!Inductive, Catalogue!Runs, Catalogue!RunsWhatIsWritten, Catalogue!Idle
<1> QED BY <1>1, <1>2

-----------------------------------------------------------------------------
(* The grants of a portal (Dispatcher): the loops of its plan, then its steps. *)

(* What a set has of 0, and of each number if it has it of the one before, it has up to N.  *)
LEMMA UpTo ==
  ASSUME NEW N \in Nat, NEW S, 0 \in S, \A i \in 1 .. N : i - 1 \in S => i \in S
  PROVE  \A i \in 0 .. N : i \in S
<1> DEFINE R == OpToRel(<, Nat)
           T == {i \in 0 .. N : i \notin S}
<1> SUFFICES ASSUME T # {} PROVE FALSE
  OBVIOUS
<1>1. IsWellFoundedOn(R, Nat)
  BY NatLessThanWellFounded
<1>2. \A x, y \in Nat : y < x => <<y, x>> \in R
  BY DEF OpToRel
<1>3. T \subseteq Nat
  OBVIOUS
<1> HIDE DEF R
<1>4. PICK m \in T : \A k \in T : <<k, m>> \notin R
  <2> HIDE DEF T
  <2> QED BY <1>1, <1>3, WFMin
<1>5. m # 0 /\ m - 1 \in 0 .. N /\ m - 1 < m
  OBVIOUS
<1>6. m - 1 \in T
  BY <1>5
<1>7. m \in Nat /\ m - 1 \in Nat
  BY <1>5
<1> HIDE DEF T
<1> QED BY <1>2, <1>4, <1>5, <1>6, <1>7

(* The least of some numbers is one of them.                                   *)
LEMMA LeastIsOne ==
  ASSUME NEW S, S \subseteq Nat, S # {}
  PROVE  Portal!Min(S) \in S
<1> DEFINE R == OpToRel(<, Nat)
<1>1. IsWellFoundedOn(R, Nat)
  BY NatLessThanWellFounded
<1>2. \A x, y \in Nat : y < x => <<y, x>> \in R
  BY DEF OpToRel
<1> HIDE DEF R
<1>3. PICK m \in S : \A k \in S : <<k, m>> \notin R
  BY <1>1, WFMin
<1>4. ASSUME NEW k \in S
      PROVE  m <= k
  <2>1. k \in Nat /\ m \in Nat /\ <<k, m>> \notin R
    BY <1>3
  <2> QED BY <1>2, <2>1
<1> QED BY <1>4 DEF Portal!Min

LEMMA LeastOfTwo ==
  ASSUME NEW a \in Int, NEW b \in Int
  PROVE  Portal!Min({a, b}) \in Int /\ Portal!Min({a, b}) <= a /\ Portal!Min({a, b}) <= b
<1>1. \E m \in {a, b} : \A k \in {a, b} : m <= k
  <2>1. CASE a <= b
    BY <2>1
  <2>2. CASE b <= a
    BY <2>2
  <2> QED BY <2>1, <2>2
<1> QED BY <1>1 DEF Portal!Min

LEMMA AtLeastOne ==
  ASSUME NEW a \in Int
  PROVE  Portal!Max({1, a}) \in Nat /\ Portal!Max({1, a}) >= 1
<1>1. \E m \in {1, a} : \A k \in {1, a} : m >= k
  <2>1. CASE a <= 1
    BY <2>1
  <2>2. CASE 1 <= a
    BY <2>2
  <2> QED BY <2>1, <2>2
<1> QED BY <1>1 DEF Portal!Max

Keeping(f, N, s, S) ==
  f = [i \in 0 .. N |-> IF i = 0 THEN <<>> ELSE IF s[i] \in S THEN Append(f[i - 1], s[i]) ELSE f[i - 1]]

(* A loop over a sequence that keeps some of it has a value after each turn.   *)
LEMMA OnlyTurns ==
  ASSUME NEW N \in Nat, NEW s, NEW S
  PROVE  \E f : Keeping(f, N, s, S)
<1> DEFINE Step(i, t) == IF s[i] \in S THEN Append(t, s[i]) ELSE t
           Upto(n) == \E f : f = [i \in 0 .. n |-> IF i = 0 THEN <<>> ELSE Step(i, f[i - 1])]
           Good == {k \in 0 .. N : Upto(k)}
<1> HIDE DEF Step
<1>1. Upto(0)
  <2>1. [i \in 0 .. 0 |-> <<>>] = [i \in 0 .. 0 |-> IF i = 0 THEN <<>> ELSE Step(i, [j \in 0 .. 0 |-> <<>>][i - 1])]
    OBVIOUS
  <2> QED BY <2>1
<1>2. ASSUME NEW n \in 1 .. N, Upto(n - 1)
      PROVE  Upto(n)
  <2>1. PICK f : f = [i \in 0 .. n - 1 |-> IF i = 0 THEN <<>> ELSE Step(i, f[i - 1])]
    BY <1>2
  <2> DEFINE g == [i \in 0 .. n |-> IF i = n THEN Step(n, f[n - 1]) ELSE f[i]]
  <2>2. ASSUME NEW i \in 0 .. n
        PROVE  g[i] = IF i = 0 THEN <<>> ELSE Step(i, g[i - 1])
    BY <2>1
  <2>3. g = [i \in 0 .. n |-> IF i = 0 THEN <<>> ELSE Step(i, g[i - 1])]
    BY <2>2
  <2> QED BY <2>3
<1> HIDE DEF Upto
<1>3. 0 \in Good
  BY <1>1
<1>4. \A i \in 1 .. N : i - 1 \in Good => i \in Good
  BY <1>2
<1>5. N \in Good
  <2> HIDE DEF Good
  <2> QED BY <1>3, <1>4, UpTo
<1> QED BY <1>5 DEF Step, Upto, Keeping

(* What is kept of a sequence are its elements that are to be kept, each as often and in  *)
(* the same order.                                                                         *)
LEMMA OnlyRight ==
  ASSUME NEW T, NEW s \in Seq(T), NEW S
  PROVE  /\ Portal!Only(s, S) \in Seq(T)
         /\ Portal!ToSet(Portal!Only(s, S)) = {x \in Portal!ToSet(s) : x \in S}
         /\ (\A i, k \in DOMAIN s : i # k => s[i] # s[k]) =>
              LET o == Portal!Only(s, S) IN \A i, k \in DOMAIN o : i # k => o[i] # o[k]
<1> DEFINE N == Len(s)
           f == CHOOSE h : h = [i \in 0 .. N |->
                     IF i = 0 THEN <<>> ELSE IF s[i] \in S THEN Append(h[i - 1], s[i]) ELSE h[i - 1]]
<1>1. N \in Nat /\ DOMAIN s = 1 .. N /\ \A i \in 1 .. N : s[i] \in T
  OBVIOUS
<1>2. f = [i \in 0 .. N |-> IF i = 0 THEN <<>> ELSE IF s[i] \in S THEN Append(f[i - 1], s[i]) ELSE f[i - 1]]
  <2> HIDE DEF N, f
  <2>1. \E h : Keeping(h, N, s, S)
    BY <1>1, OnlyTurns
  <2> QED BY <2>1 DEF f, Keeping
<1>3. Portal!Only(s, S) = f[N]
  BY DEF Portal!Only
<1> HIDE DEF f, N
<1>8. ASSUME NEW i \in 0 .. N
      PROVE  f[i] = IF i = 0 THEN <<>> ELSE IF s[i] \in S THEN Append(f[i - 1], s[i]) ELSE f[i - 1]
  BY <1>2
<1> DEFINE Ran1(o) == {o[k] : k \in DOMAIN o}
           Once1(o) == \A i, k \in DOMAIN o : i # k => o[i] # o[k]
           Good == {n \in 0 .. N : /\ f[n] \in Seq(T)
                                   /\ Ran1(f[n]) = {x \in {s[k] : k \in 1 .. n} : x \in S}
                                   /\ Once1(s) => Once1(f[n])}
<1>4. 0 \in Good
  <2>1. f[0] = <<>>
    BY <1>1, <1>8
  <2>2. 1 .. 0 = {} /\ DOMAIN f[0] = {}
    BY <2>1
  <2>3. Ran1(f[0]) = {} /\ {s[k] : k \in 1 .. 0} = {}
    BY <2>2
  <2>4. f[0] \in Seq(T) /\ Once1(f[0])
    BY <2>1, <2>2
  <2> HIDE DEF Ran1, Once1
  <2> QED BY <1>1, <2>3, <2>4
<1>5. ASSUME NEW n \in 1 .. N, n - 1 \in Good
      PROVE  n \in Good
  <2> DEFINE g == f[n - 1]
             h == f[n]
  <2>1. h = IF s[n] \in S THEN Append(g, s[n]) ELSE g
    BY <1>1, <1>8
  <2>2. g \in Seq(T) /\ Ran1(g) = {x \in {s[k] : k \in 1 .. n - 1} : x \in S} /\ (Once1(s) => Once1(g))
    BY <1>5
  <2>3. s[n] \in T /\ n \in DOMAIN s
    BY <1>1
  <2>4. {s[k] : k \in 1 .. n} = {s[k] : k \in 1 .. n - 1} \cup {s[n]}
    BY <1>1
  <2>5. h \in Seq(T) /\ Ran1(h) = {x \in {s[k] : k \in 1 .. n} : x \in S} /\ (Once1(s) => Once1(h))
    <3> HIDE DEF g, h
    <3>1. CASE s[n] \in S
      <4>1. h = Append(g, s[n]) /\ DOMAIN h = 1 .. Len(g) + 1 /\ Len(g) \in Nat /\ DOMAIN g = 1 .. Len(g)
        BY <2>1, <2>2, <2>3, <3>1
      <4>2. h[Len(g) + 1] = s[n] /\ \A k \in DOMAIN g : h[k] = g[k]
        BY <2>1, <2>2, <2>3, <3>1
      <4>3. Ran1(h) = Ran1(g) \cup {s[n]}
        BY <4>1, <4>2
      <4>4. ASSUME Once1(s) PROVE Once1(h)
        <5>1. \A k \in 1 .. n - 1 : s[k] # s[n]
          BY <1>1, <4>4
        <5>4. s[n] \notin {s[k] : k \in 1 .. n - 1}
          BY <5>1
        <5>5. s[n] \notin Ran1(g)
          <6> HIDE DEF Ran1
          <6> QED BY <5>4, <2>2
        <5>2. Once1(g)
          BY <2>2, <4>4
        <5> QED BY <4>1, <4>2, <5>5, <5>2
      <4>5. h \in Seq(T)
        BY <2>1, <2>2, <2>3, <3>1
      <4>6. Ran1(h) = {x \in {s[k] : k \in 1 .. n} : x \in S}
        <5> HIDE DEF Ran1
        <5> QED BY <2>2, <2>4, <3>1, <4>3
      <4> QED BY <4>4, <4>5, <4>6
    <3>2. CASE s[n] \notin S
      BY <2>1, <2>2, <2>4, <3>2
    <3> QED BY <3>1, <3>2
  <2>6. n \in 0 .. N
    BY <1>1
  <2> HIDE DEF Ran1, Once1
  <2> QED BY <2>5, <2>6
<1>6. N \in Good
  <2> HIDE DEF Good
  <2> QED BY <1>1, <1>4, <1>5, UpTo
<1>7. {s[k] : k \in 1 .. N} = Portal!ToSet(s)
  BY <1>1 DEF Portal!ToSet
<1> QED BY <1>3, <1>6, <1>7 DEF Portal!ToSet

(* The first of some boards are some of them.                                  *)
LEMMA FirstAmong ==
  ASSUME NEW B, NEW boards \in Seq(B), NEW n \in Int
  PROVE  Portal!FirstIds(n, boards) \subseteq Portal!Ids(boards)
<1> DEFINE m == Portal!Min({n, Len(boards)})
<1>1. m \in Int /\ m <= Len(boards)
  <2>1. Len(boards) \in Int
    OBVIOUS
  <2> HIDE DEF m
  <2>2. Portal!Min({n, Len(boards)}) <= Len(boards) /\ Portal!Min({n, Len(boards)}) \in Int
    BY <2>1, LeastOfTwo
  <2> QED BY <2>2 DEF m
<1> HIDE DEF m
<1>2. 1 .. m \subseteq DOMAIN boards
  BY <1>1
<1> QED BY <1>2 DEF m, Portal!FirstIds, Portal!Ids, Portal!ToSet

(* What a need may have is boards that are there and that nobody keeps.        *)
LEMMA FreeAmong ==
  ASSUME NEW B, NEW boards \in Seq(B), NEW kept, NEW need
  PROVE  /\ Portal!Free(need, boards, kept) \in Seq(B)
         /\ Portal!Ids(Portal!Free(need, boards, kept)) \subseteq Portal!Ids(boards) \ kept
<1> DEFINE rest == Portal!NotIn(boards, kept)
           free == Portal!Matching(need, rest)
<1>1. rest \in Seq(B) /\ Portal!ToSet(rest) = {b \in Portal!ToSet(boards) : b.id \notin kept}
  <2> DEFINE S == {b \in Portal!ToSet(boards) : b.id \notin kept}
  <2>1. rest = Portal!Only(boards, S)
    BY DEF Portal!NotIn
  <2> HIDE DEF S, rest
  <2>2. rest \in Seq(B) /\ Portal!ToSet(rest) = {b \in Portal!ToSet(boards) : b \in S}
    BY <2>1, OnlyRight
  <2> QED BY <2>2 DEF S
<1> HIDE DEF rest
<1>2. free \in Seq(B) /\ Portal!ToSet(free) \subseteq Portal!ToSet(rest)
  <2> DEFINE S == {b \in Portal!ToSet(rest) : Portal!Matches(b, need)}
  <2>1. free = Portal!Only(rest, S)
    BY DEF Portal!Matching
  <2> HIDE DEF S, free
  <2>2. free \in Seq(B) /\ Portal!ToSet(free) = {b \in Portal!ToSet(rest) : b \in S}
    BY <1>1, <2>1, OnlyRight
  <2> QED BY <2>2
<1>3. free = Portal!Free(need, boards, kept)
  BY DEF Portal!Free, rest
<1> HIDE DEF free
<1> QED BY <1>1, <1>2, <1>3 DEF Portal!Ids

LEMMA WantedIsNumber ==
  ASSUME NEW B, NEW boards \in Seq(B), NEW need, need.count \in Nat, NEW taken
  PROVE  Portal!Wanted(need, boards, taken) \in Int
<1>1. Portal!Free(need, boards, taken) \in Seq(B)
  BY FreeAmong
<1>2. Len(Portal!Matching(need, Portal!NotIn(boards, taken))) \in Nat
  BY <1>1 DEF Portal!Free
<1> DEFINE n == Len(Portal!Matching(need, Portal!NotIn(boards, taken)))
<1> HIDE DEF n
<1>3. n \in Int /\ need.count \in Int
  BY <1>2 DEF n
<1>4. Portal!Min({need.count, n}) \in Int
  BY <1>3, LeastOfTwo
<1> QED BY <1>3, <1>4 DEF Portal!Wanted, Portal!Take, n

Taking(f, d, boards, kept) ==
  f = [i \in 0 .. Len(d.needs) |->
        IF i = 0 THEN {}
        ELSE f[i-1] \cup Portal!FirstIds(Portal!Wanted(d.needs[i], boards, f[i-1]),
                                         Portal!Free(d.needs[i], boards, kept \cup f[i-1]))]

(* The loop over a demand's needs has a value after each.                      *)
LEMMA TakingTurns ==
  ASSUME NEW d, Len(d.needs) \in Nat, NEW boards, NEW kept
  PROVE  \E f : Taking(f, d, boards, kept)
<1> DEFINE N == Len(d.needs)
           Step(i, t) == t \cup Portal!FirstIds(Portal!Wanted(d.needs[i], boards, t),
                                                Portal!Free(d.needs[i], boards, kept \cup t))
           Upto(n) == \E f : f = [i \in 0 .. n |-> IF i = 0 THEN {} ELSE Step(i, f[i - 1])]
           Good == {k \in 0 .. N : Upto(k)}
<1> HIDE DEF Step, N
<1>1. Upto(0)
  <2>1. [i \in 0 .. 0 |-> {}] = [i \in 0 .. 0 |-> IF i = 0 THEN {} ELSE Step(i, [j \in 0 .. 0 |-> {}][i - 1])]
    OBVIOUS
  <2> QED BY <2>1
<1>2. ASSUME NEW n \in 1 .. N, Upto(n - 1)
      PROVE  Upto(n)
  <2>0. N \in Nat
    BY DEF N
  <2>1. PICK f : f = [i \in 0 .. n - 1 |-> IF i = 0 THEN {} ELSE Step(i, f[i - 1])]
    BY <1>2
  <2> DEFINE g == [i \in 0 .. n |-> IF i = n THEN Step(n, f[n - 1]) ELSE f[i]]
  <2>2. ASSUME NEW i \in 0 .. n
        PROVE  g[i] = IF i = 0 THEN {} ELSE Step(i, g[i - 1])
    <3>1. CASE i = n
      <4>1. g[i] = Step(n, f[n - 1]) /\ g[n - 1] = f[n - 1]
        BY <2>0, <3>1
      <4> QED BY <2>0, <3>1, <4>1
    <3>2. CASE i # n
      <4>1. i \in 0 .. n - 1 /\ g[i] = f[i] /\ (i # 0 => g[i - 1] = f[i - 1])
        BY <2>0, <3>2
      <4>2. f[i] = IF i = 0 THEN {} ELSE Step(i, f[i - 1])
        BY <2>1, <4>1
      <4> QED BY <4>1, <4>2
    <3> QED BY <3>1, <3>2
  <2>3. g = [i \in 0 .. n |-> IF i = 0 THEN {} ELSE Step(i, g[i - 1])]
    BY <2>2
  <2> QED BY <2>3
<1> HIDE DEF Upto
<1>3. N \in Nat
  BY DEF N
<1>4. 0 \in Good
  BY <1>1, <1>3
<1>5. \A i \in 1 .. N : i - 1 \in Good => i \in Good
  BY <1>2
<1>6. N \in Good
  <2> HIDE DEF Good
  <2>1. \A i \in 0 .. N : i \in Good
    BY <1>3, <1>4, <1>5, UpTo
  <2> QED BY <1>3, <2>1
<1> QED BY <1>6 DEF Step, Upto, Taking, N

(* What a demand is given by family is boards that are there and that nobody keeps.  *)
LEMMA TakenRight ==
  ASSUME NEW B, NEW boards \in Seq(B), NEW kept, NEW d, Len(d.needs) \in Nat,
         \A i \in 1 .. Len(d.needs) : d.needs[i].count \in Nat
  PROVE  \A i \in 0 .. Len(d.needs) : Portal!Taken(d, boards, kept)[i] \subseteq Portal!Ids(boards) \ kept
<1> DEFINE N == Len(d.needs)
           f == Portal!Taken(d, boards, kept)
<1>1. Taking(f, d, boards, kept)
  <2> DEFINE g == CHOOSE h : Taking(h, d, boards, kept)
  <2>1. \E h : Taking(h, d, boards, kept)
    BY TakingTurns
  <2>2. Taking(g, d, boards, kept)
    BY <2>1
  <2>3. f = g
    BY DEF Portal!Taken, Taking
  <2> QED BY <2>2, <2>3
<1> HIDE DEF f
<1>2. f = [i \in 0 .. N |->
        IF i = 0 THEN {}
        ELSE f[i-1] \cup Portal!FirstIds(Portal!Wanted(d.needs[i], boards, f[i-1]),
                                         Portal!Free(d.needs[i], boards, kept \cup f[i-1]))]
  BY <1>1 DEF Taking
<1> HIDE DEF N
<1>0. N \in Nat /\ \A i \in 1 .. N : d.needs[i].count \in Nat
  BY DEF N
<1>3. ASSUME NEW i \in 1 .. N
      PROVE  f[i] = f[i-1] \cup Portal!FirstIds(Portal!Wanted(d.needs[i], boards, f[i-1]),
                                         Portal!Free(d.needs[i], boards, kept \cup f[i-1]))
  <2>1. i \in 0 .. N /\ i # 0
    BY <1>0
  <2> QED BY <1>2, <2>1
<1> DEFINE Good == {n \in 0 .. N : f[n] \subseteq Portal!Ids(boards) \ kept}
<1>4. 0 \in Good
  <2>1. f[0] = {}
    BY <1>0, <1>2
  <2> QED BY <1>0, <2>1
<1>5. ASSUME NEW n \in 1 .. N, n - 1 \in Good
      PROVE  n \in Good
  <2> DEFINE w == Portal!Wanted(d.needs[n], boards, f[n-1])
             free == Portal!Free(d.needs[n], boards, kept \cup f[n-1])
  <2>1. w \in Int
    BY <1>0, WantedIsNumber
  <2>2. free \in Seq(B) /\ Portal!Ids(free) \subseteq Portal!Ids(boards) \ (kept \cup f[n-1])
    BY FreeAmong
  <2>3. f[n] = f[n-1] \cup Portal!FirstIds(w, free)
    BY <1>3
  <2> HIDE DEF w, free
  <2>4. Portal!FirstIds(w, free) \subseteq Portal!Ids(free)
    BY <2>1, <2>2, FirstAmong
  <2> QED BY <1>0, <1>5, <2>2, <2>3, <2>4
<1> HIDE DEF Good
<1>6. \A i \in 0 .. N : i \in Good
  BY <1>0, <1>4, <1>5, UpTo
<1> QED BY <1>6 DEF Good, N, f

DemandIs(d) ==
  /\ d.whole \in BOOLEAN /\ d.resources \subseteq Portal!Resources
  /\ Len(d.needs) \in Nat /\ \A i \in 1 .. Len(d.needs) : d.needs[i].count \in Nat

(* What is chosen is on the rig and not held.                                  *)
LEMMA ChooseRight ==
  ASSUME NEW B, NEW boards \in Seq(B), NEW d, DemandIs(d), NEW held, NEW ahead, NEW targets,
         Portal!Choose(d, boards, held, ahead, targets).ok
  PROVE  LET chosen == Portal!Choose(d, boards, held, ahead, targets).boards
         IN  chosen \subseteq Portal!Ids(boards) /\ chosen \cap held = {}
<1>1. CASE d.boards # {}
  <2>1. Portal!Choose(d, boards, held, ahead, targets) = Portal!ChooseNamed(d, boards, held, ahead, targets)
    BY <1>1 DEF Portal!Choose
  <2> QED BY <2>1 DEF Portal!ChooseNamed, Portal!Ids
<1>2. CASE d.boards = {}
  <2>1. Portal!Choose(d, boards, held, ahead, targets).boards
          = Portal!Taken(d, boards, held \cup ahead)[Len(d.needs)]
    BY <1>2 DEF Portal!Choose, Portal!ChooseByNeed
  <2>2. Portal!Taken(d, boards, held \cup ahead)[Len(d.needs)] \subseteq Portal!Ids(boards) \ (held \cup ahead)
    BY TakenRight DEF DemandIs
  <2> QED BY <2>1, <2>2
<1> QED BY <1>1, <1>2

(* A set has as many elements in the dispatcher's terms.                       *)
LEMMA SameNumber ==
  ASSUME NEW S
  PROVE  Portal!Cardinality(S) = Cardinality(S)
BY DEF Portal!Cardinality, Cardinality

\* The grants of demand d that a rig of this name may give of these boards.
Given(name, boards, d) ==
  [job : {d.job}, boards : SUBSET Portal!Ids(boards), resources : SUBSET Portal!Resources,
   shared : BOOLEAN, whole : BOOLEAN, worker : {name}]

(* A rig that takes a demand has nothing running, or runs only what shares no board and   *)
(* no resource with it and has room.                                                      *)
LEMMA AttemptRight ==
  ASSUME NEW B, NEW rig, rig.boards \in Seq(B), NEW d, DemandIs(d),
         Portal!Attempt(rig, d).granted # {}
  PROVE  \E g \in Given(rig.name, rig.boards, d) :
           /\ Portal!Attempt(rig, d).granted = {g}
           /\ \/ rig.active = {}
              \/ /\ ~(Cardinality(rig.active) >= rig.limit)
                 /\ \A h \in rig.active : Portal!Apart(g, h)
<1> DEFINE feasible == d.whole \/ Portal!FitsIdle(d, rig.boards)
<1>1. ~(rig.whole \/ \E g \in rig.active : ~g.shared)
  BY DEF Portal!Attempt, Portal!Refused
<1>2. CASE Portal!Alone(rig, d) \/ ~feasible
  <2> DEFINE chosen == IF feasible THEN Portal!Choose(d, rig.boards, {}, {}, {}) ELSE [ok |-> TRUE, boards |-> {}]
             unheld == {b.id : b \in {c \in Portal!ToSet(rig.boards) : c.hold = Portal!None}}
             g == [job |-> d.job, resources |-> Portal!Resources, shared |-> FALSE,
                   whole |-> d.whole, worker |-> rig.name,
                   boards |-> IF d.whole /\ d.holdsBoards THEN unheld ELSE chosen.boards]
  <2>1. Portal!Attempt(rig, d) = Portal!AttemptAlone(rig, d, feasible)
    BY <1>1, <1>2 DEF Portal!Attempt
  <2> HIDE DEF feasible
  <2>2. rig.active = {} /\ chosen.ok
    BY <2>1 DEF Portal!AttemptAlone, Portal!Refused
  <2>3. Portal!Attempt(rig, d).granted = {g}
    BY <2>1, <2>2 DEF Portal!AttemptAlone, Portal!Granted
  <2>4. chosen.boards \subseteq Portal!Ids(rig.boards)
    BY <2>2, ChooseRight
  <2>5. unheld \subseteq Portal!Ids(rig.boards)
    BY DEF Portal!Ids
  <2>6. g \in Given(rig.name, rig.boards, d)
    <3> HIDE DEF chosen, unheld
    <3> QED BY <2>4, <2>5 DEF Given, DemandIs
  <2> HIDE DEF g
  <2> QED BY <2>2, <2>3, <2>6
<1>3. CASE ~(Portal!Alone(rig, d) \/ ~feasible)
  <2> DEFINE held   == UNION {g.boards : g \in rig.active}
             inUse  == UNION {g.resources : g \in rig.active}
             chosen == Portal!Choose(d, rig.boards, held, rig.ahead, rig.targets)
             g == [job |-> d.job, resources |-> d.resources, shared |-> TRUE,
                   whole |-> FALSE, worker |-> rig.name, boards |-> chosen.boards]
  <2>1. Portal!Attempt(rig, d) = Portal!AttemptShared(rig, d)
    BY <1>1, <1>3 DEF Portal!Attempt
  <2> DEFINE P == \/ Cardinality(rig.active) >= rig.limit
                  \/ d.resources \cap (inUse \cup rig.resources) # {}
                  \/ ~chosen.ok
  <2>7. Portal!Attempt(rig, d) = IF P THEN Portal!Refused(FALSE) ELSE Portal!Granted(g)
    <3> HIDE DEF chosen, inUse
    <3>1. Portal!Cardinality(rig.active) = Cardinality(rig.active)
      BY SameNumber
    <3> QED BY <2>1, <3>1 DEF Portal!AttemptShared, chosen, inUse
  <2>8. ~P /\ Portal!Attempt(rig, d).granted = {g}
    <3> HIDE DEF P, g
    <3> QED BY <2>7 DEF Portal!Refused, Portal!Granted
  <2>2. /\ ~(Cardinality(rig.active) >= rig.limit)
        /\ d.resources \cap inUse = {}
        /\ chosen.ok
    <3> HIDE DEF inUse, chosen
    <3> QED BY <2>8
  <2>3. Portal!Attempt(rig, d).granted = {g}
    BY <2>8
  <2>4. chosen.boards \subseteq Portal!Ids(rig.boards) /\ chosen.boards \cap held = {}
    <3> HIDE DEF held
    <3> QED BY <2>2, ChooseRight
  <2> HIDE DEF chosen
  <2>5. g \in Given(rig.name, rig.boards, d)
    BY <2>4 DEF Given, DemandIs
  <2>6. ASSUME NEW h \in rig.active
        PROVE  Portal!Apart(g, h)
    BY <1>1, <2>2, <2>4 DEF Portal!Apart
  <2> HIDE DEF g
  <2> QED BY <2>2, <2>3, <2>5, <2>6
<1> QED BY <1>2, <1>3

(* The rigs of a plan under way: each is the one named, with its limit and its boards,  *)
(* and what runs on it is what of all that was granted is its.                          *)
Steady(rigs, names, limit, bank, all) ==
  /\ DOMAIN rigs = DOMAIN names
  /\ \A i \in DOMAIN names :
       /\ DOMAIN rigs[i] = {"name", "limit", "profiles", "sole", "boards", "active",
                            "whole", "targets", "ahead", "resources"}
       /\ rigs[i].name = names[i] /\ rigs[i].limit = limit[i] /\ rigs[i].boards = bank[i]
       /\ rigs[i].active = {h \in all : h.worker = names[i]}

Peace(all, names, limit) ==
  /\ IsFiniteSet(all)
  /\ \A g, h \in all : g # h /\ g.worker = h.worker => Portal!Apart(g, h)
  /\ \A i \in DOMAIN names : Cardinality({h \in all : h.worker = names[i]}) <= limit[i]

NamesAre(B, names, limit, bank) ==
  /\ DOMAIN names \subseteq Nat
  /\ \A i, k \in DOMAIN names : i # k => names[i] # names[k]
  /\ \A i \in DOMAIN names : limit[i] \in Nat /\ limit[i] >= 1 /\ bank[i] \in Seq(B)

(* A demand is tried on rigs there are.                                        *)
LEMMA CandidatesAmong ==
  ASSUME NEW rigs, DOMAIN rigs \subseteq Nat, NEW d
  PROVE  Portal!Candidates(rigs, d) \subseteq DOMAIN rigs
<1> DEFINE runners  == {i \in DOMAIN rigs : Portal!RunsProfile(rigs[i], d) /\ d.rig \in {Portal!None, rigs[i].name}}
           eligible == {i \in runners : Portal!Eligible(rigs[i], d)}
<1>1. runners # {} => Portal!Min(runners) \in runners
  <2>1. runners \subseteq Nat
    OBVIOUS
  <2> HIDE DEF runners
  <2> QED BY <2>1, LeastIsOne
<1>2. Portal!Candidates(rigs, d) = IF eligible # {} \/ runners = {} THEN eligible ELSE {Portal!Min(runners)}
  BY DEF Portal!Candidates
<1>3. runners \subseteq DOMAIN rigs /\ eligible \subseteq runners
  OBVIOUS
<1> HIDE DEF runners, eligible
<1> QED BY <1>1, <1>2, <1>3

(* What a refused demand keeps from those behind it changes nothing else of a rig.  *)
LEMMA BlockKeeps ==
  ASSUME NEW rig, NEW d, NEW whole,
         DOMAIN rig = {"name", "limit", "profiles", "sole", "boards", "active",
                       "whole", "targets", "ahead", "resources"}
  PROVE  LET next == Portal!Block(rig, d, whole)
         IN  /\ DOMAIN next = DOMAIN rig
             /\ next.name = rig.name /\ next.limit = rig.limit /\ next.boards = rig.boards
             /\ next.active = rig.active
<1>1. CASE whole
  BY <1>1 DEF Portal!Block
<1>2. CASE ~whole
  BY <1>2 DEF Portal!Block
<1> QED BY <1>1, <1>2

(* A grant that shares with nothing on its rig, which has room, keeps the peace.   *)
LEMMA PeaceGoesOn ==
  ASSUME NEW B, NEW names, NEW limit, NEW bank, NamesAre(B, names, limit, bank),
         NEW all, Peace(all, names, limit), NEW i \in DOMAIN names, NEW g, g.worker = names[i],
         LET active == {h \in all : h.worker = names[i]}
         IN  \/ active = {}
             \/ ~(Cardinality(active) >= limit[i]) /\ \A h \in active : Portal!Apart(g, h)
  PROVE  Peace(all \cup {g}, names, limit)
<1> DEFINE On(k) == {h \in all : h.worker = names[k]}
           next == all \cup {g}
<1>1. IsFiniteSet(next)
  BY FS_AddElement DEF Peace
<1>2. \A h \in next : h # g /\ h.worker = g.worker => Portal!Apart(g, h) /\ Portal!Apart(h, g)
  BY DEF Portal!Apart
<1>3. \A h, k \in next : h # k /\ h.worker = k.worker => Portal!Apart(h, k)
  BY <1>2 DEF Peace
<1>4. ASSUME NEW k \in DOMAIN names
      PROVE  Cardinality({h \in next : h.worker = names[k]}) <= limit[k]
  <2>1. CASE k = i
    <3> DEFINE A == On(i)
    <3>1. {h \in next : h.worker = names[k]} = A \cup {g}
      BY <2>1
    <3>2. IsFiniteSet(A)
      BY FS_Subset DEF Peace
    <3>3. A = {} \/ ~(Cardinality(A) >= limit[i])
      OBVIOUS
    <3>4. limit[i] \in Nat /\ limit[i] >= 1
      BY DEF NamesAre
    <3> HIDE DEF A, next
    <3>5. Cardinality(A) \in Nat /\ (A = {} => Cardinality(A) = 0)
      BY <3>2, FS_CardinalityType, FS_EmptySet
    <3>6. Cardinality(A \cup {g}) \in Nat /\ Cardinality(A \cup {g}) <= Cardinality(A) + 1
      <4>1. Cardinality(A \cup {g}) = IF g \in A THEN Cardinality(A) ELSE Cardinality(A) + 1
        BY <3>2, FS_AddElement
      <4> QED BY <3>5, <4>1
    <3>7. Cardinality(A) + 1 <= limit[i]
      BY <3>3, <3>4, <3>5
    <3> QED BY <2>1, <3>1, <3>4, <3>5, <3>6, <3>7
  <2>2. CASE k # i
    <3>1. {h \in next : h.worker = names[k]} = On(k)
      BY <2>2 DEF NamesAre
    <3> QED BY <3>1 DEF Peace
  <2> QED BY <2>1, <2>2
<1> QED BY <1>1, <1>3, <1>4 DEF Peace

PlanGoing(st, R, names, limit, bank) ==
  Steady(st.rigs, names, limit, bank, R \cup st.start) /\ Peace(R \cup st.start, names, limit)

PlanGoes(next, st, R, names, limit, bank, d) ==
  /\ PlanGoing(next, R, names, limit, bank)
  /\ \/ next.start = st.start
     \/ \E i \in DOMAIN names : \E g \in Given(names[i], bank[i], d) : next.start = st.start \cup {g}

(* One turn of the loop over the queue starts the demand on a rig that has room for it, or *)
(* starts nothing.                                                                          *)
LEMMA PlanOneRight ==
  ASSUME NEW B, NEW names, NEW limit, NEW bank, NamesAre(B, names, limit, bank), NEW R, NEW st,
         PlanGoing(st, R, names, limit, bank), NEW d, DemandIs(d)
  PROVE  PlanGoes(Portal!PlanOne(st, d), st, R, names, limit, bank, d)
<1> USE DEF PlanGoing
<1> DEFINE next == Portal!PlanOne(st, d)
           tried == Portal!Candidates(st.rigs, d)
           attempts == [i \in tried |-> Portal!Attempt(st.rigs[i], d)]
           taking == {i \in tried : Portal!Attempt(st.rigs[i], d).granted # {}}
           All == R \cup st.start
<1>0. next = Portal!Answered(st, d, attempts) /\ taking = {i \in DOMAIN attempts : attempts[i].granted # {}}
  BY DEF Portal!PlanOne
<1>1. tried \subseteq DOMAIN names /\ DOMAIN names \subseteq Nat /\ DOMAIN st.rigs = DOMAIN names
  BY CandidatesAmong DEF Steady, NamesAre
<1>2. CASE taking # {}
  <2> DEFINE i == Portal!Min(taking)
  <2>1. i \in taking
    <3>1. taking \subseteq Nat
      BY <1>1
    <3> HIDE DEF taking
    <3> QED BY <1>2, <3>1, LeastIsOne
  <2>2. i \in DOMAIN names /\ Portal!Attempt(st.rigs[i], d).granted # {}
    BY <1>1, <2>1
  <2>3. next = LET g == Portal!Attempt(st.rigs[i], d).granted
               IN  [rigs |-> [st.rigs EXCEPT ![i].active = @ \cup g], start |-> st.start \cup g]
    <3>1. attempts[i] = Portal!Attempt(st.rigs[i], d)
      BY <2>1
    <3>2. next = LET g == attempts[i].granted
                 IN  [rigs |-> [st.rigs EXCEPT ![i].active = @ \cup g], start |-> st.start \cup g]
      <4> HIDE DEF attempts, next, taking
      <4> QED BY <1>0, <1>2 DEF Portal!Answered, taking
    <3> QED BY <3>1, <3>2
  <2> HIDE DEF i
  <2> DEFINE rig == st.rigs[i]
  <2>4. /\ rig.name = names[i] /\ rig.limit = limit[i] /\ rig.boards = bank[i] /\ bank[i] \in Seq(B)
        /\ rig.active = {h \in All : h.worker = names[i]}
    BY <2>2 DEF Steady, NamesAre
  <2>5. PICK g \in Given(names[i], bank[i], d) :
           /\ Portal!Attempt(rig, d).granted = {g}
           /\ \/ rig.active = {}
              \/ /\ ~(Cardinality(rig.active) >= rig.limit)
                 /\ \A h \in rig.active : Portal!Apart(g, h)
    <3> HIDE DEF rig
    <3>1. rig.boards \in Seq(B) /\ Portal!Attempt(rig, d).granted # {}
      BY <2>2, <2>4 DEF rig
    <3>2. rig.name = names[i] /\ rig.boards = bank[i]
      BY <2>4 DEF rig
    <3> QED BY <3>1, <3>2, AttemptRight
  <2>6. g.worker = names[i]
    BY <2>5 DEF Given
  <2>7. next.rigs = [st.rigs EXCEPT ![i].active = @ \cup {g}] /\ next.start = st.start \cup {g}
    BY <2>3, <2>5
  <2>8. Peace(All \cup {g}, names, limit)
    <3> HIDE DEF All
    <3>1. LET active == {h \in All : h.worker = names[i]}
          IN  \/ active = {}
              \/ ~(Cardinality(active) >= limit[i]) /\ \A h \in active : Portal!Apart(g, h)
      BY <2>4, <2>5
    <3>2. Peace(All, names, limit)
      BY DEF All
    <3> QED BY <2>2, <2>6, <3>1, <3>2, PeaceGoesOn
  <2>9. Steady(next.rigs, names, limit, bank, All \cup {g})
    <3> HIDE DEF All
    <3>1. DOMAIN next.rigs = DOMAIN names
      BY <1>1, <2>7
    <3>2. ASSUME NEW k \in DOMAIN names
          PROVE  /\ DOMAIN next.rigs[k] = {"name", "limit", "profiles", "sole", "boards", "active",
                            "whole", "targets", "ahead", "resources"}
                 /\ next.rigs[k].name = names[k] /\ next.rigs[k].limit = limit[k]
                 /\ next.rigs[k].boards = bank[k]
                 /\ next.rigs[k].active = {h \in All \cup {g} : h.worker = names[k]}
      <4>0. /\ DOMAIN st.rigs[k] = {"name", "limit", "profiles", "sole", "boards", "active",
                            "whole", "targets", "ahead", "resources"}
            /\ st.rigs[k].name = names[k] /\ st.rigs[k].limit = limit[k]
            /\ st.rigs[k].boards = bank[k]
            /\ st.rigs[k].active = {h \in All : h.worker = names[k]}
        BY DEF Steady, All
      <4>1. CASE k = i
        <5>1. next.rigs[k] = [st.rigs[k] EXCEPT !.active = @ \cup {g}]
          BY <1>1, <2>7, <4>1
        <5>2. {h \in All : h.worker = names[k]} \cup {g} = {h \in All \cup {g} : h.worker = names[k]}
          BY <2>6, <4>1
        <5> QED BY <4>0, <5>1, <5>2
      <4>2. CASE k # i
        <5>1. next.rigs[k] = st.rigs[k]
          BY <1>1, <2>7, <4>2
        <5>2. {h \in All : h.worker = names[k]} = {h \in All \cup {g} : h.worker = names[k]}
          BY <2>2, <2>6, <4>2 DEF NamesAre
        <5> QED BY <4>0, <5>1, <5>2
      <4> QED BY <4>1, <4>2
    <3> HIDE DEF next
    <3> QED BY <3>1, <3>2 DEF Steady
  <2>10. R \cup next.start = All \cup {g}
    BY <2>7
  <2> HIDE DEF next, All
  <2>11. \E k \in DOMAIN names : \E h \in Given(names[k], bank[k], d) : next.start = st.start \cup {h}
    BY <2>2, <2>5, <2>7
  <2>12. /\ Steady(next.rigs, names, limit, bank, R \cup next.start)
         /\ Peace(R \cup next.start, names, limit)
    BY <2>8, <2>9, <2>10
  <2> QED BY <2>11, <2>12 DEF next, PlanGoes
<1>3. CASE taking = {}
  <2>1. next = [rigs  |-> [i \in DOMAIN st.rigs |->
                         IF i \in tried THEN Portal!Block(st.rigs[i], d, Portal!Attempt(st.rigs[i], d).whole)
                                        ELSE st.rigs[i]],
                start |-> st.start]
    <3>1. next = [rigs  |-> [i \in DOMAIN st.rigs |->
                         IF i \in DOMAIN attempts THEN Portal!Block(st.rigs[i], d, attempts[i].whole)
                                                  ELSE st.rigs[i]],
                  start |-> st.start]
      <4> HIDE DEF attempts, next, taking
      <4> QED BY <1>0, <1>3 DEF Portal!Answered
    <3>2. DOMAIN attempts = tried /\ \A i \in tried : attempts[i] = Portal!Attempt(st.rigs[i], d)
      OBVIOUS
    <3> HIDE DEF attempts, next, taking
    <3> QED BY <3>1, <3>2
  <2>2. next.start = st.start /\ DOMAIN next.rigs = DOMAIN names
    BY <1>1, <2>1
  <2>3. ASSUME NEW k \in DOMAIN names
        PROVE  \/ next.rigs[k] = st.rigs[k]
               \/ next.rigs[k] = Portal!Block(st.rigs[k], d, Portal!Attempt(st.rigs[k], d).whole)
    BY <1>1, <2>1
  <2> HIDE DEF next
  <2>4. ASSUME NEW k \in DOMAIN names
        PROVE  /\ DOMAIN next.rigs[k] = {"name", "limit", "profiles", "sole", "boards", "active",
                            "whole", "targets", "ahead", "resources"}
               /\ next.rigs[k].name = names[k] /\ next.rigs[k].limit = limit[k]
               /\ next.rigs[k].boards = bank[k]
               /\ next.rigs[k].active = {h \in R \cup st.start : h.worker = names[k]}
    <3>1. /\ DOMAIN st.rigs[k] = {"name", "limit", "profiles", "sole", "boards", "active",
                            "whole", "targets", "ahead", "resources"}
          /\ st.rigs[k].name = names[k] /\ st.rigs[k].limit = limit[k]
          /\ st.rigs[k].boards = bank[k]
          /\ st.rigs[k].active = {h \in R \cup st.start : h.worker = names[k]}
      BY DEF Steady
    <3>2. CASE next.rigs[k] = Portal!Block(st.rigs[k], d, Portal!Attempt(st.rigs[k], d).whole)
      <4> DEFINE rig == st.rigs[k]
                 w == Portal!Attempt(rig, d).whole
      <4>1. DOMAIN rig = {"name", "limit", "profiles", "sole", "boards", "active",
                          "whole", "targets", "ahead", "resources"}
        BY <3>1
      <4> HIDE DEF rig, w
      <4>2. LET b == Portal!Block(rig, d, w)
            IN  /\ DOMAIN b = DOMAIN rig
                /\ b.name = rig.name /\ b.limit = rig.limit /\ b.boards = rig.boards
                /\ b.active = rig.active
        BY <4>1, BlockKeeps
      <4>3. next.rigs[k] = Portal!Block(rig, d, w)
        BY <3>2 DEF rig, w
      <4> QED BY <3>1, <4>2, <4>3 DEF rig
    <3>3. CASE next.rigs[k] = st.rigs[k]
      BY <3>1, <3>3
    <3> QED BY <2>3, <3>2, <3>3
  <2>5. Steady(next.rigs, names, limit, bank, R \cup next.start)
    BY <2>2, <2>4 DEF Steady
  <2> QED BY <2>2, <2>5 DEF next, PlanGoes
<1> QED BY <1>2, <1>3

Turning(f, rigs, queue) ==
  f = [i \in 0 .. Len(queue) |->
        IF i = 0 THEN [rigs |-> rigs, start |-> {}] ELSE Portal!PlanOne(f[i - 1], queue[i])]

(* The loop over the queue has a value after each demand.                      *)
LEMMA TurningTurns ==
  ASSUME NEW queue, Len(queue) \in Nat, NEW rigs
  PROVE  \E f : Turning(f, rigs, queue)
<1> DEFINE N == Len(queue)
           First == [rigs |-> rigs, start |-> {}]
           Step(i, t) == Portal!PlanOne(t, queue[i])
           Upto(n) == \E f : f = [i \in 0 .. n |-> IF i = 0 THEN First ELSE Step(i, f[i - 1])]
           Good == {k \in 0 .. N : Upto(k)}
<1> HIDE DEF Step, N, First
<1>1. Upto(0)
  <2>1. [i \in 0 .. 0 |-> First] = [i \in 0 .. 0 |-> IF i = 0 THEN First ELSE Step(i, [j \in 0 .. 0 |-> First][i - 1])]
    OBVIOUS
  <2> QED BY <2>1
<1>2. ASSUME NEW n \in 1 .. N, Upto(n - 1)
      PROVE  Upto(n)
  <2>0. N \in Nat
    BY DEF N
  <2>1. PICK f : f = [i \in 0 .. n - 1 |-> IF i = 0 THEN First ELSE Step(i, f[i - 1])]
    BY <1>2
  <2> DEFINE g == [i \in 0 .. n |-> IF i = n THEN Step(n, f[n - 1]) ELSE f[i]]
  <2>2. ASSUME NEW i \in 0 .. n
        PROVE  g[i] = IF i = 0 THEN First ELSE Step(i, g[i - 1])
    <3>1. CASE i = n
      <4>1. g[i] = Step(n, f[n - 1]) /\ g[n - 1] = f[n - 1]
        BY <2>0, <3>1
      <4> QED BY <2>0, <3>1, <4>1
    <3>2. CASE i # n
      <4>1. i \in 0 .. n - 1 /\ g[i] = f[i] /\ (i # 0 => g[i - 1] = f[i - 1])
        BY <2>0, <3>2
      <4>2. f[i] = IF i = 0 THEN First ELSE Step(i, f[i - 1])
        BY <2>1, <4>1
      <4> QED BY <4>1, <4>2
    <3> QED BY <3>1, <3>2
  <2>3. g = [i \in 0 .. n |-> IF i = 0 THEN First ELSE Step(i, g[i - 1])]
    BY <2>2
  <2> QED BY <2>3
<1> HIDE DEF Upto
<1>3. N \in Nat
  BY DEF N
<1>4. 0 \in Good
  BY <1>1, <1>3
<1>5. \A i \in 1 .. N : i - 1 \in Good => i \in Good
  BY <1>2
<1>6. N \in Good
  <2> HIDE DEF Good
  <2>1. \A i \in 0 .. N : i \in Good
    BY <1>3, <1>4, <1>5, UpTo
  <2> QED BY <1>3, <2>1
<1> QED BY <1>6 DEF Step, Upto, Turning, N, First

Demanded(queue) ==
  /\ Len(queue) \in Nat /\ \A i \in 1 .. Len(queue) : DemandIs(queue[i])
  /\ \A i, k \in 1 .. Len(queue) : i # k => queue[i].job # queue[k].job

Starting(start, R, names, limit, bank, queue) ==
  /\ Peace(R \cup start, names, limit)
  /\ \A g, h \in start : g.job = h.job => g = h
  /\ \A g \in start : \E k \in 1 .. Len(queue) : \E i \in DOMAIN names :
       g \in Given(names[i], bank[i], queue[k])

(* What one plan starts keeps the peace with all that runs, on rigs there are and each for *)
(* a demand of its own.                                                                     *)
LEMMA TurnsRight ==
  ASSUME NEW B, NEW names, NEW limit, NEW bank, NamesAre(B, names, limit, bank), NEW R, NEW rigs,
         Steady(rigs, names, limit, bank, R), Peace(R, names, limit),
         NEW queue, Demanded(queue)
  PROVE  Starting(Portal!Turns(rigs, queue)[Len(queue)].start, R, names, limit, bank, queue)
<1> USE DEF Demanded
<1> DEFINE N == Len(queue)
           f == Portal!Turns(rigs, queue)
<1>1. Turning(f, rigs, queue)
  <2> DEFINE g == CHOOSE h : Turning(h, rigs, queue)
  <2>1. \E h : Turning(h, rigs, queue)
    BY TurningTurns
  <2>2. Turning(g, rigs, queue)
    BY <2>1
  <2>3. f = g
    BY DEF Portal!Turns, Turning
  <2> QED BY <2>2, <2>3
<1> HIDE DEF f
<1>2. f = [i \in 0 .. N |-> IF i = 0 THEN [rigs |-> rigs, start |-> {}] ELSE Portal!PlanOne(f[i - 1], queue[i])]
  BY <1>1 DEF Turning
<1>0. N \in Nat
  OBVIOUS
<1> HIDE DEF N
<1>3. ASSUME NEW i \in 1 .. N
      PROVE  f[i] = Portal!PlanOne(f[i - 1], queue[i])
  <2>1. i \in 0 .. N /\ i # 0
    BY <1>0
  <2> QED BY <1>2, <2>1
<1> DEFINE Each(start, n) == \A g \in start : \E k \in 1 .. n : \E i \in DOMAIN names :
                               g \in Given(names[i], bank[i], queue[k])
           Own(start) == \A g, h \in start : g.job = h.job => g = h
           Good == {n \in 0 .. N : /\ Steady(f[n].rigs, names, limit, bank, R \cup f[n].start)
                                   /\ Peace(R \cup f[n].start, names, limit)
                                   /\ Own(f[n].start) /\ Each(f[n].start, n)}
<1>4. 0 \in Good
  <2>1. f[0].rigs = rigs /\ f[0].start = {}
    BY <1>0, <1>2
  <2>2. R \cup f[0].start = R
    BY <2>1
  <2>3. Own(f[0].start) /\ Each(f[0].start, 0)
    BY <2>1
  <2> HIDE DEF Own, Each
  <2>4. Steady(f[0].rigs, names, limit, bank, R \cup f[0].start) /\ Peace(R \cup f[0].start, names, limit)
    BY <2>1, <2>2
  <2> QED BY <1>0, <2>3, <2>4
<1>5. ASSUME NEW n \in 1 .. N, n - 1 \in Good
      PROVE  n \in Good
  <2> DEFINE st == f[n - 1]
             next == f[n]
  <2>1. next = Portal!PlanOne(st, queue[n])
    BY <1>3
  <2>2. /\ Steady(st.rigs, names, limit, bank, R \cup st.start) /\ Peace(R \cup st.start, names, limit)
        /\ Own(st.start) /\ Each(st.start, n - 1)
    BY <1>5
  <2> HIDE DEF st, next
  <2>3. DemandIs(queue[n])
    BY DEF N
  <2>4. /\ Steady(next.rigs, names, limit, bank, R \cup next.start)
        /\ Peace(R \cup next.start, names, limit)
        /\ \/ next.start = st.start
           \/ \E i \in DOMAIN names : \E g \in Given(names[i], bank[i], queue[n]) : next.start = st.start \cup {g}
    <3> HIDE DEF Own, Each
    <3> DEFINE d == queue[n]
    <3> HIDE DEF d
    <3>1. DemandIs(d)
      BY <2>3 DEF d
    <3>2. PlanGoing(st, R, names, limit, bank)
      BY <2>2 DEF PlanGoing
    <3>3. PlanGoes(Portal!PlanOne(st, d), st, R, names, limit, bank, d)
      BY <3>1, <3>2, PlanOneRight
    <3> QED BY <2>1, <3>3 DEF d, PlanGoes, PlanGoing
  <2>5. Each(st.start, n)
    BY <1>0, <2>2
  <2>6. Own(next.start) /\ Each(next.start, n)
    <3>1. CASE next.start = st.start
      <4> HIDE DEF Own, Each
      <4> QED BY <2>2, <2>5, <3>1
    <3>2. ASSUME NEW i \in DOMAIN names, NEW g \in Given(names[i], bank[i], queue[n]), next.start = st.start \cup {g}
          PROVE  Own(next.start) /\ Each(next.start, n)
      <4>1. Each(next.start, n)
        BY <1>0, <2>5, <3>2
      <4>2. ASSUME NEW h \in st.start
            PROVE  h.job # g.job
        <5>1. PICK k \in 1 .. n - 1 : h.job = queue[k].job
          BY <2>2 DEF Given
        <5>2. k \in 1 .. N /\ k # n /\ n \in 1 .. N
          BY <1>0
        <5>3. queue[k].job # queue[n].job
          BY <5>2 DEF N
        <5>4. g.job = queue[n].job
          BY DEF Given
        <5> QED BY <5>1, <5>3, <5>4
      <4>3. Own(next.start)
        BY <2>2, <3>2, <4>2
      <4> QED BY <4>1, <4>3
    <3> HIDE DEF Own, Each
    <3> QED BY <2>4, <3>1, <3>2
  <2> HIDE DEF Own, Each
  <2> QED BY <1>0, <2>4, <2>6 DEF next
<1>6. N \in Good
  <2> HIDE DEF Good
  <2>1. \A i \in 0 .. N : i \in Good
    BY <1>0, <1>4, <1>5, UpTo
  <2> QED BY <1>0, <2>1
<1> QED BY <1>6 DEF N, f, Starting

PortalNames == Portal!ToSet(PortalWorkers) \cup {b.worker : b \in Portal!ToSet(PortalBank)} \cup {Portal!None}

(* The boards that are connected are of the bank.                              *)
LEMMA BoardsOfBank ==
  /\ Portal!Boards \in Seq(Portal!ToSet(Portal!Boards))
  /\ \A b \in Portal!ToSet(Portal!Boards) : b.id \in Portal!Ids(PortalBank) /\ b.worker \in PortalNames
<1> DEFINE S == {b \in Portal!ToSet(PortalBank) : b.id \in v4}
           listed == Portal!Only(PortalBank, S)
           bs == Portal!Boards
<1>1. PortalBank \in Seq(Portal!ToSet(PortalBank))
  BY PortalAssumption DEF Portal!ToSet
<1>2. listed \in Seq(Portal!ToSet(PortalBank))
  <2> HIDE DEF S
  <2> QED BY <1>1, OnlyRight
<1>3. bs = [i \in DOMAIN listed |-> Portal!HeldAs(listed[i], v3[listed[i].id])]
  BY DEF Portal!Boards
<1> HIDE DEF listed, bs
<1>4. DOMAIN bs = 1 .. Len(listed) /\ Len(listed) \in Nat
  BY <1>2, <1>3
<1>5. bs \in Seq(Portal!ToSet(bs))
  <2>1. \A i \in 1 .. Len(listed) : bs[i] \in Portal!ToSet(bs)
    BY <1>4 DEF Portal!ToSet
  <2> HIDE DEF S
  <2>2. bs = [i \in 1 .. Len(listed) |-> bs[i]]
    BY <1>3, <1>4
  <2> QED BY <1>4, <2>1, <2>2
<1>6. ASSUME NEW i \in DOMAIN bs
      PROVE  bs[i].id \in Portal!Ids(PortalBank) /\ bs[i].worker \in PortalNames
  <2>1. listed[i] \in Portal!ToSet(PortalBank) /\ i \in DOMAIN listed
    BY <1>2, <1>4
  <2>2. bs[i].id = listed[i].id /\ bs[i].worker = listed[i].worker
    BY <1>3, <2>1 DEF Portal!HeldAs
  <2> QED BY <2>1, <2>2 DEF Portal!Ids, PortalNames
<1> QED BY <1>5, <1>6 DEF bs, Portal!ToSet

(* The rigs of a plan have each a name of its own, of a board's, a run's or a worker's.  *)
LEMMA NamesApart ==
  ASSUME Portal!TypeOK
  PROVE  LET names == Portal!RigNames(Portal!Boards, v2, Portal!Farm)
         IN  /\ DOMAIN names \subseteq Nat
             /\ \A i, k \in DOMAIN names : i # k => names[i] # names[k]
             /\ \A i \in DOMAIN names : names[i] \in PortalNames
<1> DEFINE bs == Portal!Boards
           a == [i \in DOMAIN bs |-> bs[i].worker]
           b == [i \in DOMAIN v2 |-> v2[i].worker]
           met == a \o b \o PortalWorkers
           first == {i \in DOMAIN met : \A k \in DOMAIN met : met[k] = met[i] => i <= k}
           names == Portal!RigNames(bs, v2, Portal!Farm)
<1>1. names = IF met = <<>> THEN <<Portal!None>> ELSE [i \in first |-> met[i]]
  BY DEF Portal!RigNames, Portal!Farm
<1>2. a \in Seq(PortalNames)
  <2> HIDE DEF bs
  <2>1. bs \in Seq(Portal!ToSet(bs)) /\ \A x \in Portal!ToSet(bs) : x.worker \in PortalNames
    BY BoardsOfBank DEF bs
  <2> QED BY <2>1
<1>3. b \in Seq(PortalNames)
  <2>1. v2 \in Seq(Portal!Grant)
    BY DEF Portal!TypeOK
  <2>2. \A g \in Portal!Grant : g.worker \in PortalNames
    BY DEF Portal!Grant, PortalNames
  <2> QED BY <2>1, <2>2
<1>4. PortalWorkers \in Seq(PortalNames)
  BY PortalAssumption DEF PortalNames, Portal!ToSet
<1> HIDE DEF a, b
<1>5. met \in Seq(PortalNames)
  BY <1>2, <1>3, <1>4
<1> HIDE DEF met
<1>6. DOMAIN met = 1 .. Len(met) /\ Len(met) \in Nat /\ \A i \in DOMAIN met : met[i] \in PortalNames
  BY <1>5
<1>7. CASE met = <<>>
  <2>1. names = <<Portal!None>>
    BY <1>1, <1>7
  <2>2. DOMAIN names = {1} /\ names[1] = Portal!None
    BY <2>1
  <2> HIDE DEF names
  <2> QED BY <2>2 DEF names, PortalNames
<1>8. CASE met # <<>>
  <2>1. names = [i \in first |-> met[i]]
    BY <1>1, <1>8
  <2>2. DOMAIN names = first /\ \A i \in first : names[i] = met[i]
    BY <2>1
  <2>3. first \subseteq Nat /\ \A i \in first : met[i] \in PortalNames
    BY <1>6
  <2>4. \A i, k \in first : met[i] = met[k] => i = k
    BY <1>6
  <2> HIDE DEF names, first
  <2> QED BY <2>2, <2>3, <2>4 DEF names
<1> QED BY <1>7, <1>8

LimitAt(names) == [i \in DOMAIN names |-> Portal!Max({1, Portal!LimitOf(names[i])})]
BankAt(names) ==
  [i \in DOMAIN names |-> Portal!Only(Portal!Boards, {b \in Portal!ToSet(Portal!Boards) : b.worker = names[i]})]

(* A plan begins with rigs on which what runs keeps the peace.                 *)
LEMMA PlanBegins ==
  ASSUME Portal!Inductive, NEW queue, NEW names, names = Portal!RigNames(Portal!Boards, v2, Portal!Farm)
  PROVE  /\ NamesAre(Portal!ToSet(Portal!Boards), names, LimitAt(names), BankAt(names))
         /\ \A i \in DOMAIN names : names[i] \in PortalNames
         /\ \A i \in DOMAIN names : Portal!Ids(BankAt(names)[i]) \subseteq Portal!Ids(PortalBank)
         /\ Steady(Portal!Rigs(queue, Portal!Boards, v2, Portal!Farm), names, LimitAt(names), BankAt(names),
                   Portal!ToSet(v2))
         /\ Peace(Portal!ToSet(v2), names, LimitAt(names))
<1> DEFINE bs == Portal!Boards
           rigs == Portal!Rigs(queue, bs, v2, Portal!Farm)
           R == Portal!ToSet(v2)
<1>1. Portal!TypeOK /\ Portal!WithinLimit
      /\ \A g, h \in R : g # h /\ g.worker = h.worker => Portal!Apart(g, h)
  BY DEF Portal!Inductive, Portal!NothingShared, Portal!Grants
<1>2. /\ DOMAIN names \subseteq Nat
      /\ \A i, k \in DOMAIN names : i # k => names[i] # names[k]
      /\ \A i \in DOMAIN names : names[i] \in PortalNames
  BY <1>1, NamesApart
<1>3. ASSUME NEW w
      PROVE  Portal!LimitOf(w) \in Int
  BY PortalAssumption DEF Portal!LimitOf, Portal!ToSet
<1>4. ASSUME NEW i \in DOMAIN names
      PROVE  LimitAt(names)[i] \in Nat /\ LimitAt(names)[i] >= 1
  BY <1>3, AtLeastOne DEF LimitAt
<1>5. ASSUME NEW i \in DOMAIN names
      PROVE  /\ BankAt(names)[i] \in Seq(Portal!ToSet(bs))
             /\ Portal!Ids(BankAt(names)[i]) \subseteq Portal!Ids(PortalBank)
  <2> DEFINE S == {b \in Portal!ToSet(bs) : b.worker = names[i]}
             o == Portal!Only(bs, S)
  <2>1. BankAt(names)[i] = o
    BY DEF BankAt
  <2>2. bs \in Seq(Portal!ToSet(bs)) /\ \A b \in Portal!ToSet(bs) : b.id \in Portal!Ids(PortalBank)
    BY BoardsOfBank
  <2> HIDE DEF S, bs
  <2>3. o \in Seq(Portal!ToSet(bs)) /\ Portal!ToSet(o) = {b \in Portal!ToSet(bs) : b \in S}
    BY <2>2, OnlyRight
  <2> HIDE DEF o
  <2>4. Portal!Ids(o) \subseteq Portal!Ids(PortalBank)
    BY <2>2, <2>3 DEF Portal!Ids
  <2> QED BY <2>1, <2>3, <2>4 DEF bs
<1>6. NamesAre(Portal!ToSet(bs), names, LimitAt(names), BankAt(names))
  BY <1>2, <1>4, <1>5 DEF NamesAre
<1>7. IsFiniteSet(R)
  <2>1. v2 \in Seq(Portal!Grant)
    BY <1>1 DEF Portal!TypeOK
  <2>2. v2 \in Seq(R) /\ \A g \in R : \E n \in 1 .. Len(v2) : v2[n] = g
    BY <2>1 DEF Portal!ToSet
  <2> HIDE DEF R
  <2> QED BY <2>2 DEF IsFiniteSet
<1>8. ASSUME NEW i \in DOMAIN names
      PROVE  Cardinality({h \in R : h.worker = names[i]}) <= LimitAt(names)[i]
  <2> DEFINE A == {h \in R : h.worker = names[i]}
  <2>1. CASE A = {}
    <3>1. Cardinality(A) = 0
      BY <2>1, FS_EmptySet
    <3> QED BY <1>4, <3>1
  <2>2. CASE A # {}
    <3>1. PICK g \in R : g.worker = names[i]
      BY <2>2
    <3>2. Portal!Cardinality({h \in R : h.worker = g.worker}) <= Portal!Max({1, Portal!LimitOf(g.worker)})
      BY <1>1 DEF Portal!WithinLimit, Portal!Grants
    <3>3. A = {h \in R : h.worker = g.worker} /\ LimitAt(names)[i] = Portal!Max({1, Portal!LimitOf(g.worker)})
      BY <3>1 DEF LimitAt
    <3> HIDE DEF A
    <3>4. Portal!Cardinality(A) = Cardinality(A)
      BY SameNumber
    <3> QED BY <3>2, <3>3, <3>4 DEF A
  <2> QED BY <2>1, <2>2
<1>9. Peace(R, names, LimitAt(names))
  BY <1>1, <1>7, <1>8 DEF Peace
<1>10. Steady(rigs, names, LimitAt(names), BankAt(names), R)
  <2> DEFINE known(n) == n \in Portal!ToSet(PortalWorkers)
             every == {d.profile : d \in Portal!ToSet(queue)}
             profiles(i) == IF known(names[i]) THEN PortalProfiles[names[i]] ELSE every
             sole == Portal!Cardinality(DOMAIN names) = 1
  <2>1. rigs = [i \in DOMAIN names |-> Portal!Rig(names[i], bs, R, Portal!LimitOf(names[i]), profiles(i), sole)]
    BY DEF Portal!Rigs, Portal!Farm, Portal!LimitOf
  <2>2. DOMAIN rigs = DOMAIN names
    BY <2>1
  <2>3. ASSUME NEW i \in DOMAIN names
        PROVE  /\ DOMAIN rigs[i] = {"name", "limit", "profiles", "sole", "boards", "active",
                                    "whole", "targets", "ahead", "resources"}
               /\ rigs[i].name = names[i] /\ rigs[i].limit = LimitAt(names)[i]
               /\ rigs[i].boards = BankAt(names)[i]
               /\ rigs[i].active = {h \in R : h.worker = names[i]}
    <3>1. rigs[i] = Portal!Rig(names[i], bs, R, Portal!LimitOf(names[i]), profiles(i), sole)
      BY <2>1
    <3> HIDE DEF rigs, profiles, sole, R, bs
    <3> QED BY <3>1 DEF Portal!Rig, LimitAt, BankAt, bs
  <2> HIDE DEF rigs
  <2> QED BY <2>2, <2>3 DEF Steady
<1> QED BY <1>2, <1>5, <1>6, <1>9, <1>10

(* What the allocator says may start keeps the peace with what runs, and is of runs that are *)
(* queued and of boards there are.                                                            *)
LEMMA DecisionRight ==
  ASSUME Portal!Inductive
  PROVE  LET all == Portal!ToSet(v2) \cup Portal!Decision
         IN  /\ \A g, h \in all : g # h /\ g.worker = h.worker => Portal!Apart(g, h)
             /\ \A g \in Portal!Decision :
                  Cardinality({h \in all : h.worker = g.worker}) <= Portal!Max({1, Portal!LimitOf(g.worker)})
             /\ IsFiniteSet(all)
             /\ Portal!Decision \subseteq Portal!Grant
             /\ \A g, h \in Portal!Decision : g.job = h.job => g = h
             /\ \A g \in Portal!Decision : g.job \in Portal!ToSet(v1)
<1> DEFINE bs == Portal!Boards
           queue == Portal!Demands
           rigs == Portal!Rigs(queue, bs, v2, Portal!Farm)
           names == Portal!RigNames(bs, v2, Portal!Farm)
           R == Portal!ToSet(v2)
           start == Portal!Turns(rigs, queue)[Len(queue)].start
<1>1. v1 \in Seq(PortalJobs) /\ (\A i, k \in DOMAIN v1 : i # k => v1[i] # v1[k])
  BY DEF Portal!Inductive, Portal!NothingShared, Portal!TypeOK, Portal!OneTurnEach
<1>2. queue = [i \in DOMAIN v1 |-> PortalDemands[v1[i]]]
  BY DEF Portal!Demands
<1>3. Len(queue) = Len(v1) /\ Len(queue) \in Nat
  BY <1>1, <1>2
<1>4. ASSUME NEW i \in 1 .. Len(queue)
      PROVE  /\ DemandIs(queue[i]) /\ queue[i].job = v1[i] /\ v1[i] \in Portal!ToSet(v1)
             /\ queue[i].resources \subseteq Portal!Resources /\ v1[i] \in PortalJobs
  <2> DEFINE d == PortalDemands[v1[i]]
  <2>1. v1[i] \in PortalJobs /\ queue[i] = d /\ v1[i] \in Portal!ToSet(v1)
    BY <1>1, <1>2, <1>3 DEF Portal!ToSet
  <2>2. /\ d.job = v1[i] /\ d.whole \in BOOLEAN /\ d.resources \subseteq {"gateway", "mqtt"}
        /\ d.needs \in Seq({d.needs[k] : k \in DOMAIN d.needs})
        /\ \A k \in DOMAIN d.needs : d.needs[k].count \in Nat
    BY <2>1, PortalAssumption
  <2> HIDE DEF d
  <2>3. DemandIs(d)
    BY <2>2 DEF DemandIs, Portal!Resources
  <2> QED BY <2>1, <2>2, <2>3 DEF Portal!Resources
<1>5. /\ NamesAre(Portal!ToSet(bs), names, LimitAt(names), BankAt(names))
      /\ \A i \in DOMAIN names : names[i] \in PortalNames
      /\ \A i \in DOMAIN names : Portal!Ids(BankAt(names)[i]) \subseteq Portal!Ids(PortalBank)
      /\ Steady(rigs, names, LimitAt(names), BankAt(names), R)
      /\ Peace(R, names, LimitAt(names))
  BY PlanBegins
<1>6. /\ Peace(R \cup start, names, LimitAt(names))
      /\ \A g, h \in start : g.job = h.job => g = h
      /\ \A g \in start : \E k \in 1 .. Len(queue) : \E i \in DOMAIN names :
           g \in Given(names[i], BankAt(names)[i], queue[k])
  <2>1. \A i \in 1 .. Len(queue) : DemandIs(queue[i])
    BY <1>4
  <2>2. \A i, k \in 1 .. Len(queue) : i # k => queue[i].job # queue[k].job
    BY <1>1, <1>3, <1>4
  <2> HIDE DEF queue, rigs, names, R
  <2>3. Demanded(queue)
    BY <1>3, <2>1, <2>2 DEF Demanded
  <2> DEFINE L == LimitAt(names)
             K == BankAt(names)
  <2>4. Starting(start, R, names, L, K, queue)
    <3> HIDE DEF L, K
    <3>1. /\ NamesAre(Portal!ToSet(bs), names, L, K) /\ Steady(rigs, names, L, K, R)
          /\ Peace(R, names, L)
      BY <1>5 DEF L, K
    <3> QED BY <2>3, <3>1, TurnsRight
  <2> QED BY <2>4 DEF Starting
<1>7. CASE v5
  <2>1. Portal!Decision = {}
    BY <1>7 DEF Portal!Decision, Portal!Plan, Portal!Farm
  <2>2. R \cup Portal!Decision = R
    BY <2>1
  <2> HIDE DEF R
  <2> QED BY <1>5, <2>1, <2>2 DEF Peace, R
<1>8. CASE ~v5
  <2>1. Portal!Decision = start
    BY <1>8 DEF Portal!Decision, Portal!Plan, Portal!Farm
  <2> HIDE DEF start, queue, rigs, names, R
  <2>2. ASSUME NEW g \in start
        PROVE  /\ g \in Portal!Grant /\ g.job \in Portal!ToSet(v1)
               /\ Cardinality({h \in R \cup start : h.worker = g.worker})
                    <= Portal!Max({1, Portal!LimitOf(g.worker)})
    <3>1. PICK k \in 1 .. Len(queue), i \in DOMAIN names : g \in Given(names[i], BankAt(names)[i], queue[k])
      BY <1>6
    <3>2. g.worker = names[i] /\ g.job = v1[k]
      BY <1>4, <3>1 DEF Given
    <3>3. g \in Portal!Grant
      BY <1>4, <1>5, <3>1 DEF Given, Portal!Grant, PortalNames
    <3>4. Cardinality({h \in R \cup start : h.worker = names[i]}) <= LimitAt(names)[i]
      BY <1>6 DEF Peace
    <3>5. LimitAt(names)[i] = Portal!Max({1, Portal!LimitOf(names[i])})
      BY DEF LimitAt
    <3> QED BY <1>4, <3>2, <3>3, <3>4, <3>5
  <2> QED BY <1>6, <2>1, <2>2 DEF Peace, R
<1> QED BY <1>7, <1>8

(* What is granted keeps the peace while nothing is granted or given back.     *)
LEMMA GrantsStay ==
  ASSUME Portal!Inductive, v2' = v2, Portal!TypeOK', Portal!OneTurnEach'
  PROVE  Portal!Inductive'
<1>1. Portal!Grants' = Portal!Grants
  BY DEF Portal!Grants, Portal!ToSet
<1> QED BY <1>1 DEF Portal!Inductive, Portal!NothingShared, Portal!WithinLimit

(* A run that is queued waits, once, among those that did.                     *)
LEMMA QueueKeeps ==
  ASSUME Portal!Inductive, NEW j \in PortalJobs,
         Portal!Submit(j) \/ Portal!Promote(j) \/ Portal!Cancel(j)
  PROVE  Portal!Inductive'
<1>0. /\ Portal!TypeOK /\ Portal!OneTurnEach
      /\ v1 \in Seq(PortalJobs) /\ (\A i, k \in DOMAIN v1 : i # k => v1[i] # v1[k])
      /\ Portal!ToSet(v1) \cap Portal!Started = {}
  BY DEF Portal!Inductive, Portal!NothingShared, Portal!TypeOK, Portal!OneTurnEach
<1>1. v2' = v2 /\ v3' = v3 /\ v4' = v4 /\ v5' = v5
  BY DEF Portal!Submit, Portal!Promote, Portal!Cancel
<1>2. Portal!Started' = Portal!Started
  BY <1>1 DEF Portal!Started
<1> DEFINE rest == Portal!Only(v1, Portal!ToSet(v1) \ {j})
<1>3. /\ rest \in Seq(PortalJobs)
      /\ Portal!ToSet(rest) = Portal!ToSet(v1) \ {j}
      /\ \A i, k \in DOMAIN rest : i # k => rest[i] # rest[k]
  <2> DEFINE S == Portal!ToSet(v1) \ {j}
  <2> HIDE DEF S
  <2>1. /\ Portal!Only(v1, S) \in Seq(PortalJobs)
        /\ Portal!ToSet(Portal!Only(v1, S)) = {x \in Portal!ToSet(v1) : x \in S}
        /\ LET o == Portal!Only(v1, S) IN \A i, k \in DOMAIN o : i # k => o[i] # o[k]
    BY <1>0, OnlyRight
  <2> QED BY <2>1 DEF S
<1>4. /\ v1' \in Seq(PortalJobs) /\ (\A i, k \in DOMAIN v1' : i # k => v1'[i] # v1'[k])
      /\ Portal!ToSet(v1') \cap Portal!Started = {}
  <2>1. CASE Portal!Submit(j)
    <3>1. v1' = Append(v1, j) /\ j \notin Portal!ToSet(v1) \cup Portal!Started
      BY <2>1 DEF Portal!Submit
    <3>2. DOMAIN v1' = 1 .. Len(v1) + 1 /\ Len(v1) \in Nat /\ v1'[Len(v1) + 1] = j
          /\ \A i \in 1 .. Len(v1) : v1'[i] = v1[i] /\ v1[i] \in Portal!ToSet(v1)
      BY <1>0, <3>1 DEF Portal!ToSet
    <3>3. \A i \in DOMAIN v1' : i = Len(v1) + 1 \/ i \in 1 .. Len(v1)
      BY <3>2
    <3>4. \A i, k \in DOMAIN v1' : i # k => v1'[i] # v1'[k]
      BY <1>0, <3>1, <3>2, <3>3
    <3>5. Portal!ToSet(v1') \cap Portal!Started = {}
      BY <1>0, <3>1, <3>2, <3>3 DEF Portal!ToSet
    <3> QED BY <1>0, <3>1, <3>4, <3>5
  <2>2. CASE Portal!Promote(j)
    <3>1. v1' = <<j>> \o rest /\ j \in Portal!ToSet(v1)
      BY <2>2 DEF Portal!Promote, Portal!Without
    <3> HIDE DEF rest
    <3>2. DOMAIN v1' = 1 .. Len(rest) + 1 /\ Len(rest) \in Nat /\ v1'[1] = j
          /\ \A i \in 2 .. Len(rest) + 1 : v1'[i] = rest[i - 1]
      BY <1>3, <3>1
    <3>3. \A i \in 2 .. Len(rest) + 1 : i - 1 \in DOMAIN rest /\ v1'[i] \in Portal!ToSet(rest)
      BY <1>3, <3>2 DEF Portal!ToSet
    <3>4. ASSUME NEW i \in DOMAIN v1', NEW k \in DOMAIN v1', i # k
          PROVE  v1'[i] # v1'[k]
      <4>1. CASE i = 1 \/ k = 1
        BY <1>3, <3>2, <3>3, <3>4, <4>1
      <4>2. CASE i # 1 /\ k # 1
        <5>1. i \in 2 .. Len(rest) + 1 /\ k \in 2 .. Len(rest) + 1
          BY <3>2, <4>2
        <5>2. i - 1 # k - 1
          BY <3>4, <5>1
        <5> QED BY <1>3, <3>2, <3>3, <5>1, <5>2
      <4> QED BY <4>1, <4>2
    <3>5. \A i \in DOMAIN v1' : v1'[i] \in Portal!ToSet(v1)
      BY <1>3, <3>1, <3>2, <3>3
    <3>6. v1' \in Seq(PortalJobs)
      BY <1>3, <3>1
    <3> QED BY <1>0, <3>4, <3>5, <3>6 DEF Portal!ToSet
  <2>3. CASE Portal!Cancel(j)
    <3>1. v1' = rest
      BY <2>3 DEF Portal!Cancel, Portal!Without
    <3> HIDE DEF rest
    <3> QED BY <1>0, <1>3, <3>1
  <2> QED BY <2>1, <2>2, <2>3
<1>5. Portal!TypeOK'
  BY <1>0, <1>1, <1>4 DEF Portal!TypeOK
<1>6. Portal!OneTurnEach'
  BY <1>0, <1>1, <1>2, <1>4 DEF Portal!OneTurnEach
<1> QED BY <1>1, <1>5, <1>6, GrantsStay

LEMMA ListedIsFinite ==
  ASSUME NEW T, NEW s \in Seq(T)
  PROVE  IsFiniteSet(Portal!ToSet(s))
<1> DEFINE R == Portal!ToSet(s)
<1>1. s \in Seq(R) /\ \A g \in R : \E n \in 1 .. Len(s) : s[n] = g
  BY DEF Portal!ToSet
<1> HIDE DEF R
<1>2. IsFiniteSet(R)
  BY <1>1 DEF IsFiniteSet
<1> QED BY <1>2 DEF R

(* A run that ends takes nothing from the others.                              *)
LEMMA FinishKeeps ==
  ASSUME Portal!Inductive, NEW j \in PortalJobs, Portal!Finish(j)
  PROVE  Portal!Inductive'
<1>0. /\ Portal!TypeOK /\ Portal!OneTurnEach /\ Portal!WithinLimit /\ v2 \in Seq(Portal!Grant)
      /\ \A g, h \in Portal!ToSet(v2) : g # h /\ g.worker = h.worker => Portal!Apart(g, h)
  BY DEF Portal!Inductive, Portal!NothingShared, Portal!Grants, Portal!TypeOK
<1>1. v1' = v1 /\ v3' = v3 /\ v4' = v4 /\ v5' = v5
  BY DEF Portal!Finish
<1> DEFINE S == {g \in Portal!ToSet(v2) : g.job # j}
<1>2. v2' = Portal!Only(v2, S)
  BY DEF Portal!Finish
<1>3. \A i, k \in DOMAIN v2 : i # k => v2[i] # v2[k]
  BY <1>0 DEF Portal!OneTurnEach
<1> HIDE DEF S
<1>4. /\ v2' \in Seq(Portal!Grant)
      /\ Portal!ToSet(v2') = {x \in Portal!ToSet(v2) : x \in S}
      /\ \A i, k \in DOMAIN v2' : i # k => v2'[i] # v2'[k]
  BY <1>0, <1>2, <1>3, OnlyRight
<1>5. \A i \in DOMAIN v2' : \E k \in DOMAIN v2 : v2'[i] = v2[k]
  BY <1>4 DEF Portal!ToSet
<1>6. \A i, k \in DOMAIN v2' : i # k => v2'[i].job # v2'[k].job
  <2>1. \A i, k \in DOMAIN v2 : i # k => v2[i].job # v2[k].job
    BY <1>0 DEF Portal!OneTurnEach
  <2> QED BY <1>4, <1>5, <2>1
<1>7. Portal!Started' \subseteq Portal!Started
  BY <1>5 DEF Portal!Started
<1>8. Portal!TypeOK' /\ Portal!OneTurnEach'
  BY <1>0, <1>1, <1>4, <1>6, <1>7 DEF Portal!TypeOK, Portal!OneTurnEach
<1>9. Portal!ToSet(v2') \subseteq Portal!ToSet(v2)
  BY <1>4
<1>10. ASSUME NEW g \in Portal!ToSet(v2')
       PROVE  Portal!Cardinality({h \in Portal!ToSet(v2') : h.worker = g.worker})
                <= Portal!Max({1, Portal!LimitOf(g.worker)})
  <2> DEFINE A == {h \in Portal!ToSet(v2) : h.worker = g.worker}
             A1 == {h \in Portal!ToSet(v2') : h.worker = g.worker}
  <2>1. A1 \subseteq A
    BY <1>9
  <2>2. IsFiniteSet(A)
    BY <1>0, ListedIsFinite, FS_Subset
  <2>3. Portal!Cardinality(A) <= Portal!Max({1, Portal!LimitOf(g.worker)})
    BY <1>0, <1>9 DEF Portal!WithinLimit, Portal!Grants
  <2>4. Portal!Max({1, Portal!LimitOf(g.worker)}) \in Nat
    BY PortalAssumption, AtLeastOne DEF Portal!LimitOf, Portal!ToSet
  <2> HIDE DEF A, A1
  <2>5. Cardinality(A1) <= Cardinality(A) /\ Cardinality(A) \in Nat /\ Cardinality(A1) \in Nat
    BY <2>1, <2>2, FS_Subset, FS_CardinalityType
  <2>6. Portal!Cardinality(A1) = Cardinality(A1) /\ Portal!Cardinality(A) = Cardinality(A)
    BY SameNumber
  <2>7. Portal!Cardinality(A1) <= Portal!Max({1, Portal!LimitOf(g.worker)})
    BY <2>3, <2>4, <2>5, <2>6
  <2> QED BY <2>7 DEF A1
<1>11. \A g, h \in Portal!ToSet(v2') : g # h /\ g.worker = h.worker => Portal!Apart(g, h)
  BY <1>0, <1>9
<1> QED BY <1>8, <1>10, <1>11 DEF Portal!Inductive, Portal!NothingShared, Portal!WithinLimit, Portal!Grants,
                                  Portal!LimitOf, Portal!Apart, Portal!ToSet

(* What is started together keeps the peace with what runs, and waits no more.  *)
LEMMA DispatchKeeps ==
  ASSUME Portal!Inductive, Portal!Dispatch
  PROVE  Portal!Inductive'
<1> DEFINE D == Portal!Decision
           starting == {g.job : g \in D}
           order == Portal!Only(v1, starting)
           new == [i \in DOMAIN order |-> CHOOSE g \in D : g.job = order[i]]
           R == Portal!ToSet(v2)
           all == R \cup D
<1>0. /\ Portal!TypeOK /\ Portal!OneTurnEach /\ Portal!WithinLimit
      /\ v1 \in Seq(PortalJobs) /\ v2 \in Seq(Portal!Grant)
      /\ \A i, k \in DOMAIN v1 : i # k => v1[i] # v1[k]
      /\ \A i, k \in DOMAIN v2 : i # k => v2[i].job # v2[k].job
      /\ Portal!ToSet(v1) \cap Portal!Started = {}
  BY DEF Portal!Inductive, Portal!NothingShared, Portal!TypeOK, Portal!OneTurnEach
<1>1. /\ v2' = v2 \o new /\ v1' = Portal!Only(v1, Portal!ToSet(v1) \ starting)
      /\ v3' = v3 /\ v4' = v4 /\ v5' = v5
  BY DEF Portal!Dispatch
<1>2. /\ \A g, h \in all : g # h /\ g.worker = h.worker => Portal!Apart(g, h)
      /\ \A g \in D :
           Cardinality({h \in all : h.worker = g.worker}) <= Portal!Max({1, Portal!LimitOf(g.worker)})
      /\ IsFiniteSet(all)
      /\ D \subseteq Portal!Grant
      /\ \A g \in D : g.job \in Portal!ToSet(v1)
  BY DecisionRight
<1> HIDE DEF D
<1>3. /\ order \in Seq(PortalJobs)
      /\ Portal!ToSet(order) = {x \in Portal!ToSet(v1) : x \in starting}
      /\ \A i, k \in DOMAIN order : i # k => order[i] # order[k]
  <2> HIDE DEF starting
  <2> QED BY <1>0, OnlyRight
<1>4. /\ v1' \in Seq(PortalJobs)
      /\ Portal!ToSet(v1') = {x \in Portal!ToSet(v1) : x \notin starting}
      /\ \A i, k \in DOMAIN v1' : i # k => v1'[i] # v1'[k]
  <2> DEFINE S == Portal!ToSet(v1) \ starting
  <2> HIDE DEF S
  <2>1. /\ Portal!Only(v1, S) \in Seq(PortalJobs)
        /\ Portal!ToSet(Portal!Only(v1, S)) = {x \in Portal!ToSet(v1) : x \in S}
        /\ LET o == Portal!Only(v1, S) IN \A i, k \in DOMAIN o : i # k => o[i] # o[k]
    BY <1>0, OnlyRight
  <2> QED BY <1>1, <2>1 DEF S
<1> HIDE DEF order
<1>5. DOMAIN new = DOMAIN order /\ \A i \in DOMAIN order : new[i] \in D /\ new[i].job = order[i]
  <2>1. ASSUME NEW i \in DOMAIN order
        PROVE  \E g \in D : g.job = order[i]
    BY <1>3 DEF Portal!ToSet
  <2> QED BY <2>1
<1> HIDE DEF starting
<1>6. new \in Seq(Portal!Grant) /\ Len(new) = Len(order) /\ DOMAIN order = 1 .. Len(order) /\ Len(order) \in Nat
  <2>1. DOMAIN order = 1 .. Len(order) /\ Len(order) \in Nat
    BY <1>3
  <2>2. \A i \in 1 .. Len(order) : new[i] \in Portal!Grant
    BY <1>2, <1>5, <2>1
  <2>3. new = [i \in 1 .. Len(order) |-> new[i]]
    BY <2>1
  <2> HIDE DEF new
  <2> QED BY <2>1, <2>2, <2>3
<1> HIDE DEF new
<1> DEFINE n == Len(v2)
<1>7. /\ v2' \in Seq(Portal!Grant) /\ n \in Nat /\ DOMAIN v2 = 1 .. n
      /\ DOMAIN v2' = 1 .. n + Len(order)
      /\ \A i \in 1 .. n : v2'[i] = v2[i]
      /\ \A i \in n + 1 .. n + Len(order) : i - n \in DOMAIN order /\ v2'[i] = new[i - n]
  <2>1. v2' = v2 \o new /\ v2 \in Seq(Portal!Grant) /\ new \in Seq(Portal!Grant) /\ Len(new) = Len(order)
    BY <1>0, <1>1, <1>6
  <2>6. n \in Nat /\ DOMAIN v2 = 1 .. n
    BY <2>1
  <2>7. v2' \in Seq(Portal!Grant)
    <3>1. \A T : \A a, b \in Seq(T) : a \o b \in Seq(T)
      OBVIOUS
    <3>2. v2 \o new \in Seq(Portal!Grant)
      BY <2>1, <3>1
    <3> QED BY <2>1, <3>2
  <2>8. Len(v2 \o new) = Len(v2) + Len(new)
    <3>1. \A T : \A a, b \in Seq(T) : Len(a \o b) = Len(a) + Len(b)
      OBVIOUS
    <3> QED BY <2>1, <3>1
  <2>2. n \in Nat /\ DOMAIN v2 = 1 .. n /\ v2' \in Seq(Portal!Grant) /\ Len(v2') = n + Len(order)
    BY <2>1, <2>6, <2>7, <2>8
  <2>3. DOMAIN v2' = 1 .. n + Len(order)
    BY <2>2
  <2>4. ASSUME NEW i \in 1 .. n
        PROVE  v2'[i] = v2[i]
    BY <2>1, <2>2
  <2>5. ASSUME NEW i \in n + 1 .. n + Len(order)
        PROVE  i - n \in DOMAIN order /\ v2'[i] = new[i - n]
    <3>1. i - n \in 1 .. Len(order) /\ i \in 1 .. n + Len(order) /\ ~(i <= n)
      BY <1>6, <2>2
    <3> QED BY <1>6, <2>1, <2>2, <3>1
  <2> QED BY <2>2, <2>3, <2>4, <2>5
<1>8. \A i \in DOMAIN v2' : i \in 1 .. n \/ i \in n + 1 .. n + Len(order)
  BY <1>6, <1>7
<1>9. \A i \in n + 1 .. n + Len(order) : v2'[i] \in D /\ v2'[i].job = order[i - n]
  BY <1>5, <1>7
<1>10. \A i \in 1 .. n : v2[i].job \in Portal!Started
  BY <1>7 DEF Portal!Started
<1>11. \A i \in DOMAIN order : order[i] \in Portal!ToSet(v1) /\ order[i] \in starting /\ order[i] \notin Portal!Started
  BY <1>0, <1>3 DEF Portal!ToSet
<1>12. ASSUME NEW i \in DOMAIN v2', NEW k \in DOMAIN v2', i # k
       PROVE  v2'[i].job # v2'[k].job
  <2>1. CASE i \in 1 .. n /\ k \in 1 .. n
    BY <1>0, <1>7, <1>12, <2>1
  <2>2. CASE i \in 1 .. n /\ k \in n + 1 .. n + Len(order)
    BY <1>7, <1>9, <1>10, <1>11, <2>2
  <2>3. CASE k \in 1 .. n /\ i \in n + 1 .. n + Len(order)
    BY <1>7, <1>9, <1>10, <1>11, <2>3
  <2>4. CASE i \in n + 1 .. n + Len(order) /\ k \in n + 1 .. n + Len(order)
    <3>1. i - n # k - n /\ i - n \in DOMAIN order /\ k - n \in DOMAIN order
      BY <1>7, <1>12, <2>4
    <3> QED BY <1>3, <1>9, <2>4, <3>1
  <2> QED BY <1>8, <2>1, <2>2, <2>3, <2>4
<1>13. \A i \in DOMAIN v2' : v2'[i].job \in Portal!Started \/ v2'[i].job \in starting
  BY <1>7, <1>8, <1>9, <1>10, <1>11
<1>14. Portal!Started' \subseteq Portal!Started \cup starting
  BY <1>13 DEF Portal!Started
<1>15. Portal!TypeOK' /\ Portal!OneTurnEach'
  BY <1>0, <1>1, <1>4, <1>7, <1>12, <1>14 DEF Portal!TypeOK, Portal!OneTurnEach
<1> DEFINE R1 == Portal!ToSet(v2')
<1>16. R1 \subseteq all
  BY <1>7, <1>8, <1>9 DEF Portal!ToSet
<1>17. ASSUME NEW g \in R1
       PROVE  Portal!Cardinality({h \in R1 : h.worker = g.worker}) <= Portal!Max({1, Portal!LimitOf(g.worker)})
  <2> DEFINE w == g.worker
             A == {h \in all : h.worker = w}
             A1 == {h \in R1 : h.worker = w}
             B == {h \in R : h.worker = w}
             max == Portal!Max({1, Portal!LimitOf(w)})
  <2>1. max \in Nat
    BY PortalAssumption, AtLeastOne DEF Portal!LimitOf, Portal!ToSet
  <2>2. A1 \subseteq A /\ IsFiniteSet(A) /\ IsFiniteSet(B)
    BY <1>0, <1>2, <1>16, ListedIsFinite, FS_Subset
  <2>3. Cardinality(A) <= max
    <3>1. CASE \E h \in D : h.worker = w
      BY <1>2, <3>1
    <3>2. CASE ~ \E h \in D : h.worker = w
      <4>1. A = B /\ g \in R
        BY <1>16, <3>2
      <4>2. Portal!Cardinality(B) <= max
        BY <1>0, <4>1 DEF Portal!WithinLimit, Portal!Grants
      <4> HIDE DEF A, B
      <4> QED BY <4>1, <4>2, SameNumber
    <3> QED BY <3>1, <3>2
  <2> HIDE DEF A, A1, max
  <2>4. Cardinality(A1) <= Cardinality(A) /\ Cardinality(A) \in Nat /\ Cardinality(A1) \in Nat
    BY <2>2, FS_Subset, FS_CardinalityType
  <2>5. Portal!Cardinality(A1) = Cardinality(A1)
    BY SameNumber
  <2>6. Portal!Cardinality(A1) <= max
    BY <2>1, <2>3, <2>4, <2>5
  <2> QED BY <2>6 DEF A1, max
<1>18. \A g, h \in R1 : g # h /\ g.worker = h.worker => Portal!Apart(g, h)
  BY <1>2, <1>16
<1> QED BY <1>15, <1>17, <1>18 DEF Portal!Inductive, Portal!NothingShared, Portal!WithinLimit, Portal!Grants,
                                  Portal!LimitOf, Portal!Apart, Portal!ToSet

(* Nothing is shared and nobody is over the limit at first.                     *)
LEMMA PortalStarts == Portal!Init => Portal!Inductive
<1> SUFFICES ASSUME Portal!Init
             PROVE  Portal!Inductive
  OBVIOUS
<1>1. v1 = <<>> /\ v2 = <<>> /\ v3 = [b \in Portal!Ids(PortalBank) |-> Portal!None]
      /\ v4 = Portal!Ids(PortalBank) /\ v5 = FALSE
  BY DEF Portal!Init
<1>2. DOMAIN v1 = {} /\ DOMAIN v2 = {} /\ Portal!Grants = {} /\ Portal!Started = {}
  BY <1>1 DEF Portal!Grants, Portal!Started, Portal!ToSet
<1>3. Portal!TypeOK
  <2>1. v1 \in Seq(PortalJobs) /\ v2 \in Seq(Portal!Grant)
    BY <1>1
  <2>2. v3 \in [Portal!Ids(PortalBank) -> {Portal!None, "reserved", "quarantined"}]
    BY <1>1
  <2> QED BY <1>1, <2>1, <2>2 DEF Portal!TypeOK
<1> QED BY <1>2, <1>3 DEF Portal!Inductive, Portal!NothingShared, Portal!WithinLimit, Portal!OneTurnEach

(* Nothing is shared and nobody goes over the limit, whatever happens.         *)
LEMMA PortalInductive == Portal!Inductive /\ [Portal!Next]_(Portal!vars) => Portal!Inductive'
<1> SUFFICES ASSUME Portal!Inductive, [Portal!Next]_(Portal!vars)
             PROVE  Portal!Inductive'
  OBVIOUS
<1>0. Portal!TypeOK /\ Portal!OneTurnEach
  BY DEF Portal!Inductive, Portal!NothingShared
<1>1. ASSUME NEW j \in PortalJobs, Portal!Submit(j) \/ Portal!Promote(j) \/ Portal!Cancel(j)
      PROVE  Portal!Inductive'
  BY <1>1, QueueKeeps
<1>2. CASE Portal!Dispatch
  BY <1>2, DispatchKeeps
<1>3. ASSUME NEW j \in PortalJobs, Portal!Finish(j)
      PROVE  Portal!Inductive'
  BY <1>3, FinishKeeps
<1>4. ASSUME v1' = v1, v2' = v2, Portal!TypeOK'
      PROVE  Portal!Inductive'
  <2>1. Portal!OneTurnEach'
    BY <1>0, <1>4 DEF Portal!OneTurnEach, Portal!ToSet, Portal!Started
  <2> QED BY <1>4, <2>1, GrantsStay
<1>5. ASSUME NEW b \in PortalHoldable, Portal!Reserve(b) \/ Portal!Quarantine(b) \/ Portal!Release(b)
      PROVE  Portal!Inductive'
  <2>1. v1' = v1 /\ v2' = v2 /\ v4' = v4 /\ v5' = v5
        /\ \E x \in {Portal!None, "reserved", "quarantined"} : v3' = [v3 EXCEPT ![b] = x]
    BY <1>5 DEF Portal!Reserve, Portal!Quarantine, Portal!Release
  <2>2. Portal!TypeOK'
    BY <1>0, <2>1 DEF Portal!TypeOK
  <2> QED BY <1>4, <2>1, <2>2
<1>6. ASSUME NEW b \in PortalPluggable, Portal!Rediscover(b)
      PROVE  Portal!Inductive'
  <2>1. b \in Portal!Ids(PortalBank)
    BY PortalAssumption DEF Portal!Ids, Portal!ToSet
  <2>2. v1' = v1 /\ v2' = v2 /\ v3' = v3 /\ v5' = v5
        /\ v4' = IF b \in v4 THEN v4 \ {b} ELSE v4 \cup {b}
    BY <1>6 DEF Portal!Rediscover
  <2>3. Portal!TypeOK'
    BY <1>0, <2>1, <2>2 DEF Portal!TypeOK
  <2> QED BY <1>4, <2>2, <2>3
<1>7. CASE Portal!Pause \/ Portal!Resume
  <2>1. v1' = v1 /\ v2' = v2 /\ v3' = v3 /\ v4' = v4 /\ v5' \in BOOLEAN
    BY <1>7 DEF Portal!Pause, Portal!Resume
  <2>2. Portal!TypeOK'
    BY <1>0, <2>1 DEF Portal!TypeOK
  <2> QED BY <1>4, <2>1, <2>2
<1>8. CASE UNCHANGED Portal!vars
  <2>1. v1' = v1 /\ v2' = v2 /\ v3' = v3 /\ v4' = v4 /\ v5' = v5
    BY <1>8 DEF Portal!vars
  <2>2. Portal!TypeOK'
    BY <1>0, <2>1 DEF Portal!TypeOK
  <2> QED BY <1>4, <2>1, <2>2
<1> QED BY <1>1, <1>2, <1>3, <1>5, <1>6, <1>7, <1>8 DEF Portal!Next

-----------------------------------------------------------------------------
(* The session of a run's tests (TestSession). *)

(* TypeOK in two parts: what the devices and the fixtures are, and what the session has come to.  *)
SessionBench ==
  /\ v1 \in [Session!Devices -> {"up", "hung", "dead", "gone"}]
  /\ v3 \in [flashed : SUBSET Tested, shown : SUBSET Tested]
  /\ v7 \in {"none", "up", "failed"} /\ v8 \in {"none", "up", "failed"}
  /\ v5 \subseteq Tested /\ v6 \subseteq Tested /\ v9 \subseteq WiredUp
  /\ v16 \in BOOLEAN

SessionCourse ==
  /\ v4 \in {"flash", "preflight", "bank", "tests", "closing", "over"}
  /\ v10 \in 1 .. TestCount /\ v11 \in {"setup", "call", "teardown"} /\ v12 \in BOOLEAN
  /\ v13 \in Seq(Session!Row)
  /\ v14 \in {"none", "ok", "failed", "stopped", "broken", "killed"}
  /\ v15 \subseteq (1 .. TestCount) \X {"setup", "call", "teardown", "closing"}

LEMMA SessionTypes ==
  /\ Session!TypeOK <=> SessionBench /\ SessionCourse
  /\ Session!TypeOK' <=> SessionBench' /\ SessionCourse'
BY DEF Session!TypeOK, SessionBench, SessionCourse

(* A session that is not over owes nothing yet.  *)
LEMMA SessionGoesOn ==
  ASSUME v4' # "over"
  PROVE  Session!SessionIsTold' /\ Session!InstrumentsLetGo'
BY DEF Session!SessionIsTold, Session!InstrumentsLetGo

(* One record more is the last, and the others stay.  *)
LEMMA OneRecordMore ==
  ASSUME SessionCourse, NEW r \in Session!Row, v13' = Append(v13, r)
  PROVE  /\ v13' \in Seq(Session!Row) /\ Len(v13) \in Nat /\ v13' # <<>>
         /\ DOMAIN v13 = 1 .. Len(v13) /\ DOMAIN v13' = 1 .. Len(v13) + 1
         /\ (\A k \in DOMAIN v13 : v13'[k] = v13[k]) /\ v13'[Len(v13) + 1] = r
         /\ Session!All' = Session!All \cup {r}
<1>1. v13 \in Seq(Session!Row)
  BY DEF SessionCourse
<1>2. /\ v13' \in Seq(Session!Row) /\ Len(v13) \in Nat /\ v13' # <<>>
      /\ DOMAIN v13 = 1 .. Len(v13) /\ DOMAIN v13' = 1 .. Len(v13) + 1
      /\ (\A k \in DOMAIN v13 : v13'[k] = v13[k]) /\ v13'[Len(v13) + 1] = r
  BY <1>1
<1>3. Session!All' = {v13'[k] : k \in 1 .. Len(v13) + 1} /\ Session!All = {v13[k] : k \in 1 .. Len(v13)}
  BY <1>2 DEF Session!All
<1>4. 1 .. Len(v13) + 1 = (1 .. Len(v13)) \cup {Len(v13) + 1}
  BY <1>2
<1>5. Session!All' = Session!All \cup {r}
  BY <1>2, <1>3, <1>4
<1> QED BY <1>2, <1>5

(* A report of a test that has not ended: one record of it, and it waits for its teardown.  *)
LEMMA SessionRecords ==
  ASSUME SessionCourse, Session!Kept, Session!BugsWent, v4 = "tests", v11 \in {"setup", "call"},
         NEW verdict \in {"passed", "skipped", "failed", "error"},
         NEW class \in {"none", "infra", "real_bug"}, v13' = Session!Record(verdict, class),
         v4' = "tests", v10' = v10, v11' = "teardown", v12' \in BOOLEAN,
         v12 => v12', verdict = "passed" => v12',
         v15' = IF verdict \in {"failed", "error"} THEN v15 \cup {<<v10, v11>>} ELSE v15,
         verdict \in {"failed", "error"} => class = "infra" \/ v11 = "call",
         v14' \in {"none", "failed", "stopped"},
         v14' = "none" => v14 = "none" /\ verdict \in {"passed", "skipped"},
         v14' = "stopped" => ~v12'
  PROVE  SessionCourse' /\ Session!Kept' /\ Session!BugsWent'
<1> DEFINE r == [test |-> v10, verdict |-> verdict, class |-> class]
<1>1. r \in Session!Row /\ r.test = v10 /\ r.verdict = verdict /\ r.class = class
  BY DEF Session!Row, SessionCourse
<1>2. v13' = Append(v13, r)
  BY DEF Session!Record
<1> HIDE DEF r
<1>3. /\ v13' \in Seq(Session!Row) /\ Len(v13) \in Nat
      /\ DOMAIN v13 = 1 .. Len(v13) /\ DOMAIN v13' = 1 .. Len(v13) + 1
      /\ (\A k \in DOMAIN v13 : v13'[k] = v13[k]) /\ v13'[Len(v13) + 1] = r
      /\ Session!All' = Session!All \cup {r}
  BY <1>1, <1>2, OneRecordMore
<1>4. v10 \in 1 .. TestCount /\ TestCount \in Nat /\ v10 \in Nat
  BY TestSessionAssumption DEF SessionCourse
<1>5. \A t \in 1 .. TestCount : Session!Finished(t)' <=> Session!Finished(t) \/ t = v10
  BY <1>4 DEF Session!Finished
<1>6. ~Session!Finished(v10) /\ \A t \in 1 .. TestCount : Session!Finished(t) <=> t < v10
  BY <1>4 DEF Session!Finished
<1>7. SessionCourse'
  BY <1>3, <1>4 DEF SessionCourse
<1>8. Session!BugsWent'
  <2> SUFFICES ASSUME NEW x \in Session!All', x.verdict \in {"failed", "error"}, x.class # "infra"
               PROVE  \E g \in v15' : g[2] # "setup"
    BY DEF Session!BugsWent, Session!Real, Session!Failing
  <2>1. CASE x \in Session!All
    BY <2>1 DEF Session!BugsWent, Session!Real, Session!Failing
  <2>2. CASE x = r
    <3>1. verdict \in {"failed", "error"} /\ v11 = "call"
      BY <1>1, <2>2
    <3>2. <<v10, "call">> \in v15'
      BY <3>1
    <3> QED BY <3>2
  <2> QED BY <1>3, <2>1, <2>2
<1>9. Session!Kept'
  <2>1. v14 \in {"none", "failed"}
    BY DEF Session!Kept
  <2>2. ASSUME NEW t \in 1 .. TestCount, Session!Finished(t)'
        PROVE  \E x \in Session!All' : x.test = t
    <3>1. CASE Session!Finished(t)
      BY <1>3, <2>1, <3>1 DEF Session!Kept
    <3>2. CASE t = v10
      BY <1>1, <1>3, <3>2
    <3> QED BY <1>5, <2>2, <3>1, <3>2
  <2>3. ASSUME NEW g \in v15'
        PROVE  g[2] # "closing" /\ \E x \in Session!Failing(Session!All') : x.test = g[1]
    <3>1. CASE g \in v15
      <4>1. g[2] # "closing" /\ \E x \in Session!Failing(Session!All) : x.test = g[1]
        BY <2>1, <3>1 DEF Session!Kept
      <4> QED BY <1>3, <4>1 DEF Session!Failing
    <3>2. CASE g \notin v15
      <4>1. g = <<v10, v11>> /\ verdict \in {"failed", "error"}
        BY <2>3, <3>2
      <4>2. r \in Session!Failing(Session!All')
        BY <1>1, <1>3, <4>1 DEF Session!Failing
      <4> QED BY <1>1, <4>1, <4>2
    <3> QED BY <3>1, <3>2
  <2>4. ASSUME v14' = "none"
        PROVE  /\ v15' = {} /\ DOMAIN v13' = {t \in 1 .. TestCount : Session!Finished(t)'}
               /\ \A k \in DOMAIN v13' : v13'[k].test = k /\ v13'[k].verdict \in {"passed", "skipped"}
    <3>1. /\ v15 = {} /\ DOMAIN v13 = {t \in 1 .. TestCount : Session!Finished(t)}
          /\ \A k \in DOMAIN v13 : v13[k].test = k /\ v13[k].verdict \in {"passed", "skipped"}
      BY <2>4 DEF Session!Kept
    <3>2. DOMAIN v13 = {t \in 1 .. TestCount : t < v10}
      BY <1>6, <3>1
    <3>3. Len(v13) + 1 = v10
      <4>1. \A t \in 1 .. TestCount : t \in 1 .. Len(v13) <=> t < v10
        BY <1>3, <3>2
      <4>2. Len(v13) >= v10 - 1
        <5>1. CASE v10 = 1
          BY <1>3, <5>1
        <5>2. CASE v10 # 1
          <6>1. v10 - 1 \in 1 .. TestCount
            BY <1>4, <5>2
          <6> QED BY <1>3, <1>4, <4>1, <6>1
        <5> QED BY <5>1, <5>2
      <4>3. ~(v10 \in 1 .. Len(v13))
        BY <1>4, <4>1
      <4> QED BY <1>3, <1>4, <4>2, <4>3
    <3>4. DOMAIN v13' = {t \in 1 .. TestCount : Session!Finished(t)'}
      BY <1>3, <1>4, <1>5, <1>6, <3>3
    <3>5. verdict \in {"passed", "skipped"} /\ v15' = {}
      BY <2>4, <3>1
    <3>6. ASSUME NEW k \in DOMAIN v13'
          PROVE  v13'[k].test = k /\ v13'[k].verdict \in {"passed", "skipped"}
      <4>1. CASE k \in DOMAIN v13
        BY <1>3, <3>1, <4>1
      <4>2. CASE k = Len(v13) + 1
        BY <1>1, <1>3, <3>3, <3>5, <4>2
      <4> QED BY <1>3, <4>1, <4>2
    <3> QED BY <3>4, <3>5, <3>6
  <2>5. ASSUME ~v12'
        PROVE  \A x \in Session!All' : x.verdict # "passed"
    BY <1>1, <1>3, <2>5 DEF Session!Kept
  <2> HIDE DEF Session!All
  <2> QED BY <2>2, <2>3, <2>4, <2>5 DEF Session!Kept
<1> QED BY <1>7, <1>8, <1>9

(* What the steps of the fixtures and of the devices leave alone. *)
LEMMA SessionCourseStays ==
  ASSUME Session!Inductive, v4 \in {"bank", "tests"}, v4' \in {"bank", "tests"},
         UNCHANGED Session!course
  PROVE  SessionCourse' /\ Session!Kept' /\ Session!BugsWent'
<1>1. SessionCourse /\ Session!Kept /\ Session!BugsWent
  BY SessionTypes DEF Session!Inductive
<1>2. /\ v10' = v10 /\ v11' = v11 /\ v12' = v12 /\ v13' = v13 /\ v14' = v14 /\ v15' = v15
      /\ Session!All' = Session!All
  BY DEF Session!course, Session!All
<1>4. SessionCourse'
  BY <1>1, <1>2 DEF SessionCourse
<1>5. \A t \in 1 .. TestCount : Session!Finished(t)' <=> Session!Finished(t)
  BY <1>2 DEF Session!Finished
<1>6. {t \in 1 .. TestCount : Session!Finished(t)'} = {t \in 1 .. TestCount : Session!Finished(t)}
  BY <1>5
<1>7. Session!Kept'
  BY <1>1, <1>2, <1>5, <1>6 DEF Session!Kept
<1>8. Session!BugsWent'
  BY <1>1, <1>2 DEF Session!BugsWent
<1> QED BY <1>4, <1>7, <1>8

LEMMA SessionFault ==
  ASSUME Session!Inductive, NEW d \in Session!Devices, Session!Fault(d)
  PROVE  Session!Inductive'
<1>1. SessionBench /\ SessionCourse
  BY SessionTypes DEF Session!Inductive
<1>2. v4 # "over" /\ v4' = v4 /\ v3' = v3 /\ v5' = v5 /\ v6' = v6 /\ v7' = v7 /\ v8' = v8
      /\ UNCHANGED Session!course
  BY DEF Session!Fault, Session!fixtures
<1>3. /\ v10' = v10 /\ v11' = v11 /\ v12' = v12 /\ v13' = v13 /\ v14' = v14 /\ v15' = v15
      /\ Session!All' = Session!All
  BY <1>2 DEF Session!course, Session!All
<1>4. PICK how \in {"hung", "dead", "gone"} \ {v1[d]} :
        /\ v1' = [v1 EXCEPT ![d] = IF @ = "gone" THEN "up" ELSE how]
        /\ v16' = (v16 \/ (v1[d] # "gone" /\ how = "gone"))
  BY DEF Session!Fault
<1>5. v9' \subseteq v9
  BY DEF Session!Fault
<1>6. /\ v1' \in [Session!Devices -> {"up", "hung", "dead", "gone"}]
      /\ v1'[d] = (IF v1[d] = "gone" THEN "up" ELSE how)
      /\ \A e \in Session!Devices : e # d => v1'[e] = v1[e]
  BY <1>1, <1>4 DEF SessionBench
<1>7. SessionBench' /\ SessionCourse'
  BY <1>1, <1>2, <1>3, <1>4, <1>5, <1>6 DEF SessionBench, SessionCourse
<1>8. Session!OnTheBus'
  <2>1. v4' # "over" /\ v9' # {} => v8' = "up"
    BY <1>2, <1>5 DEF Session!Inductive, Session!OnTheBus
  <2>2. ASSUME ~v16', NEW e \in Session!Devices
        PROVE  v1'[e] # "gone"
    <3>1. ~v16 /\ (v1[d] = "gone" \/ how # "gone")
      BY <1>1, <1>4, <2>2 DEF SessionBench
    <3>2. \A x \in Session!Devices : v1[x] # "gone"
      BY <3>1 DEF Session!Inductive, Session!OnTheBus
    <3> QED BY <1>6, <3>1, <3>2
  <2> QED BY <2>1, <2>2 DEF Session!OnTheBus
<1>9. Session!NothingYet'
  BY <1>2, <1>3, <1>5 DEF Session!NothingYet, Session!Inductive
<1>10. Session!ImageShown'
  BY <1>2 DEF Session!ImageShown, Session!Inductive
<1>11. Session!Kept' /\ Session!BugsWent'
  <2>1. \A t \in 1 .. TestCount : Session!Finished(t)' <=> Session!Finished(t)
    BY <1>2, <1>3 DEF Session!Finished
  <2>2. {t \in 1 .. TestCount : Session!Finished(t)'} = {t \in 1 .. TestCount : Session!Finished(t)}
    BY <2>1
  <2> QED BY <1>2, <1>3, <2>1, <2>2 DEF Session!Kept, Session!BugsWent, Session!Inductive
<1>12. Session!SessionIsTold' /\ Session!InstrumentsLetGo'
  BY <1>2, SessionGoesOn
<1> QED BY <1>7, <1>8, <1>9, <1>10, <1>11, <1>12, SessionTypes DEF Session!Inductive

(* Before the first test there is nothing to tell, and a session that ends there has failed.  *)
LEMMA SessionBefore ==
  ASSUME Session!Inductive, v4 \in {"flash", "preflight"},
         \/ v4' \in {"flash", "preflight", "tests"} /\ v14' = v14
         \/ v4' = "over" /\ v14' = "failed",
         UNCHANGED <<v9, v10, v11, v12, v13, v15>>
  PROVE  /\ SessionCourse' /\ Session!NothingYet' /\ Session!Kept' /\ Session!BugsWent'
         /\ Session!SessionIsTold' /\ Session!InstrumentsLetGo'
<1>1. SessionCourse /\ TestCount \in Nat
  BY SessionTypes, TestSessionAssumption DEF Session!Inductive
<1>2. v13 = <<>> /\ v15 = {} /\ v14 = "none" /\ ~v12 /\ v10 = 1 /\ v11 = "setup" /\ v9 = {}
  BY DEF Session!Inductive, Session!NothingYet
<1>3. SessionCourse'
  BY <1>1, <1>2 DEF SessionCourse
<1>4. Session!All' = {} /\ DOMAIN v13' = {}
  BY <1>2 DEF Session!All
<1>6. Session!NothingYet'
  BY <1>2 DEF Session!NothingYet
<1>7. v4' = "tests" => \A t \in 1 .. TestCount : ~Session!Finished(t)'
  BY <1>1, <1>2 DEF Session!Finished
<1>8. Session!Kept'
  BY <1>2, <1>4, <1>7 DEF Session!Kept
<1>9. Session!BugsWent'
  BY <1>4 DEF Session!BugsWent, Session!Real, Session!Failing
<1>10. Session!SessionIsTold' /\ Session!InstrumentsLetGo'
  BY <1>2, <1>4 DEF Session!SessionIsTold, Session!InstrumentsLetGo, Session!Real, Session!Failing
<1> QED BY <1>3, <1>6, <1>8, <1>9, <1>10

LEMMA SessionFlashes ==
  ASSUME Session!Inductive, NEW b \in Tested, Session!Flashes(b)
  PROVE  Session!Inductive'
<1>1. SessionBench
  BY SessionTypes DEF Session!Inductive
<1>2. v4 = "flash" /\ UNCHANGED <<v2, v16, v6, v7, v8, v9, v10, v11, v12, v13, v15>>
  BY DEF Session!Flashes
<1>3. \/ v4' \in {"flash", "preflight"} /\ v14' = v14
      \/ v4' = "over" /\ v14' = "failed"
  BY <1>2 DEF Session!Flashes, Session!Ends
<1>4. /\ SessionCourse' /\ Session!NothingYet' /\ Session!Kept' /\ Session!BugsWent'
      /\ Session!SessionIsTold' /\ Session!InstrumentsLetGo'
  BY <1>2, <1>3, SessionBefore
<1>5. b \in Session!Devices
  BY DEF Session!Devices
<1>6. v1' = [v1 EXCEPT ![b] = "up"] \/ v1' = v1
  BY DEF Session!Flashes
<1>7. /\ v1' \in [Session!Devices -> {"up", "hung", "dead", "gone"}]
      /\ \A e \in Session!Devices : v1'[e] = v1[e] \/ v1'[e] = "up"
  BY <1>1, <1>5, <1>6 DEF SessionBench
<1>8. v3' = [v3 EXCEPT !.flashed = @ \cup {b}] \/ v3' = v3
  BY DEF Session!Flashes
<1>9. /\ v3' \in [flashed : SUBSET Tested, shown : SUBSET Tested]
      /\ v3.flashed \subseteq v3'.flashed /\ v3'.shown = v3.shown
  BY <1>1, <1>8 DEF SessionBench
<1>10. v5' \subseteq Tested
  BY <1>1 DEF Session!Flashes, SessionBench
<1>11. SessionBench'
  BY <1>1, <1>2, <1>7, <1>9, <1>10 DEF SessionBench
<1>12. v4' \notin {"bank", "tests", "closing"}
  BY <1>2 DEF Session!Flashes, Session!Ends
<1>13. Session!ImageShown'
  BY <1>9, <1>12 DEF Session!ImageShown, Session!Inductive
<1>14. v9 = {}
  BY <1>2 DEF Session!Inductive, Session!NothingYet
<1>15. Session!OnTheBus'
  BY <1>2, <1>7, <1>14 DEF Session!OnTheBus, Session!Inductive
<1> QED BY <1>4, <1>11, <1>13, <1>15, SessionTypes DEF Session!Inductive

LEMMA SessionShows ==
  ASSUME Session!Inductive, NEW b \in Tested, Session!Shows(b)
  PROVE  Session!Inductive'
<1>1. SessionBench
  BY SessionTypes DEF Session!Inductive
<1>2. v4 = "preflight" /\ UNCHANGED <<v1, v2, v16, v6, v7, v8, v9, v10, v11, v12, v13, v15>>
  BY DEF Session!Shows, Session!bench
<1>3. \/ v4' = v4 /\ v14' = v14
      \/ v4' = "tests" /\ v14' = v14 /\ v3'.shown = Tested
      \/ v4' = "over" /\ v14' = "failed"
  BY DEF Session!Shows, Session!Ends
<1>4. /\ SessionCourse' /\ Session!NothingYet' /\ Session!Kept' /\ Session!BugsWent'
      /\ Session!SessionIsTold' /\ Session!InstrumentsLetGo'
  BY <1>2, <1>3, SessionBefore
<1>5. v3' = [v3 EXCEPT !.shown = IF v1[b] = "up" /\ b \in v3.flashed THEN @ \cup {b} ELSE @]
  BY DEF Session!Shows
<1>6. /\ v3' \in [flashed : SUBSET Tested, shown : SUBSET Tested] /\ v3'.flashed = v3.flashed
      /\ v3'.shown \subseteq v3.shown \cup (v3.flashed \cap {b})
  BY <1>1, <1>5 DEF SessionBench
<1>7. v5' \subseteq Tested
  BY <1>1 DEF Session!Shows, SessionBench
<1>8. SessionBench'
  BY <1>1, <1>2, <1>6, <1>7 DEF SessionBench
<1>9. Session!ImageShown'
  BY <1>2, <1>3, <1>6 DEF Session!ImageShown, Session!Inductive
<1>10. v9 = {}
  BY <1>2 DEF Session!Inductive, Session!NothingYet
<1>11. Session!OnTheBus'
  BY <1>2, <1>10 DEF Session!OnTheBus, Session!Inductive
<1> QED BY <1>4, <1>8, <1>9, <1>11, SessionTypes DEF Session!Inductive

(* The fixtures of the session. *)
LEMMA SessionAsks ==
  ASSUME Session!Inductive, Session!AsksBank \/ Session!AsksInstruments
  PROVE  Session!Inductive'
<1>1. SessionBench
  BY SessionTypes DEF Session!Inductive
<1>2. v4 = "tests" /\ v4' \in {"bank", "tests"}
      /\ UNCHANGED <<v1, v3, v16, v6, v7, v9>> /\ UNCHANGED Session!course
  BY DEF Session!AsksBank, Session!AsksInstruments, Session!bench
<1>3. SessionCourse' /\ Session!Kept' /\ Session!BugsWent'
  BY <1>2, SessionCourseStays
<1>4. Session!NothingYet' /\ Session!SessionIsTold' /\ Session!InstrumentsLetGo'
  BY <1>2, SessionGoesOn DEF Session!NothingYet
<1>5. v8' \in {"none", "up", "failed"} /\ v5' \subseteq Tested /\ (v9 # {} => v8' = v8)
  <2>1. v9 # {} => v8 = "up"
    BY <1>2 DEF Session!Inductive, Session!OnTheBus
  <2> QED BY <1>1, <2>1 DEF Session!AsksBank, Session!AsksInstruments, SessionBench
<1>6. SessionBench'
  BY <1>1, <1>2, <1>5 DEF SessionBench
<1>7. Session!ImageShown'
  BY <1>2 DEF Session!ImageShown, Session!Inductive
<1>8. Session!OnTheBus'
  BY <1>2, <1>5 DEF Session!OnTheBus, Session!Inductive
<1> QED BY <1>3, <1>4, <1>6, <1>7, <1>8, SessionTypes DEF Session!Inductive

LEMMA SessionOpens ==
  ASSUME Session!Inductive, NEW b \in Tested, Session!Opens(b)
  PROVE  Session!Inductive'
<1>1. SessionBench
  BY SessionTypes DEF Session!Inductive
<1>2. v4 = "bank" /\ v4' \in {"bank", "tests"}
      /\ UNCHANGED <<v3, v16, v8, v9>> /\ UNCHANGED Session!course
  BY DEF Session!Opens
<1>3. SessionCourse' /\ Session!Kept' /\ Session!BugsWent'
  BY <1>2, SessionCourseStays
<1>4. Session!NothingYet' /\ Session!SessionIsTold' /\ Session!InstrumentsLetGo'
  BY <1>2, SessionGoesOn DEF Session!NothingYet
<1>5. v5' \subseteq Tested /\ v6' \subseteq Tested /\ v7' \in {"none", "up", "failed"}
  BY <1>1 DEF Session!Opens, SessionBench
<1>6. /\ v1' \in [Session!Devices -> {"up", "hung", "dead", "gone"}]
      /\ \A e \in Session!Devices : v1'[e] = v1[e] \/ v1'[e] = "up"
  <2>1. b \in Session!Devices /\ v1' = [v1 EXCEPT ![b] = IF @ = "hung" THEN "up" ELSE @]
    BY DEF Session!Opens, Session!Devices
  <2> QED BY <1>1, <2>1 DEF SessionBench
<1>7. SessionBench'
  BY <1>1, <1>2, <1>5, <1>6 DEF SessionBench
<1>8. Session!ImageShown'
  BY <1>2 DEF Session!ImageShown, Session!Inductive
<1>9. Session!OnTheBus'
  BY <1>2, <1>6 DEF Session!OnTheBus, Session!Inductive
<1> QED BY <1>3, <1>4, <1>7, <1>8, <1>9, SessionTypes DEF Session!Inductive

(* The tests. *)
LEMMA SessionWorks ==
  ASSUME Session!Inductive, v4 = "tests", v4' \in {"tests", "closing"},
         UNCHANGED <<v3, v5, v6, v7, v8, v16>>,
         v1' \in [Session!Devices -> {"up", "hung", "dead", "gone"}],
         \A e \in Session!Devices : v1'[e] = v1[e] \/ v1'[e] = "up",
         v9' \subseteq WiredUp, v9' \subseteq v9 \/ v8 = "up",
         SessionCourse', Session!Kept', Session!BugsWent'
  PROVE  Session!Inductive'
<1>1. SessionBench
  BY SessionTypes DEF Session!Inductive
<1>2. SessionBench'
  BY <1>1 DEF SessionBench
<1>3. Session!NothingYet' /\ Session!SessionIsTold' /\ Session!InstrumentsLetGo'
  BY SessionGoesOn DEF Session!NothingYet
<1>4. Session!ImageShown'
  BY DEF Session!ImageShown, Session!Inductive
<1>5. Session!OnTheBus'
  BY DEF Session!OnTheBus, Session!Inductive
<1> QED BY <1>2, <1>3, <1>4, <1>5, SessionTypes DEF Session!Inductive

LEMMA SessionSetupFails ==
  ASSUME Session!Inductive, Session!SetupFails
  PROVE  Session!Inductive'
<1>1. SessionBench /\ SessionCourse /\ Session!Kept /\ Session!BugsWent
  BY SessionTypes DEF Session!Inductive
<1>2. /\ v4 = "tests" /\ v11 = "setup" /\ v4' = v4 /\ v10' = v10 /\ v11' = "teardown"
      /\ UNCHANGED <<v1, v3, v5, v6, v7, v8, v9, v12, v16>>
      /\ v15' = v15 \cup {<<v10, "setup">>}
  BY DEF Session!SetupFails, Session!ToTeardown, Session!bench, Session!fixtures
<1>3. v13' = Session!Record("error", "infra")
  BY <1>2 DEF Session!SetupFails, Session!Failure, Session!Classes
<1>4. v14' = IF ~v12 THEN "stopped" ELSE "failed"
  BY DEF Session!SetupFails, Session!Stops
<1>5. SessionCourse' /\ Session!Kept' /\ Session!BugsWent'
  BY <1>1, <1>2, <1>3, <1>4, SessionRecords DEF SessionCourse
<1> QED BY <1>1, <1>2, <1>5, SessionWorks DEF SessionBench

LEMMA SessionSkips ==
  ASSUME Session!Inductive, Session!SetupSkips \/ Session!CallSkips
  PROVE  Session!Inductive'
<1>1. SessionBench /\ SessionCourse /\ Session!Kept /\ Session!BugsWent
  BY SessionTypes DEF Session!Inductive
<1>2. /\ v4 = "tests" /\ v11 \in {"setup", "call"} /\ v4' = v4 /\ v10' = v10 /\ v11' = "teardown"
      /\ UNCHANGED <<v1, v3, v5, v6, v7, v8, v9, v12, v14, v15, v16>>
      /\ v13' = Session!Record("skipped", "none")
  BY DEF Session!SetupSkips, Session!CallSkips, Session!ToTeardown, Session!bench, Session!fixtures
<1>3. v14 \in {"none", "failed"}
  BY <1>1, <1>2 DEF Session!Kept
<1>4. SessionCourse' /\ Session!Kept' /\ Session!BugsWent'
  BY <1>1, <1>2, <1>3, SessionRecords DEF SessionCourse
<1> QED BY <1>1, <1>2, <1>4, SessionWorks DEF SessionBench

LEMMA SessionSetupPasses ==
  ASSUME Session!Inductive, Session!SetupPasses
  PROVE  Session!Inductive'
<1>1. SessionBench /\ SessionCourse /\ Session!Kept /\ Session!BugsWent
  BY SessionTypes DEF Session!Inductive
<1>2. /\ v4 = "tests" /\ v11 = "setup" /\ v11' = "call"
      /\ UNCHANGED <<v1, v3, v4, v5, v6, v7, v8, v9, v10, v12, v13, v14, v15, v16>>
  BY DEF Session!SetupPasses, Session!bench, Session!fixtures
<1>3. SessionCourse' /\ Session!All' = Session!All
  BY <1>1, <1>2 DEF SessionCourse, Session!All
<1>4. \A t \in 1 .. TestCount : Session!Finished(t)' <=> Session!Finished(t)
  BY <1>2 DEF Session!Finished
<1>5. {t \in 1 .. TestCount : Session!Finished(t)'} = {t \in 1 .. TestCount : Session!Finished(t)}
  BY <1>4
<1>6. Session!Kept'
  BY <1>1, <1>2, <1>3, <1>4, <1>5 DEF Session!Kept
<1>7. Session!BugsWent'
  BY <1>1, <1>2, <1>3 DEF Session!BugsWent
<1> QED BY <1>1, <1>2, <1>3, <1>6, <1>7, SessionWorks DEF SessionBench

(* A device that left the bus breaks the session in the hook, and what went wrong is lost.  *)
LEMMA SessionBreaks ==
  ASSUME Session!Inductive, v4 = "tests", Session!Breaks, UNCHANGED <<v10, v11, v13>>,
         v12' = TRUE \/ v12' = v12, v15' = v15 \/ v15' = v15 \cup {<<v10, "call">>}
  PROVE  SessionCourse' /\ Session!Kept' /\ Session!BugsWent'
<1>1. SessionCourse /\ Session!Kept /\ Session!BugsWent
  BY SessionTypes DEF Session!Inductive
<1>2. v4' = "closing" /\ v14' = "broken" /\ Session!All' = Session!All
  BY DEF Session!Breaks, Session!All
<1>3. SessionCourse'
  <2>1. <<v10, "call">> \in (1 .. TestCount) \X {"setup", "call", "teardown", "closing"}
    BY <1>1 DEF SessionCourse
  <2>2. v15' \subseteq (1 .. TestCount) \X {"setup", "call", "teardown", "closing"}
    BY <1>1, <2>1 DEF SessionCourse
  <2>3. v12' \in BOOLEAN
    BY <1>1 DEF SessionCourse
  <2> QED BY <1>1, <1>2, <2>2, <2>3 DEF SessionCourse
<1>4. Session!Kept'
  BY <1>1, <1>2 DEF Session!Kept, SessionCourse
<1>5. Session!BugsWent'
  BY <1>1, <1>2 DEF Session!BugsWent
<1> QED BY <1>3, <1>4, <1>5

LEMMA SessionCallPasses ==
  ASSUME Session!Inductive, NEW used \in SUBSET WiredUp, Session!CallPasses(used)
  PROVE  Session!Inductive'
<1>1. SessionBench /\ SessionCourse /\ Session!Kept /\ Session!BugsWent
  BY SessionTypes DEF Session!Inductive
<1>2. /\ v4 = "tests" /\ v11 = "call" /\ v12' = TRUE /\ v9' = v9 \cup used
      /\ UNCHANGED <<v1, v3, v5, v6, v7, v8, v15, v16>> /\ (used = {} \/ v8 = "up")
  BY DEF Session!CallPasses, Session!Drives, Session!bench, Session!fixtures
<1>3. CASE Session!Breaks /\ UNCHANGED <<v10, v11, v13>>
  <2>1. SessionCourse' /\ Session!Kept' /\ Session!BugsWent'
    BY <1>2, <1>3, SessionBreaks
  <2>2. v4' = "closing"
    BY <1>3 DEF Session!Breaks
  <2> QED BY <1>1, <1>2, <2>1, <2>2, SessionWorks DEF SessionBench
<1>4. CASE v13' = Session!Record("passed", "none") /\ Session!ToTeardown /\ v14' = v14
  <2>1. v14 \in {"none", "failed"} /\ v4' = "tests" /\ v10' = v10 /\ v11' = "teardown"
    BY <1>1, <1>2, <1>4 DEF Session!Kept, Session!ToTeardown
  <2>2. SessionCourse' /\ Session!Kept' /\ Session!BugsWent'
    BY <1>1, <1>2, <1>4, <2>1, SessionRecords DEF SessionCourse
  <2> QED BY <1>1, <1>2, <2>1, <2>2, SessionWorks DEF SessionBench
<1> QED BY <1>3, <1>4 DEF Session!CallPasses

LEMMA SessionCallFails ==
  ASSUME Session!Inductive, NEW used \in SUBSET WiredUp, NEW named, Session!CallFails(used, named)
  PROVE  Session!Inductive'
<1>1. SessionBench /\ SessionCourse /\ Session!Kept /\ Session!BugsWent
  BY SessionTypes DEF Session!Inductive
<1>2. /\ v4 = "tests" /\ v11 = "call" /\ v12' = v12 /\ v9' = v9 \cup used
      /\ UNCHANGED <<v3, v5, v6, v7, v8, v16>> /\ (used = {} \/ v8 = "up")
      /\ v15' = v15 \cup {<<v10, "call">>}
      /\ v1' = [d \in Session!Devices |-> IF d \in named /\ v1[d] = "hung" THEN "up" ELSE v1[d]]
  BY DEF Session!CallFails, Session!Drives, Session!fixtures
<1>3. /\ v1' \in [Session!Devices -> {"up", "hung", "dead", "gone"}]
      /\ \A e \in Session!Devices : v1'[e] = v1[e] \/ v1'[e] = "up"
  BY <1>1, <1>2 DEF SessionBench
<1>4. v9' \subseteq WiredUp /\ (v9' \subseteq v9 \/ v8 = "up")
  BY <1>1, <1>2 DEF SessionBench
<1>5. CASE Session!Breaks /\ UNCHANGED <<v10, v11, v13>>
  <2>1. SessionCourse' /\ Session!Kept' /\ Session!BugsWent'
    BY <1>2, <1>5, SessionBreaks
  <2>2. v4' = "closing"
    BY <1>5 DEF Session!Breaks
  <2> QED BY <1>2, <1>3, <1>4, <2>1, <2>2, SessionWorks
<1>6. CASE Session!Failure("failed") /\ Session!ToTeardown /\ v14' = IF v14 = "none" THEN "failed" ELSE v14
  <2>1. PICK class \in {"infra", "real_bug"} : v13' = Session!Record("failed", class)
    BY <1>2, <1>6 DEF Session!Failure, Session!Classes
  <2>2. v14' = "failed" /\ v4' = "tests" /\ v10' = v10 /\ v11' = "teardown"
    BY <1>1, <1>2, <1>6 DEF Session!Kept, Session!ToTeardown
  <2>3. SessionCourse' /\ Session!Kept' /\ Session!BugsWent'
    BY <1>1, <1>2, <2>1, <2>2, SessionRecords DEF SessionCourse
  <2> QED BY <1>2, <1>3, <1>4, <2>2, <2>3, SessionWorks
<1> QED BY <1>5, <1>6 DEF Session!CallFails

LEMMA SessionTeardown ==
  ASSUME Session!Inductive, NEW fails \in BOOLEAN, Session!Teardown(fails)
  PROVE  Session!Inductive'
<1>1. SessionBench /\ SessionCourse /\ Session!Kept /\ Session!BugsWent
  BY SessionTypes DEF Session!Inductive
<1>2. /\ v4 = "tests" /\ v11 = "teardown" /\ UNCHANGED <<v1, v3, v5, v6, v7, v8, v9, v12, v16>>
      /\ v14' = IF fails /\ v14 = "none" THEN "failed" ELSE v14
  BY DEF Session!Teardown, Session!bench, Session!fixtures
<1>3. v10 \in 1 .. TestCount /\ TestCount \in Nat /\ v14 \in {"none", "failed", "stopped"}
  BY <1>1, <1>2, TestSessionAssumption DEF SessionCourse, Session!Kept
<1>4. /\ v14 = "stopped" => v4' = "closing" /\ v10' = v10 /\ v11' = v11
      /\ v14 # "stopped" => Session!NextTest
  BY DEF Session!Teardown
<1>5. \/ v4' = "closing" /\ v10' = v10 /\ v11' = "teardown" /\ (v14 = "stopped" \/ v10 = TestCount)
      \/ v4' = "tests" /\ v10' = v10 + 1 /\ v11' = "setup" /\ v14 # "stopped" /\ v10 # TestCount
  BY <1>2, <1>4 DEF Session!NextTest
<1>6. \A t \in 1 .. TestCount : Session!Finished(t)' <=> Session!Finished(t)
  BY <1>2, <1>3, <1>5 DEF Session!Finished
<1>7. {t \in 1 .. TestCount : Session!Finished(t)'} = {t \in 1 .. TestCount : Session!Finished(t)}
  BY <1>6
<1>8. /\ v10' \in 1 .. TestCount /\ v11' \in {"setup", "call", "teardown"} /\ v4' \in {"tests", "closing"}
      /\ v14' \in {"none", "failed", "stopped"}
  BY <1>2, <1>3, <1>5
<1>9. CASE ~fails
  <2>1. v13' = v13 /\ v15' = v15 /\ v14' = v14 /\ Session!All' = Session!All
    BY <1>2, <1>9 DEF Session!Teardown, Session!All
  <2>2. SessionCourse'
    BY <1>1, <1>2, <1>8, <2>1 DEF SessionCourse
  <2>3. Session!Kept'
    BY <1>1, <1>2, <1>5, <1>6, <1>7, <1>8, <2>1 DEF Session!Kept
  <2>4. Session!BugsWent'
    BY <1>1, <2>1 DEF Session!BugsWent
  <2> QED BY <1>1, <1>2, <1>8, <2>2, <2>3, <2>4, SessionWorks DEF SessionBench
<1>10. CASE fails
  <2>1. PICK class \in {"infra", "real_bug"} : v13' = Session!Record("error", class)
    BY <1>2, <1>10 DEF Session!Teardown, Session!Failure, Session!Classes
  <2>2. v15' = v15 \cup {<<v10, "teardown">>} /\ v14' \in {"failed", "stopped"}
    BY <1>2, <1>3, <1>10 DEF Session!Teardown
  <2> DEFINE r == [test |-> v10, verdict |-> "error", class |-> class]
  <2>3. r \in Session!Row /\ r.test = v10 /\ r.verdict = "error"
    BY <1>3 DEF Session!Row
  <2>4. v13' = Append(v13, r)
    BY <2>1 DEF Session!Record
  <2> HIDE DEF r
  <2>5. v13' \in Seq(Session!Row) /\ Session!All' = Session!All \cup {r}
    BY <1>1, <2>3, <2>4, OneRecordMore
  <2>6. <<v10, "teardown">> \in (1 .. TestCount) \X {"setup", "call", "teardown", "closing"}
    BY <1>3
  <2>7. SessionCourse'
    BY <1>1, <1>2, <1>8, <2>2, <2>5, <2>6 DEF SessionCourse
  <2>8. Session!Kept'
    <3>1. ASSUME NEW t \in 1 .. TestCount, Session!Finished(t)'
          PROVE  \E x \in Session!All' : x.test = t
      BY <1>1, <1>2, <1>3, <1>6, <2>5, <3>1 DEF Session!Kept
    <3>2. ASSUME NEW g \in v15'
          PROVE  g[2] # "closing" /\ \E x \in Session!Failing(Session!All') : x.test = g[1]
      <4>1. CASE g \in v15
        <5>1. g[2] # "closing" /\ \E x \in Session!Failing(Session!All) : x.test = g[1]
          BY <1>1, <1>2, <1>3, <4>1 DEF Session!Kept
        <5> QED BY <2>5, <5>1 DEF Session!Failing
      <4>2. CASE g \notin v15
        <5>1. g = <<v10, "teardown">>
          BY <2>2, <3>2, <4>2
        <5>2. r \in Session!Failing(Session!All')
          BY <2>3, <2>5 DEF Session!Failing
        <5> QED BY <2>3, <5>1, <5>2
      <4> QED BY <4>1, <4>2
    <3>3. \A x \in Session!All' : x.verdict = "passed" => x \in Session!All
      BY <2>3, <2>5
    <3>4. ~v12' => \A x \in Session!All' : x.verdict # "passed"
      BY <1>1, <1>2, <3>3 DEF Session!Kept
    <3>5. /\ v4' = "closing" /\ v14' \in {"none", "failed"} => v10' = TestCount
          /\ v14' = "stopped" => ~v12' /\ (v11' = "teardown" \/ v4' = "closing")
      BY <1>1, <1>2, <1>3, <1>5 DEF Session!Kept
    <3> HIDE DEF Session!All
    <3> QED BY <1>8, <2>2, <3>1, <3>2, <3>4, <3>5 DEF Session!Kept
  <2>9. Session!BugsWent'
    <3>1. <<v10, "teardown">> \in v15'
      BY <2>2
    <3> QED BY <3>1 DEF Session!BugsWent
  <2> QED BY <1>1, <1>2, <1>8, <2>7, <2>8, <2>9, SessionWorks DEF SessionBench
<1> QED BY <1>9, <1>10

(* The end of the session. *)
LEMMA SessionCounts ==
  ASSUME NEW S
  PROVE  Session!Cardinality(S) = Cardinality(S)
BY DEF Session!Cardinality, Cardinality

(* An order of the instruments that are wired has every one of them.  *)
LEMMA OrderHasAll ==
  ASSUME NEW order \in Session!SetToSeqs(WiredUp), NEW i \in WiredUp
  PROVE  \E k \in DOMAIN order : order[k] = i
<1> DEFINE D == 1 .. Cardinality(WiredUp)
<1>1. Cardinality(WiredUp) \in Nat
  BY FS_CardinalityType, TestSessionAssumption
<1>2. order \in [D -> WiredUp] /\ \A j, k \in D : j # k => order[j] # order[k]
  BY SessionCounts DEF Session!SetToSeqs
<1>3. IsFiniteSet(D) /\ Cardinality(D) = Cardinality(WiredUp)
  BY <1>1, FS_Interval
<1>4. order \in Injection(D, WiredUp)
  BY <1>2 DEF Injection, IsInjective
<1>5. order \in Surjection(D, WiredUp)
  BY <1>3, <1>4, FS_Injection, TestSessionAssumption
<1> QED BY <1>2, <1>5 DEF Surjection

(* A session that ended well has one record of each test, and none that fails.  *)
LEMMA SessionOneEach ==
  ASSUME SessionCourse, v10 = TestCount, Session!Kept, v4 = "closing", v14 = "none",
         NEW t \in 1 .. TestCount
  PROVE  /\ {k \in DOMAIN v13 : v13[k].test = t} = {t}
         /\ Session!Cardinality({k \in DOMAIN v13 : v13[k].test = t}) = 1
         /\ \E x \in Session!All : x.test = t /\ x.verdict \in {"passed", "skipped"}
         /\ \A x \in Session!All : x.verdict \in {"passed", "skipped"}
<1>1. /\ DOMAIN v13 = {n \in 1 .. TestCount : Session!Finished(n)}
      /\ \A k \in DOMAIN v13 : v13[k].test = k /\ v13[k].verdict \in {"passed", "skipped"}
  BY DEF Session!Kept
<1>2. Session!Finished(t)
  BY TestSessionAssumption DEF Session!Finished
<1>3. t \in DOMAIN v13
  BY <1>1, <1>2
<1>4. {k \in DOMAIN v13 : v13[k].test = t} = {t}
  BY <1>1, <1>3
<1>5. Session!Cardinality({k \in DOMAIN v13 : v13[k].test = t}) = 1
  BY <1>4, SessionCounts, FS_Singleton
<1> QED BY <1>1, <1>3, <1>4, <1>5 DEF Session!All

LEMMA SessionCloses ==
  ASSUME Session!Inductive, NEW order \in Session!SetToSeqs(WiredUp), Session!Closes(order)
  PROVE  Session!Inductive'
<1> DEFINE raising == {k \in DOMAIN order : ~Session!Passes(order[k])}
           reached == {order[k] : k \in {n \in DOMAIN order : \A m \in raising : n < m}}
           raises == (v8 = "up" /\ raising # {}) \/ Session!Broken(Session!Lives)
           r == [test |-> v10, verdict |-> "error", class |-> "infra"]
<1>1. SessionBench /\ SessionCourse /\ Session!Kept /\ Session!BugsWent
  BY SessionTypes DEF Session!Inductive
<1>2. v4 = "closing" /\ v4' = "over" /\ UNCHANGED <<v1, v3, v5, v6, v7, v8, v10, v11, v12, v16>>
  BY DEF Session!Closes, Session!Ends, Session!bench, Session!fixtures
<1>3. /\ v9' = IF v8 = "up" THEN {i \in v9 : i \notin reached \/ v1[i] # "up"} ELSE v9
      /\ v13' = IF /\ raises /\ v10 = TestCount /\ v14 \notin {"stopped", "broken"}
                   /\ <<TestCount, "teardown">> \notin v15
                  THEN Append(v13, r) ELSE v13
      /\ v15' = IF raises THEN v15 \cup {<<TestCount, "closing">>} ELSE v15
      /\ v14' = IF v14 = "none" THEN (IF raises THEN "failed" ELSE "ok") ELSE v14
  BY DEF Session!Closes, Session!Ends, Session!Record
<1> HIDE DEF raises, reached
<1>4. /\ v10 \in 1 .. TestCount /\ TestCount \in 1 .. TestCount /\ TestCount \in Nat
      /\ v14 \in {"none", "failed", "stopped", "broken"} /\ (v14 \in {"none", "failed"} => v10 = TestCount)
  BY <1>1, <1>2, TestSessionAssumption DEF SessionCourse, Session!Kept
<1>5. r \in Session!Row /\ r.test = v10 /\ r.verdict = "error" /\ r.class = "infra"
  BY <1>4 DEF Session!Row
<1> HIDE DEF r
<1>6. /\ v13' \in Seq(Session!Row)
      /\ \/ v13' = v13 /\ Session!All' = Session!All
         \/ v13' = Append(v13, r) /\ Session!All' = Session!All \cup {r} /\ raises /\ v14 \in {"none", "failed"}
  <2>1. CASE v13' = v13
    BY <1>1, <2>1 DEF SessionCourse, Session!All
  <2>2. CASE v13' # v13
    <3>1. v13' = Append(v13, r) /\ raises /\ v14 \in {"none", "failed"}
      BY <1>3, <1>4, <2>2
    <3> QED BY <1>1, <1>5, <3>1, OneRecordMore
  <2> QED BY <2>1, <2>2
<1>7. SessionBench' /\ SessionCourse'
  <2>1. v15' \subseteq (1 .. TestCount) \X {"setup", "call", "teardown", "closing"}
    BY <1>1, <1>3, <1>4 DEF SessionCourse
  <2>2. v14' \in {"none", "ok", "failed", "stopped", "broken", "killed"}
    BY <1>3, <1>4
  <2>3. SessionCourse'
    BY <1>1, <1>2, <1>6, <2>1, <2>2 DEF SessionCourse
  <2>4. v9' \subseteq WiredUp
    BY <1>1, <1>3 DEF SessionBench
  <2> QED BY <1>1, <1>2, <2>3, <2>4 DEF SessionBench
<1>8. Session!NothingYet' /\ Session!Kept' /\ Session!ImageShown'
  BY <1>2 DEF Session!NothingYet, Session!Kept, Session!ImageShown, Session!Inductive
<1>9. Session!BugsWent'
  <2>1. Session!Real(Session!All') = Session!Real(Session!All)
    BY <1>5, <1>6 DEF Session!Real, Session!Failing
  <2>2. v15 \subseteq v15'
    BY <1>3
  <2> QED BY <1>1, <2>1, <2>2 DEF Session!BugsWent, Session!Real, Session!Failing
<1>10. ~v16 => \A d \in Session!Devices : v1[d] # "gone"
  BY DEF Session!OnTheBus, Session!Inductive
<1>11. Session!OnTheBus'
  BY <1>2, <1>10 DEF Session!OnTheBus
<1>12. Session!InstrumentsLetGo'
  <2> SUFFICES ASSUME ~v16, NEW i \in v9' PROVE v1[i] # "up"
    BY <1>2 DEF Session!InstrumentsLetGo
  <2>1. i \in v9 /\ i \in WiredUp /\ v8 = "up"
    BY <1>1, <1>2, <1>3 DEF SessionBench, Session!OnTheBus, Session!Inductive
  <2>2. raising = {}
    <3>1. ASSUME NEW k \in DOMAIN order PROVE order[k] \in Session!Devices
      BY DEF Session!SetToSeqs, Session!Devices
    <3> QED BY <1>10, <3>1 DEF Session!Passes
  <2>3. i \in reached
    BY <2>1, <2>2, OrderHasAll DEF reached
  <2> QED BY <1>3, <2>1, <2>3
<1>13. Session!SessionIsTold'
  <2>1. ASSUME v14' = "ok"
        PROVE  /\ Session!Gate' \in {"passed", "incomplete"} /\ v15' = {}
               /\ \A t \in 1 .. TestCount : Session!Capability(ProvesWhat[t])' \in {"validated", "skipped"}
               /\ Tested \subseteq v3'.flashed \cap v3'.shown
               /\ \A t \in 1 .. TestCount : Session!Cardinality({k \in DOMAIN v13' : v13'[k].test = t}) = 1
    <3>1. v14 = "none" /\ ~raises /\ v13' = v13 /\ v15' = v15 /\ Session!All' = Session!All /\ v10 = TestCount
      BY <1>3, <1>4, <1>6, <2>1
    <3>2. v15 = {}
      BY <1>1, <1>2, <3>1 DEF Session!Kept
    <3>3. \A t \in 1 .. TestCount :
            /\ Session!Cardinality({k \in DOMAIN v13 : v13[k].test = t}) = 1
            /\ \E x \in Session!All : x.test = t /\ x.verdict \in {"passed", "skipped"}
            /\ \A x \in Session!All : x.verdict \in {"passed", "skipped"}
      BY <1>1, <1>2, <3>1, SessionOneEach
    <3>4. \A x \in Session!All' : x.verdict \in {"passed", "skipped"}
      BY <1>4, <3>1, <3>3
    <3>5. Session!Gate' \in {"passed", "incomplete"}
      BY <3>4 DEF Session!Gate, Session!Real, Session!Failing
    <3>6. ASSUME NEW t \in 1 .. TestCount
          PROVE  Session!Capability(ProvesWhat[t])' \in {"validated", "skipped"}
      BY <3>1, <3>3, <3>4 DEF Session!Capability, Session!Real, Session!Failing
    <3>7. Tested \subseteq v3'.flashed \cap v3'.shown
      BY <1>2 DEF Session!ImageShown, Session!Inductive
    <3> QED BY <3>1, <3>2, <3>3, <3>5, <3>6, <3>7
  <2>2. ASSUME v14' \in {"failed", "stopped"}, NEW g \in v15', g[2] # "closing" \/ v14' = "failed"
        PROVE  \E x \in Session!Failing(Session!All') : x.test = g[1]
    <3>1. v14 \in {"none", "failed", "stopped"}
      BY <1>3, <1>4, <2>2
    <3>2. CASE g \in v15
      <4>1. \E x \in Session!Failing(Session!All) : x.test = g[1]
        BY <1>1, <1>2, <3>1, <3>2 DEF Session!Kept
      <4> QED BY <1>6, <4>1 DEF Session!Failing
    <3>3. CASE g \notin v15
      <4>1. g = <<TestCount, "closing">> /\ raises
        BY <1>3, <2>2, <3>3
      <4>2. v14 \in {"none", "failed"} /\ v10 = TestCount
        BY <1>3, <1>4, <2>2, <4>1
      <4>3. CASE <<TestCount, "teardown">> \in v15
        <5>1. \E x \in Session!Failing(Session!All) : x.test = TestCount
          BY <1>1, <1>2, <3>1, <4>3 DEF Session!Kept
        <5> QED BY <1>6, <4>1, <5>1 DEF Session!Failing
      <4>4. CASE <<TestCount, "teardown">> \notin v15
        <5>1. v13' = Append(v13, r)
          BY <1>3, <4>1, <4>2, <4>4
        <5>2. Session!All' = Session!All \cup {r}
          BY <1>1, <1>5, <5>1, OneRecordMore
        <5> QED BY <1>5, <4>1, <4>2, <5>2 DEF Session!Failing
      <4> QED BY <4>3, <4>4
    <3> QED BY <3>2, <3>3
  <2>3. ASSUME v14' = "failed", NEW t \in 1 .. TestCount
        PROVE  \E x \in Session!All' : x.test = t
    <3>1. v14 \in {"none", "failed"} /\ v10 = TestCount
      BY <1>3, <1>4, <2>3
    <3>2. Session!Finished(t)
      BY <1>2, <1>4, <3>1 DEF Session!Finished
    <3>3. \E x \in Session!All : x.test = t
      BY <1>1, <1>2, <3>1, <3>2 DEF Session!Kept
    <3> QED BY <1>6, <3>3
  <2>4. ASSUME v14' = "stopped"
        PROVE  \A x \in Session!All' : x.verdict # "passed"
    <3>1. v14 = "stopped" /\ Session!All' = Session!All
      BY <1>3, <1>4, <1>6, <2>4
    <3> QED BY <1>1, <1>2, <3>1 DEF Session!Kept
  <2>5. Session!Real(Session!All)' # {} => \E g \in v15' : g[2] # "setup"
    BY <1>9 DEF Session!BugsWent
  <2> HIDE DEF Session!All
  <2> QED BY <2>1, <2>2, <2>3, <2>4, <2>5 DEF Session!SessionIsTold
<1> QED BY <1>7, <1>8, <1>9, <1>11, <1>12, <1>13, SessionTypes DEF Session!Inductive

LEMMA SessionKilled ==
  ASSUME Session!Inductive, Session!Killed
  PROVE  Session!Inductive'
<1>1. SessionBench /\ SessionCourse
  BY SessionTypes DEF Session!Inductive
<1>2. /\ v4' = "over" /\ v14' = "killed"
      /\ UNCHANGED <<v1, v3, v5, v6, v7, v8, v9, v10, v11, v12, v13, v15, v16>>
  BY DEF Session!Killed, Session!Ends, Session!bench, Session!fixtures
<1>3. Session!All' = Session!All
  BY <1>2 DEF Session!All
<1>4. SessionBench' /\ SessionCourse'
  BY <1>1, <1>2 DEF SessionBench, SessionCourse
<1>5. Session!NothingYet' /\ Session!Kept' /\ Session!ImageShown'
  BY <1>2 DEF Session!NothingYet, Session!Kept, Session!ImageShown, Session!Inductive
<1>6. Session!BugsWent'
  BY <1>2, <1>3 DEF Session!BugsWent, Session!Inductive
<1>7. Session!OnTheBus'
  BY <1>2 DEF Session!OnTheBus, Session!Inductive
<1>8. Session!SessionIsTold' /\ Session!InstrumentsLetGo'
  BY <1>2, <1>6 DEF Session!SessionIsTold, Session!InstrumentsLetGo, Session!BugsWent
<1> QED BY <1>4, <1>5, <1>6, <1>7, <1>8, SessionTypes DEF Session!Inductive

LEMMA SessionStarts ==
  ASSUME Session!Init
  PROVE  Session!Inductive
<1>1. /\ v1 \in [Session!Devices -> {"up", "hung"}] /\ v16 = FALSE
      /\ v3 = [flashed |-> {}, shown |-> {}] /\ v4 = "flash" /\ v5 = Tested /\ v6 = {}
      /\ v7 = "none" /\ v8 = "none" /\ v9 = {} /\ v10 = 1 /\ v11 = "setup" /\ v12 = FALSE
      /\ v13 = <<>> /\ v14 = "none" /\ v15 = {}
  BY DEF Session!Init
<1>2. SessionBench
  BY <1>1 DEF SessionBench
<1>3. SessionCourse
  <2>1. v13 \in Seq(Session!Row)
    BY <1>1
  <2>2. v10 \in 1 .. TestCount
    BY <1>1, TestSessionAssumption
  <2> QED BY <1>1, <2>1, <2>2 DEF SessionCourse
<1>4. Session!All = {}
  BY <1>1 DEF Session!All
<1>5. Session!NothingYet /\ Session!ImageShown /\ Session!Kept /\ Session!OnTheBus
  BY <1>1 DEF Session!NothingYet, Session!ImageShown, Session!Kept, Session!OnTheBus
<1>6. Session!BugsWent
  BY <1>4 DEF Session!BugsWent, Session!Real, Session!Failing
<1>7. Session!SessionIsTold /\ Session!InstrumentsLetGo
  BY <1>1 DEF Session!SessionIsTold, Session!InstrumentsLetGo
<1> QED BY <1>2, <1>3, <1>5, <1>6, <1>7, SessionTypes DEF Session!Inductive

LEMMA SessionIdles ==
  ASSUME Session!Inductive, UNCHANGED Session!vars
  PROVE  Session!Inductive'
<1>1. UNCHANGED <<v1, v2, v3, v4, v5, v6, v7, v8, v9, v10, v11, v12, v13, v14, v15, v16>>
  BY DEF Session!vars
<1>2. Session!All' = Session!All /\ Session!Gate' = Session!Gate
      /\ \A c : Session!Capability(c)' = Session!Capability(c)
  BY <1>1 DEF Session!All, Session!Gate, Session!Capability, Session!Real, Session!Failing
<1>3. Session!TypeOK'
  BY <1>1 DEF Session!Inductive, Session!TypeOK
<1>4. Session!NothingYet' /\ Session!ImageShown' /\ Session!BugsWent' /\ Session!OnTheBus'
  BY <1>1, <1>2 DEF Session!Inductive, Session!NothingYet, Session!ImageShown, Session!BugsWent, Session!OnTheBus
<1>5. Session!Kept'
  <2>1. \A t \in 1 .. TestCount : Session!Finished(t)' <=> Session!Finished(t)
    BY <1>1 DEF Session!Finished
  <2>2. {t \in 1 .. TestCount : Session!Finished(t)'} = {t \in 1 .. TestCount : Session!Finished(t)}
    BY <2>1
  <2> QED BY <1>1, <1>2, <2>1, <2>2 DEF Session!Inductive, Session!Kept
<1>6. Session!SessionIsTold' /\ Session!InstrumentsLetGo'
  BY <1>1, <1>2 DEF Session!Inductive, Session!SessionIsTold, Session!InstrumentsLetGo
<1> QED BY <1>3, <1>4, <1>5, <1>6 DEF Session!Inductive

LEMMA SessionInductive ==
  ASSUME Session!Inductive, [Session!Next]_(Session!vars)
  PROVE  Session!Inductive'
<1>1. CASE UNCHANGED Session!vars
  BY <1>1, SessionIdles
<1>2. CASE \E d \in Session!Devices : Session!Fault(d)
  BY <1>2, SessionFault
<1>3. CASE \E b \in Tested : Session!Flashes(b) \/ Session!Shows(b) \/ Session!Opens(b)
  BY <1>3, SessionFlashes, SessionShows, SessionOpens
<1>4. CASE Session!AsksBank \/ Session!AsksInstruments
  BY <1>4, SessionAsks
<1>5. CASE Session!SetupFails \/ Session!SetupSkips \/ Session!SetupPasses \/ Session!CallSkips
  BY <1>5, SessionSetupFails, SessionSkips, SessionSetupPasses
<1>6. CASE \E used \in SUBSET WiredUp :
             \/ Session!CallPasses(used)
             \/ \E named \in {{}} \cup {{b} : b \in Tested} : Session!CallFails(used, named)
  BY <1>6, SessionCallPasses, SessionCallFails
<1>7. CASE \E fails \in BOOLEAN : Session!Teardown(fails)
  BY <1>7, SessionTeardown
<1>8. CASE \E order \in Session!SetToSeqs(WiredUp) : Session!Closes(order)
  BY <1>8, SessionCloses
<1>9. CASE Session!Killed
  BY <1>9, SessionKilled
<1> QED BY <1>1, <1>2, <1>3, <1>4, <1>5, <1>6, <1>7, <1>8, <1>9 DEF Session!Next
=============================================================================
