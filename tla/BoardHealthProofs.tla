--------------------------- MODULE BoardHealthProofs ---------------------------
(***************************************************************************)
(* What a health check may do to holds, reservations and the queue, for    *)
(* every set of boards and of checks.  All of it follows from who is       *)
(* inside _STATE_FILE_LOCK, and from what a verdict recorded there is of.  *)
(***************************************************************************)
EXTENDS BoardHealth, FiniteSetTheorems, TLAPS

Outcomes == {"passed", "inconclusive", "board_failed"}

LEMMA OutcomeTypes == \A k \in Runs, b \in Boards : Outcome(k, b) \in Outcomes
BY DEF Outcome, Outcomes

LEMMA TypesStay ==
  ASSUME TypeOK, [Next]_vars
  PROVE  TypeOK'
<1> USE BoardHealthAssumption DEF Stages, Nothing, NoHolds
<1> USE DEF TypeOK
<1>1. ASSUME NEW k \in Runs, HealthCheck(k)
      PROVE  TypeOK'
  BY <1>1 DEF HealthCheck
<1>2. ASSUME NEW k \in Runs, Judge(k)
      PROVE  TypeOK'
  BY <1>2 DEF Judge
<1>3. ASSUME NEW k \in Runs, NEW b \in Boards, RecordVerdict(k, b)
      PROVE  TypeOK'
  <2> DEFINE v == [job |-> k, outcome |-> Outcome(k, b)]
  <2>1. v \in [job : Runs, outcome : Outcomes]
    BY OutcomeTypes
  <2> DEFINE R == [job : Runs, outcome : Outcomes]
  <2>2. verdicts \in [Boards -> Seq(R)]
    BY DEF Outcomes
  <2>3. v \in R
    BY <2>1
  <2>4. <<v>> \o verdicts[b] \in Seq(R)
    <3> HIDE DEF v, R
    <3> QED BY <2>2, <2>3
  <2>5. verdicts' = [verdicts EXCEPT ![b] = <<v>> \o verdicts[b]]
    BY <1>3 DEF RecordVerdict
  <2>6. verdicts' \in [Boards -> Seq(R)]
    <3> HIDE DEF v, R
    <3> QED BY <2>2, <2>4, <2>5
  <2>7. UNCHANGED <<holds, paused, stage, on, found, lock, seen, sick>> /\ todo' \subseteq Boards
        /\ sick' \cup cut' \subseteq Boards
    BY <1>3 DEF RecordVerdict
  <2> QED BY <2>6, <2>7 DEF Outcomes
<1>4. ASSUME NEW k \in Runs, ReadHolds(k)
      PROVE  TypeOK'
  BY <1>4 DEF ReadHolds
<1>11. ASSUME NEW k \in Runs, Unlock(k)
      PROVE  TypeOK'
  BY <1>11 DEF Unlock
<1>5. ASSUME NEW k \in Runs, NEW b \in Boards, ApplyQuarantine(k, b)
      PROVE  TypeOK'
  BY <1>5 DEF ApplyQuarantine, ActedOn
<1>6. ASSUME NEW k \in Runs, StoreFails(k)
      PROVE  TypeOK'
  BY <1>6 DEF StoreFails, Over
<1>7. ASSUME NEW k \in Runs, Decide(k)
      PROVE  TypeOK'
  BY <1>7 DEF Decide, Over
<1>8. ASSUME NEW b \in Boards, ReserveBoard(b) \/ ReleaseBoard(b)
      PROVE  TypeOK'
  <2>1. holds' \in [Boards -> {"none", "reserved", "quarantined"}]
    BY <1>8 DEF ReserveBoard, ReleaseBoard
  <2>2. UNCHANGED <<verdicts, paused, stage, on, found, lock, todo, seen, sick, cut>>
    BY <1>8 DEF ReserveBoard, ReleaseBoard
  <2> QED BY <2>1, <2>2
<1>12. CASE Pause \/ Resume
  BY <1>12 DEF Pause, Resume
<1>9. CASE Restart
  BY <1>9 DEF Restart
<1>10. CASE UNCHANGED vars
  BY <1>10 DEF vars
<1> QED
  BY <1>1, <1>2, <1>3, <1>4, <1>5, <1>6, <1>7, <1>8, <1>9, <1>10, <1>11, <1>12
     DEF Next, RunStep, Operator

(* The lock goes from hand to hand. *)
LEMMA InsideStays ==
  ASSUME TypeOK, Inside, [Next]_vars
  PROVE  Inside'
<1> USE BoardHealthAssumption DEF Inside, Stages
<1>0. stage \in [Runs -> Stages]
  BY DEF TypeOK
<1> USE <1>0
<1>1. ASSUME NEW k \in Runs, HealthCheck(k) \/ Judge(k)
      PROVE  Inside'
  BY <1>1 DEF HealthCheck, Judge
<1>2. ASSUME NEW k \in Runs, ReadHolds(k) \/ Unlock(k)
      PROVE  Inside'
  BY <1>2 DEF ReadHolds, Unlock
<1>3. ASSUME NEW k \in Runs, StoreFails(k) \/ Decide(k)
      PROVE  Inside'
  BY <1>3 DEF StoreFails, Decide, Over
<1>4. ASSUME NEW k \in Runs, NEW b \in Boards, RecordVerdict(k, b) \/ ApplyQuarantine(k, b)
      PROVE  Inside'
  BY <1>4 DEF RecordVerdict, ApplyQuarantine
<1>5. CASE Operator \/ UNCHANGED vars
  BY <1>5 DEF Operator, ReserveBoard, ReleaseBoard, Pause, Resume, vars
<1>6. CASE Restart
  BY <1>6 DEF Restart
<1> QED BY <1>1, <1>2, <1>3, <1>4, <1>5, <1>6 DEF Next, RunStep

LEMMA JustRecordedStays ==
  ASSUME TypeOK, Inside, JustRecorded, [Next]_vars
  PROVE  JustRecorded'
<1> SUFFICES ASSUME NEW k \in Runs, NEW b \in Boards, b \in on'[k],
                    stage'[k] = "applying" \/ (stage'[k] = "recording" /\ b \notin todo')
             PROVE  verdicts'[b] # <<>> /\ verdicts'[b][1] = [job |-> k, outcome |-> Outcome(k, b)']
  <2>1. on' \in [Runs -> SUBSET Boards]
    BY TypesStay DEF TypeOK
  <2> QED BY <2>1 DEF JustRecorded
<1> DEFINE Goal == verdicts'[b] # <<>> /\ verdicts'[b][1] = [job |-> k, outcome |-> Outcome(k, b)']
<1>a. /\ stage \in [Runs -> Stages] /\ on \in [Runs -> SUBSET Boards]
      /\ found \in [Runs -> [down : BOOLEAN, bad : SUBSET Boards, unplugged : BOOLEAN]]
      /\ verdicts \in [Boards -> Seq([job : Runs, outcome : Outcomes])]
  BY DEF TypeOK, Outcomes
<1>b. \A m \in Runs : m # k => ~(lock = m /\ lock = k)
  OBVIOUS
<1>h. ASSUME found'[k] = found[k], on'[k] = on[k]
      PROVE  Outcome(k, b)' = Outcome(k, b)
  BY <1>h DEF Outcome, FarmWide, Failed, BoardOnly
<1> USE <1>a, <1>b, BoardHealthAssumption
<1>1. ASSUME NEW m \in Runs, RecordVerdict(m, b)
      PROVE  Goal
  <2>1. m = k
    BY <1>1 DEF RecordVerdict, Inside
  <2>2. Outcome(k, b)' = Outcome(k, b)
    BY <1>1, <1>h DEF RecordVerdict
  <2>3. verdicts'[b] = <<[job |-> k, outcome |-> Outcome(k, b)]>> \o verdicts[b]
    BY <1>1, <2>1 DEF RecordVerdict
  <2>4. verdicts[b] \in Seq([job : Runs, outcome : Outcomes])
    OBVIOUS
  <2> HIDE <1>a
  <2> QED BY <2>2, <2>3, <2>4
<1>2. ASSUME NEW m \in Runs, NEW c \in Boards, RecordVerdict(m, c), c # b
      PROVE  Goal
  <2>1. m = k
    BY <1>2 DEF RecordVerdict, Inside
  <2>2. Outcome(k, b)' = Outcome(k, b)
    BY <1>2, <1>h DEF RecordVerdict
  <2>3. verdicts'[b] = verdicts[b] /\ b \notin todo /\ stage[k] = "recording" /\ b \in on[k]
    BY <1>2, <2>1 DEF RecordVerdict
  <2> QED BY <2>2, <2>3 DEF JustRecorded
<1>3. ASSUME verdicts' = verdicts, found'[k] = found[k], on'[k] = on[k],
             stage[k] = "applying" \/ (stage[k] = "recording" /\ b \notin todo)
      PROVE  Goal
  BY <1>3, <1>h DEF JustRecorded
<1>4. ASSUME NEW m \in Runs, HealthCheck(m)
      PROVE  Goal
  BY <1>3, <1>4 DEF HealthCheck
<1>5. ASSUME NEW m \in Runs, Judge(m)
      PROVE  Goal
  <2>1. m = k
    BY <1>5 DEF Judge, Inside
  <2> QED BY <1>5, <2>1 DEF Judge
<1>6. ASSUME NEW m \in Runs, ReadHolds(m) \/ Unlock(m)
      PROVE  Goal
  BY <1>3, <1>6 DEF ReadHolds, Unlock, Inside
<1>7. ASSUME NEW m \in Runs, StoreFails(m) \/ Decide(m)
      PROVE  Goal
  BY <1>3, <1>7 DEF StoreFails, Decide, Over, Inside
<1>8. ASSUME NEW m \in Runs, NEW c \in Boards, ApplyQuarantine(m, c)
      PROVE  Goal
  BY <1>3, <1>8 DEF ApplyQuarantine, Inside
<1>9. CASE Operator \/ UNCHANGED vars
  BY <1>3, <1>9 DEF Operator, ReserveBoard, ReleaseBoard, Pause, Resume, vars
<1>10. CASE Restart
  BY <1>10 DEF Restart
<1> QED
  BY <1>1, <1>2, <1>4, <1>5, <1>6, <1>7, <1>8, <1>9, <1>10 DEF Next, RunStep

LEMMA NoneUnseenStays ==
  ASSUME TypeOK, Inside, NoneUnseen, [Next]_vars
  PROVE  NoneUnseen'
<1> USE BoardHealthAssumption DEF NoneUnseen
<1>0. /\ stage \in [Runs -> Stages] /\ on \in [Runs -> SUBSET Boards]
      /\ holds \in [Boards -> {"none", "reserved", "quarantined"}]
  BY DEF TypeOK
<1> USE <1>0
<1>1. ASSUME NEW m \in Runs, HealthCheck(m)
      PROVE  NoneUnseen'
  BY <1>1 DEF HealthCheck
<1>2. ASSUME NEW m \in Runs, Judge(m)
      PROVE  NoneUnseen'
  BY <1>2 DEF Judge, Inside
<1>3. ASSUME NEW m \in Runs, NEW c \in Boards, RecordVerdict(m, c)
      PROVE  NoneUnseen'
  BY <1>3 DEF RecordVerdict, Inside
<1>4. ASSUME NEW m \in Runs, ReadHolds(m)
      PROVE  NoneUnseen'
  BY <1>4 DEF ReadHolds, Inside
<1>5. ASSUME NEW m \in Runs, NEW c \in Boards, ApplyQuarantine(m, c)
      PROVE  NoneUnseen'
  BY <1>5 DEF ApplyQuarantine, Inside
<1>6. ASSUME NEW m \in Runs, Unlock(m) \/ StoreFails(m)
      PROVE  NoneUnseen'
  BY <1>6 DEF Unlock, StoreFails, Over, Inside
<1>7. ASSUME NEW m \in Runs, Decide(m)
      PROVE  NoneUnseen'
  BY <1>7 DEF Decide, Over
<1>8. CASE Operator \/ UNCHANGED vars
  BY <1>8 DEF Operator, ReserveBoard, ReleaseBoard, Pause, Resume, vars
<1>9. CASE Restart
  BY <1>9 DEF Restart
<1> QED
  BY <1>1, <1>2, <1>3, <1>4, <1>5, <1>6, <1>7, <1>8, <1>9 DEF Next, RunStep

(* A board is judged to have failed only for what was wrong with it: what the access point   *)
(* does is red on every board, and the wires are not the board.                               *)
LEMMA OwnFailures ==
  \A k \in Runs, b \in Boards : Outcome(k, b) = "board_failed" => b \in found[k].bad
BY DEF Outcome, FarmWide, Failed, BoardOnly

LEMMA FailuresStayReal ==
  ASSUME TypeOK, FailuresAreReal, [Next]_vars
  PROVE  FailuresAreReal'
<1> USE DEF FailuresAreReal
<1>0. /\ found \in [Runs -> [down : BOOLEAN, bad : SUBSET Boards, unplugged : BOOLEAN]]
      /\ on \in [Runs -> SUBSET Boards]
      /\ verdicts \in [Boards -> Seq([job : Runs, outcome : Outcomes])]
  BY DEF TypeOK, Outcomes
<1> USE <1>0
<1>1. ASSUME NEW k \in Runs, Judge(k)
      PROVE  FailuresAreReal'
  BY <1>1 DEF Judge
<1>2. ASSUME NEW k \in Runs, NEW b \in Boards, RecordVerdict(k, b)
      PROVE  FailuresAreReal'
  <2>1. Outcome(k, b) = "board_failed" => b \in sick
    BY OwnFailures
  <2>2. verdicts[b] \in Seq([job : Runs, outcome : Outcomes])
    OBVIOUS
  <2>3. \A i \in DOMAIN verdicts'[b] : verdicts'[b][i].outcome = "board_failed" => b \in sick
    <3> DEFINE v == [job |-> k, outcome |-> Outcome(k, b)]
               s == verdicts[b]
               t == <<v>> \o s
    <3>1. verdicts'[b] = t
      BY <1>2 DEF RecordVerdict
    <3>2. \A i \in DOMAIN t : i = 1 \/ (i - 1 \in DOMAIN s /\ t[i] = s[i - 1])
      BY <2>2
    <3>3. t[1] = v
      BY <2>2
    <3> QED BY <2>1, <3>1, <3>2, <3>3
  <2>4. \A c \in Boards : c # b => verdicts'[c] = verdicts[c]
    BY <1>2 DEF RecordVerdict
  <2> QED BY <1>2, <2>3, <2>4 DEF RecordVerdict
<1>3. ASSUME UNCHANGED <<verdicts, sick>>,
             \A k \in Runs : found'[k] = found[k] \/ found'[k] = Nothing
      PROVE  FailuresAreReal'
  BY <1>3 DEF Nothing
<1>4. ASSUME NEW k \in Runs,
             HealthCheck(k) \/ ReadHolds(k) \/ Unlock(k) \/ (\E b \in Boards : ApplyQuarantine(k, b))
      PROVE  FailuresAreReal'
  BY <1>3, <1>4 DEF HealthCheck, ReadHolds, Unlock, ApplyQuarantine
<1>5. ASSUME NEW k \in Runs, StoreFails(k) \/ Decide(k)
      PROVE  FailuresAreReal'
  BY <1>3, <1>5 DEF StoreFails, Decide, Over
<1>6. CASE Operator \/ UNCHANGED vars
  BY <1>3, <1>6 DEF Operator, ReserveBoard, ReleaseBoard, Pause, Resume, vars
<1>7. CASE Restart
  BY <1>3, <1>7 DEF Restart
<1> QED BY <1>1, <1>2, <1>4, <1>5, <1>6, <1>7 DEF Next, RunStep

(* A streak of at least one begins at the newest conclusive verdict. *)
LEMMA StreakBegins ==
  ASSUME NEW b \in Boards, TypeOK, Streak(b) >= AfterFailures
  PROVE  ~Passed(b) /\ \E i \in DOMAIN verdicts[b] : verdicts[b][i].outcome = "board_failed"
<1>1. InARow(b) # {}
  BY BoardHealthAssumption, FS_EmptySet DEF Streak
<1>2. PICK i \in InARow(b) : TRUE
  BY <1>1
<1>3. i \in Conclusive(b) /\ \A m \in Conclusive(b) : m <= i => verdicts[b][m].outcome = "board_failed"
  BY <1>2 DEF InARow
<1>4. i \in DOMAIN verdicts[b] /\ i \in Nat
  BY <1>3 DEF Conclusive, TypeOK
<1>5. verdicts[b][i].outcome = "board_failed"
  BY <1>3, <1>4
<1>6. ~Passed(b)
  BY <1>3 DEF Passed, Newest
<1> QED BY <1>4, <1>5, <1>6

(* An inconclusive verdict neither counts nor clears. *)
LEMMA InconclusiveIsPassedOver ==
  ASSUME NEW s, NEW t, NEW v, NEW R, s \in Seq(R), v \in R, t = <<v>> \o s,
         v.outcome = "inconclusive",
         NEW i \in DOMAIN t, t[i].outcome = "passed",
         \A m \in DOMAIN t : t[m].outcome # "inconclusive" => i <= m
  PROVE  \E j \in DOMAIN s : /\ s[j].outcome = "passed"
                             /\ \A m \in DOMAIN s : s[m].outcome # "inconclusive" => j <= m
<1>1. \A n \in DOMAIN t : n \in Nat /\ (n = 1 \/ (n - 1 \in DOMAIN s /\ t[n] = s[n - 1]))
  OBVIOUS
<1>2. t[1] = v
  OBVIOUS
<1>3. \A m \in DOMAIN s : m \in Nat /\ m + 1 \in DOMAIN t /\ t[m + 1] = s[m]
  OBVIOUS
<1>4. i # 1 /\ i - 1 \in DOMAIN s /\ s[i - 1].outcome = "passed"
  BY <1>1, <1>2
<1>5. ASSUME NEW m \in DOMAIN s, s[m].outcome # "inconclusive"
      PROVE  i - 1 <= m
  <2>1. i <= m + 1 /\ m \in Nat /\ i \in Nat
    BY <1>1, <1>3, <1>5
  <2> QED BY <2>1
<1> QED BY <1>4, <1>5

LEMMA HoldsStayTrue ==
  ASSUME Inductive, [Next]_vars
  PROVE  GoodBoardsStayIn' /\ CleanCheckReleases'
<1> SUFFICES ASSUME NEW b \in Boards, holds'[b] = "quarantined"
             PROVE  b \in sick' /\ (Passed(b)' => b \in cut')
  BY DEF GoodBoardsStayIn, CleanCheckReleases
<1> DEFINE Goal == b \in sick' /\ (Passed(b)' => b \in cut')
<1>a. /\ TypeOK /\ Inside /\ JustRecorded /\ NoneUnseen /\ FailuresAreReal
      /\ holds[b] = "quarantined" => b \in sick /\ (Passed(b) => b \in cut)
  BY DEF Inductive, HoldsFollowVerdicts, GoodBoardsStayIn, CleanCheckReleases
<1>b. verdicts[b] \in Seq([job : Runs, outcome : Outcomes])
  BY <1>a DEF TypeOK, Outcomes
<1>c. /\ holds \in [Boards -> {"none", "reserved", "quarantined"}]
      /\ verdicts \in [Boards -> Seq([job : Runs, outcome : Outcomes])]
  BY <1>a DEF TypeOK, Outcomes
<1>1. ASSUME holds[b] = "quarantined", verdicts'[b] = verdicts[b], sick \subseteq sick', b \in cut => b \in cut'
      PROVE  Goal
  BY <1>1, <1>a DEF Passed, Newest, Conclusive
<1>2. ASSUME NEW k \in Runs, NEW c \in Boards, RecordVerdict(k, c)
      PROVE  Goal
  <2>0. holds[b] = "quarantined" /\ sick' = sick /\ cut \subseteq cut'
    BY <1>2 DEF RecordVerdict
  <2>1. CASE c # b
    BY <1>1, <1>2, <1>c, <2>0, <2>1 DEF RecordVerdict
  <2>2. CASE c = b /\ Outcome(k, b) # "inconclusive"
    BY <1>2, <1>a, <2>0, <2>2 DEF RecordVerdict
  <2>3. CASE c = b /\ Outcome(k, b) = "inconclusive"
    <3> DEFINE v == [job |-> k, outcome |-> Outcome(k, b)]
    <3>1. verdicts'[b] = <<v>> \o verdicts[b]
      BY <1>2, <1>c, <2>3 DEF RecordVerdict
    <3>2. v \in [job : Runs, outcome : Outcomes] /\ v.outcome = "inconclusive"
      BY <2>3, OutcomeTypes
    <3>3. ASSUME Passed(b)'
          PROVE  Passed(b)
      <4>1. PICK i \in DOMAIN verdicts'[b] :
              /\ verdicts'[b][i].outcome = "passed"
              /\ \A m \in DOMAIN verdicts'[b] : verdicts'[b][m].outcome # "inconclusive" => i <= m
        BY <3>3 DEF Passed, Newest, Conclusive
      <4>2. PICK j \in DOMAIN verdicts[b] :
              /\ verdicts[b][j].outcome = "passed"
              /\ \A m \in DOMAIN verdicts[b] : verdicts[b][m].outcome # "inconclusive" => j <= m
        <5> HIDE DEF v
        <5> QED BY <1>b, <3>1, <3>2, <4>1, InconclusiveIsPassedOver
      <4> QED BY <4>2 DEF Passed, Newest, Conclusive
    <3> QED BY <1>a, <2>0, <3>3
  <2> QED BY <2>1, <2>2, <2>3
<1>3. ASSUME NEW k \in Runs, NEW c \in Boards, ApplyQuarantine(k, c)
      PROVE  Goal
  <2>0. verdicts' = verdicts /\ sick' = sick /\ cut' = ActedOn(k, c) /\ stage[k] = "applying" /\ c \in todo
    BY <1>3 DEF ApplyQuarantine
  <2>1. CASE c # b
    BY <1>1, <1>3, <1>c, <2>0, <2>1 DEF ApplyQuarantine, ActedOn
  <2>2. CASE c = b /\ Quarantines(k, b)
    <3>1. ~Passed(b) /\ \E i \in DOMAIN verdicts[b] : verdicts[b][i].outcome = "board_failed"
      BY <2>2, <1>a, StreakBegins DEF Quarantines
    <3>2. ~Passed(b)'
      BY <2>0, <3>1 DEF Passed, Newest, Conclusive
    <3> QED BY <1>a, <2>0, <3>1, <3>2 DEF FailuresAreReal
  <2>3. CASE c = b /\ ~Quarantines(k, b)
    <3>1. holds[b] = "quarantined" /\ ~Releases(k, b)
      BY <1>3, <1>c, <2>3 DEF ApplyQuarantine
    <3>2. seen[b] = "quarantined" /\ b \in on[k]
      BY <1>a, <2>0, <2>3, <3>1 DEF NoneUnseen
    <3>3. ~PassedBy(k, b)
      BY <3>1, <3>2 DEF Releases
    <3>4. verdicts[b] # <<>> /\ verdicts[b][1] = [job |-> k, outcome |-> Outcome(k, b)]
      BY <1>a, <2>0, <3>2 DEF JustRecorded
    <3>5. ASSUME Outcome(k, b) # "inconclusive"
          PROVE  ~Passed(b)
      <4>1. 1 \in DOMAIN verdicts[b] /\ \A m \in DOMAIN verdicts[b] : m \in Nat /\ 1 <= m
        BY <1>b, <3>4
      <4>2. 1 \in Newest(b)
        BY <3>4, <3>5, <4>1 DEF Newest, Conclusive
      <4>3. Outcome(k, b) # "passed"
        BY <3>3, <3>4, <4>2 DEF PassedBy
      <4>4. \A i \in Newest(b) : i = 1
        BY <4>1, <4>2 DEF Newest, Conclusive
      <4> QED BY <3>4, <4>3, <4>4 DEF Passed
    <3>6. Passed(b)' => Passed(b)
      BY <2>0 DEF Passed, Newest, Conclusive
    <3> QED BY <1>a, <2>0, <2>3, <3>1, <3>5, <3>6 DEF ActedOn
  <2> QED BY <2>1, <2>2, <2>3
<1>4. ASSUME NEW k \in Runs, HealthCheck(k) \/ Judge(k) \/ ReadHolds(k) \/ Unlock(k)
      PROVE  Goal
  BY <1>1, <1>4 DEF HealthCheck, Judge, ReadHolds, Unlock
<1>5. ASSUME NEW k \in Runs, StoreFails(k) \/ Decide(k)
      PROVE  Goal
  BY <1>1, <1>5 DEF StoreFails, Decide, Over
<1>6. CASE Operator \/ UNCHANGED vars
  BY <1>1, <1>6, <1>c DEF Operator, ReserveBoard, ReleaseBoard, Pause, Resume, vars
<1>7. CASE Restart
  BY <1>1, <1>7 DEF Restart
<1> QED BY <1>2, <1>3, <1>4, <1>5, <1>6, <1>7 DEF Next, RunStep

LEMMA InductiveAlways == Spec => []Inductive
<1>1. Init => Inductive
  <2> SUFFICES ASSUME Init
               PROVE  Inductive
    OBVIOUS
  <2>1. TypeOK
    BY BoardHealthAssumption DEF Init, TypeOK, Stages, NoHolds, Nothing
  <2>2. GoodBoardsStayIn /\ CleanCheckReleases
    BY DEF Init, GoodBoardsStayIn, CleanCheckReleases, NoHolds
  <2>3. Inside /\ JustRecorded /\ NoneUnseen
    BY DEF Init, Inside, JustRecorded, NoneUnseen
  <2>4. FailuresAreReal
    BY DEF Init, FailuresAreReal, Nothing
  <2> QED BY <2>1, <2>2, <2>3, <2>4 DEF Inductive, HoldsFollowVerdicts
<1>2. Inductive /\ [Next]_vars => Inductive'
  BY TypesStay, InsideStays, JustRecordedStays, NoneUnseenStays, FailuresStayReal, HoldsStayTrue
     DEF Inductive, HoldsFollowVerdicts
<1> QED BY <1>1, <1>2, PTL DEF Spec

(* A board is out of the pool only for a fault of its own, of which a streak of its health    *)
(* checks told, and a clean check lets it back in, unless it is cut short before it can       *)
(* (_write_board_health, _apply_quarantine), for every number of failures asked for.          *)
THEOREM HoldsTellTrue == Spec => []HoldsFollowVerdicts
BY InductiveAlways, PTL DEF Inductive

(* One run at a time is between the verdicts and the last hold, and it has the lock. *)
LockHeld ==
  /\ stage \in [Runs -> Stages]
  /\ holds \in [Boards -> {"none", "reserved", "quarantined"}]
  /\ \A k \in Runs : stage[k] \in {"recording", "applying"} => lock = k /\ lock # "free"

LEMMA WhoIsInside == Inductive => LockHeld
BY BoardHealthAssumption DEF Inductive, HoldsFollowVerdicts, TypeOK, Inside, LockHeld

(* _apply_quarantine ends no reservation that it read: only an operator does. *)
THEOREM Reservations == Spec => SeenReservationsKept
<1> DEFINE Keeps(b) ==
      holds[b] = "reserved" /\ holds'[b] # "reserved" =>
        ReleaseBoard(b) \/ (lock # "free" /\ stage[lock] = "applying" /\ seen[b] # "reserved")
<1>1. Inductive /\ [Next]_vars => [\A b \in Boards : Keeps(b)]_vars
  <2> SUFFICES ASSUME LockHeld, [Next]_vars, NEW b \in Boards, holds[b] = "reserved", holds'[b] # "reserved"
               PROVE  ReleaseBoard(b) \/ (lock # "free" /\ stage[lock] = "applying" /\ seen[b] # "reserved")
    BY WhoIsInside
  <2>1. ASSUME NEW k \in Runs, NEW c \in Boards, ApplyQuarantine(k, c)
        PROVE  lock # "free" /\ stage[lock] = "applying" /\ seen[b] # "reserved"
    <3>1. c = b
      BY <2>1 DEF ApplyQuarantine, LockHeld
    <3>2. lock = k /\ lock # "free" /\ stage[k] = "applying"
      BY <2>1 DEF ApplyQuarantine, LockHeld
    <3>3. Releases(k, b) \/ Quarantines(k, b)
      BY <2>1, <3>1 DEF ApplyQuarantine
    <3> QED BY <3>2, <3>3 DEF Releases, Quarantines
  <2>2. ASSUME NEW c \in Boards, ReleaseBoard(c)
        PROVE  ReleaseBoard(b)
    BY <2>2 DEF ReleaseBoard, LockHeld
  <2>3. ASSUME NEW c \in Boards, ReserveBoard(c)
        PROVE  FALSE
    BY <2>3 DEF ReserveBoard, LockHeld
  <2>4. ASSUME NEW k \in Runs, HealthCheck(k) \/ Judge(k) \/ ReadHolds(k) \/ Unlock(k)
        PROVE  FALSE
    BY <2>4 DEF HealthCheck, Judge, ReadHolds, Unlock
  <2>5. ASSUME NEW k \in Runs, StoreFails(k) \/ Decide(k) \/ \E c \in Boards : RecordVerdict(k, c)
        PROVE  FALSE
    BY <2>5 DEF StoreFails, Decide, RecordVerdict
  <2>6. ~(Pause \/ Resume \/ Restart \/ UNCHANGED vars)
    BY DEF Pause, Resume, Restart, vars
  <2> QED BY <2>1, <2>2, <2>3, <2>4, <2>5, <2>6 DEF Next, RunStep, Operator
<1> QED BY <1>1, InductiveAlways, PTL DEF Spec, SeenReservationsKept

(* A check that finds the access point down leaves a closed queue (_run_job, pause),         *)
(* unless a restart ends it first.                                                            *)
THEOREM FarmPauses == Spec => FarmWidePauses
<1> DEFINE Pauses(k) ==
      stage[k] = "deciding" /\ stage'[k] = "over" /\ found[k].down => paused' # "no" \/ Restart
<1>1. Inductive /\ [Next]_vars => [\A k \in Runs : Pauses(k)]_vars
  <2> SUFFICES ASSUME LockHeld, [Next]_vars, NEW k \in Runs,
                      stage[k] = "deciding", stage'[k] = "over", found[k].down
               PROVE  paused' # "no" \/ Restart
    BY WhoIsInside
  <2> USE DEF LockHeld
  <2>1. ASSUME NEW m \in Runs, Decide(m)
        PROVE  paused' # "no"
    <3>1. m = k
      BY <2>1 DEF Decide, Over
    <3>2. "radio" \in FarmWide(k)
      BY DEF FarmWide, Failed
    <3> QED BY <2>1, <3>1, <3>2 DEF Decide
  <2>2. ASSUME NEW m \in Runs, HealthCheck(m) \/ Judge(m)
        PROVE  FALSE
    BY <2>2 DEF HealthCheck, Judge
  <2>3. ASSUME NEW m \in Runs, ReadHolds(m) \/ Unlock(m)
        PROVE  FALSE
    BY <2>3 DEF ReadHolds, Unlock
  <2>4. ASSUME NEW m \in Runs, StoreFails(m)
        PROVE  FALSE
    BY <2>4 DEF StoreFails, Over
  <2>5. ASSUME NEW m \in Runs, NEW b \in Boards, RecordVerdict(m, b) \/ ApplyQuarantine(m, b)
        PROVE  FALSE
    BY <2>5 DEF RecordVerdict, ApplyQuarantine
  <2>6. ~Operator /\ ~UNCHANGED vars
    BY DEF Operator, ReserveBoard, ReleaseBoard, Pause, Resume, vars
  <2> QED BY <2>1, <2>2, <2>3, <2>4, <2>5, <2>6 DEF Next, RunStep
<1> QED BY <1>1, InductiveAlways, PTL DEF Spec, FarmWidePauses
=============================================================================
