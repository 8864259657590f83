------------------------------ MODULE TestSession ------------------------------
(***************************************************************************)
(* A suite's commands on the rig: flashing the boards, the preflight, and  *)
(* the pytest session over the boards and the instruments wired to them,   *)
(* with devices that hang, die, or leave the bus at any time.  The session *)
(* writes a record per test, resets boards that stopped, and lets the      *)
(* instruments go at its end; the report is made of the records.           *)
(***************************************************************************)
EXTENDS Naturals, Sequences, FiniteSets, SequencesExt

CONSTANTS
  Boards, Instruments,  \* of this run, and wired to its boards
  Tests,                \* tests collected, in their order: 1 .. Tests
  Proves,               \* [1 .. Tests -> the capability the test is evidence of]
  MaxFaults             \* bound: times a device fails or comes back

Devices == Boards \cup Instruments

VARIABLES
  device,      \* [Devices -> "up", "hung": back after a reset, "dead", or "gone" from the bus]
  faults,      \* counter of faults
  image,       \* boards that were flashed and shown to run the run's image: [flashed, shown]
  phase,       \* "flash", "preflight", "bank", "tests", "closing", "over"
  todo,        \* boards the phase has still to see
  wedged,      \* boards the bank found silent after a reset
  bank,        \* the session's boards, once asked for: "none", "up", "failed"
  instruments, \* and its instruments
  driven,      \* instruments with a channel driven
  test, when,  \* the test, and its phase
  passed,      \* _SESSION_HAS_PASSED_A_TEST
  records,     \* the run log: [test, verdict, class]
  exit,        \* "none", "ok", "failed", "stopped": shouldstop, "broken": a hook raised, "killed"
  went,        \* history: <<test, phase>> that failed
  unplugged    \* history: a device has left the bus

vars == <<device, faults, image, phase, todo, wedged, bank, instruments, driven, test, when,
          passed, records, exit, went, unplugged>>
bench == <<device, faults, unplugged>>
fixtures == <<todo, wedged, bank, instruments>>
course == <<test, when, passed, records, exit, went>>

Init ==
  /\ device \in [Devices -> {"up", "hung"}] /\ faults = 0 /\ unplugged = FALSE
  /\ image = [flashed |-> {}, shown |-> {}]
  /\ phase = "flash" /\ todo = Boards /\ wedged = {}
  /\ bank = "none" /\ instruments = "none" /\ driven = {}
  /\ test = 1 /\ when = "setup" /\ passed = FALSE /\ records = <<>> /\ exit = "none"
  /\ went = {}

Fault(d) ==
  /\ faults < MaxFaults /\ phase # "over"
  /\ faults' = faults + 1
  /\ \E how \in {"hung", "dead", "gone"} \ {device[d]} :
       /\ device' = [device EXCEPT ![d] = IF @ = "gone" THEN "up" ELSE how]
       /\ unplugged' = (unplugged \/ (device[d] # "gone" /\ how = "gone"))
  /\ driven' = IF device'[d] = "gone" THEN driven \ {d} ELSE driven  \* it boots as inputs
  /\ UNCHANGED <<image, phase, fixtures, course>>

Ends(how) == phase' = "over" /\ exit' = how

-----------------------------------------------------------------------------
(* Before the session.                                                     *)

\* flash_all, flash_esptool: two tries at each speed, and the first board that cannot be
\* flashed ends the run.  The tool resets the board into its loader.
Flashes(b) ==
  /\ phase = "flash" /\ b \in todo
  /\ \/ /\ device[b] \in {"up", "hung"}
        /\ device' = [device EXCEPT ![b] = "up"]
        /\ image' = [image EXCEPT !.flashed = @ \cup {b}]
        /\ IF todo = {b} THEN phase' = "preflight" /\ todo' = Boards
                         ELSE todo' = todo \ {b} /\ UNCHANGED phase
        /\ UNCHANGED exit
     \/ Ends("failed") /\ UNCHANGED <<device, image, todo>>
  /\ UNCHANGED <<faults, unplugged, wedged, bank, instruments, driven, test, when, passed, records, went>>

\* preflight.run: every board is asked twice for what it runs, and all of them are looked at
\* before one that does not say the run's image fails it.
Shows(b) ==
  /\ phase = "preflight" /\ b \in todo
  /\ image' = [image EXCEPT !.shown = IF device[b] = "up" /\ b \in image.flashed THEN @ \cup {b} ELSE @]
  /\ CASE todo # {b} -> todo' = todo \ {b} /\ UNCHANGED <<phase, exit>>
       [] todo = {b} /\ image'.shown = Boards -> phase' = "tests" /\ UNCHANGED <<todo, exit>>
       [] OTHER -> Ends("failed") /\ UNCHANGED todo
  /\ UNCHANGED <<bench, wedged, bank, instruments, driven, test, when, passed, records, went>>

-----------------------------------------------------------------------------
(* The session's fixtures.                                                 *)

\* The first test that asks for the boards has them opened.
AsksBank ==
  /\ phase = "tests" /\ when = "setup" /\ bank = "none"
  /\ phase' = "bank" /\ todo' = Boards
  /\ UNCHANGED <<bench, image, wedged, bank, instruments, driven, course>>

\* _hardware_bank, ensure_responsive: a silent board is reset once; every board is tried
\* before the silent ones are named.
Opens(b) ==
  /\ phase = "bank" /\ b \in todo
  /\ todo' = todo \ {b}
  /\ device' = [device EXCEPT ![b] = IF @ = "hung" THEN "up" ELSE @]
  /\ wedged' = IF device[b] \in {"dead", "gone"} THEN wedged \cup {b} ELSE wedged
  /\ IF todo = {b}
       THEN phase' = "tests" /\ bank' = IF wedged' = {} THEN "up" ELSE "failed"
       ELSE UNCHANGED <<phase, bank>>
  /\ UNCHANGED <<faults, unplugged, image, instruments, driven, course>>

\* _hardware_instruments: each is asked what it is; one that does not answer fails it.
AsksInstruments ==
  /\ phase = "tests" /\ when = "setup" /\ bank = "up" /\ instruments = "none"
  /\ instruments' = IF \A i \in Instruments : device[i] = "up" THEN "up" ELSE "failed"
  /\ UNCHANGED <<bench, image, phase, todo, wedged, bank, driven, course>>

-----------------------------------------------------------------------------
(* The hook on each report: pytest_runtest_makereport, then _emit.         *)

Record(verdict, class) == Append(records, [test |-> test, verdict |-> verdict, class |-> class])

\* _looks_like_transport_failure: the message may read either way.
Classes == IF when = "setup" THEN {"infra"} ELSE {"infra", "real_bug"}
Failure(verdict) == \E class \in Classes : records' = Record(verdict, class)

\* A write to a device that is gone raises what neither the recovery nor the samples catch:
\* the hook breaks the session.
Lives == IF bank = "up" THEN Boards ELSE {}
Broken(named) == \E b \in named : device[b] = "gone"
Breaks == phase' = "closing" /\ exit' = "broken"

NextTest ==
  IF test = Tests THEN phase' = "closing" /\ UNCHANGED <<test, when>>
                  ELSE test' = test + 1 /\ when' = "setup" /\ UNCHANGED phase
ToTeardown == when' = "teardown" /\ UNCHANGED <<phase, test>>

\* Stops before anything passed.  Variant: stops whenever a setup fails.
StopsAlways == TRUE
Stops == ~passed

\* A setup fails for a fixture of the session, or for one of its module's.
SetupFails ==
  /\ phase = "tests" /\ when = "setup" /\ bank # "none"
  /\ Failure("error")
  /\ went' = went \cup {<<test, "setup">>}
  /\ exit' = IF Stops THEN "stopped" ELSE "failed"
  /\ ToTeardown
  /\ UNCHANGED <<bench, image, fixtures, driven, passed>>

SetupSkips ==
  /\ phase = "tests" /\ when = "setup"
  /\ records' = Record("skipped", "none")
  /\ ToTeardown
  /\ UNCHANGED <<bench, image, fixtures, driven, passed, exit, went>>

SetupPasses ==
  /\ phase = "tests" /\ when = "setup" /\ bank = "up"
  /\ when' = "call"
  /\ UNCHANGED <<bench, image, phase, fixtures, driven, test, passed, records, exit, went>>

\* The test drives what its instruments are wired to, and passes.
Drives(used) == used = {} \/ (instruments = "up" /\ \A i \in used : device[i] = "up")
CallPasses(used) ==
  /\ phase = "tests" /\ when = "call" /\ Drives(used)
  /\ driven' = driven \cup used
  /\ passed' = TRUE
  /\ IF Broken(Lives) THEN Breaks /\ UNCHANGED <<test, when, records>>
     ELSE records' = Record("passed", "none") /\ ToTeardown /\ UNCHANGED exit
  /\ UNCHANGED <<bench, image, fixtures, went>>

CallSkips ==
  /\ phase = "tests" /\ when = "call"
  /\ records' = Record("skipped", "none")
  /\ ToTeardown
  /\ UNCHANGED <<bench, image, fixtures, driven, passed, exit, went>>

\* It fails, and names a board or none: _recover_if_wedged resets that one if it is silent.
CallFails(used, named) ==
  /\ phase = "tests" /\ when = "call" /\ Drives(used)
  /\ driven' = driven \cup used
  /\ went' = went \cup {<<test, "call">>}
  /\ device' = [d \in Devices |-> IF d \in named /\ device[d] = "hung" THEN "up" ELSE device[d]]
  /\ IF Broken(named \cup Lives) THEN Breaks /\ UNCHANGED <<test, when, records>>
     ELSE /\ Failure("failed") /\ ToTeardown
          /\ exit' = IF exit = "none" THEN "failed" ELSE exit
  /\ UNCHANGED <<faults, unplugged, image, fixtures, passed>>

\* A session that is to stop does so after the test.
Teardown(fails) ==
  /\ phase = "tests" /\ when = "teardown"
  /\ IF fails THEN Failure("error") /\ went' = went \cup {<<test, "teardown">>}
              ELSE UNCHANGED <<records, went>>
  /\ IF exit = "stopped" THEN phase' = "closing" /\ UNCHANGED <<test, when>> ELSE NextTest
  /\ exit' = IF fails /\ exit = "none" THEN "failed" ELSE exit
  /\ UNCHANGED <<bench, image, fixtures, driven, passed>>

-----------------------------------------------------------------------------
(* The end of the session.                                                 *)

\* _release_instruments: one that does not answer is passed over.
\* Variant: it ends the releasing.
ReleaseGivesUp(i) == device[i] = "up"
Passes(i) == device[i] # "gone"

\* Those come before the boards' health and logs.  An instrument that is gone raises, and
\* those after it keep what they drive.
Closes(order) ==
  /\ phase = "closing"
  /\ LET raising == {k \in DOMAIN order : ~Passes(order[k])}
         reached == {order[k] : k \in {n \in DOMAIN order : \A m \in raising : n < m}}
         raises  == (instruments = "up" /\ raising # {}) \/ Broken(Lives)
     IN /\ driven' = IF instruments = "up" THEN {i \in driven : i \notin reached \/ device[i] # "up"}
                                           ELSE driven
        /\ records' = IF raises /\ test = Tests /\ exit \notin {"stopped", "broken"}
                           /\ <<Tests, "teardown">> \notin went
                        THEN Record("error", "infra") ELSE records
        /\ went' = IF raises THEN went \cup {<<Tests, "closing">>} ELSE went
        /\ Ends(CASE exit = "none" -> IF raises THEN "failed" ELSE "ok"
                  [] OTHER -> exit)
  /\ UNCHANGED <<bench, image, fixtures, test, when, passed>>

\* A cancellation or a time limit: nothing of the session's end is done.
Killed ==
  /\ phase # "over"
  /\ Ends("killed")
  /\ UNCHANGED <<bench, image, fixtures, driven, test, when, passed, records, went>>

Next ==
  \/ \E d \in Devices : Fault(d)
  \/ \E b \in Boards : Flashes(b) \/ Shows(b) \/ Opens(b)
  \/ AsksBank \/ AsksInstruments
  \/ SetupFails \/ SetupSkips \/ SetupPasses \/ CallSkips
  \/ \E used \in SUBSET Instruments :
       \/ CallPasses(used)
       \/ \E named \in {{}} \cup {{b} : b \in Boards} : CallFails(used, named)
  \/ \E fails \in BOOLEAN : Teardown(fails)
  \/ \E order \in SetToSeqs(Instruments) : Closes(order)
  \/ Killed

Spec == Init /\ [][Next]_vars

-----------------------------------------------------------------------------
(* The report: summarize.                                                  *)

Failing(rs) == {r \in rs : r.verdict \in {"failed", "error"}}
Real(rs)    == {r \in Failing(rs) : r.class # "infra"}
All == {records[k] : k \in DOMAIN records}

Gate ==
  IF records = <<>> THEN "incomplete"
  ELSE IF Real(All) # {} THEN "failed"
  ELSE IF Failing(All) # {} THEN "blocked" ELSE "passed"

Capability(c) ==
  LET of == {r \in All : Proves[r.test] = c}
      has(v) == \E r \in of : r.verdict = v
  IN IF Real(of) # {} THEN "failed"
     ELSE IF has("passed") THEN "validated"
     ELSE IF Failing(of) # {} THEN "blocked"
     ELSE IF has("skipped") THEN "skipped" ELSE "not_validated"

-----------------------------------------------------------------------------
Row == [test : 1 .. Tests, verdict : {"passed", "skipped", "failed", "error"},
        class : {"none", "infra", "real_bug"}]

\* Every variable holds what the rest of the module takes it to hold.
TypeOK ==
  /\ device \in [Devices -> {"up", "hung", "dead", "gone"}]
  /\ image \in [flashed : SUBSET Boards, shown : SUBSET Boards]
  /\ phase \in {"flash", "preflight", "bank", "tests", "closing", "over"}
  /\ bank \in {"none", "up", "failed"} /\ instruments \in {"none", "up", "failed"}
  /\ todo \subseteq Boards /\ wedged \subseteq Boards /\ driven \subseteq Instruments
  /\ test \in 1 .. Tests /\ when \in {"setup", "call", "teardown"} /\ passed \in BOOLEAN
  /\ records \in Seq(Row)
  /\ exit \in {"none", "ok", "failed", "stopped", "broken", "killed"}
  /\ went \subseteq (1 .. Tests) \X {"setup", "call", "teardown", "closing"}
  /\ unplugged \in BOOLEAN

\* The records tell what happened, whatever the devices did: a session that ended well ran
\* every test on boards that showed the run's image, and each has one record that is no
\* failure; a test that failed has a record that says so, in a session that came to its
\* end; and a test is left out only if the hardware never came up.
SessionIsTold ==
  phase = "over" =>
    /\ exit = "ok" =>
         /\ Gate \in {"passed", "incomplete"} /\ went = {}
         /\ \A t \in 1 .. Tests : Capability(Proves[t]) \in {"validated", "skipped"}
         /\ Boards \subseteq image.flashed \cap image.shown
         /\ \A t \in 1 .. Tests : Cardinality({k \in DOMAIN records : records[k].test = t}) = 1
    /\ exit \in {"failed", "stopped"} =>
         \A g \in went : g[2] # "closing" \/ exit = "failed" => \E r \in Failing(All) : r.test = g[1]
    /\ exit = "failed" /\ records # <<>> => \A t \in 1 .. Tests : \E r \in All : r.test = t
    /\ exit = "stopped" => \A r \in All : r.verdict # "passed"
    /\ Real(All) # {} => \E g \in went : g[2] # "setup"

\* When the session is over nothing is driven any more, unless it was killed, a device had
\* left the bus, or the instrument does not answer.
InstrumentsLetGo ==
  phase = "over" /\ exit # "killed" /\ ~unplugged => \A i \in driven : device[i] # "up"

\* What makes them inductive.  Nothing happens before the boards have shown the image.
NothingYet ==
  phase \in {"flash", "preflight"} =>
    /\ records = <<>> /\ went = {} /\ exit = "none" /\ ~passed /\ test = 1 /\ when = "setup"
    /\ driven = {}

ImageShown ==
  /\ image.shown \subseteq image.flashed
  /\ phase \in {"bank", "tests", "closing"} => image.shown = Boards

\* A session that goes on and is not broken has a record of every test that has ended, and one
\* alone of each while nothing went wrong; what went wrong has a record that says so.
Finished(t) == t < test \/ (t = test /\ (when = "teardown" \/ phase = "closing"))

Kept ==
  phase \in {"bank", "tests", "closing"} =>
    /\ exit \in {"none", "failed", "stopped", "broken"}
    /\ phase = "closing" /\ exit \in {"none", "failed"} => test = Tests
    /\ exit = "broken" => phase = "closing"
    /\ exit # "broken" =>
         /\ \A t \in 1 .. Tests : Finished(t) => \E r \in All : r.test = t
         /\ \A g \in went : g[2] # "closing" /\ \E r \in Failing(All) : r.test = g[1]
    /\ exit = "none" =>
         /\ went = {} /\ DOMAIN records = {t \in 1 .. Tests : Finished(t)}
         /\ \A k \in DOMAIN records : records[k].test = k /\ records[k].verdict \in {"passed", "skipped"}
    /\ exit = "stopped" => ~passed /\ (when = "teardown" \/ phase = "closing")
    /\ ~passed => \A r \in All : r.verdict # "passed"

BugsWent == Real(All) # {} => \E g \in went : g[2] # "setup"

OnTheBus ==
  /\ phase # "over" /\ driven # {} => instruments = "up"
  /\ ~unplugged => \A d \in Devices : device[d] # "gone"

Inductive ==
  /\ TypeOK /\ NothingYet /\ ImageShown /\ Kept /\ BugsWent /\ OnTheBus
  /\ SessionIsTold /\ InstrumentsLetGo
=============================================================================
