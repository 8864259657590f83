----------------------------- MODULE MCDispatcher -----------------------------
(***************************************************************************)
(* The dispatcher of a standalone rig, with two boards of one family and   *)
(* one of another; a portal's is in MCHost.                                *)
(***************************************************************************)
EXTENDS Dispatcher

MCBank == << Board("c6a", "c6", {"lcd"}, None), Board("c6b", "c6", {}, None), Board("s3", "s3", {}, None) >>

\* A one-board run, one that needs two families and the gateway, a project that
\* has the rig to itself, a check of one named board, discovery.
MCDemands == [j \in {"one", "two", "solo", "named", "discover"} |->
  CASE j = "one"   -> [Plain(j) EXCEPT !.needs = <<Need("c6", 1, {}, FALSE)>>, !.resources = {"mqtt"}]
    [] j = "two"   -> [Plain(j) EXCEPT !.needs = <<Need("c6", 1, {"lcd"}, FALSE), Need("s3", 1, {}, TRUE)>>,
                                        !.resources = {"gateway"}]
    [] j = "solo"  -> [Plain(j) EXCEPT !.concurrent = FALSE, !.needs = <<Need("c6", 1, {}, FALSE), Need("s3", 1, {}, FALSE)>>]
    [] j = "named" -> [Plain(j) EXCEPT !.boards = {"c6a", "s3"}, !.profile = "canary"]
    [] OTHER       -> [Plain(j) EXCEPT !.whole = TRUE, !.concurrent = FALSE, !.holdsBoards = FALSE,
                                        !.profile = None]]

MCJobs == DOMAIN MCDemands

NoWorkers == <<>>
OnePluggable == {"s3"}
OneHoldable == {"c6a"}
OnePromotable == {"one"}
NoSettings == <<>>

\* No board and no resource is ever two runs', and a run that was given boards by family was
\* given enough for every family it requires, and no more than it needs (_hold, coverage).
GrantsHold == []NothingShared /\ GrantCoversNeeds

\* A run that starts ahead of one queued first takes nothing that one waits for, and in an
\* open queue over a settled pool of boards everyone queued is served (block).
QueueIsServed == NothingJumpsUnreserved /\ EveryRunServed
=============================================================================
