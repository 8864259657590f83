-------------------------------- MODULE MCHost --------------------------------
(***************************************************************************)
(* The parts of a host on small instances: two handovers of the same       *)
(* content and a bundle a run of old built; a create, a sign-up and three  *)
(* revokes of two names; a command the node does by itself, one the host's *)
(* script does and one after which it restarts the node.                   *)
(***************************************************************************)
EXTENDS Host, Allocation

FiveKinds == <<"create", "sign_up", "host_revoke", "revoke", "cli_revoke">>
FiveNames == <<"a", "a", "b", "b", "a">>

ThreeBundles == {"b1", "b2", "b3"}
TwoJobs      == {"j1", "j2"}
TwoContents  == [b1 |-> "x", b2 |-> "y", b3 |-> "y"]
NoneNamed    == [j \in TwoJobs |-> "no bundle"]
AllFit       == [j \in TwoJobs |-> ThreeBundles]
OneBuiltHere == [j1 |-> "no bundle", j2 |-> "b1"]

OneBuilt  == [j \in {1, 2} |-> "b"]
UserRole  == [s \in {"c"} |-> "user"]

TwoOfOne   == [a |-> "p", b |-> "p"]
OneAddress == [a |-> "e", b |-> Nobody]

\* A portal's two workers: w1 runs one thing at a time and not profile "q"; w2 has
\* boards for three small runs and a limit of two.
FourBoards == << Board("c6", "c6", {}, "w1"), Board("c6x", "c6", {}, "w2"),
                 Board("s3x", "s3", {}, "w2"), Board("s3y", "s3", {}, "w2") >>
FiveDemands == [j \in {"any", "both", "bound", "more", "bank"} |->
  CASE j = "any"   -> [Plain(j) EXCEPT !.needs = <<Need("c6", 1, {}, FALSE)>>]
    [] j = "both"  -> [Plain(j) EXCEPT !.needs = <<Need("c6", 1, {}, FALSE), Need("s3", 1, {}, FALSE)>>, !.profile = "q"]
    [] j = "bound" -> [Plain(j) EXCEPT !.needs = <<Need("s3", 1, {}, TRUE)>>, !.rig = "w2"]
    [] j = "more"  -> [Plain(j) EXCEPT !.needs = <<Need("s3", 1, {}, FALSE)>>]
    [] OTHER       -> [Plain(j) EXCEPT !.whole = TRUE, !.concurrent = FALSE]]
FiveRuns == DOMAIN FiveDemands
TwoWorkers == <<"w1", "w2">>
OneAndTwo == [w1 |-> 1, w2 |-> 2]
OneHasBoth == [w1 |-> {"p"}, w2 |-> {"p", "q"}]
TwoFirmwares == <<"f", "g">>
TwoProofs == <<"c", "d">>
=============================================================================
