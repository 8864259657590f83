------------------------------ MODULE Allocation ------------------------------
(***************************************************************************)
(* The allocator: which queued runs start now and on which boards.  Pure   *)
(* operators for core/alteriom_hil/allocation.py, which decides only: it   *)
(* holds no lock and reads no file.  Reasons a run waits are prose in the  *)
(* code; here a refused demand says only whether it holds back the rig.    *)
(*                                                                         *)
(* board  [id, target, tags, hold, worker]                                 *)
(* need   [target, count, tags, optional]                                  *)
(* demand [job, whole, concurrent, boards, needs, resources, holdsBoards,  *)
(*         profile, rig]                                                   *)
(* grant  [job, boards, resources, shared, whole, worker]                  *)
(*                                                                         *)
(* boards is a set of ids in a demand and in a grant.  Python's None is    *)
(* None, for a farm that is one rig and for a demand naming no rig.  Loops *)
(* are recursive functions of the turn, which there can be proofs about.   *)
(***************************************************************************)
EXTENDS Integers, Sequences, FiniteSets, SequencesExt

None == "none"
Resources == {"gateway", "mqtt"}

\* The elements of s that are in S, in their order.
Only(s, S) ==
  LET left[i \in 0..Len(s)] == IF i = 0 THEN <<>>
                               ELSE IF s[i] \in S THEN Append(left[i-1], s[i]) ELSE left[i-1]
  IN  left[Len(s)]

Ids(boards) == {b.id : b \in ToSet(boards)}
FirstIds(n, boards) == {boards[i].id : i \in 1..Min({n, Len(boards)})}
NotIn(boards, ids) == Only(boards, {b \in ToSet(boards) : b.id \notin ids})

\* A board held out of the pool, reserved or quarantined, matches no need.
Matches(b, need) ==
  /\ b.hold = None
  /\ b.target = need.target
  /\ need.tags \subseteq b.tags

Matching(need, boards) == Only(boards, {b \in ToSet(boards) : Matches(b, need)})

\* How many boards a need asks of these: an optional need asks for no more
\* than are there.
Take(need, boards) ==
  IF need.optional THEN Min({need.count, Len(Matching(need, boards))})
                   ELSE need.count

\* Whether the rig as connected could meet the demand with nothing running:
\* needs are served in order, each taking the first boards that match it.
FitsIdle(d, boards) ==
  IF d.boards # {} THEN d.boards \subseteq Ids(boards)
  ELSE LET pool[i \in 0..Len(d.needs)] ==
             IF i = 0 THEN boards
             ELSE NotIn(pool[i-1], FirstIds(d.needs[i].count,
                                            Matching(d.needs[i], pool[i-1])))
       IN  \A i \in DOMAIN d.needs :
             Len(Matching(d.needs[i], pool[i-1])) >= Take(d.needs[i], pool[i-1])

\* The boards a demand gets, or not ok.  held are boards of started jobs,
\* ahead and targets what the jobs queued first still wait for.
ChooseNamed(d, boards, held, ahead, targets) ==
  LET named == {b \in ToSet(boards) : b.id \in d.boards}
  IN  [ok     |-> /\ d.boards \cap (held \cup ahead) = {}
                  /\ \A b \in named : b.hold # "reserved" /\ b.target \notin targets,
       boards |-> {b.id : b \in named}]

\* What a need asks for when taken is taken, and what it may have of them.
Wanted(need, boards, taken) == Take(need, NotIn(boards, taken))
Free(need, boards, kept) == Matching(need, NotIn(boards, kept))

\* The boards chosen after each need, kept being nobody's to choose.
Taken(d, boards, kept) ==
  LET taken[i \in 0..Len(d.needs)] ==
        IF i = 0 THEN {}
        ELSE taken[i-1] \cup FirstIds(Wanted(d.needs[i], boards, taken[i-1]),
                                     Free(d.needs[i], boards, kept \cup taken[i-1]))
  IN  taken

\* Variant: a family that is short gives what is free.
ChooseShort(d, boards, held, ahead, targets) ==
  LET taken == Taken(d, boards, held \cup ahead)
  IN  [ok     |-> \A i \in DOMAIN d.needs :
                    Wanted(d.needs[i], boards, taken[i-1]) = 0 \/ d.needs[i].target \notin targets,
       boards |-> taken[Len(d.needs)]]

ChooseByNeed(d, boards, held, ahead, targets) ==
  LET taken == Taken(d, boards, held \cup ahead)
      Want(i) == Wanted(d.needs[i], boards, taken[i-1])
  IN  [ok     |-> \A i \in DOMAIN d.needs :
                    \/ Want(i) = 0
                    \/ /\ d.needs[i].target \notin targets
                       /\ Len(Free(d.needs[i], boards, held \cup ahead \cup taken[i-1])) >= Want(i),
       boards |-> taken[Len(d.needs)]]

Choose(d, boards, held, ahead, targets) ==
  IF d.boards # {} THEN ChooseNamed(d, boards, held, ahead, targets)
                   ELSE ChooseByNeed(d, boards, held, ahead, targets)

-----------------------------------------------------------------------------
(***************************************************************************)
(* One rig during one plan: its boards, what runs on it, and what the jobs *)
(* already refused in this plan keep from those behind them.               *)
(***************************************************************************)
Rig(name, boards, running, limit, profiles, sole) ==
  [name |-> name, limit |-> Max({1, limit}), profiles |-> profiles, sole |-> sole,
   boards |-> Only(boards, {b \in ToSet(boards) : b.worker = name}),
   active |-> {g \in running : g.worker = name},
   whole |-> FALSE, targets |-> {}, ahead |-> {}, resources |-> {}]

RunsProfile(rig, d) == d.profile = None \/ d.profile \in rig.profiles

Eligible(rig, d) ==
  /\ RunsProfile(rig, d)
  /\ \/ d.boards # {} /\ d.boards \subseteq Ids(rig.boards)
     \/ d.boards = {} /\ d.whole /\ (rig.boards # <<>> \/ rig.sole)
     \/ d.boards = {} /\ ~d.whole /\ FitsIdle(d, rig.boards)

\* Variant: a run refused keeps nothing from those behind it.
BlockNothing(rig, d, whole) == rig

Block(rig, d, whole) ==
  IF whole THEN [rig EXCEPT !.whole = TRUE]
  ELSE [rig EXCEPT
         !.targets   = @ \cup {n.target : n \in {m \in ToSet(d.needs) : Take(m, rig.boards) > 0}},
         !.ahead     = @ \cup d.boards,
         !.resources = @ \cup d.resources]

Refused(whole) == [granted |-> {}, whole |-> whole]
Granted(g)     == [granted |-> {g}, whole |-> FALSE]

Alone(rig, d) == d.whole \/ ~d.concurrent \/ rig.limit = 1

AttemptAlone(rig, d, feasible) ==
  LET chosen == IF feasible THEN Choose(d, rig.boards, {}, {}, {})
                            ELSE [ok |-> TRUE, boards |-> {}]
      unheld == {b.id : b \in {c \in ToSet(rig.boards) : c.hold = None}}
  IN  IF rig.active # {} THEN Refused(TRUE)
      ELSE IF ~chosen.ok THEN Refused(FALSE)
      ELSE Granted([job |-> d.job, resources |-> Resources, shared |-> FALSE,
                    whole |-> d.whole, worker |-> rig.name,
                    boards |-> IF d.whole /\ d.holdsBoards THEN unheld ELSE chosen.boards])

\* Variant: a limit off by one.
AttemptSharedOver(rig, d) ==
  LET held   == UNION {g.boards : g \in rig.active}
      inUse  == UNION {g.resources : g \in rig.active}
      chosen == Choose(d, rig.boards, held, rig.ahead, rig.targets)
  IN  IF \/ Cardinality(rig.active) > rig.limit
         \/ d.resources \cap (inUse \cup rig.resources) # {}
         \/ ~chosen.ok
      THEN Refused(FALSE)
      ELSE Granted([job |-> d.job, resources |-> d.resources, shared |-> TRUE,
                    whole |-> FALSE, worker |-> rig.name, boards |-> chosen.boards])

AttemptShared(rig, d) ==
  LET held   == UNION {g.boards : g \in rig.active}
      inUse  == UNION {g.resources : g \in rig.active}
      chosen == Choose(d, rig.boards, held, rig.ahead, rig.targets)
  IN  IF \/ Cardinality(rig.active) >= rig.limit
         \/ d.resources \cap (inUse \cup rig.resources) # {}
         \/ ~chosen.ok
      THEN Refused(FALSE)
      ELSE Granted([job |-> d.job, resources |-> d.resources, shared |-> TRUE,
                    whole |-> FALSE, worker |-> rig.name, boards |-> chosen.boards])

\* A grant on this rig, or whether the refused demand holds the whole rig back.
Attempt(rig, d) ==
  LET feasible == d.whole \/ FitsIdle(d, rig.boards)
  IN  IF rig.whole \/ \E g \in rig.active : ~g.shared THEN Refused(Alone(rig, d))
      ELSE IF Alone(rig, d) \/ ~feasible THEN AttemptAlone(rig, d, feasible)
      ELSE AttemptShared(rig, d)

\* The rigs one demand is tried on: those that could meet it, or, when none
\* could even idle, the first that runs its profile, to rediscover.
Candidates(rigs, d) ==
  LET runners  == {i \in DOMAIN rigs : RunsProfile(rigs[i], d) /\ d.rig \in {None, rigs[i].name}}
      eligible == {i \in runners : Eligible(rigs[i], d)}
  IN  IF eligible # {} \/ runners = {} THEN eligible ELSE {Min(runners)}

\* One turn of plan's loop over the queue: the first rig that takes the demand has
\* it; refused by all of them, it keeps of each what it waits for there.
Answered(state, d, attempts) ==
  LET taking == {i \in DOMAIN attempts : attempts[i].granted # {}}
  IN  IF taking # {}
      THEN LET i == Min(taking)
               g == attempts[i].granted
           IN  [rigs |-> [state.rigs EXCEPT ![i].active = @ \cup g], start |-> state.start \cup g]
      ELSE [rigs  |-> [i \in DOMAIN state.rigs |->
                         IF i \in DOMAIN attempts THEN Block(state.rigs[i], d, attempts[i].whole)
                                                  ELSE state.rigs[i]],
            start |-> state.start]

PlanOne(state, d) ==
  Answered(state, d, [i \in Candidates(state.rigs, d) |-> Attempt(state.rigs[i], d)])

\* The rigs by the place at which each is first met.  farm is [limit, limits, profiles,
\* workers, paused]: limits and profiles map the names in the sequence workers; any
\* other rig has limit and runs everything.
RigNames(boards, running, farm) ==
  LET met   == [i \in DOMAIN boards |-> boards[i].worker] \o [i \in DOMAIN running |-> running[i].worker]
                 \o farm.workers
      first == {i \in DOMAIN met : \A k \in DOMAIN met : met[k] = met[i] => i <= k}
  IN  IF met = <<>> THEN <<None>> ELSE [i \in first |-> met[i]]

Rigs(queue, boards, running, farm) ==
  LET names == RigNames(boards, running, farm)
      known(n) == n \in ToSet(farm.workers)
      every == {d.profile : d \in ToSet(queue)}
  IN  [i \in DOMAIN names |->
         Rig(names[i], boards, ToSet(running),
             IF known(names[i]) THEN farm.limits[names[i]] ELSE farm.limit,
             IF known(names[i]) THEN farm.profiles[names[i]] ELSE every,
             Cardinality(DOMAIN names) = 1)]

\* The rigs and what starts, after each demand.
Turns(rigs, queue) ==
  LET turn[i \in 0..Len(queue)] ==
        IF i = 0 THEN [rigs |-> rigs, start |-> {}] ELSE PlanOne(turn[i-1], queue[i])
  IN  turn

\* The grants that start now: queue is a sequence of demands in the order
\* they would run, boards the connected boards, running the grants held.
Plan(queue, boards, running, farm) ==
  IF farm.paused THEN {} ELSE Turns(Rigs(queue, boards, running, farm), queue)[Len(queue)].start

-----------------------------------------------------------------------------
(***************************************************************************)
(* What a set of boards does not meet of a profile's needs: the families a *)
(* run went without, which its result and its report declare.              *)
(***************************************************************************)
Coverage(needs, boards) ==
  LET Fits(need, pool) == Only(pool, {b \in ToSet(pool) : b.target = need.target /\ need.tags \subseteq b.tags})
      pool[i \in 0..Len(needs)] ==
        IF i = 0 THEN boards
        ELSE NotIn(pool[i-1], FirstIds(needs[i].count, Fits(needs[i], pool[i-1])))
      Got(i) == Min({needs[i].count, Len(Fits(needs[i], pool[i-1]))})
  IN  {[target |-> needs[i].target, wanted |-> needs[i].count, got |-> Got(i),
        optional |-> needs[i].optional] :
         i \in {j \in DOMAIN needs : Got(j) < needs[j].count}}

-----------------------------------------------------------------------------
(* A board, what a demand asks of a family, and a demand that asks for     *)
(* nothing, to write a farm down with.                                     *)

Board(id, target, tags, worker) == [id |-> id, target |-> target, tags |-> tags, worker |-> worker]
HeldAs(b, hold) == [id |-> b.id, target |-> b.target, tags |-> b.tags, worker |-> b.worker, hold |-> hold]
Need(target, count, tags, optional) ==
  [target |-> target, count |-> count, tags |-> tags, optional |-> optional]

Plain(j) ==
  [job |-> j, whole |-> FALSE, concurrent |-> TRUE, boards |-> {}, needs |-> <<>>, resources |-> {},
   holdsBoards |-> TRUE, profile |-> "p", rig |-> None]
=============================================================================
