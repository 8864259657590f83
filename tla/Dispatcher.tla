------------------------------ MODULE Dispatcher ------------------------------
(***************************************************************************)
(* The farm over time: runs are submitted, promoted, cancelled and         *)
(* finished, boards come, go and are held out of the pool, and the         *)
(* dispatcher starts what the allocator says may start.  One dispatch is   *)
(* one step here, as it is one turn under _dispatch_lock; what other       *)
(* threads do between its statements is JobQueue's subject.                *)
(***************************************************************************)
EXTENDS Allocation

CONSTANTS
  Jobs,        \* run identities; a finished one may be submitted again
  DemandOf,    \* [Jobs -> demand], what each asks of the rig
  Bank,        \* the boards the farm may see, in the order it lists them
  Limit, Workers, Limits, Profiles,  \* the settings of Plan's farm argument
  Holdable,    \* boards an operator or the canary may hold out of the pool
  Pluggable,   \* boards that may leave the inventory and come back
  Promotable   \* runs an operator may promote

ASSUME DispatcherAssumption ==
  /\ \A j \in Jobs : /\ DemandOf[j].job = j
                     /\ DemandOf[j].whole \in BOOLEAN /\ DemandOf[j].resources \subseteq Resources
                     /\ DemandOf[j].needs \in Seq(ToSet(DemandOf[j].needs))
                     /\ \A need \in ToSet(DemandOf[j].needs) : need.count \in Nat
  /\ Bank \in Seq(ToSet(Bank)) /\ Workers \in Seq(ToSet(Workers))
  /\ Limit \in Int /\ \A w \in ToSet(Workers) : Limits[w] \in Int
  /\ Holdable \cup Pluggable \subseteq Ids(Bank)
  /\ Promotable \subseteq Jobs

VARIABLES
  queue,      \* queued runs by priority, then age
  grants,     \* what each started run holds, in the order they started
  holds,      \* board id -> None, "reserved" or "quarantined"
  connected,  \* ids in the published inventory
  paused

vars == <<queue, grants, holds, connected, paused>>

Boards ==
  LET listed == Only(Bank, {b \in ToSet(Bank) : b.id \in connected})
  IN  [i \in DOMAIN listed |-> HeldAs(listed[i], holds[listed[i].id])]

Farm == [limit |-> Limit, limits |-> Limits, profiles |-> Profiles, workers |-> Workers, paused |-> paused]

Demands == [i \in DOMAIN queue |-> DemandOf[queue[i]]]
Started == {grants[i].job : i \in DOMAIN grants}
Decision == Plan(Demands, Boards, grants, Farm)

Without(s, j) == Only(s, ToSet(s) \ {j})

-----------------------------------------------------------------------------
Init ==
  /\ queue = <<>>
  /\ grants = <<>>
  /\ holds = [b \in Ids(Bank) |-> None]
  /\ connected = Ids(Bank)
  /\ paused = FALSE

\* A run naming boards is refused unless they are connected and free of holds;
\* only a canary, which is the profile None or "canary" here, may name a quarantined one.
Submit(j) ==
  LET d == DemandOf[j] IN
  /\ j \notin ToSet(queue) \cup Started
  /\ d.boards \subseteq connected
  /\ \A b \in d.boards : holds[b] = None \/ (holds[b] = "quarantined" /\ d.profile = "canary")
  /\ queue' = Append(queue, j)
  /\ UNCHANGED <<grants, holds, connected, paused>>

\* One above the highest queued priority: to the front.
Promote(j) ==
  /\ j \in Promotable \cap ToSet(queue)
  /\ queue' = <<j>> \o Without(queue, j)
  /\ UNCHANGED <<grants, holds, connected, paused>>

Cancel(j) ==
  /\ j \in ToSet(queue)
  /\ queue' = Without(queue, j)
  /\ UNCHANGED <<grants, holds, connected, paused>>

Dispatch ==
  LET starting == {g.job : g \in Decision}
      order    == Only(queue, starting)
  IN  /\ grants' = grants \o [i \in DOMAIN order |-> CHOOSE g \in Decision : g.job = order[i]]
      /\ queue' = Only(queue, ToSet(queue) \ starting)
      /\ UNCHANGED <<holds, connected, paused>>

Finish(j) ==
  /\ j \in Started
  /\ grants' = Only(grants, {g \in ToSet(grants) : g.job # j})
  /\ UNCHANGED <<queue, holds, connected, paused>>

\* An operator's reservation replaces a quarantine; a quarantine is only put on
\* a board nobody holds.
Reserve(b) ==
  /\ holds' = [holds EXCEPT ![b] = "reserved"]
  /\ UNCHANGED <<queue, grants, connected, paused>>

Quarantine(b) ==
  /\ holds[b] = None
  /\ holds' = [holds EXCEPT ![b] = "quarantined"]
  /\ UNCHANGED <<queue, grants, connected, paused>>

Release(b) ==
  /\ holds[b] # None
  /\ holds' = [holds EXCEPT ![b] = None]
  /\ UNCHANGED <<queue, grants, connected, paused>>

\* A discovery or a worker's heartbeat publishes an inventory with or without b.
Rediscover(b) ==
  /\ connected' = IF b \in connected THEN connected \ {b} ELSE connected \cup {b}
  /\ UNCHANGED <<queue, grants, holds, paused>>

Pause ==
  /\ ~paused
  /\ paused' = TRUE
  /\ UNCHANGED <<queue, grants, holds, connected>>

Resume ==
  /\ paused
  /\ paused' = FALSE
  /\ UNCHANGED <<queue, grants, holds, connected>>

Next ==
  \/ \E j \in Jobs : Submit(j)
  \/ \E j \in Jobs : Promote(j)
  \/ \E j \in Jobs : Cancel(j)
  \/ Dispatch
  \/ \E j \in Jobs : Finish(j)
  \/ \E b \in Holdable : Reserve(b)
  \/ \E b \in Holdable : Quarantine(b)
  \/ \E b \in Holdable : Release(b)
  \/ \E b \in Pluggable : Rediscover(b)
  \/ Pause
  \/ Resume

Spec == Init /\ [][Next]_vars

\* The dispatcher looks again at every token and every half minute, and a run's own
\* safety limit ends it.
\* WF_vars(Dispatch), with its ENABLED written out: a dispatch changes the state
\* exactly when the allocator's decision is not empty.
DispatchFairly == []<>(Decision = {}) \/ []<><<Dispatch>>_vars

Fairness ==
  /\ DispatchFairly
  /\ \A j \in Jobs : WF_vars(Finish(j))

FairSpec == Spec /\ Fairness

-----------------------------------------------------------------------------
Grants == ToSet(grants)
New == ToSet(grants') \ ToSet(grants)
BoardAt(b) == CHOOSE x \in ToSet(Boards) : x.id = b
LimitOf(name) == IF name \in ToSet(Workers) THEN Limits[name] ELSE Limit

Grant == [job : Jobs, boards : SUBSET Ids(Bank), resources : SUBSET Resources, shared : BOOLEAN, whole : BOOLEAN,
          worker : ToSet(Workers) \cup {b.worker : b \in ToSet(Bank)} \cup {None}]

\* Every variable holds what the rest of the module takes it to hold.
TypeOK ==
  /\ queue \in Seq(Jobs)
  /\ grants \in Seq(Grant)
  /\ holds \in [Ids(Bank) -> {None, "reserved", "quarantined"}]
  /\ connected \subseteq Ids(Bank)
  /\ paused \in BOOLEAN

\* A run is queued once, or started once.
OneTurnEach ==
  /\ \A i, k \in DOMAIN queue : i # k => queue[i] # queue[k]
  /\ \A i, k \in DOMAIN grants : i # k => grants[i].job # grants[k].job
  /\ ToSet(queue) \cap Started = {}

Apart(g, h) ==
  /\ g.shared /\ h.shared
  /\ g.boards \cap h.boards = {}
  /\ g.resources \cap h.resources = {}

\* No two runs hold one board or one resource of a rig, and a run that has a rig
\* to itself has nothing beside it.  Grants are given turns apart, from different
\* inventories and hold tables, so no one call of plan establishes this.
\* (And every variable is in its type, and every run queued or started once.)
NothingShared ==
  /\ TypeOK
  /\ OneTurnEach
  /\ \A g, h \in Grants : g # h /\ g.worker = h.worker => Apart(g, h)

\* No rig ever runs more than its limit.
WithinLimit ==
  \A g \in Grants : Cardinality({h \in Grants : h.worker = g.worker}) <= Max({1, LimitOf(g.worker)})

Inductive == NothingShared /\ WithinLimit

\* What a waiting run asked of a rig it was tried on: named boards, else families it needs there.
Wants(i, g) ==
  LET d    == DemandOf[queue[i]]
      here == Only(Boards, {b \in ToSet(Boards) : b.worker = g.worker})
      need == {n \in ToSet(d.needs) : Take(n, here) > 0}
  IN  {b \in Ids(here) : b \in d.boards \/ \E n \in need : BoardAt(b).target = n.target}

\* Whether the queued run i was a candidate for the rig of grant g.
TriedOn(i, g) ==
  LET d      == DemandOf[queue[i]]
      names  == RigNames(Boards, grants, Farm)
      on     == Rig(g.worker, Boards, {}, 1, IF g.worker \in ToSet(Workers) THEN Profiles[g.worker] ELSE {d.profile},
                    Cardinality(DOMAIN names) = 1)
  IN  d.rig \in {None, g.worker} /\ Eligible(on, d)

\* Run i, queued at position i, keeps from g everything it waits for.
Keeps(i, g) ==
  /\ Wants(i, g) \cap g.boards = {}
  /\ DemandOf[queue[i]].resources \cap g.resources = {}

\* The documented rule 2: a run that starts ahead of one queued first, on a rig that
\* one could have used, takes no board of a family it wants, no board it named and
\* no resource it uses.
NothingJumps ==
  [][\A g \in New : \A i \in DOMAIN queue :
       /\ queue[i] \in ToSet(queue')
       /\ \E k \in DOMAIN queue : i < k /\ queue[k] = g.job
       /\ TriedOn(i, g)
       => Keeps(i, g)]_vars

\* Rule 2 as far as the code keeps it: for every run that starts beside others, and,
\* when no queued run waits for a board reserved after it was queued, for every run.
NothingJumpsUnreserved ==
  [][\A g \in New : \A i \in DOMAIN queue :
       /\ queue[i] \in ToSet(queue')
       /\ \E k \in DOMAIN queue : i < k /\ queue[k] = g.job
       /\ TriedOn(i, g)
       /\ g.shared \/ \A m \in 1..i : \A b \in DemandOf[queue[m]].boards : holds[b] # "reserved"
       => Keeps(i, g)]_vars

\* A run given boards by family is given enough of every required family, counted
\* by the report's own arithmetic, and no more boards than its needs add up to.
GrantCoversNeeds ==
  [][\A g \in New :
       LET d == DemandOf[g.job]
           given == Only(Boards, {b \in ToSet(Boards) : b.id \in g.boards})
           here == Only(Boards, {b \in ToSet(Boards) : b.worker = g.worker})
       IN  ~d.whole /\ d.boards = {} /\ FitsIdle(d, here) =>
             /\ \A gap \in Coverage(d.needs, given) : gap.optional
             /\ Cardinality(g.boards) <= FoldLeft(LAMBDA n, need : n + need.count, 0, d.needs)]_vars

\* Once the queue is open for good, the pool of boards is settled and nobody jumps
\* the queue by hand, every queued run that names no reserved board is started or
\* cancelled: an endless stream of small runs never starves a big one.
Settled ==
  /\ <>[]~paused
  /\ <>[][UNCHANGED <<holds, connected>>]_vars
  /\ <>[][\A j \in Jobs : ~Promote(j)]_vars

EveryRunServed ==
  Settled => \A j \in Jobs :
    (j \in ToSet(queue)) ~> (j \notin ToSet(queue) \/ \E b \in DemandOf[j].boards : holds[b] = "reserved")
=============================================================================
