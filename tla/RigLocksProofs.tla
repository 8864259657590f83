----------------------------- MODULE RigLocksProofs -----------------------------
(***************************************************************************)
(* What the rig and board locks promise for every set of boards, runs,     *)
(* probes and administrators.  The properties are not inductive: that two  *)
(* ports differ follows from who holds which lock while it works, so the   *)
(* invariant says what each lock means and what the inventory said to      *)
(* whoever works by it.                                                    *)
(***************************************************************************)
EXTENDS RigLocks, TLAPS

(* Shared or exclusive, never both; a holder at work has the lock its kind takes. *)
RigHeld ==
  /\ exclusive # Free => shared = {}
  /\ \A r \in Runs : stage[r] \in {"locking", "working"} =>
       IF r \in Alone THEN exclusive = r ELSE r \in shared
  /\ \A p \in Probes : stage[p] \in {"sharing", "working"} => p \in shared
  /\ \A a \in Admins : stage[a] = "working" => exclusive = a
  /\ deploy \in {"installing", "restarted"} => exclusive = Deploy

(* Beside others, work is on boards whose locks one has.                   *)
BoardsHeld ==
  /\ \A r \in Runs \ Alone : stage[r] = "working" => \A b \in BoardsOf[r] : boardLock[b] = r
  /\ \A p \in Probes : stage[p] = "working" => boardLock[BoardOf[p]] = p

(* Two boards of the inventory are never on one port.                      *)
MapApart == \A b, d \in Boards : b # d /\ map[b] = map[d] => map[b] = Gone

(* A probe that is under way knows a port: the published one, unless the   *)
(* inventory was rewritten since it looked.                                *)
Knows ==
  \A p \in Probes : stage[p] \in {"looked", "asking", "sharing", "working"} =>
    /\ looked[p] \in Ports
    /\ p \notin moved => looked[p] = map[BoardOf[p]]

(* Ports are open while one works, and beside others only one's own.       *)
OpensOwn ==
  /\ \A a \in Actors : stage[a] # "working" => opens[a] = {}
  /\ \A p \in Probes : stage[p] = "working" => opens[p] = {looked[p]}

IInv == TypeOK /\ RigHeld /\ BoardsHeld /\ MapApart /\ Knows /\ OpensOwn /\ InventoryStandsStill

USE DEF Actors, locks, inventory, host

-----------------------------------------------------------------------------
(* What the invariant says of the ports.                                   *)
LEMMA PortsApart == IInv => PortExclusive
<1> SUFFICES ASSUME IInv, NEW a \in Actors, NEW b \in Actors, a # b,
                    NEW x, x \in opens[a], x \in opens[b], a \notin moved, b \notin moved
             PROVE  FALSE
  BY DEF PortExclusive, IInv
<1> USE RigLocksAssumption DEF IInv
<1>1. stage[a] = "working" /\ stage[b] = "working"
  BY DEF OpensOwn
<1>2. exclusive # a /\ exclusive # b
  BY <1>1 DEF RigHeld
<1>3. a \in (Runs \ Alone) \cup Probes /\ b \in (Runs \ Alone) \cup Probes
  BY <1>1, <1>2 DEF RigHeld
<1> DEFINE Own(c, d) == boardLock[d] = c /\ map[d] = x
<1>4. ASSUME NEW c \in (Runs \ Alone) \cup Probes, stage[c] = "working", x \in opens[c], c \notin moved
      PROVE  \E d \in Boards : Own(c, d)
  <2>1. CASE c \in Probes
    <3>1. x = looked[c] /\ looked[c] = map[BoardOf[c]]
      BY <1>4, <2>1 DEF OpensOwn, Knows
    <3>2. BoardOf[c] \in Boards /\ boardLock[BoardOf[c]] = c
      BY <1>4, <2>1 DEF BoardsHeld
    <3> QED BY <3>1, <3>2
  <2>2. CASE c \in Runs \ Alone
    BY <1>4, <2>2 DEF InventoryStandsStill, BoardsHeld
  <2> QED BY <1>4, <2>1, <2>2
<1>5. PICK d \in Boards : Own(a, d)
  BY <1>1, <1>3, <1>4
<1>6. PICK e \in Boards : Own(b, e)
  BY <1>1, <1>3, <1>4
<1>7. x \in Ports
  BY DEF TypeOK
<1>8. d = e
  BY <1>5, <1>6, <1>7 DEF MapApart
<1> QED BY <1>5, <1>6, <1>8

(* Letting go touches nothing of anybody else's.                           *)
LEMMA Dropped ==
  ASSUME TypeOK, NEW who \in SUBSET Actors, Drop(who)
  PROVE  /\ shared' = shared \ who
         /\ exclusive' = IF exclusive \in who THEN Free ELSE exclusive
         /\ boardLock' \in [Boards -> Runs \cup Probes \cup {Free}]
         /\ \A b \in Boards : boardLock[b] \notin who => boardLock'[b] = boardLock[b]
         /\ opens' \in [Actors -> SUBSET Ports]
         /\ \A a \in who : opens'[a] = {}
         /\ \A a \in Actors \ who : opens'[a] = opens[a]
BY DEF Drop, TypeOK

(* Rewriting the inventory, while nobody works by it.                      *)
LEMMA Published ==
  ASSUME TypeOK, Knows, Publish, NEW p \in Probes, stage[p] \in {"looked", "asking", "sharing"}
  PROVE  looked'[p] \in Ports /\ (p \notin moved' => looked'[p] = map'[BoardOf[p]])
BY RigLocksAssumption DEF Publish, Knows, TypeOK

LEMMA PublishedApart ==
  ASSUME TypeOK, Publish
  PROVE  /\ map' \in [Boards -> Ports \cup {Gone}] /\ MapApart' /\ moved' \subseteq Probes
         /\ looked' = looked
BY RigLocksAssumption DEF Publish, TypeOK, Placements, MapApart

-----------------------------------------------------------------------------
(* Whoever has the rig lock exclusively is alone at work beside the runs   *)
(* that have none.                                                         *)
LEMMA AloneAtWork ==
  ASSUME IInv, exclusive # Free
  PROVE  /\ \A r \in Runs \ Alone : stage[r] # "working"
         /\ \A p \in Probes : stage[p] \notin {"sharing", "working"}
BY RigLocksAssumption DEF IInv, RigHeld

Stages == {"none", "claimed", "locking", "working", "leaving", "looked", "asking", "sharing", "over"}

(* Those who let go and stop leave everybody else with what they had.      *)
LEMMA LettingGoKeeps ==
  ASSUME IInv, NEW who \in SUBSET Actors, Drop(who), stage' \in [Actors -> Stages],
         \A a \in who : stage'[a] \in {"none", "leaving", "over"},
         \A a \in Actors \ who : stage'[a] = stage[a],
         UNCHANGED <<inventory, plugged>>,
         deploy' \in {"none", "installing", "restarted", "over"},
         restart' \in {"none", "notifier", "install", "over"},
         deploy' \in {"installing", "restarted"} => deploy \in {"installing", "restarted"}
  PROVE  IInv'
<1> USE RigLocksAssumption DEF IInv
<1>1. /\ shared' = shared \ who /\ exclusive' = IF exclusive \in who THEN Free ELSE exclusive
      /\ boardLock' \in [Boards -> Runs \cup Probes \cup {Free}]
      /\ \A b \in Boards : boardLock[b] \notin who => boardLock'[b] = boardLock[b]
      /\ opens' \in [Actors -> SUBSET Ports] /\ \A a \in who : opens'[a] = {}
      /\ \A a \in Actors \ who : opens'[a] = opens[a]
  BY Dropped
<1>2. TypeOK'
  BY <1>1 DEF TypeOK, Stages
<1>3. RigHeld'
  BY <1>1 DEF RigHeld
<1>4. BoardsHeld'
  BY <1>1 DEF BoardsHeld
<1>5. MapApart' /\ Knows'
  BY DEF MapApart, Knows
<1>6. OpensOwn'
  BY <1>1 DEF OpensOwn
<1>7. InventoryStandsStill'
  BY <1>1 DEF InventoryStandsStill
<1> QED BY <1>2, <1>3, <1>4, <1>5, <1>6, <1>7

LEMMA RunsKeep ==
  ASSUME IInv, NEW r \in Runs, RunStep(r)
  PROVE  IInv'
<1> USE RigLocksAssumption DEF IInv
<1>1. CASE Grant(r) \/ Release(r)
  <2>1. stage[r] \notin {"locking", "working"} /\ stage'[r] \notin {"locking", "working"}
        /\ \A a \in Actors \ {r} : stage'[a] = stage[a]
    BY <1>1 DEF Grant, Release, TypeOK
  <2>2. TypeOK'
    BY <1>1 DEF Grant, Release, TypeOK
  <2>3. RigHeld' /\ BoardsHeld'
    BY <1>1, <2>1 DEF Grant, Release, RigHeld, BoardsHeld
  <2>4. MapApart' /\ Knows' /\ OpensOwn' /\ InventoryStandsStill'
    BY <1>1, <2>1 DEF Grant, Release, MapApart, Knows, OpensOwn, InventoryStandsStill
  <2> QED BY <2>2, <2>3, <2>4
<1>2. CASE TakeRig(r)
  <2>1. stage[r] = "claimed" /\ stage'[r] = "locking" /\ \A a \in Actors \ {r} : stage'[a] = stage[a]
    BY <1>2 DEF TakeRig, TypeOK
  <2>2. TypeOK'
    BY <1>2 DEF TakeRig, TypeOK
  <2>3. RigHeld'
    BY <1>2, <2>1 DEF TakeRig, RigHeld
  <2>4. BoardsHeld' /\ MapApart' /\ Knows' /\ OpensOwn' /\ InventoryStandsStill'
    BY <1>2, <2>1 DEF TakeRig, BoardsHeld, MapApart, Knows, OpensOwn, InventoryStandsStill
  <2> QED BY <2>2, <2>3, <2>4
<1>3. CASE TakeBoard(r)
  <2>1. PICK d : boardLock[d] = Free /\ boardLock' = [boardLock EXCEPT ![d] = r]
    BY <1>3 DEF TakeBoard
  <2>2. UNCHANGED <<shared, exclusive, stage, opens, inventory, host>>
    BY <1>3 DEF TakeBoard
  <2>3. TypeOK'
    BY <2>1, <2>2 DEF TypeOK
  <2>4. \A b \in Boards : boardLock[b] # Free => boardLock'[b] = boardLock[b]
    BY <2>1 DEF TypeOK
  <2>5. BoardsHeld'
    BY <2>2, <2>4 DEF BoardsHeld
  <2>6. RigHeld' /\ MapApart' /\ Knows' /\ OpensOwn' /\ InventoryStandsStill'
    BY <2>2 DEF RigHeld, MapApart, Knows, OpensOwn, InventoryStandsStill
  <2> QED BY <2>3, <2>5, <2>6
<1>4. CASE Work(r) /\ r \in Alone
  <2>1. stage[r] = "locking" /\ exclusive = r /\ exclusive # Free
    BY <1>4 DEF Work, RigHeld
  <2>2. Publish /\ opens' = [opens EXCEPT ![r] = Ports] /\ stage' = [stage EXCEPT ![r] = "working"]
        /\ UNCHANGED <<locks, host>>
    BY <1>4 DEF Work
  <2>3. stage'[r] = "working" /\ \A a \in Actors \ {r} : stage'[a] = stage[a] /\ opens'[a] = opens[a]
    BY <2>2 DEF TypeOK
  <2>4. /\ map' \in [Boards -> Ports \cup {Gone}] /\ MapApart' /\ moved' \subseteq Probes
        /\ looked' = looked
    BY <2>2, PublishedApart
  <2>5. TypeOK'
    BY <2>2, <2>4 DEF TypeOK
  <2>6. RigHeld' /\ BoardsHeld' /\ OpensOwn'
    BY <1>4, <2>1, <2>2, <2>3, <2>4 DEF RigHeld, BoardsHeld, OpensOwn
  <2>7. Knows'
    BY <2>1, <2>2, <2>3, AloneAtWork, Published DEF Knows
  <2>8. InventoryStandsStill'
    BY <1>4, <2>1, <2>3, AloneAtWork DEF InventoryStandsStill
  <2> QED BY <2>4, <2>5, <2>6, <2>7, <2>8
<1>5. ASSUME r \notin Alone, Work(r), stage' = [stage EXCEPT ![r] = "working"]
      PROVE  IInv'
  <2>1. stage'[r] = "working" /\ \A a \in Actors \ {r} : stage'[a] = stage[a]
    BY <1>5 DEF TypeOK
  <2>2. /\ stage[r] = "locking" /\ HeldBy(r) = BoardsOf[r]
        /\ \A b \in BoardsOf[r] : map[b] # Gone
        /\ opens' = [opens EXCEPT ![r] = {map[b] : b \in BoardsOf[r]}]
        /\ UNCHANGED <<locks, inventory, host>>
    BY <1>5, <2>1 DEF Work, TypeOK
  <2>3. {map[b] : b \in BoardsOf[r]} \subseteq Ports
    BY <2>2 DEF TypeOK
  <2>4. TypeOK'
    BY <1>5, <2>2, <2>3 DEF TypeOK
  <2>5. opens'[r] = {map[b] : b \in BoardsOf[r]} /\ \A a \in Actors \ {r} : opens'[a] = opens[a]
    BY <2>2 DEF TypeOK
  <2>6. \A b \in BoardsOf[r] : boardLock[b] = r
    BY <2>2 DEF HeldBy
  <2>7. RigHeld' /\ BoardsHeld'
    BY <1>5, <2>1, <2>2, <2>6 DEF RigHeld, BoardsHeld
  <2>8. MapApart' /\ Knows' /\ OpensOwn'
    BY <2>1, <2>2, <2>5 DEF MapApart, Knows, OpensOwn
  <2>9. InventoryStandsStill'
    BY <2>1, <2>2, <2>5 DEF InventoryStandsStill
  <2> QED BY <2>4, <2>7, <2>8, <2>9
<1>6. ASSUME Drop({r}), stage' = [stage EXCEPT ![r] = "leaving"], UNCHANGED <<inventory, host>>
      PROVE  IInv'
  <2>1. {r} \in SUBSET Actors
    OBVIOUS
  <2>2. /\ stage' \in [Actors -> Stages] /\ stage'[r] = "leaving"
        /\ \A a \in Actors \ {r} : stage'[a] = stage[a]
    BY <1>6 DEF TypeOK, Stages
  <2> QED BY <1>6, <2>1, <2>2, LettingGoKeeps DEF TypeOK
<1>7. CASE Finish(r)
  BY <1>6, <1>7 DEF Finish
<1>8. CASE Work(r) /\ r \notin Alone
  BY <1>5, <1>6, <1>8 DEF Work
<1> QED BY <1>1, <1>2, <1>3, <1>4, <1>7, <1>8 DEF RunStep

LEMMA ProbesKeep ==
  ASSUME IInv, NEW p \in Probes, ProbeStep(p)
  PROVE  IInv'
<1> USE RigLocksAssumption DEF IInv
<1>1. CASE LookUp(p) \/ Ask(p)
  <2>1. /\ stage'[p] \in {"looked", "asking", "over"} /\ stage[p] \in {"none", "looked"}
        /\ \A a \in Actors \ {p} : stage'[a] = stage[a]
    BY <1>1 DEF LookUp, Ask, TypeOK
  <2>2. TypeOK'
    BY <1>1 DEF LookUp, Ask, TypeOK
  <2>3. RigHeld' /\ BoardsHeld' /\ MapApart' /\ InventoryStandsStill'
    BY <1>1, <2>1 DEF LookUp, Ask, RigHeld, BoardsHeld, MapApart, InventoryStandsStill
  <2>4. Knows'
    <3>1. CASE LookUp(p)
      <4>1. looked'[p] = map[BoardOf[p]] /\ \A q \in Probes \ {p} : looked'[q] = looked[q]
        BY <3>1 DEF LookUp, TypeOK
      <4>2. map[BoardOf[p]] \in Ports /\ UNCHANGED <<map, moved>>
        BY <3>1 DEF LookUp, TypeOK
      <4> QED BY <2>1, <4>1, <4>2 DEF Knows
    <3>2. CASE Ask(p)
      BY <2>1, <3>2 DEF Ask, Knows
    <3> QED BY <1>1, <3>1, <3>2
  <2>5. OpensOwn'
    BY <1>1, <2>1 DEF LookUp, Ask, OpensOwn, TypeOK
  <2> QED BY <2>2, <2>3, <2>4, <2>5
<1>2. CASE ProbeRig(p)
  <2>1. /\ stage[p] = "asking" /\ stage'[p] \in {"sharing", "over"}
        /\ \A a \in Actors \ {p} : stage'[a] = stage[a]
    BY <1>2 DEF ProbeRig, TypeOK
  <2>2. TypeOK'
    BY <1>2 DEF ProbeRig, TypeOK
  <2>3. RigHeld'
    <3>1. /\ \/ exclusive = Free /\ shared' = shared \cup {p}
             \/ stage'[p] = "over" /\ shared' = shared
          /\ UNCHANGED <<exclusive, deploy>>
      BY <1>2 DEF ProbeRig, TypeOK
    <3> QED BY <2>1, <3>1 DEF RigHeld
  <2>4. UNCHANGED <<boardLock, opens, inventory>>
    BY <1>2 DEF ProbeRig
  <2>5. BoardsHeld' /\ MapApart' /\ InventoryStandsStill'
    BY <2>1, <2>4 DEF BoardsHeld, MapApart, InventoryStandsStill
  <2>6. Knows'
    BY <2>1, <2>4 DEF Knows
  <2>7. OpensOwn'
    BY <2>1, <2>4 DEF OpensOwn
  <2> QED BY <2>2, <2>3, <2>5, <2>6, <2>7
<1>3. ASSUME ProbeBoard(p), stage' = [stage EXCEPT ![p] = "working"]
      PROVE  IInv'
  <2>1. stage[p] = "sharing" /\ stage'[p] = "working" /\ \A a \in Actors \ {p} : stage'[a] = stage[a]
    BY <1>3 DEF ProbeBoard, TypeOK
  <2>2. /\ boardLock[BoardOf[p]] = Free
        /\ boardLock' = [boardLock EXCEPT ![BoardOf[p]] = p]
        /\ opens' = [opens EXCEPT ![p] = {looked[p]}]
        /\ UNCHANGED <<shared, exclusive, inventory, host>>
    BY <1>3, <2>1 DEF ProbeBoard, TypeOK
  <2>3. looked[p] \in Ports
    BY <2>1 DEF Knows
  <2>4. TypeOK'
    BY <1>3, <2>2, <2>3 DEF TypeOK
  <2>5. /\ opens'[p] = {looked[p]} /\ \A a \in Actors \ {p} : opens'[a] = opens[a]
        /\ boardLock'[BoardOf[p]] = p
        /\ \A b \in Boards : boardLock[b] # Free => boardLock'[b] = boardLock[b]
    BY <2>2 DEF TypeOK
  <2>6. RigHeld' /\ MapApart' /\ Knows' /\ InventoryStandsStill'
    BY <2>1, <2>2, <2>5 DEF RigHeld, MapApart, Knows, InventoryStandsStill
  <2>7. BoardsHeld' /\ OpensOwn'
    BY <2>1, <2>2, <2>5 DEF BoardsHeld, OpensOwn
  <2> QED BY <2>4, <2>6, <2>7
<1>4. ASSUME Drop({p}), stage' = [stage EXCEPT ![p] = "over"], UNCHANGED <<inventory, host>>
      PROVE  IInv'
  <2>1. {p} \in SUBSET Actors
    OBVIOUS
  <2>2. /\ stage' \in [Actors -> Stages] /\ stage'[p] = "over"
        /\ \A a \in Actors \ {p} : stage'[a] = stage[a]
    BY <1>4 DEF TypeOK, Stages
  <2> QED BY <1>4, <2>1, <2>2, LettingGoKeeps DEF TypeOK
<1>5. CASE ProbeBoard(p)
  BY <1>3, <1>4, <1>5 DEF ProbeBoard
<1>6. CASE ProbeDone(p)
  BY <1>4, <1>6 DEF ProbeDone
<1> QED BY <1>1, <1>2, <1>5, <1>6 DEF ProbeStep

LEMMA AdminsKeep ==
  ASSUME IInv, NEW a \in Admins, AdminStep(a)
  PROVE  IInv'
<1> USE RigLocksAssumption DEF IInv
<1>1. CASE AdminTake(a)
  <2>1. /\ stage[a] = "none" /\ stage'[a] = "working"
        /\ \A c \in Actors \ {a} : stage'[c] = stage[c] /\ opens'[c] = opens[c]
    BY <1>1 DEF AdminTake, TypeOK
  <2>2. TypeOK'
    BY <1>1 DEF AdminTake, TypeOK
  <2>3. RigHeld'
    BY <1>1, <2>1 DEF AdminTake, RigFree, RigHeld
  <2>4. BoardsHeld' /\ MapApart' /\ Knows' /\ OpensOwn' /\ InventoryStandsStill'
    BY <1>1, <2>1 DEF AdminTake, BoardsHeld, MapApart, Knows, OpensOwn, InventoryStandsStill
  <2> QED BY <2>2, <2>3, <2>4
<1>2. CASE AdminPublish(a)
  <2>1. stage[a] = "working" /\ exclusive = a /\ exclusive # Free
    BY <1>2 DEF AdminPublish, RigHeld
  <2>2. /\ stage'[a] = "over" /\ stage' \in [Actors -> Stages]
        /\ \A c \in Actors \ {a} : stage'[c] = stage[c]
    BY <1>2 DEF AdminPublish, TypeOK, Stages
  <2>3. {a} \in SUBSET Actors /\ Drop({a}) /\ Publish /\ UNCHANGED host
    BY <1>2 DEF AdminPublish
  <2>4. /\ shared' = shared \ {a} /\ exclusive' = IF exclusive \in {a} THEN Free ELSE exclusive
        /\ boardLock' \in [Boards -> Runs \cup Probes \cup {Free}]
        /\ \A b \in Boards : boardLock[b] \notin {a} => boardLock'[b] = boardLock[b]
        /\ opens' \in [Actors -> SUBSET Ports] /\ opens'[a] = {}
        /\ \A c \in Actors \ {a} : opens'[c] = opens[c]
    BY <2>3, Dropped
  <2>5. /\ map' \in [Boards -> Ports \cup {Gone}] /\ MapApart' /\ moved' \subseteq Probes
        /\ looked' = looked
    BY <2>3, PublishedApart
  <2>6. TypeOK'
    BY <2>2, <2>3, <2>4, <2>5 DEF TypeOK, Stages
  <2>7. RigHeld'
    BY <2>1, <2>2, <2>3, <2>4 DEF RigHeld
  <2>8. BoardsHeld'
    BY <2>2, <2>4 DEF BoardsHeld
  <2>9. OpensOwn'
    BY <2>2, <2>4, <2>5 DEF OpensOwn
  <2>10. Knows'
    BY <2>1, <2>2, <2>3, AloneAtWork, Published DEF Knows
  <2>11. InventoryStandsStill'
    BY <2>1, <2>2, AloneAtWork DEF InventoryStandsStill
  <2> QED BY <2>5, <2>6, <2>7, <2>8, <2>9, <2>10, <2>11
<1>3. CASE AdminRefused(a)
  <2>1. {a} \in SUBSET Actors /\ Drop({a}) /\ UNCHANGED <<inventory, host>>
    BY <1>3 DEF AdminRefused
  <2>2. /\ stage' \in [Actors -> Stages] /\ stage'[a] = "over"
        /\ \A c \in Actors \ {a} : stage'[c] = stage[c]
    BY <1>3 DEF AdminRefused, TypeOK, Stages
  <2> QED BY <2>1, <2>2, LettingGoKeeps DEF TypeOK
<1> QED BY <1>1, <1>2, <1>3 DEF AdminStep

(* A restart of the service, by a deploy under its lock or without any.    *)
LEMMA DyingKeeps ==
  ASSUME IInv, ServiceDies, UNCHANGED <<inventory, plugged>>,
         \/ deploy = "installing" /\ deploy' = "restarted" /\ restart' = restart
         \/ deploy' = deploy /\ restart' = "over"
  PROVE  IInv'
<1> USE RigLocksAssumption DEF IInv
<1>1. PICK dead \in SUBSET Actors :
        /\ Drop(dead)
        /\ stage' = [a \in Actors |-> IF a \in dead /\ stage[a] # "none" THEN "over" ELSE stage[a]]
  BY DEF ServiceDies
<1>2. /\ stage' \in [Actors -> Stages] /\ \A a \in dead : stage'[a] \in {"none", "leaving", "over"}
      /\ \A a \in Actors \ dead : stage'[a] = stage[a]
  BY <1>1 DEF TypeOK, Stages
<1> QED BY <1>1, <1>2, LettingGoKeeps DEF TypeOK

LEMMA DeploysKeep ==
  ASSUME IInv, DeployStep \/ RestartStep \/ Replug
  PROVE  IInv'
<1> USE RigLocksAssumption DEF IInv
<1>1. CASE DeployTake
  <2>1. TypeOK'
    BY <1>1 DEF DeployTake, TypeOK
  <2>2. RigHeld'
    BY <1>1 DEF DeployTake, RigFree, RigHeld
  <2>3. BoardsHeld' /\ MapApart' /\ Knows' /\ OpensOwn' /\ InventoryStandsStill'
    BY <1>1 DEF DeployTake, BoardsHeld, MapApart, Knows, OpensOwn, InventoryStandsStill
  <2> QED BY <2>1, <2>2, <2>3
<1>2. CASE DeployRestart
  BY <1>2, DyingKeeps DEF DeployRestart
<1>3. CASE Restart
  BY <1>3, DyingKeeps DEF Restart
<1>4. CASE DeployDone
  <2>1. exclusive = Deploy /\ exclusive' = Free
    BY <1>4 DEF DeployDone, RigHeld
  <2>2. TypeOK'
    BY <1>4, <2>1 DEF DeployDone, TypeOK
  <2>3. RigHeld'
    BY <1>4, <2>1 DEF DeployDone, RigHeld
  <2>4. BoardsHeld' /\ MapApart' /\ Knows' /\ OpensOwn' /\ InventoryStandsStill'
    BY <1>4 DEF DeployDone, BoardsHeld, MapApart, Knows, OpensOwn, InventoryStandsStill
  <2> QED BY <2>2, <2>3, <2>4
<1>5. CASE DeployGivesUp \/ NotifierAsks \/ InstallAsks \/ Replug
  <2>1. TypeOK'
    BY <1>5 DEF DeployGivesUp, NotifierAsks, InstallAsks, Replug, TypeOK
  <2>2. RigHeld'
    BY <1>5 DEF DeployGivesUp, NotifierAsks, InstallAsks, Replug, RigHeld
  <2>3. BoardsHeld' /\ MapApart' /\ Knows' /\ OpensOwn' /\ InventoryStandsStill'
    BY <1>5 DEF DeployGivesUp, NotifierAsks, InstallAsks, Replug, BoardsHeld, MapApart, Knows,
                OpensOwn, InventoryStandsStill
  <2> QED BY <2>1, <2>2, <2>3
<1> QED BY <1>1, <1>2, <1>3, <1>4, <1>5 DEF DeployStep, RestartStep

LEMMA Inductive == Spec => []IInv
<1>1. Init => IInv
  <2> SUFFICES ASSUME Init PROVE IInv
    OBVIOUS
  <2> USE RigLocksAssumption DEF Init
  <2>1. TypeOK
    BY DEF TypeOK, Placements
  <2>2. RigHeld /\ BoardsHeld /\ Knows /\ OpensOwn /\ InventoryStandsStill
    BY DEF RigHeld, BoardsHeld, Knows, OpensOwn, InventoryStandsStill
  <2>3. MapApart
    BY DEF MapApart, Placements
  <2> QED BY <2>1, <2>2, <2>3 DEF IInv
<1>2. IInv /\ [Next]_vars => IInv'
  <2>1. CASE UNCHANGED vars
    BY <2>1 DEF vars, IInv, TypeOK, RigHeld, BoardsHeld, MapApart, Knows, OpensOwn, InventoryStandsStill
  <2> QED BY <2>1, RunsKeep, ProbesKeep, AdminsKeep, DeploysKeep DEF Next
<1> QED BY <1>1, <1>2, PTL DEF Spec

-----------------------------------------------------------------------------
(* Under the rig and board locks (_hold, device_details, the admin commands), no two actors *)
(* ever have one serial port open, but for a probe whose port is out of date.               *)
THEOREM Exclusive == Spec => []PortExclusive
BY Inductive, PortsApart, PTL

(* Nobody rewrites the published inventory under a run that works by it (_execute reads it  *)
(* once, under the shared rig lock).                                                        *)
THEOREM StandsStill == Spec => []InventoryStandsStill
<1>1. IInv => InventoryStandsStill
  BY DEF IInv
<1> QED BY <1>1, Inductive, PTL

(* A deploy restarts the service only while it has the rig lock to itself (update-runner.sh), *)
(* so no run and no probe has it then.                                                        *)
THEOREM DeployPatient == Spec => DeployEndsNoWork
<1>1. IInv /\ DeployRestart => Holders \subseteq {Deploy}
  BY RigLocksAssumption DEF IInv, RigHeld, DeployRestart, Holders
<1>2. IInv /\ [Next]_vars => [DeployRestart => Holders \subseteq {Deploy}]_vars
  BY <1>1
<1> QED BY <1>2, Inductive, PTL DEF Spec, DeployEndsNoWork
=============================================================================
