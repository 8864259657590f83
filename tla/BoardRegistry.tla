------------------------------ MODULE BoardRegistry ------------------------------
(***************************************************************************)
(* Which device is which board: the registry, the reconciliation of what   *)
(* is plugged in with it (board_registry.reconcile), and the two files a   *)
(* discovery publishes -- the active board map the runs are given and the  *)
(* snapshot the dashboard reads -- written one after another by an         *)
(* operation that may stop between any two of them.  One operation at a    *)
(* time: each holds the rig lock (module RigLocks).                        *)
(*                                                                         *)
(* A device stands for its MAC.  A board registered by port has none.      *)
(***************************************************************************)
EXTENDS Naturals, FiniteSets, SequencesExt

CONSTANTS
  Devices, Ports,
  GivenNames,   \* names an operator gives; a name is a sequence of its parts
  FamilyOf,     \* [Devices -> family]
  Suggested,    \* [Devices -> the name a board gives itself]
  Instruments,  \* devices registered as instruments
  Wired,        \* names of boards an instrument is wired to
  ByPort,       \* entries of the registry from before boards had MACs: [id, mac, port, family]
  None

VARIABLES
  port,      \* [Devices -> Ports or None]
  registry,  \* the registered boards, in order: [id, mac, port, family]
  op,        \* "idle", or what is still to be written: "map", "snapshot"
  found,     \* what the operation under way made of the devices
  map,       \* the active board map: [id, device]
  snapshot,  \* what was published last: [boards, missing, unregistered]
  torn       \* history: an operation stopped before its files were written

vars == <<port, registry, op, found, map, snapshot, torn>>

Seen == {d \in Devices : port[d] # None}
Macs(reg) == {reg[i].mac : i \in 1 .. Len(reg)} \ {None}
IdsOf(reg) == {reg[i].id : i \in 1 .. Len(reg)}

-----------------------------------------------------------------------------
\* reconcile: the device a board of the registry is, what is claimed by then left out
\* for a board known by its port only.
DeviceFor(b, claimed) ==
  IF b.mac # None THEN {b.mac} \cap Seen
                  ELSE {d \in Seen \ claimed : port[d] = b.port}

Nothing == [boards |-> {}, missing |-> {}, wrong |-> FALSE, unregistered |-> {}]

Matched(acc, b) ==
  LET dev == DeviceFor(b, acc.claimed) IN
  [claimed |-> acc.claimed \cup dev,
   made |-> [acc.made EXCEPT
     !.boards  = @ \cup {[id |-> b.id, device |-> d] : d \in dev},
     !.missing = IF dev = {} THEN @ \cup {b.id} ELSE @,
     !.wrong   = @ \/ \E d \in dev : FamilyOf[d] # b.family]]

Reconcile(reg) ==
  LET r == FoldLeft(Matched, [claimed |-> Instruments \cap Seen, made |-> Nothing], reg)
  IN  [r.made EXCEPT !.unregistered = Seen \ r.claimed]

\* register_detected: every device nobody has registered, under the name it gives itself,
\* or that name and its port when another board has it, or not at all.
EntryOf(id, d) == [id |-> id, mac |-> d, port |-> port[d], family |-> FamilyOf[d]]
NameIn(reg, d) ==
  IF Suggested[d] \in IdsOf(reg) THEN Append(Suggested[d], port[d]) ELSE Suggested[d]
AddOne(reg, d) ==
  IF d \in Macs(reg) \/ NameIn(reg, d) \in IdsOf(reg) THEN reg
  ELSE Append(reg, EntryOf(NameIn(reg, d), d))
RegisterDetected(reg) == FoldLeft(AddOne, reg, SetToSeq(Seen \ Instruments))

-----------------------------------------------------------------------------
Init ==
  /\ port \in [Devices -> Ports \cup {None}]
  /\ \A d, e \in Devices : port[d] = port[e] /\ d # e => port[d] = None
  /\ registry \in {<<>>} \cup {<<b>> : b \in ByPort}
  /\ op = "idle" /\ found = Nothing
  /\ map = {} /\ snapshot = Nothing
  /\ torn = FALSE

\* Between operations: an operation probes the ports once, and a board moved after that
\* is where it is for the next one.
Plug(d) ==
  /\ op = "idle"
  /\ \E p \in (Ports \cup {None}) \ {port[d]} :
       /\ p = None \/ \A e \in Devices : port[e] # p
       /\ port' = [port EXCEPT ![d] = p]
  /\ UNCHANGED <<registry, op, found, map, snapshot, torn>>

\* The registry is written, then reconciled: a device of another family than its board's
\* raises, with the registry written and nothing else.  Variant: reconciled as it was.
ConcludesBefore(reg) ==
  /\ registry' = reg
  /\ found' = Reconcile(registry) /\ op' = "map"
  /\ UNCHANGED <<port, map, snapshot, torn>>

Concludes(reg) ==
  /\ registry' = reg
  /\ IF Reconcile(reg).wrong
       THEN found' = Nothing /\ op' = "idle" /\ torn' = TRUE
       ELSE found' = Reconcile(reg) /\ op' = "map" /\ UNCHANGED torn
  /\ UNCHANGED <<port, map, snapshot>>

\* publish_inventory, registering by itself or not.
Publish ==
  /\ op = "idle"
  /\ Concludes(registry) \/ Concludes(RegisterDetected(registry))

\* register_device.  It compares MACs, and raises at a board that has none.
Register(id, d) ==
  /\ op = "idle"
  /\ \A i \in 1 .. Len(registry) : registry[i].mac # None
  /\ id \notin IdsOf(registry) /\ d \notin Macs(registry) \cup Instruments
  /\ d \in Seen
  /\ Concludes(Append(registry, EntryOf(id, d)))

Unregister(id) ==
  /\ op = "idle" /\ id \in IdsOf(registry) \ Wired
  /\ Concludes(SelectSeq(registry, LAMBDA b : b.id # id))

WriteMap ==
  /\ op = "map"
  /\ map' = found.boards /\ op' = "snapshot"
  /\ UNCHANGED <<port, registry, found, snapshot, torn>>

WriteSnapshot ==
  /\ op = "snapshot"
  /\ snapshot' = found /\ found' = Nothing
  /\ op' = "idle"
  /\ torn' = FALSE
  /\ UNCHANGED <<port, registry, map>>

\* A write that raises, or the process dies.
Stops ==
  /\ op # "idle"
  /\ op' = "idle" /\ found' = Nothing /\ torn' = TRUE
  /\ UNCHANGED <<port, registry, map, snapshot>>

Next ==
  \/ \E d \in Devices : Plug(d) \/ (\E id \in GivenNames : Register(id, d))
  \/ Publish \/ (\E id \in IdsOf(registry) : Unregister(id))
  \/ WriteMap \/ WriteSnapshot \/ Stops

Spec == Init /\ [][Next]_vars

-----------------------------------------------------------------------------
\* load_inventory_snapshot: the snapshot against the registry as it is now.
View ==
  LET connected == {b.id : b \in snapshot.boards} IN
  [boards  |-> connected,
   missing |-> snapshot.missing \cup (IdsOf(registry) \ (connected \cup snapshot.missing)),
   unregistered |-> snapshot.unregistered \ (Macs(registry) \cup Instruments)]

\* Every variable holds what the rest of the module takes it to hold.
TypeOK ==
  /\ port \in [Devices -> Ports \cup {None}]
  /\ op \in {"idle", "map", "snapshot"} /\ torn \in BOOLEAN
  /\ Macs(registry) \subseteq Devices
  /\ \A b \in map \cup snapshot.boards : b.device \in Devices

\* Unless an operation stopped before its files were written, the page shows the boards
\* of the registry, each connected or missing and none of them both, and the runs' map is
\* what it shows connected.
PageAddsUp ==
  op = "idle" /\ ~torn /\ snapshot.boards \cup map # {} =>
    /\ View.boards \cup View.missing = IdsOf(registry)
    /\ View.boards \cap View.missing = {}
    /\ map = snapshot.boards
=============================================================================
