------------------------------ MODULE ServiceProofs ------------------------------
(***************************************************************************)
(* What the components of a host's service and of its administration keep, *)
(* step by step: for each its inductive invariant, as its own module       *)
(* states it, holds at first, is kept by every step, and says what is      *)
(* promised.                                                               *)
(***************************************************************************)
EXTENDS ServiceParts, Sequences, FiniteSetTheorems, TLAPS

-----------------------------------------------------------------------------
(* The one namespace of keys and accounts (KeyNames).                      *)

LEMMA KeysInductive ==
  ASSUME KeyOwners!Inductive, [KeyOwners!Next]_(KeyOwners!vars)
  PROVE  KeyOwners!Inductive'
<1> USE KeyNamesAssumption
<1> USE DEF KeyOwners!Inductive, KeyOwners!TypeOK, KeyOwners!OneInside, KeyOwners!Inside,
            KeyOwners!ToldStands, KeyOwners!ReadStands, KeyOwners!OneOwnerPerName
<1>1. ASSUME NEW c \in NameCalls, KeyOwners!Takes(c)
      PROVE  KeyOwners!Inductive'
  BY <1>1 DEF KeyOwners!Takes
<1>2. ASSUME NEW c \in NameCalls, KeyOwners!Asks(c) \/ KeyOwners!Reads(c)
      PROVE  KeyOwners!Inductive'
  BY <1>2 DEF KeyOwners!Asks, KeyOwners!Reads
<1>3. ASSUME NEW c \in NameCalls, KeyOwners!Unread(c) \/ KeyOwners!Refused(c)
      PROVE  KeyOwners!Inductive'
  BY <1>3 DEF KeyOwners!Unread, KeyOwners!Refused, KeyOwners!LetsGo
<1>4. ASSUME NEW c \in NameCalls, KeyOwners!Creates(c)
      PROVE  KeyOwners!Inductive'
  BY <1>4 DEF KeyOwners!Creates, KeyOwners!LetsGo, KeyOwners!Making, KeyOwners!UnderNamespace
<1>5. ASSUME NEW c \in NameCalls, KeyOwners!Revokes(c)
      PROVE  KeyOwners!Inductive'
  BY <1>5 DEF KeyOwners!Revokes, KeyOwners!LetsGo, KeyOwners!Overlaps, KeyOwners!UnderNamespace
<1>6. ASSUME NEW c \in NameCalls, KeyOwners!SignsUp(c)
      PROVE  KeyOwners!Inductive'
  BY <1>6 DEF KeyOwners!SignsUp, KeyOwners!LetsGo, KeyOwners!Making, KeyOwners!UnderNamespace
<1>7. CASE KeyOwners!FileFails \/ UNCHANGED KeyOwners!vars
  BY <1>7 DEF KeyOwners!FileFails, KeyOwners!vars
<1> QED BY <1>1, <1>2, <1>3, <1>4, <1>5, <1>6, <1>7 DEF KeyOwners!Next

LEMMA KeysStart ==
  ASSUME KeyOwners!Init
  PROVE  KeyOwners!Inductive
BY KeyNamesAssumption
DEF KeyOwners!Init, KeyOwners!Inductive, KeyOwners!TypeOK, KeyOwners!OneInside, KeyOwners!Inside,
    KeyOwners!ToldStands, KeyOwners!ReadStands, KeyOwners!OneOwnerPerName

-----------------------------------------------------------------------------
(* Commands of a portal to a rig (NodeControl).                            *)

LEMMA ControlTypes ==
  ASSUME Control!TypeOK, [Control!Next]_(Control!vars)
  PROVE  Control!TypeOK'
<1> USE NodeControlAssumption
<1> USE DEF Control!TypeOK, Control!Open, Control!Final, Control!node, Control!host
<1>1. ASSUME NEW c \in PortalCommands,
             Control!AddCommand(c) \/ Control!ExpireCommands(c) \/ Control!ReportsResult(c)
      PROVE  Control!TypeOK'
  BY <1>1 DEF Control!AddCommand, Control!ExpireCommands, Control!ReportsResult, Control!Finished
<1>2. ASSUME NEW c \in PortalCommands, Control!PortalAway(c) \/ Control!Begins(c)
      PROVE  Control!TypeOK'
  BY <1>2 DEF Control!PortalAway, Control!vars, Control!Begins
<1>3. CASE Control!TakeCommands \/ Control!CarriesOut
  BY <1>3 DEF Control!TakeCommands, Control!Queued, Control!CarriesOut
<1>4. CASE Control!HandsOver \/ Control!ReportsCommand
  BY <1>4 DEF Control!HandsOver, Control!ReportsCommand, Control!Finished
<1>5. CASE Control!ScriptTakes \/ Control!ScriptActs
  BY <1>5 DEF Control!ScriptTakes, Control!ScriptActs
<1>6. CASE Control!ScriptTells
  BY <1>6 DEF Control!ScriptTells
<1>7. CASE Control!ScriptDies
  BY <1>7 DEF Control!ScriptDies
<1>8. CASE Control!RestartsNode \/ Control!NodeDies
  BY <1>8 DEF Control!RestartsNode, Control!NodeDies, Control!ForgetsNode
<1>9. CASE UNCHANGED Control!vars
  BY <1>9 DEF Control!vars
<1> QED
  BY <1>1, <1>2, <1>3, <1>4, <1>5, <1>6, <1>7, <1>8, <1>9 DEF Control!Next, Control!CommandStep

(* A command is in one place at a time, and is counted once it was carried out. *)
LEMMA ControlInductive ==
  ASSUME Control!Inductive, [Control!Next]_(Control!vars)
  PROVE  Control!Inductive'
<1> USE NodeControlAssumption
<1>0. Control!TypeOK'
  BY ControlTypes DEF Control!Inductive
<1> SUFFICES Control!OnePlace'
  BY <1>0 DEF Control!Inductive
<1> USE DEF Control!Inductive, Control!OnePlace, Control!TypeOK, Control!Open, Control!Final, Control!node,
            Control!host, Control!NotYet, Control!Waits, Control!InHand, Control!InFile,
            Control!InScript, Control!Told, Control!CarriedOutOnce
<1>1. ASSUME NEW c \in PortalCommands, Control!AddCommand(c) \/ Control!ExpireCommands(c)
      PROVE  Control!OnePlace'
  BY <1>1 DEF Control!AddCommand, Control!ExpireCommands
<1>2. ASSUME NEW c \in PortalCommands, Control!ReportsResult(c)
      PROVE  Control!OnePlace'
  BY <1>2 DEF Control!ReportsResult, Control!Finished
<1>3. ASSUME NEW c \in PortalCommands, Control!PortalAway(c)
      PROVE  Control!OnePlace'
  BY <1>3 DEF Control!PortalAway, Control!vars
<1>4. CASE Control!TakeCommands
  BY <1>4 DEF Control!TakeCommands, Control!Queued
<1>5. ASSUME NEW c \in PortalCommands, Control!Begins(c)
      PROVE  Control!OnePlace'
  BY <1>5 DEF Control!Begins
<1>6. CASE Control!CarriesOut
  BY <1>6 DEF Control!CarriesOut
<1>7. CASE Control!HandsOver
  BY <1>7 DEF Control!HandsOver
<1>8. CASE Control!ReportsCommand
  BY <1>8 DEF Control!ReportsCommand, Control!Finished
<1>9. CASE Control!ScriptTakes
  BY <1>9 DEF Control!ScriptTakes
<1>10. CASE Control!ScriptActs
  BY <1>10 DEF Control!ScriptActs
<1>11. CASE Control!ScriptTells
  BY <1>11 DEF Control!ScriptTells
<1>12. CASE Control!ScriptDies
  BY <1>12 DEF Control!ScriptDies
<1>13. CASE Control!RestartsNode \/ Control!NodeDies
  BY <1>13 DEF Control!RestartsNode, Control!NodeDies, Control!ForgetsNode
<1>14. CASE UNCHANGED Control!vars
  BY <1>14 DEF Control!vars
<1> QED
  BY <1>1, <1>2, <1>3, <1>4, <1>5, <1>6, <1>7, <1>8, <1>9, <1>10, <1>11, <1>12, <1>13, <1>14
  DEF Control!Next, Control!CommandStep

LEMMA ControlStarts ==
  ASSUME Control!Init
  PROVE  Control!Inductive
<1> USE NodeControlAssumption DEF Control!Init
<1>1. Control!TypeOK
  BY DEF Control!TypeOK, Control!Open, Control!Final
<1>2. Control!OnePlace
  BY DEF Control!OnePlace, Control!NotYet, Control!Waits, Control!InHand, Control!InFile,
     Control!InScript, Control!Told, Control!CarriedOutOnce
<1> QED BY <1>1, <1>2 DEF Control!Inductive

-----------------------------------------------------------------------------
(* Requests and their audit (Requests).                                    *)

(* What a handler answers is a status.                                     *)
LEMMA Answered ==
  ASSUME NEW r \in Tried
  PROVE  Api!Of(r).says \subseteq Nat
<1> DEFINE Statuses(t) == \A x \in DOMAIN t : t[x].says \subseteq Nat
<1>1. Statuses(Api!RigRoutes)
  BY DEF Api!RigRoutes, Api!Route, Api!Routine, Api!Call
<1>2. Statuses(Api!WorkerRoutes)
  BY DEF Api!WorkerRoutes, Api!Route, Api!Routine, Api!Call
<1>3. Statuses(Api!RunRoutes)
  BY DEF Api!RunRoutes, Api!Route, Api!Routine, Api!Call
<1>4. Statuses(Api!StoreRoutes)
  BY DEF Api!StoreRoutes, Api!Route, Api!Routine, Api!Call
<1>5. Statuses(Api!DeleteRoutes)
  BY DEF Api!DeleteRoutes, Api!Route, Api!Routine, Api!Call
<1>6. Statuses(Api!UnguardedRoutes)
  BY DEF Api!UnguardedRoutes, Api!Route, Api!Routine, Api!Call
<1>7. \A t \in Api!Tables : Statuses(t)
  BY <1>1, <1>2, <1>3, <1>4, <1>5, <1>6 DEF Api!Tables
<1>8. \E t \in Api!Tables : r \in DOMAIN t
  BY RouteAssumption
<1> QED BY <1>7, <1>8 DEF Api!Of

(* What the invariant says of one request, and of its rows in the audit.   *)
Sound(q, rows) ==
  /\ q.read <= v2
  /\ q.at # "none" /\ Api!InFile(q, v1) => q.granted
  /\ q.at # "none" /\ q.who \in Sessions => q.granted
  /\ q.at \in {"arrived", "reads", "known", "handler"} => q.route \in Tried
  /\ q.at = "reads" => q.who \in Keys
  /\ q.at = "known" /\ q.role # Nobody /\ Api!Allows(q.who, q.role, q.route) => q.granted \/ q.blind
  /\ q.at = "handler" => q.granted \/ q.blind
  /\ q.at \in {"none", "arrived", "reads", "known", "handler", "redeems"} => ~q.changed
  /\ q.at \notin {"sent", "done"} => rows = <<>>
  /\ q.at = "raised" => q.status = 500
  /\ q.changed => q.granted \/ q.blind
  /\ q.at \in {"sent", "done"} /\ q.changed /\ ~q.lost /\ ~Api!Quiet(q) =>
       rows = <<q.status>> \/ (rows = <<>> /\ ~Api!Recorded(q) /\ q.status = 500)
  /\ Len(rows) <= 1

AllSound == \A c \in Callers : Sound(v8[c], v9[c])

LEMMA SoundIsInductive ==
  Api!Inductive <=> Api!TypeOK /\ (v6 = v2 => v5 = v1) /\ AllSound
BY DEF Api!Inductive, Api!StampIsTrue, Api!KnownWas, Api!NotYet, Api!ChangesAnswered, AllSound, Sound

LEMMA SoundNext ==
  Api!Inductive' <=> Api!TypeOK' /\ (v6 = v2 => v5 = v1)' /\ AllSound'
BY DEF Api!Inductive, Api!StampIsTrue, Api!KnownWas, Api!NotYet, Api!ChangesAnswered, AllSound, Sound

(* A step of one request leaves the others as they are.                    *)
LEMMA OneRequest ==
  ASSUME Api!TypeOK, AllSound, NEW c \in Callers, NEW q \in Api!Requested, NEW rows \in Seq(Nat),
         v8' = [v8 EXCEPT ![c] = q], v9' = [v9 EXCEPT ![c] = rows], UNCHANGED <<v1, v2>>,
         Sound(q, rows)
  PROVE  /\ v8' \in [Callers -> Api!Requested] /\ v9' \in [Callers -> Seq(Nat)]
         /\ AllSound'
<1>1. v8 \in [Callers -> Api!Requested] /\ v9 \in [Callers -> Seq(Nat)]
  BY DEF Api!TypeOK
<1>2. v8'[c] = q /\ v9'[c] = rows
  BY <1>1
<1>3. \A d \in Callers \ {c} : v8'[d] = v8[d] /\ v9'[d] = v9[d]
  BY <1>1
<1>4. \A d \in Callers : Sound(v8'[d], v9'[d])
  BY <1>2, <1>3 DEF AllSound
<1>5. AllSound'
  BY <1>4 DEF AllSound, Sound, Api!InFile, Api!Allows, Api!Quiet, Api!Recorded, Api!Guarded
<1> QED BY <1>1, <1>5

(* The request c becomes q, with these rows, and nothing else changes of it all. *)
Becomes(c, q, rows) ==
  /\ v8' = [v8 EXCEPT ![c] = q] /\ v9' = [v9 EXCEPT ![c] = rows]
  /\ UNCHANGED <<v1, v2, v3, v4>>

LEMMA Kept ==
  ASSUME Api!Inductive, NEW c \in Callers, v9' = v9
  PROVE  v9[c] \in Seq(Nat) /\ v9' = [v9 EXCEPT ![c] = v9[c]]
BY DEF Api!Inductive, Api!TypeOK

LEMMA StepSound ==
  ASSUME Api!Inductive, NEW c \in Callers, NEW q \in Api!Requested, NEW rows \in Seq(Nat),
         Becomes(c, q, rows), Sound(q, rows), UNCHANGED <<v5, v6>>, v7' \in Callers \cup {Nobody}
  PROVE  Api!Inductive'
<1>0. Api!TypeOK /\ AllSound /\ (v6 = v2 => v5 = v1)
  BY SoundIsInductive
<1>1. v8' \in [Callers -> Api!Requested] /\ v9' \in [Callers -> Seq(Nat)] /\ AllSound'
  BY <1>0, OneRequest DEF Becomes
<1> QED BY <1>0, <1>1, SoundNext DEF Api!TypeOK, Becomes

LEMMA RequestOf ==
  ASSUME Api!Inductive, NEW c \in Callers
  PROVE  /\ v8[c] \in Api!Requested /\ v9[c] \in Seq(Nat) /\ Sound(v8[c], v9[c])
         /\ v2 \in Nat /\ v7 \in Callers \cup {Nobody}
         /\ v1 \in [Keys -> {"admin", "user", "node", Nobody}]
         /\ v5 \in [Keys -> {"admin", "user", "node", Nobody}]
         /\ v6 \in Nat
BY SoundIsInductive, RequestsAssumption DEF AllSound, Api!TypeOK

LEMMA Arrival ==
  ASSUME Api!Inductive, NEW c \in Callers, NEW who \in Keys \cup Sessions, NEW r \in Tried,
         Api!Arrives(c, who, r)
  PROVE  Api!Inductive'
<1>1. PICK json \in BOOLEAN :
        LET q == [Api!Request EXCEPT !.who = who, !.route = r, !.json = json, !.at = "arrived"]
        IN  v8' = [v8 EXCEPT ![c] = [q EXCEPT !.granted = who \in Sessions \/ Api!InFile(q, v1)]]
  BY DEF Api!Arrives
<1> DEFINE q0 == [Api!Request EXCEPT !.who = who, !.route = r, !.json = json, !.at = "arrived"]
           g == who \in Sessions \/ Api!InFile(q0, v1)
           q == [q0 EXCEPT !.granted = g]
<1>2. q0 \in Api!Requested /\ q0.who = who /\ q0.route = r /\ q0.at = "arrived"
      /\ q0.read = 0 /\ q0.changed = FALSE
  BY DEF Api!Request, Api!Requested, Api!Reload
<1> HIDE DEF q0
<1>3. g \in BOOLEAN
  BY DEF Api!InFile
<1> HIDE DEF g
<1>4. q \in Api!Requested /\ q.who = who /\ q.route = r /\ q.at = "arrived"
      /\ q.read = 0 /\ q.changed = FALSE /\ q.granted = g
  BY <1>2, <1>3 DEF Api!Requested
<1>5. v8' = [v8 EXCEPT ![c] = q]
  BY <1>1 DEF q0, g
<1> HIDE DEF q
<1>6. v9[c] = <<>> /\ v9' = v9 /\ UNCHANGED <<v1, v2, v3, v4, v5, v6, v7>>
  BY RequestOf DEF Api!Arrives, Api!keyfile, Api!memory, Sound
<1>7. Api!InFile(q, v1) => g
  BY <1>2, <1>4 DEF g, Api!InFile
<1>8. Sound(q, v9[c])
  <2>1. who \in Sessions => g
    BY DEF g
  <2> QED BY <1>4, <1>6, <1>7, <2>1, RequestOf DEF Sound
<1> QED BY <1>4, <1>5, <1>6, <1>8, RequestOf, Kept, StepSound DEF Becomes

LEMMA Look ==
  ASSUME Api!Inductive, NEW c \in Callers, Api!Looks(c)
  PROVE  Api!Inductive'
<1> DEFINE known == [v8[c] EXCEPT !.at = "known", !.role = v5[v8[c].who], !.blind = ~v3]
           reads == [v8[c] EXCEPT !.at = "reads", !.read = v2]
<1>0. Api!TypeOK /\ (v6 = v2 => v5 = v1)
  BY SoundIsInductive
<1>1. /\ v8[c].at = "arrived" /\ v8[c].who \in Keys /\ v9' = v9
      /\ UNCHANGED <<v1, v2, v3, v4, v5, v6>>
  BY DEF Api!Looks, Api!keyfile, Api!memory
<1>2. CASE ~v3 \/ v2 = v6
  <2>1. v8' = [v8 EXCEPT ![c] = known] /\ v7' = v7
    BY <1>2 DEF Api!Looks
  <2>2. v5[v8[c].who] \in {"admin", "user", "node", Nobody}
    BY <1>1, RequestOf
  <2>3. /\ known \in Api!Requested /\ known.who = v8[c].who /\ known.route = v8[c].route
        /\ known.at = "known" /\ known.read = v8[c].read /\ known.changed = v8[c].changed
        /\ known.granted = v8[c].granted /\ known.role = v5[v8[c].who] /\ known.blind = ~v3
    BY <2>2, RequestOf DEF Api!Requested
  <2> HIDE DEF known
  <2>4. Api!Allows(known.who, known.role, known.route) => known.granted \/ known.blind
    BY <1>0, <1>1, <1>2, <2>3, RequestOf DEF Sound, Api!InFile
  <2>5. Sound(known, v9[c])
    BY <1>1, <2>3, <2>4, RequestOf DEF Sound, Api!InFile
  <2> QED BY <1>1, <2>1, <2>3, <2>5, RequestOf, Kept, StepSound DEF Becomes
<1>3. CASE ~(~v3 \/ v2 = v6)
  <2>1. v8' = [v8 EXCEPT ![c] = reads] /\ v7' = c
    BY <1>3 DEF Api!Looks
  <2>3. /\ reads \in Api!Requested /\ reads.who = v8[c].who /\ reads.route = v8[c].route
        /\ reads.at = "reads" /\ reads.read = v2 /\ reads.changed = v8[c].changed
        /\ reads.granted = v8[c].granted
    BY RequestOf DEF Api!Requested
  <2> HIDE DEF reads
  <2>5. Sound(reads, v9[c])
    BY <1>1, <2>3, RequestOf DEF Sound, Api!InFile
  <2> QED BY <1>1, <2>1, <2>3, <2>5, RequestOf, Kept, StepSound DEF Becomes
<1> QED BY <1>2, <1>3

LEMMA Reading ==
  ASSUME Api!Inductive, NEW c \in Callers, Api!Reads(c)
  PROVE  Api!Inductive'
<1> DEFINE q == [v8[c] EXCEPT !.at = "known", !.read = 0, !.role = v5'[v8[c].who]]
<1>0. Api!TypeOK /\ AllSound /\ (v6 = v2 => v5 = v1)
  BY SoundIsInductive
<1>1. /\ v8[c].at = "reads" /\ v8[c].who \in Keys /\ v9' = v9 /\ v7' = Nobody
      /\ UNCHANGED <<v1, v2, v3, v4>>
  BY RequestOf DEF Api!Reads, Api!keyfile, Sound
<1>2. /\ v5' \in [Keys -> {"admin", "user", "node", Nobody}]
      /\ v6' \in 0 .. v2 /\ (v6' = v2 => v5' = v1)
      /\ v5'[v8[c].who] = v1[v8[c].who] \/ v5'[v8[c].who] = Nobody
  <2>1. CASE v4
    BY <1>1, <2>1, RequestOf DEF Api!Reads, Sound, Api!Requested
  <2>2. CASE ~v4
    <3>1. v2 # 0
      BY <1>0, RequestsAssumption DEF Api!TypeOK
    <3> QED BY <1>1, <2>2, <3>1, RequestOf DEF Api!Reads, Api!Reload
  <2> QED BY <2>1, <2>2
<1>3. v8' = [v8 EXCEPT ![c] = q]
  BY DEF Api!Reads, Api!Reload
<1>4. /\ q \in Api!Requested /\ q.who = v8[c].who /\ q.route = v8[c].route
      /\ q.at = "known" /\ q.read = 0 /\ q.changed = v8[c].changed
      /\ q.granted = v8[c].granted /\ q.role = v5'[v8[c].who] /\ q.blind = v8[c].blind
  BY <1>1, <1>2, RequestOf DEF Api!Requested
<1> HIDE DEF q
<1>5. q.role # Nobody /\ Api!Allows(q.who, q.role, q.route) => q.granted
  BY <1>1, <1>2, <1>4, RequestOf DEF Sound, Api!InFile
<1>6. Sound(q, v9[c])
  BY <1>1, <1>4, <1>5, RequestOf DEF Sound, Api!InFile
<1>7. v8' \in [Callers -> Api!Requested] /\ v9' \in [Callers -> Seq(Nat)] /\ AllSound'
  BY <1>0, <1>1, <1>3, <1>4, <1>6, RequestOf, Kept, OneRequest
<1> QED BY <1>0, <1>1, <1>2, <1>7, SoundNext DEF Api!TypeOK

LEMMA SessionKnown ==
  ASSUME Api!Inductive, NEW c \in Callers, Api!AsksSession(c)
  PROVE  Api!Inductive'
<1> DEFINE q == [v8[c] EXCEPT !.at = "known", !.role = RoleOf[v8[c].who]]
<1>1. /\ v8[c].at = "arrived" /\ v8[c].who \in Sessions /\ v9' = v9
      /\ UNCHANGED <<v1, v2, v3, v4, v5, v6, v7>> /\ v8' = [v8 EXCEPT ![c] = q]
  BY DEF Api!AsksSession, Api!keyfile, Api!memory
<1>2. /\ q \in Api!Requested /\ q.who = v8[c].who /\ q.route = v8[c].route
      /\ q.at = "known" /\ q.read = v8[c].read /\ q.changed = v8[c].changed
      /\ q.granted = v8[c].granted
  <2>1. RoleOf[v8[c].who] \in {"admin", "user", "guest"}
    BY <1>1, RequestsAssumption
  <2> QED BY <2>1, RequestOf DEF Api!Requested
<1> HIDE DEF q
<1>3. Sound(q, v9[c])
  BY <1>1, <1>2, RequestOf DEF Sound, Api!InFile
<1> QED BY <1>1, <1>2, <1>3, RequestOf, Kept, StepSound DEF Becomes

LEMMA Checked ==
  ASSUME Api!Inductive, NEW c \in Callers, Api!Checks(c)
  PROVE  Api!Inductive'
<1>1. /\ v8[c].at = "known" /\ v9' = v9 /\ UNCHANGED <<v1, v2, v3, v4, v5, v6, v7>>
  BY DEF Api!Checks, Api!keyfile, Api!memory
<1>2. PICK q \in Api!Requested :
        /\ v8' = [v8 EXCEPT ![c] = q]
        /\ \/ q.at \in {"answer", "done"}
           \/ q.at = "handler" /\ (v8[c].granted \/ v8[c].blind)
        /\ q.who = v8[c].who /\ q.route = v8[c].route /\ q.read = v8[c].read
        /\ q.changed = v8[c].changed /\ q.granted = v8[c].granted /\ q.blind = v8[c].blind
  <2> DEFINE refused(at, s) == [v8[c] EXCEPT !.at = at, !.status = s]
             passed == [v8[c] EXCEPT !.at = "handler"]
  <2>1. ASSUME NEW at \in {"answer", "done"}, NEW s \in Nat
        PROVE  /\ refused(at, s) \in Api!Requested /\ refused(at, s).at = at
               /\ refused(at, s).who = v8[c].who /\ refused(at, s).route = v8[c].route
               /\ refused(at, s).read = v8[c].read /\ refused(at, s).changed = v8[c].changed
               /\ refused(at, s).granted = v8[c].granted /\ refused(at, s).blind = v8[c].blind
    BY RequestOf DEF Api!Requested
  <2>2. /\ passed \in Api!Requested /\ passed.at = "handler"
        /\ passed.who = v8[c].who /\ passed.route = v8[c].route
        /\ passed.read = v8[c].read /\ passed.changed = v8[c].changed
        /\ passed.granted = v8[c].granted /\ passed.blind = v8[c].blind
    BY RequestOf DEF Api!Requested
  <2>3. \/ \E at \in {"answer", "done"}, s \in {401, 403} : v8' = [v8 EXCEPT ![c] = refused(at, s)]
        \/ /\ v8' = [v8 EXCEPT ![c] = passed] /\ v8[c].role # Nobody
           /\ Api!Allows(v8[c].who, v8[c].role, v8[c].route)
    <3>1. CASE v8[c].role = Nobody
      <4>1. v8' = [v8 EXCEPT ![c] = refused("done", 401)]
        BY <3>1 DEF Api!Checks
      <4> HIDE DEF refused
      <4> QED BY <4>1
    <3>2. CASE v8[c].role # Nobody /\ v8[c].who \in Sessions /\ ~v8[c].json
      <4>1. v8' = [v8 EXCEPT ![c] = refused("done", 403)]
        BY <3>2 DEF Api!Checks
      <4> HIDE DEF refused
      <4> QED BY <4>1
    <3>3. CASE /\ v8[c].role # Nobody /\ ~(v8[c].who \in Sessions /\ ~v8[c].json)
               /\ Api!Allows(v8[c].who, v8[c].role, v8[c].route)
      BY <3>3 DEF Api!Checks
    <3>4. CASE /\ v8[c].role # Nobody /\ ~(v8[c].who \in Sessions /\ ~v8[c].json)
               /\ ~Api!Allows(v8[c].who, v8[c].role, v8[c].route)
      <4>1. CASE Api!Guarded(v8[c].route)
        <5>1. v8' = [v8 EXCEPT ![c] = refused("answer", 403)]
          BY <3>4, <4>1 DEF Api!Checks
        <5> HIDE DEF refused
        <5> QED BY <5>1
      <4>2. CASE ~Api!Guarded(v8[c].route)
        <5>1. v8' = [v8 EXCEPT ![c] = refused("done", 403)]
          BY <3>4, <4>2 DEF Api!Checks
        <5> HIDE DEF refused
        <5> QED BY <5>1
      <4> QED BY <4>1, <4>2
    <3> QED BY <3>1, <3>2, <3>3, <3>4
  <2> HIDE DEF refused, passed
  <2>4. ASSUME NEW at \in {"answer", "done"}, NEW s \in {401, 403}, v8' = [v8 EXCEPT ![c] = refused(at, s)]
        PROVE  \E q \in Api!Requested :
        /\ v8' = [v8 EXCEPT ![c] = q]
        /\ \/ q.at \in {"answer", "done"}
           \/ q.at = "handler" /\ (v8[c].granted \/ v8[c].blind)
        /\ q.who = v8[c].who /\ q.route = v8[c].route /\ q.read = v8[c].read
        /\ q.changed = v8[c].changed /\ q.granted = v8[c].granted /\ q.blind = v8[c].blind
    <3>1. s \in Nat
      OBVIOUS
    <3> DEFINE p == refused(at, s)
    <3>2. /\ p \in Api!Requested /\ p.at = at /\ p.who = v8[c].who /\ p.route = v8[c].route
          /\ p.read = v8[c].read /\ p.changed = v8[c].changed /\ p.granted = v8[c].granted
          /\ p.blind = v8[c].blind
      BY <2>1, <3>1
    <3>3. v8' = [v8 EXCEPT ![c] = p]
      BY <2>4
    <3> HIDE DEF p
    <3> QED BY <3>2, <3>3
  <2>5. (v8[c].role # Nobody /\ Api!Allows(v8[c].who, v8[c].role, v8[c].route))
           => v8[c].granted \/ v8[c].blind
    BY <1>1, RequestOf DEF Sound
  <2> QED BY <2>2, <2>3, <2>4, <2>5
<1>3. Sound(q, v9[c])
  BY <1>1, <1>2, RequestOf DEF Sound, Api!InFile
<1> QED BY <1>1, <1>2, <1>3, RequestOf, Kept, StepSound DEF Becomes

(* A request that the handler has answered, or in which it raised. *)
LEMMA HandledAs ==
  ASSUME Api!Inductive, NEW c \in Callers, NEW q \in Api!Requested, v8[c].at = "handler",
         q.at = "answer" \/ (q.at = "raised" /\ q.status = 500),
         q.who = v8[c].who, q.route = v8[c].route, q.read = v8[c].read,
         q.granted = v8[c].granted, q.blind = v8[c].blind,
         v8' = [v8 EXCEPT ![c] = q], UNCHANGED <<v1, v2, v3, v4, v5, v6, v7, v9>>
  PROVE  Api!Inductive'
<1>1. Sound(q, v9[c])
  BY RequestOf DEF Sound, Api!InFile
<1>2. Becomes(c, q, v9[c]) /\ v9[c] \in Seq(Nat) /\ v7' \in Callers \cup {Nobody}
  BY Kept, RequestOf DEF Becomes
<1> QED BY <1>1, <1>2, StepSound

LEMMA Handled ==
  ASSUME Api!Inductive, NEW c \in Callers, Api!Handles(c)
  PROVE  Api!Inductive'
<1>1. v8[c].at = "handler" /\ UNCHANGED <<v1, v2, v3, v4, v5, v6, v7, v9>>
  BY DEF Api!Handles, Api!keyfile, Api!memory
<1>0. v8[c] \in Api!Requested
  BY RequestOf
<1>2. v8[c].route \in Tried
  BY <1>1, RequestOf DEF Sound
<1>3. CASE \E s \in Api!Of(v8[c].route).says, changed \in BOOLEAN :
             v8' = [v8 EXCEPT ![c] = [@ EXCEPT !.at = "answer", !.status = s, !.changed = changed]]
  <2>0. PICK s \in Api!Of(v8[c].route).says, changed \in BOOLEAN :
          v8' = [v8 EXCEPT ![c] = [@ EXCEPT !.at = "answer", !.status = s, !.changed = changed]]
    BY <1>3
  <2> DEFINE q == [v8[c] EXCEPT !.at = "answer", !.status = s, !.changed = changed]
  <2>1. s \in Nat
    BY <1>2, Answered
  <2>2. q \in Api!Requested
    BY <1>0, <2>1 DEF Api!Requested
  <2>3. /\ q.at = "answer" /\ q.who = v8[c].who /\ q.route = v8[c].route /\ q.read = v8[c].read
        /\ q.granted = v8[c].granted /\ q.blind = v8[c].blind
    BY <1>0 DEF Api!Requested
  <2>4. v8' = [v8 EXCEPT ![c] = q]
    BY <2>0
  <2> HIDE DEF q
  <2> QED BY <1>1, <2>2, <2>3, <2>4, HandledAs
<1>4. CASE \E changed \in BOOLEAN :
             v8' = [v8 EXCEPT ![c] = [@ EXCEPT !.at = "raised", !.status = 500, !.changed = changed]]
  <2>0. PICK changed \in BOOLEAN :
          v8' = [v8 EXCEPT ![c] = [@ EXCEPT !.at = "raised", !.status = 500, !.changed = changed]]
    BY <1>4
  <2> DEFINE s == 500
             q == [v8[c] EXCEPT !.at = "raised", !.status = s, !.changed = changed]
  <2>1. s \in Nat
    OBVIOUS
  <2>4. v8' = [v8 EXCEPT ![c] = q]
    BY <2>0
  <2> HIDE DEF s
  <2>2. q \in Api!Requested
    BY <1>0, <2>1 DEF Api!Requested
  <2>3. /\ q.at = "raised" /\ q.who = v8[c].who /\ q.route = v8[c].route /\ q.read = v8[c].read
        /\ q.granted = v8[c].granted /\ q.blind = v8[c].blind /\ q.status = 500
    BY <1>0 DEF Api!Requested, s
  <2> HIDE DEF q
  <2> QED BY <1>1, <2>2, <2>3, <2>4, HandledAs
<1>5. \/ \E s \in Api!Of(v8[c].route).says, changed \in BOOLEAN :
           v8' = [v8 EXCEPT ![c] = [@ EXCEPT !.at = "answer", !.status = s, !.changed = changed]]
      \/ \E changed \in BOOLEAN :
           v8' = [v8 EXCEPT ![c] = [@ EXCEPT !.at = "raised", !.status = 500, !.changed = changed]]
  BY ZenonT(60) DEF Api!Handles
<1> QED BY <1>3, <1>4, <1>5

(* The rows of a request that was answered, or raised. *)
LEMMA Recorded ==
  ASSUME Api!Inductive, NEW c \in Callers, NEW next \in {"sent", "done"}, Api!Records(c, next),
         v8[c].at \in {"answer", "raised"}, UNCHANGED <<v1, v2, v3, v4, v5, v6, v7>>
  PROVE  Api!Inductive'
<1>1. v9[c] = <<>> /\ v8[c].status \in Nat
  BY RequestOf DEF Sound, Api!Requested
<1>2. CASE /\ v9' = IF Api!Quiet(v8[c]) THEN v9 ELSE [v9 EXCEPT ![c] = Append(@, v8[c].status)]
           /\ v8' = [v8 EXCEPT ![c].at = next]
  <2> DEFINE q == [v8[c] EXCEPT !.at = next]
             rows == IF Api!Quiet(v8[c]) THEN <<>> ELSE <<v8[c].status>>
  <2>1. v8' = [v8 EXCEPT ![c] = q] /\ v9' = [v9 EXCEPT ![c] = rows] /\ rows \in Seq(Nat)
    <3>1. v8' = [v8 EXCEPT ![c] = q]
      BY <1>2
    <3>2. CASE Api!Quiet(v8[c])
      BY <1>1, <1>2, <3>1, <3>2, RequestOf, Kept
    <3>3. CASE ~Api!Quiet(v8[c])
      <4>1. Append(<<>>, v8[c].status) = <<v8[c].status>>
        OBVIOUS
      <4>2. v9' = [v9 EXCEPT ![c] = rows]
        BY <1>1, <1>2, <3>3, <4>1
      <4> QED BY <1>1, <3>1, <3>3, <4>2
    <3> QED BY <3>2, <3>3
  <2>2. /\ q \in Api!Requested /\ q.who = v8[c].who /\ q.route = v8[c].route /\ q.role = v8[c].role
        /\ q.at = next /\ q.read = v8[c].read /\ q.changed = v8[c].changed
        /\ q.status = v8[c].status /\ q.granted = v8[c].granted /\ q.blind = v8[c].blind
    BY RequestOf DEF Api!Requested
  <2> HIDE DEF q
  <2>3. Api!Quiet(q) <=> Api!Quiet(v8[c])
    BY <2>2 DEF Api!Quiet
  <2>4. Len(rows) <= 1
    OBVIOUS
  <2>5. Sound(q, rows)
    BY <2>2, <2>3, <2>4, RequestOf DEF Sound, Api!InFile
  <2> HIDE DEF rows
  <2> QED BY <2>1, <2>2, <2>5, RequestOf, StepSound DEF Becomes
<1>3. CASE v9' = v9 /\ v8' = [v8 EXCEPT ![c].at = next, ![c].lost = TRUE]
  <2> DEFINE q == [v8[c] EXCEPT !.at = next, !.lost = TRUE]
  <2>1. v8' = [v8 EXCEPT ![c] = q]
    BY <1>3
  <2>2. /\ q \in Api!Requested /\ q.who = v8[c].who /\ q.route = v8[c].route /\ q.lost = TRUE
        /\ q.at = next /\ q.read = v8[c].read /\ q.changed = v8[c].changed
        /\ q.status = v8[c].status /\ q.granted = v8[c].granted /\ q.blind = v8[c].blind
    BY RequestOf DEF Api!Requested
  <2> HIDE DEF q
  <2>3. Sound(q, v9[c])
    BY <2>2, RequestOf DEF Sound, Api!InFile
  <2> QED BY <1>3, <2>1, <2>2, <2>3, RequestOf, Kept, StepSound DEF Becomes
<1> QED BY <1>2, <1>3 DEF Api!Records

LEMMA Finished ==
  ASSUME Api!Inductive, NEW c \in Callers, v8' = [v8 EXCEPT ![c].at = "done"], v9' = v9,
         v8[c].at = "sent" \/ (v8[c].at = "raised" /\ ~Api!Recorded(v8[c])),
         UNCHANGED <<v1, v2, v3, v4, v5, v6, v7>>
  PROVE  Api!Inductive'
<1> DEFINE q == [v8[c] EXCEPT !.at = "done"]
<1>2. /\ q \in Api!Requested /\ q.who = v8[c].who /\ q.route = v8[c].route /\ q.role = v8[c].role
      /\ q.at = "done" /\ q.read = v8[c].read /\ q.changed = v8[c].changed /\ q.lost = v8[c].lost
      /\ q.status = v8[c].status /\ q.granted = v8[c].granted /\ q.blind = v8[c].blind
  BY RequestOf DEF Api!Requested
<1>3. v8' = [v8 EXCEPT ![c] = q]
  OBVIOUS
<1> HIDE DEF q
<1>4. Sound(q, v9[c])
  BY <1>2, RequestOf DEF Sound, Api!InFile, Api!Quiet, Api!Recorded
<1> QED BY <1>2, <1>3, <1>4, RequestOf, Kept, StepSound DEF Becomes

(* A request for enrolment that was turned away, or goes on to its token. *)
LEMMA TurnedAway ==
  ASSUME Api!Inductive, NEW c \in Callers, NEW q \in Api!Requested, v8[c].at = "none",
         q.at \in {"answer", "redeems"}, q.who = Nobody, q.read = 0, q.changed = FALSE,
         v8' = [v8 EXCEPT ![c] = q], UNCHANGED <<v1, v2, v3, v4, v5, v6, v7, v9>>
  PROVE  Api!Inductive'
<1>1. v9[c] = <<>> /\ Nobody \notin Keys /\ Nobody \notin Sessions
  BY RequestOf, RequestsAssumption DEF Sound
<1>2. Sound(q, v9[c])
  BY <1>1, RequestOf DEF Sound, Api!InFile
<1> QED BY <1>2, RequestOf, Kept, StepSound DEF Becomes

LEMMA Enrolment ==
  ASSUME Api!Inductive, NEW c \in Callers, Api!Enrols(c)
  PROVE  Api!Inductive'
<1> DEFINE q0 == [Api!Request EXCEPT !.route = "result", !.role = "enroll"]
           s == 429
           q1 == [q0 EXCEPT !.at = "answer", !.status = s]
           q2 == [q0 EXCEPT !.at = "redeems"]
<1>0. s \in Nat
  OBVIOUS
<1>1. /\ v8[c].at = "none" /\ UNCHANGED <<v1, v2, v3, v4, v5, v6, v7, v9>>
      /\ v8' = [v8 EXCEPT ![c] = q1] \/ v8' = [v8 EXCEPT ![c] = q2]
  BY DEF Api!Enrols, Api!keyfile, Api!memory
<1>2. q0 \in Api!Requested /\ q0.who = Nobody /\ q0.read = 0 /\ q0.changed = FALSE
  BY DEF Api!Requested, Api!Request, Api!Reload
<1> HIDE DEF q0, s
<1>3. q1 \in Api!Requested
  BY <1>0, <1>2 DEF Api!Requested
<1>4. q1.at = "answer" /\ q1.who = Nobody /\ q1.read = 0 /\ q1.changed = FALSE
  BY <1>2 DEF Api!Requested
<1>5. q2 \in Api!Requested
  BY <1>2 DEF Api!Requested
<1>6. q2.at = "redeems" /\ q2.who = Nobody /\ q2.read = 0 /\ q2.changed = FALSE
  BY <1>2 DEF Api!Requested
<1> HIDE DEF q1, q2
<1>7. CASE v8' = [v8 EXCEPT ![c] = q1]
  BY <1>1, <1>3, <1>4, <1>7, TurnedAway
<1>8. CASE v8' = [v8 EXCEPT ![c] = q2]
  BY <1>1, <1>5, <1>6, <1>8, TurnedAway
<1> QED BY <1>1, <1>7, <1>8

LEMMA Redemption ==
  ASSUME Api!Inductive, NEW c \in Callers, Api!Redeems(c)
  PROVE  Api!Inductive'
<1>0. v8[c] \in Api!Requested
  BY RequestOf
<1>1. v8[c].at = "redeems" /\ UNCHANGED <<v1, v2, v3, v4, v5, v6, v7, v9>>
  BY DEF Api!Redeems, Api!keyfile, Api!memory
<1>2. PICK s \in {200, 400, 403, 409, 500}, changed \in BOOLEAN :
        v8' = [v8 EXCEPT ![c] = [@ EXCEPT !.at = IF s = 500 THEN "raised" ELSE "answer",
                                          !.status = s, !.changed = changed, !.granted = TRUE]]
  <2> DEFINE Says(s, changed) ==
               v8' = [v8 EXCEPT ![c] = [@ EXCEPT !.at = IF s = 500 THEN "raised" ELSE "answer",
                                                 !.status = s, !.changed = changed, !.granted = TRUE]]
  <2>1. \E s \in {200, 400, 403, 409, 500}, changed \in BOOLEAN :
          /\ s # 500 => (changed <=> s = 200)
          /\ Says(s, changed)
          /\ v10' = IF s \in {400, 403} THEN v10 + 1 ELSE v10
    BY ZenonT(60) DEF Api!Redeems
  <2>2. \E s \in {200, 400, 403, 409, 500}, changed \in BOOLEAN : Says(s, changed)
    <3> HIDE DEF Says
    <3> QED BY <2>1
  <2> QED BY <2>2, Zenon
<1> DEFINE at == IF s = 500 THEN "raised" ELSE "answer"
           p == [v8[c] EXCEPT !.at = at, !.status = s, !.changed = changed]
           q == [p EXCEPT !.granted = TRUE]
<1>3. s \in Nat /\ at \in {"raised", "answer"} /\ (at = "raised" => s = 500)
  OBVIOUS
<1>4. v8' = [v8 EXCEPT ![c] = q]
  BY <1>2
<1> HIDE DEF at
<1>5. p \in Api!Requested
  BY <1>0, <1>3 DEF Api!Requested
<1>6. p.at = at /\ p.read = v8[c].read /\ p.status = s
  BY <1>0 DEF Api!Requested
<1> HIDE DEF p
<1>7. q \in Api!Requested
  BY <1>5 DEF Api!Requested
<1>8. q.at = at /\ q.read = v8[c].read /\ q.status = s /\ q.granted = TRUE
  BY <1>5, <1>6 DEF Api!Requested
<1> HIDE DEF q
<1>9. Sound(q, v9[c])
  BY <1>1, <1>3, <1>8, RequestOf DEF Sound
<1>10. Becomes(c, q, v9[c]) /\ v9[c] \in Seq(Nat) /\ v7' \in Callers \cup {Nobody}
  BY <1>1, <1>4, Kept, RequestOf DEF Becomes
<1> QED BY <1>1, <1>7, <1>9, <1>10, StepSound

LEMMA KeysWritten ==
  ASSUME Api!Inductive, NEW k \in Keys, Api!Written(k)
  PROVE  Api!Inductive'
<1>0. Api!TypeOK /\ AllSound /\ (v6 = v2 => v5 = v1)
  BY SoundIsInductive
<1>1. PICK role \in {"admin", "user", Nobody} : v1' = [v1 EXCEPT ![k] = role]
  BY DEF Api!Written
<1>2. /\ v2 <= MaxWrites /\ v2' = v2 + 1 /\ UNCHANGED <<v3, v4, v5, v6, v7, v9>>
      /\ v8' = [c \in Callers |-> [v8[c] EXCEPT !.granted =
                  @ \/ (v8[c].at # "none" /\ Api!InFile(v8[c], v1'))]]
  BY DEF Api!Written, Api!memory
<1>3. v1' \in [Keys -> {"admin", "user", "node", Nobody}] /\ v2' \in 1 .. MaxWrites + 1
      /\ v6 # v2' /\ v6 \in 0 .. v2'
  BY <1>0, <1>1, <1>2, RequestsAssumption DEF Api!TypeOK
<1>4. ASSUME NEW c \in Callers
      PROVE  v8'[c] \in Api!Requested /\ Sound(v8[c], v9[c])'
  <2> DEFINE g == v8[c].granted \/ (v8[c].at # "none" /\ Api!InFile(v8[c], v1'))
             q == [v8[c] EXCEPT !.granted = g]
  <2>1. v8'[c] = q
    BY <1>2
  <2>2. g \in BOOLEAN
    BY RequestOf DEF Api!Requested, Api!InFile
  <2>3. (v8[c].granted => g) /\ (v8[c].at # "none" /\ Api!InFile(v8[c], v1') => g)
    OBVIOUS
  <2> HIDE DEF g
  <2>4. v8[c] \in Api!Requested
    BY RequestOf
  <2>5. q \in Api!Requested
    BY <2>2, <2>4 DEF Api!Requested
  <2>6. /\ q.granted = g /\ q.at = v8[c].at /\ q.who = v8[c].who /\ q.route = v8[c].route
        /\ q.role = v8[c].role /\ q.read = v8[c].read /\ q.status = v8[c].status
        /\ q.changed = v8[c].changed /\ q.lost = v8[c].lost /\ q.blind = v8[c].blind
    BY <2>2, <2>4 DEF Api!Requested
  <2> HIDE DEF q
  <2>7. v2 \in Nat /\ v8[c].read \in Nat /\ q.read <= v2'
    BY <1>2, <2>4, <2>6, RequestOf DEF Sound, Api!Requested
  <2>8. Sound(v8[c], v9[c])'
    BY <1>2, <2>1, <2>3, <2>6, <2>7, RequestOf DEF Sound, Api!InFile, Api!Quiet, Api!Recorded
  <2> QED BY <2>1, <2>5, <2>8
<1>5. v8' \in [Callers -> Api!Requested] /\ AllSound'
  BY <1>2, <1>4 DEF AllSound
<1> QED BY <1>0, <1>2, <1>3, <1>5, SoundNext DEF Api!TypeOK

LEMMA RequestsInductive ==
  ASSUME Api!Inductive, [Api!Next]_(Api!vars)
  PROVE  Api!Inductive'
<1>1. CASE UNCHANGED <<v1, v2, v5, v6, v7, v8, v9>>
  BY <1>1, SoundIsInductive, SoundNext DEF Api!TypeOK, AllSound, Sound, Api!InFile, Api!Allows,
     Api!Quiet, Api!Recorded, Api!Guarded
<1>2. CASE Api!OutOfReach
  BY <1>1, <1>2 DEF Api!OutOfReach, Api!memory
<1>3. ASSUME NEW c \in Callers, Api!Answers(c)
      PROVE  Api!Inductive'
  <2>1. v8[c].at = "answer" /\ Api!Records(c, "sent") /\ UNCHANGED <<v1, v2, v3, v4, v5, v6, v7>>
    BY <1>3 DEF Api!Answers, Api!keyfile, Api!memory
  <2> QED BY <2>1, Recorded
<1>4. ASSUME NEW c \in Callers, Api!Sends(c)
      PROVE  Api!Inductive'
  BY <1>4, Finished DEF Api!Sends, Api!keyfile, Api!memory
<1>5. ASSUME NEW c \in Callers, Api!Raised(c)
      PROVE  Api!Inductive'
  <2>1. v8[c].at = "raised" /\ UNCHANGED <<v1, v2, v3, v4, v5, v6, v7>>
    BY <1>5 DEF Api!Raised, Api!keyfile, Api!memory
  <2>2. CASE Api!Recorded(v8[c])
    BY <1>5, <2>1, <2>2, Recorded DEF Api!Raised
  <2>3. CASE ~Api!Recorded(v8[c])
    BY <1>5, <2>1, <2>3, Finished DEF Api!Raised
  <2> QED BY <2>2, <2>3
<1>6. CASE UNCHANGED Api!vars
  BY <1>1, <1>6 DEF Api!vars
<1> QED BY <1>2, <1>3, <1>4, <1>5, <1>6, Arrival, Look, Reading, SessionKnown, Checked, Handled,
           Enrolment, Redemption, KeysWritten
        DEF Api!Next

LEMMA RequestsStart ==
  ASSUME Api!Init
  PROVE  Api!Inductive
<1>1. Api!Request \in Api!Requested
  BY DEF Api!Request, Api!Requested, Api!Reload
<1>2. /\ Api!Request.at = "none" /\ Api!Request.read = 0 /\ Api!Request.changed = FALSE
  BY DEF Api!Request, Api!Reload
<1>3. Api!TypeOK
  BY <1>1, RequestsAssumption DEF Api!Init, Api!TypeOK, Api!Reload
<1>4. v6 # v2
  BY DEF Api!Init, Api!Reload
<1>5. \A c \in Callers : v8[c] = Api!Request /\ v9[c] = <<>> /\ v2 = 1
  BY DEF Api!Init
<1>6. AllSound
  BY <1>2, <1>5 DEF AllSound, Sound
<1> QED BY <1>3, <1>4, <1>6, SoundIsInductive

-----------------------------------------------------------------------------
(* The day's messages (MessageBudget).                                     *)

(* The part counts as the library does. *)
LEMMA CountsAlike ==
  ASSUME NEW S
  PROVE  Allowance!Cardinality(S) = Cardinality(S)
BY DEF Allowance!Cardinality, Cardinality

Card(d) == Allowance!Cardinality(Allowance!Granted(d))

(* One taker moves: what is granted of a day changes by it alone.          *)
LEMMA TakerMoves ==
  ASSUME Allowance!TypeOK, NEW p \in Takers, NEW t \in Allowance!Places,
         v5' = [v5 EXCEPT ![p] = t], NEW d \in Days
  PROVE  /\ v5' \in [Takers -> Allowance!Places] /\ v5'[p] = t
         /\ \A q \in Takers \ {p} : v5'[q] = v5[q]
         /\ Card(d) \in Nat /\ Card(d)' \in Nat
         /\ (Allowance!Holds(t, d) <=> Allowance!Holds(v5[p], d)) => Card(d)' = Card(d)
         /\ Allowance!Holds(t, d) /\ ~Allowance!Holds(v5[p], d) => Card(d)' = Card(d) + 1
         /\ ~Allowance!Holds(t, d) /\ Allowance!Holds(v5[p], d) => Card(d)' = Card(d) - 1
<1>1. /\ v5' \in [Takers -> Allowance!Places] /\ v5'[p] = t
      /\ \A q \in Takers \ {p} : v5'[q] = v5[q]
  BY DEF Allowance!TypeOK
<1> DEFINE G == Allowance!Granted(d)
           H == {q \in Takers : Allowance!Holds(v5'[q], d)}
<1>2. H = Allowance!Granted(d)'
  BY DEF Allowance!Granted, Allowance!Holds
<1>3. G \subseteq Takers /\ H \subseteq Takers
  BY DEF Allowance!Granted
<1>4. IsFiniteSet(G) /\ IsFiniteSet(H) /\ Cardinality(G) \in Nat /\ Cardinality(H) \in Nat
  BY <1>3, FS_Subset, FS_CardinalityType, MessageBudgetAssumption
<1>5. p \in G <=> Allowance!Holds(v5[p], d)
  BY DEF Allowance!Granted
<1>6. p \in H <=> Allowance!Holds(t, d)
  BY <1>1
<1>7. \A q \in Takers \ {p} : q \in G <=> q \in H
  BY <1>1 DEF Allowance!Granted
<1> HIDE DEF G, H
<1>8. (p \in G <=> p \in H) => G = H
  BY <1>3, <1>7
<1>9. p \in H /\ p \notin G => H = G \cup {p}
  BY <1>3, <1>7
<1>10. p \notin H /\ p \in G => H = G \ {p}
  BY <1>3, <1>7
<1>11. p \in H /\ p \notin G => Cardinality(H) = Cardinality(G) + 1
  BY <1>4, <1>9, FS_AddElement
<1>12. p \notin H /\ p \in G => Cardinality(H) = Cardinality(G) - 1
  BY <1>4, <1>10, FS_RemoveElement
<1>13. Card(d) = Cardinality(G) /\ Card(d)' = Cardinality(H)
  BY <1>2, CountsAlike DEF Card, G
<1> QED BY <1>1, <1>4, <1>5, <1>6, <1>8, <1>11, <1>12, <1>13

(* What a taker holds, by where it is. *)
LEMMA TakerForm ==
  ASSUME Allowance!TypeOK, NEW p \in Takers
  PROVE  \/ v5[p] = Allowance!Idle /\ v5[p].at = "idle"
         \/ v5[p] \in [at : {"waits", "reads"}, date : Days]
         \/ v5[p] \in [at : {"cuts", "writes", "written", "owns", "sends"}, date : Days,
                       used : 0 .. MaxPerDay]
BY DEF Allowance!TypeOK, Allowance!Places, Allowance!Idle

LEMMA OutIs ==
  ASSUME NEW d \in Days
  PROVE  /\ Allowance!TypeOK => Card(d) \in Nat /\ v7[d] \in Nat /\ Allowance!Out(d) = v7[d] + Card(d)
         /\ Allowance!TypeOK' =>
              Card(d)' \in Nat /\ v7'[d] \in Nat /\ Allowance!Out(d)' = v7'[d] + Card(d)'
<1>1. Allowance!Granted(d) \subseteq Takers /\ Allowance!Granted(d)' \subseteq Takers
  BY DEF Allowance!Granted
<1>2. Card(d) \in Nat /\ Card(d)' \in Nat
  BY <1>1, FS_Subset, FS_CardinalityType, CountsAlike, MessageBudgetAssumption DEF Card
<1>3. (Allowance!TypeOK => v7[d] \in Nat) /\ (Allowance!TypeOK' => v7'[d] \in Nat)
  BY DEF Allowance!TypeOK
<1>4. Allowance!Out(d) = v7[d] + Card(d) /\ Allowance!Out(d)' = v7'[d] + Card(d)'
  BY DEF Allowance!Out, Card
<1> QED BY <1>2, <1>3, <1>4

LEMMA CountHolds ==
  Allowance!TypeOK' /\ Allowance!Counted' => Allowance!BudgetHolds'
<1> SUFFICES ASSUME Allowance!TypeOK', Allowance!Counted', NEW d \in Days, d \notin v8', ~v9'
             PROVE  v7'[d] <= MaxPerDay
  BY DEF Allowance!BudgetHolds
<1>1. Allowance!Out(d)' <= MaxPerDay
  BY DEF Allowance!Counted, Allowance!CountOf
<1>2. Card(d)' \in Nat /\ v7'[d] \in Nat /\ Allowance!Out(d)' = v7'[d] + Card(d)'
  BY OutIs
<1> QED BY <1>1, <1>2, MessageBudgetAssumption

(* A step that leaves what was sent, and what is granted of each day, as it was. *)
LEMMA SameCount ==
  ASSUME Allowance!Inductive, NEW p \in Takers, NEW t \in Allowance!Places,
         v5' = [v5 EXCEPT ![p] = t], UNCHANGED v7,
         \A d \in Days : Allowance!Holds(t, d) <=> Allowance!Holds(v5[p], d)
  PROVE  \A d \in Days : Allowance!Out(d)' = Allowance!Out(d) /\ Allowance!Out(d) \in Nat
<1> TAKE d \in Days
<1>1. Card(d)' = Card(d) /\ Card(d) \in Nat
  BY TakerMoves DEF Allowance!Inductive
<1>2. Allowance!Out(d) = v7[d] + Card(d) /\ v7[d] \in Nat
  BY OutIs DEF Allowance!Inductive
<1>3. Allowance!Out(d)' = v7'[d] + Card(d)'
  BY DEF Allowance!Out, Card
<1> QED BY <1>1, <1>2, <1>3

(* A step of somebody who neither rewrites nor sends. *)
LEMMA Quietly ==
  ASSUME Allowance!Inductive, NEW p \in Takers, NEW t \in Allowance!Places,
         v5' = [v5 EXCEPT ![p] = t], UNCHANGED <<v1, v2, v7, v8, v9>>,
         \A d \in Days : Allowance!Holds(t, d) <=> Allowance!Holds(v5[p], d),
         v5[p].at # "writes"
  PROVE  Allowance!Counted'
<1>1. ASSUME NEW d \in Days
      PROVE  Allowance!CountOf(d)'
  <2>1. Allowance!Out(d)' = Allowance!Out(d)
    BY SameCount
  <2>2. Allowance!CountOf(d)
    BY DEF Allowance!Inductive, Allowance!Counted
  <2>3. \A q \in Takers : v5[q].at = "writes" => v5'[q] = v5[q]
    BY TakerMoves DEF Allowance!Inductive, Allowance!TypeOK
  <2> HIDE DEF Allowance!Out
  <2> QED BY <2>1, <2>2, <2>3 DEF Allowance!CountOf
<1> QED BY <1>1 DEF Allowance!Counted

(* Whoever is at "t.at" next, the types hold if it is one of the places. *)
LEMMA PlaceOf ==
  ASSUME Allowance!TypeOK, NEW p \in Takers, NEW at,
         \/ v5[p].at = "waits" /\ at = "reads"
         \/ /\ v5[p].at \in {"cuts", "writes", "written", "owns"}
            /\ at \in {"writes", "written", "owns", "sends"}
  PROVE  /\ [v5[p] EXCEPT !.at = at] \in Allowance!Places
         /\ [v5[p] EXCEPT !.at = at].at = at /\ [v5[p] EXCEPT !.at = at].date = v5[p].date
         /\ v5[p].at \in {"cuts", "writes", "written", "owns"} =>
              /\ [v5[p] EXCEPT !.at = at].used = v5[p].used
              /\ v5[p].used \in 0 .. MaxPerDay
         /\ v5[p].date \in Days
<1>1. CASE v5[p].at = "waits" /\ at = "reads"
  <2>1. v5[p] \in [at : {"waits", "reads"}, date : Days]
    BY <1>1, TakerForm
  <2>2. [v5[p] EXCEPT !.at = at] \in [at : {"waits", "reads"}, date : Days]
    BY <1>1, <2>1
  <2> QED BY <1>1, <2>1, <2>2 DEF Allowance!Places
<1>2. CASE /\ v5[p].at \in {"cuts", "writes", "written", "owns"}
           /\ at \in {"writes", "written", "owns", "sends"}
  <2> DEFINE L == [at : {"cuts", "writes", "written", "owns", "sends"}, date : Days, used : 0 .. MaxPerDay]
  <2>1. v5[p] \in L
    BY <1>2, TakerForm
  <2>2. [v5[p] EXCEPT !.at = at] \in L
    BY <1>2, <2>1
  <2> QED BY <1>2, <2>1, <2>2 DEF Allowance!Places
<1> QED BY <1>1, <1>2

LEMMA Opening ==
  ASSUME Allowance!Inductive, NEW p \in Takers, Allowance!Opens(p)
  PROVE  Allowance!Inductive'
<1>0. Allowance!TypeOK /\ Allowance!LockHeld
  BY DEF Allowance!Inductive
<1>1. v5[p] = Allowance!Idle /\ v6' \in 0 .. MaxTakes /\ UNCHANGED <<v1, v2, v4, v7, v8, v9>>
  BY <1>0, MessageBudgetAssumption DEF Allowance!Opens, Allowance!TypeOK
<1>2. CASE UNCHANGED <<v1, v2, v4, v5, v7, v8, v9>>
  BY <1>1, <1>2 DEF Allowance!Inductive, Allowance!TypeOK, Allowance!LockHeld, Allowance!Used,
     Allowance!Counted, Allowance!CountOf, Allowance!Out, Allowance!Granted, Allowance!BudgetHolds
<1>3. CASE v5' = [v5 EXCEPT ![p] = [at |-> "waits", date |-> v1]]
  <2> DEFINE t == [at |-> "waits", date |-> v1]
  <2>1. t \in Allowance!Places /\ v1 \in Days /\ v1 \in Nat
    BY <1>0, MessageBudgetAssumption DEF Allowance!Places, Allowance!TypeOK
  <2>2. t.at = "waits" /\ t.date = v1
    OBVIOUS
  <2> HIDE DEF t
  <2>3. /\ v5' \in [Takers -> Allowance!Places] /\ v5'[p] = t
        /\ \A q \in Takers \ {p} : v5'[q] = v5[q]
    BY <1>0, <1>3, <2>1 DEF Allowance!TypeOK, t
  <2>4. v5[p].at = "idle"
    BY <1>1 DEF Allowance!Idle
  <2>5. Allowance!TypeOK'
    BY <1>0, <1>1, <2>3 DEF Allowance!TypeOK
  <2>6. Allowance!LockHeld'
    BY <1>0, <1>1, <2>1, <2>2, <2>3 DEF Allowance!LockHeld, Allowance!Used
  <2>7. Allowance!Counted'
    BY <1>1, <1>3, <2>1, <2>2, <2>4, Quietly DEF Allowance!Holds, t
  <2> QED BY <2>5, <2>6, <2>7, CountHolds DEF Allowance!Inductive
<1> QED BY <1>1, <1>2, <1>3 DEF Allowance!Opens

(* What a taker that moves leaves of the types and the lock. *)
LEMMA OthersStay ==
  ASSUME Allowance!TypeOK, NEW p \in Takers, NEW t \in Allowance!Places, v5' = [v5 EXCEPT ![p] = t]
  PROVE  /\ v5' \in [Takers -> Allowance!Places] /\ v5'[p] = t
         /\ \A q \in Takers \ {p} : v5'[q] = v5[q]
BY DEF Allowance!TypeOK

LEMMA Locking ==
  ASSUME Allowance!Inductive, NEW p \in Takers, Allowance!Locks(p)
  PROVE  Allowance!Inductive'
<1> DEFINE t == [v5[p] EXCEPT !.at = "reads"]
<1>0. Allowance!TypeOK /\ Allowance!LockHeld
  BY DEF Allowance!Inductive
<1>1. /\ v5[p].at = "waits" /\ v4 = "nobody" /\ v4' = p /\ v5' = [v5 EXCEPT ![p] = t]
      /\ UNCHANGED <<v1, v2, v3, v6, v7, v8, v9>>
  BY DEF Allowance!Locks, Allowance!GoesTo
<1>2. t \in Allowance!Places /\ t.at = "reads" /\ t.date = v5[p].date
  BY <1>0, <1>1, PlaceOf
<1> HIDE DEF t
<1>3. /\ v5' \in [Takers -> Allowance!Places] /\ v5'[p] = t
      /\ \A q \in Takers \ {p} : v5'[q] = v5[q]
  BY <1>0, <1>1, <1>2, OthersStay
<1>4. Allowance!TypeOK'
  BY <1>0, <1>1, <1>3 DEF Allowance!TypeOK
<1>5. Allowance!LockHeld'
  <2>1. \A q \in Takers : v5[q].at \notin {"reads", "cuts", "writes", "written"}
    BY <1>0, <1>1, MessageBudgetAssumption DEF Allowance!LockHeld
  <2>2. v5[p] # Allowance!Idle
    BY <1>1 DEF Allowance!Idle
  <2> QED BY <1>0, <1>1, <1>2, <1>3, <2>1, <2>2 DEF Allowance!LockHeld, Allowance!Used
<1>6. Allowance!Counted'
  BY <1>1, <1>2, Quietly DEF Allowance!Holds
<1> QED BY <1>4, <1>5, <1>6, CountHolds DEF Allowance!Inductive

LEMMA ReadingFile ==
  ASSUME Allowance!Inductive, NEW p \in Takers, Allowance!Reads(p)
  PROVE  Allowance!Inductive'
<1>0. Allowance!TypeOK /\ Allowance!LockHeld
  BY DEF Allowance!Inductive
<1>1. v5[p].at = "reads" /\ UNCHANGED <<v1, v2, v3, v6, v7, v8, v9>>
  BY DEF Allowance!Reads
<1>2. v4 = p /\ v5[p].date \in Days /\ v5[p].date <= v1
  <2>1. v5[p] # Allowance!Idle
    BY <1>1 DEF Allowance!Idle
  <2> QED BY <1>0, <1>1, <2>1 DEF Allowance!LockHeld
<1>3. Allowance!Used(p) \in 0 .. MaxPerDay
  BY <1>0, MessageBudgetAssumption DEF Allowance!Used, Allowance!TypeOK
<1>4. CASE Allowance!Used(p) >= MaxPerDay
  <2>1. v5' = [v5 EXCEPT ![p] = Allowance!Idle] /\ v4' = "nobody"
    BY <1>4 DEF Allowance!Reads
  <2>2. Allowance!Idle \in Allowance!Places /\ Allowance!Idle.at = "idle"
    BY DEF Allowance!Places, Allowance!Idle
  <2>3. /\ v5' \in [Takers -> Allowance!Places] /\ v5'[p] = Allowance!Idle
        /\ \A q \in Takers \ {p} : v5'[q] = v5[q]
    BY <1>0, <2>1, <2>2, OthersStay
  <2>4. Allowance!TypeOK'
    BY <1>0, <1>1, <2>1, <2>3 DEF Allowance!TypeOK
  <2>5. Allowance!LockHeld'
    BY <1>0, <1>1, <1>2, <2>1, <2>2, <2>3 DEF Allowance!LockHeld, Allowance!Used
  <2>6. Allowance!Counted'
    BY <1>1, <2>1, <2>2, Quietly DEF Allowance!Holds
  <2> QED BY <2>4, <2>5, <2>6, CountHolds DEF Allowance!Inductive
<1>5. CASE ~(Allowance!Used(p) >= MaxPerDay)
  <2> DEFINE t == [at |-> "cuts", date |-> v5[p].date, used |-> Allowance!Used(p)]
  <2>1. v5' = [v5 EXCEPT ![p] = t] /\ v4' = v4
    BY <1>5 DEF Allowance!Reads
  <2>2. /\ t \in Allowance!Places /\ t.at = "cuts" /\ t.date = v5[p].date
        /\ t.used = Allowance!Used(p) /\ t.used < MaxPerDay
    BY <1>2, <1>3, <1>5, MessageBudgetAssumption DEF Allowance!Places
  <2> HIDE DEF t
  <2>3. /\ v5' \in [Takers -> Allowance!Places] /\ v5'[p] = t
        /\ \A q \in Takers \ {p} : v5'[q] = v5[q]
    BY <1>0, <2>1, <2>2, OthersStay
  <2>4. Allowance!TypeOK'
    BY <1>0, <1>1, <2>1, <2>3 DEF Allowance!TypeOK
  <2>5. Allowance!LockHeld'
    BY <1>0, <1>1, <1>2, <2>1, <2>2, <2>3 DEF Allowance!LockHeld, Allowance!Used
  <2>6. Allowance!Counted'
    BY <1>1, <2>1, <2>2, Quietly DEF Allowance!Holds
  <2> QED BY <2>4, <2>5, <2>6, CountHolds DEF Allowance!Inductive
<1> QED BY <1>4, <1>5

LEMMA Cutting ==
  ASSUME Allowance!Inductive, NEW p \in Takers, Allowance!Cuts(p)
  PROVE  Allowance!Inductive'
<1> DEFINE t == [v5[p] EXCEPT !.at = "writes"]
<1>0. Allowance!TypeOK /\ Allowance!LockHeld
  BY DEF Allowance!Inductive
<1>1. /\ v5[p].at = "cuts" /\ v2' = Allowance!Empty /\ v5' = [v5 EXCEPT ![p] = t]
      /\ UNCHANGED <<v1, v3, v4, v6, v7, v8, v9>>
  BY DEF Allowance!Cuts, Allowance!GoesTo
<1>2. t \in Allowance!Places /\ t.at = "writes" /\ t.date = v5[p].date /\ t.used = v5[p].used
  BY <1>0, <1>1, PlaceOf
<1> HIDE DEF t
<1>3. /\ v5' \in [Takers -> Allowance!Places] /\ v5'[p] = t
      /\ \A q \in Takers \ {p} : v5'[q] = v5[q]
  BY <1>0, <1>1, <1>2, OthersStay
<1>4. Allowance!TypeOK'
  <2>1. Allowance!Empty \in [date : {0} \cup Days, used : 0 .. MaxPerDay]
    BY MessageBudgetAssumption DEF Allowance!Empty
  <2> QED BY <1>0, <1>1, <1>3, <2>1 DEF Allowance!TypeOK
<1>5. v4 = p /\ v5[p].date \in Days /\ v5[p].date <= v1 /\ v5[p].used = Allowance!Used(p)
      /\ v5[p].used < MaxPerDay
  <2>1. v5[p] # Allowance!Idle
    BY <1>1 DEF Allowance!Idle
  <2> QED BY <1>0, <1>1, <2>1 DEF Allowance!LockHeld
<1>6. \A q \in Takers \ {p} : v5[q].at \notin {"reads", "cuts", "writes", "written"}
  BY <1>0, <1>5 DEF Allowance!LockHeld
<1>7. Allowance!LockHeld'
  BY <1>0, <1>1, <1>2, <1>3, <1>5, <1>6 DEF Allowance!LockHeld
<1>8. ASSUME NEW d \in Days
      PROVE  Allowance!CountOf(d)'
  <2>1. Allowance!Out(d)' = Allowance!Out(d)
    BY <1>1, <1>2, SameCount DEF Allowance!Holds
  <2>2. Allowance!CountOf(d)
    BY DEF Allowance!Inductive, Allowance!Counted
  <2>3. \A q \in Takers : v5[q].at # "writes"
    BY <1>1, <1>6
  <2>4. ~v9 /\ d \notin v8 /\ d = v1 =>
          Allowance!Out(d) <= IF v2.date = d THEN v2.used ELSE 0
    BY <2>2, <2>3 DEF Allowance!CountOf
  <2>5. ~v9' /\ d \notin v8' /\ d = v1' => (v5'[p].date = d => Allowance!Out(d)' <= v5'[p].used)
    BY <1>1, <1>2, <1>3, <1>5, <2>1, <2>4 DEF Allowance!Used
  <2> HIDE DEF Allowance!Out
  <2> QED BY <1>1, <1>2, <1>3, <2>1, <2>2, <2>5 DEF Allowance!CountOf
<1> QED BY <1>4, <1>7, <1>8, CountHolds DEF Allowance!Inductive, Allowance!Counted

LEMMA Writing ==
  ASSUME Allowance!Inductive, NEW p \in Takers, Allowance!Writes(p)
  PROVE  Allowance!Inductive'
<1> DEFINE t == [v5[p] EXCEPT !.at = "written"]
           f == [date |-> v5[p].date, used |-> v5[p].used + 1]
<1>0. Allowance!TypeOK /\ Allowance!LockHeld
  BY DEF Allowance!Inductive
<1>1. /\ v5[p].at = "writes" /\ v2' = f /\ v5' = [v5 EXCEPT ![p] = t]
      /\ v9' = (v9 \/ v5[p].date # v1) /\ UNCHANGED <<v1, v3, v4, v6, v7, v8>>
  BY DEF Allowance!Writes, Allowance!GoesTo
<1>2. /\ t \in Allowance!Places /\ t.at = "written" /\ t.date = v5[p].date
      /\ v5[p].used \in 0 .. MaxPerDay /\ v5[p].date \in Days
  BY <1>0, <1>1, PlaceOf
<1> HIDE DEF t
<1>3. /\ v5' \in [Takers -> Allowance!Places] /\ v5'[p] = t
      /\ \A q \in Takers \ {p} : v5'[q] = v5[q]
  BY <1>0, <1>1, <1>2, OthersStay
<1>5. /\ v4 = p /\ v5[p].date <= v1 /\ v5[p].used < MaxPerDay /\ v2 = Allowance!Empty
  <2>1. v5[p] # Allowance!Idle
    BY <1>1 DEF Allowance!Idle
  <2> QED BY <1>0, <1>1, <2>1 DEF Allowance!LockHeld
<1>6. \A q \in Takers \ {p} : v5[q].at \notin {"reads", "cuts", "writes", "written"}
  BY <1>0, <1>5 DEF Allowance!LockHeld
<1>f. f \in [date : {0} \cup Days, used : 0 .. MaxPerDay] /\ f.date = v5[p].date /\ f.used = v5[p].used + 1
  BY <1>2, <1>5, MessageBudgetAssumption
<1> HIDE DEF f
<1>4. Allowance!TypeOK'
  BY <1>0, <1>1, <1>3, <1>f DEF Allowance!TypeOK
<1>7. Allowance!LockHeld'
  BY <1>0, <1>1, <1>2, <1>3, <1>5, <1>6 DEF Allowance!LockHeld
<1>8. ASSUME NEW d \in Days
      PROVE  Allowance!CountOf(d)'
  <2>0. /\ Allowance!Out(d) = v7[d] + Card(d) /\ v7[d] \in Nat /\ Card(d) \in Nat
        /\ Allowance!Out(d)' = v7'[d] + Card(d)' /\ Card(d)' \in Nat
    BY <1>0, <1>4, OutIs
  <2>1. d # v5[p].date => Allowance!Out(d)' = Allowance!Out(d)
    BY <1>0, <1>1, <1>2, <2>0, TakerMoves DEF Allowance!Holds
  <2>2. d = v5[p].date => Allowance!Out(d)' = Allowance!Out(d) + 1
    <3>1. ~Allowance!Holds(v5[p], d) /\ (d = v5[p].date => Allowance!Holds(t, d))
      BY <1>1, <1>2 DEF Allowance!Holds
    <3>2. d = v5[p].date => Card(d)' = Card(d) + 1
      BY <1>0, <1>1, <1>2, <3>1, TakerMoves
    <3> QED BY <1>1, <2>0, <3>2
  <2>3. Allowance!CountOf(d)
    BY DEF Allowance!Inductive, Allowance!Counted
  <2>4. Allowance!Out(d) \in Nat /\ d \in Nat /\ v1 \in Nat /\ v5[p].used \in Nat
    BY <1>0, <1>2, <2>0, MessageBudgetAssumption DEF Allowance!TypeOK
  <2>5. CASE d # v5[p].date
    <3>1. ~v9' => v1 = v5[p].date
      BY <1>1
    <3> QED BY <1>1, <2>1, <2>3, <2>5, <3>1 DEF Allowance!CountOf
  <2>6. CASE d = v5[p].date
    <3>1. ~(d > v1)
      BY <1>5, <2>4, <2>6
    <3>2. ~v9 /\ d \notin v8 /\ d = v1 => Allowance!Out(d) <= v5[p].used
      <4>1. \A q \in Takers : v5[q].at = "writes" => q = p
        BY <1>6
      <4>2. (IF v2.date = d THEN v2.used ELSE 0) = 0
        BY <1>5 DEF Allowance!Empty
      <4>3. ~v9 /\ d \notin v8 /\ d = v1 =>
              \/ \E q \in Takers : v5[q].at = "writes" /\ (v5[q].date = d => Allowance!Out(d) <= v5[q].used)
              \/ Allowance!Out(d) <= IF v2.date = d THEN v2.used ELSE 0
        BY <2>3 DEF Allowance!CountOf
      <4> SUFFICES ASSUME ~v9, d \notin v8, d = v1
                   PROVE  Allowance!Out(d) <= v5[p].used
        OBVIOUS
      <4>4. CASE \E q \in Takers : v5[q].at = "writes" /\ (v5[q].date = d => Allowance!Out(d) <= v5[q].used)
        BY <2>6, <4>1, <4>4
      <4>5. CASE Allowance!Out(d) <= IF v2.date = d THEN v2.used ELSE 0
        BY <2>4, <4>2, <4>5
      <4> QED BY <4>3, <4>4, <4>5
    <3>3. ~v9' /\ d \notin v8' => Allowance!Out(d) <= v5[p].used /\ d = v1
      BY <1>1, <2>6, <3>2
    <3>4. ~v9' /\ d \notin v8' => Allowance!Out(d)' <= v2'.used /\ v2'.date = d /\ v2'.used <= MaxPerDay
      BY <1>1, <1>2, <1>5, <1>f, <2>2, <2>4, <2>6, <3>3, MessageBudgetAssumption
    <3>5. ~v9' /\ d \notin v8' => Allowance!Out(d)' <= MaxPerDay
      BY <1>2, <1>5, <2>2, <2>4, <2>6, <3>3, MessageBudgetAssumption
    <3> QED BY <1>1, <3>1, <3>4, <3>5 DEF Allowance!CountOf
  <2> QED BY <2>5, <2>6
<1> QED BY <1>4, <1>7, <1>8, CountHolds DEF Allowance!Inductive, Allowance!Counted

(* The lock is let go, or the file given to the service's user. *)
LEMMA LettingGo ==
  ASSUME Allowance!Inductive, NEW p \in Takers, Allowance!LetsGo(p) \/ Allowance!OwnBudgetFile(p)
  PROVE  Allowance!Inductive'
<1>0. Allowance!TypeOK /\ Allowance!LockHeld
  BY DEF Allowance!Inductive
<1>1. PICK at \in {"owns", "sends"} : v5' = [v5 EXCEPT ![p].at = at]
  <2>1. CASE Allowance!LetsGo(p) /\ p \in Operators
    <3>1. v5' = [v5 EXCEPT ![p].at = "owns"]
      BY <2>1 DEF Allowance!LetsGo, Allowance!GoesTo
    <3> QED BY <3>1
  <2>2. CASE Allowance!LetsGo(p) /\ p \notin Operators
    <3>1. v5' = [v5 EXCEPT ![p].at = "sends"]
      BY <2>2 DEF Allowance!LetsGo, Allowance!GoesTo
    <3> QED BY <3>1
  <2>3. CASE Allowance!OwnBudgetFile(p)
    <3>1. v5' = [v5 EXCEPT ![p].at = "sends"]
      BY <2>3 DEF Allowance!OwnBudgetFile, Allowance!GoesTo
    <3> QED BY <3>1
  <2> QED BY <2>1, <2>2, <2>3
<1>2. /\ v5[p].at \in {"written", "owns"} /\ UNCHANGED <<v1, v2, v6, v7, v8, v9>>
      /\ (v4' = v4 /\ v5[p].at = "owns") \/ (v4' = "nobody" /\ v5[p].at = "written")
  <2>1. CASE Allowance!LetsGo(p)
    BY <2>1 DEF Allowance!LetsGo
  <2>2. CASE Allowance!OwnBudgetFile(p)
    <3>1. v5[p].at = "owns" /\ v4' = v4
      BY <2>2 DEF Allowance!OwnBudgetFile
    <3>2. UNCHANGED <<v1, v2, v6, v7, v8, v9>>
      BY <2>2 DEF Allowance!OwnBudgetFile
    <3> QED BY <3>1, <3>2
  <2> QED BY <2>1, <2>2
<1> DEFINE t == [v5[p] EXCEPT !.at = at]
<1>3. v5' = [v5 EXCEPT ![p] = t]
  BY <1>1
<1>4. t \in Allowance!Places /\ t.at = at /\ t.date = v5[p].date
  BY <1>0, <1>2, PlaceOf
<1> HIDE DEF t
<1>5. /\ v5' \in [Takers -> Allowance!Places] /\ v5'[p] = t
      /\ \A q \in Takers \ {p} : v5'[q] = v5[q]
  BY <1>0, <1>3, <1>4, OthersStay
<1>6. Allowance!TypeOK'
  BY <1>0, <1>2, <1>5 DEF Allowance!TypeOK
<1>7. Allowance!LockHeld'
  <2>1. v5[p].at = "written" => v4 = p
    BY <1>0 DEF Allowance!LockHeld
  <2>2. v5[p] # Allowance!Idle
    BY <1>2 DEF Allowance!Idle
  <2>3. ASSUME NEW q \in Takers \ {p}, v5[q].at \in {"reads", "cuts", "writes", "written"}
        PROVE  v4' = q
    BY <1>0, <1>2, <2>1, <2>3 DEF Allowance!LockHeld
  <2> QED BY <1>0, <1>2, <1>4, <1>5, <2>2, <2>3 DEF Allowance!LockHeld, Allowance!Used
<1>8. Allowance!Counted'
  BY <1>2, <1>3, <1>4, Quietly DEF Allowance!Holds
<1> QED BY <1>6, <1>7, <1>8, CountHolds DEF Allowance!Inductive

(* Whoever is done, or killed, is idle. *)
LEMMA IdleAgain ==
  ASSUME Allowance!Inductive, NEW p \in Takers, v5' = [v5 EXCEPT ![p] = Allowance!Idle],
         UNCHANGED <<v1, v2, v6>>, v7' \in [Days -> Nat],
         v4' = v4 \/ (v4 = p /\ v4' = "nobody")
  PROVE  /\ Allowance!TypeOK' /\ Allowance!LockHeld'
         /\ \A d \in Days : Card(d)' = IF Allowance!Holds(v5[p], d) THEN Card(d) - 1 ELSE Card(d)
         /\ \A q \in Takers \ {p} : v5'[q] = v5[q]
<1>0. Allowance!TypeOK /\ Allowance!LockHeld
  BY DEF Allowance!Inductive
<1>1. Allowance!Idle \in Allowance!Places /\ Allowance!Idle.at = "idle"
  BY DEF Allowance!Places, Allowance!Idle
<1>2. /\ v5' \in [Takers -> Allowance!Places] /\ v5'[p] = Allowance!Idle
      /\ \A q \in Takers \ {p} : v5'[q] = v5[q]
  BY <1>0, <1>1, OthersStay
<1>3. Allowance!TypeOK'
  BY <1>0, <1>2 DEF Allowance!TypeOK
<1>4. Allowance!LockHeld'
  BY <1>0, <1>1, <1>2 DEF Allowance!LockHeld, Allowance!Used
<1>5. \A d \in Days : Card(d)' = IF Allowance!Holds(v5[p], d) THEN Card(d) - 1 ELSE Card(d)
  BY <1>0, <1>1, TakerMoves DEF Allowance!Holds
<1> QED BY <1>2, <1>3, <1>4, <1>5

LEMMA Sending ==
  ASSUME Allowance!Inductive, NEW p \in Takers, Allowance!Sends(p)
  PROVE  Allowance!Inductive'
<1>0. Allowance!TypeOK /\ Allowance!LockHeld
  BY DEF Allowance!Inductive
<1>1. /\ v5[p].at = "sends" /\ v7' = [v7 EXCEPT ![v5[p].date] = @ + 1]
      /\ v5' = [v5 EXCEPT ![p] = Allowance!Idle] /\ UNCHANGED <<v1, v2, v3, v4, v6, v8, v9>>
  BY DEF Allowance!Sends
<1>2. v5[p].date \in Days
  BY <1>0, <1>1, TakerForm
<1>3. v7 \in [Days -> Nat] /\ v7' \in [Days -> Nat]
  BY <1>0, <1>1, <1>2 DEF Allowance!TypeOK
<1>4. /\ Allowance!TypeOK' /\ Allowance!LockHeld'
      /\ \A d \in Days : Card(d)' = IF Allowance!Holds(v5[p], d) THEN Card(d) - 1 ELSE Card(d)
      /\ \A q \in Takers \ {p} : v5'[q] = v5[q]
  BY <1>1, <1>3, IdleAgain
<1>5. ASSUME NEW d \in Days
      PROVE  Allowance!CountOf(d)'
  <2>0. /\ Allowance!Out(d) = v7[d] + Card(d) /\ v7[d] \in Nat /\ Card(d) \in Nat
        /\ Allowance!Out(d)' = v7'[d] + Card(d)' /\ Card(d)' \in Nat
    BY <1>0, <1>4, OutIs
  <2>1. Allowance!Out(d)' = Allowance!Out(d)
    BY <1>1, <1>2, <1>3, <1>4, <2>0 DEF Allowance!Holds
  <2>2. Allowance!CountOf(d)
    BY DEF Allowance!Inductive, Allowance!Counted
  <2>3. \A q \in Takers : v5[q].at = "writes" => v5'[q] = v5[q]
    BY <1>1, <1>4
  <2> HIDE DEF Allowance!Out
  <2> QED BY <1>1, <2>1, <2>2, <2>3 DEF Allowance!CountOf
<1> QED BY <1>4, <1>5, CountHolds DEF Allowance!Inductive, Allowance!Counted

LEMMA Killing ==
  ASSUME Allowance!Inductive, NEW p \in Takers, Allowance!Killed(p)
  PROVE  Allowance!Inductive'
<1>0. Allowance!TypeOK /\ Allowance!LockHeld
  BY DEF Allowance!Inductive
<1>1. /\ v4' = v4 \/ (v4 = p /\ v4' = "nobody")
      /\ v5' = [v5 EXCEPT ![p] = Allowance!Idle] /\ UNCHANGED <<v1, v2, v3, v6, v7, v9>>
      /\ v8' = IF v5[p].at = "writes" THEN v8 \cup {v5[p].date, v1} ELSE v8
  BY DEF Allowance!Killed
<1>2. v7 \in [Days -> Nat] /\ v7' \in [Days -> Nat]
  BY <1>0, <1>1 DEF Allowance!TypeOK
<1>3. /\ Allowance!TypeOK' /\ Allowance!LockHeld'
      /\ \A d \in Days : Card(d)' = IF Allowance!Holds(v5[p], d) THEN Card(d) - 1 ELSE Card(d)
      /\ \A q \in Takers \ {p} : v5'[q] = v5[q]
  BY <1>1, <1>2, IdleAgain
<1>4. ASSUME NEW d \in Days
      PROVE  Allowance!CountOf(d)'
  <2>0. /\ Allowance!Out(d) = v7[d] + Card(d) /\ v7[d] \in Nat /\ Card(d) \in Nat
        /\ Allowance!Out(d)' = v7'[d] + Card(d)' /\ Card(d)' \in Nat
    BY <1>0, <1>3, OutIs
  <2>1. Allowance!Out(d)' <= Allowance!Out(d) /\ Allowance!Out(d)' \in Nat /\ Allowance!Out(d) \in Nat
    BY <1>1, <1>2, <1>3, <2>0
  <2>2. Allowance!CountOf(d)
    BY DEF Allowance!Inductive, Allowance!Counted
  <2>3. (d > v1)' => Allowance!Out(d)' = 0
    BY <1>1, <2>1, <2>2 DEF Allowance!CountOf
  <2>4. ASSUME ~v9', d \notin v8'
        PROVE  Allowance!Out(d)' <= MaxPerDay /\ ~v9 /\ d \notin v8
    <3>1. ~v9 /\ d \notin v8
      BY <1>1, <2>4
    <3>2. Allowance!Out(d) <= MaxPerDay
      BY <2>2, <3>1 DEF Allowance!CountOf
    <3> QED BY <2>1, <3>1, <3>2, MessageBudgetAssumption
  <2>5. ASSUME ~v9', d \notin v8', d = v1'
        PROVE  \/ \E q \in Takers : v5'[q].at = "writes" /\ (v5'[q].date = d => Allowance!Out(d)' <= v5'[q].used)
               \/ Allowance!Out(d)' <= IF v2'.date = d THEN v2'.used ELSE 0
    <3>1. d = v1 /\ v5[p].at # "writes"
      BY <1>1, <2>5
    <3>2. CASE \E q \in Takers : v5[q].at = "writes" /\ (v5[q].date = d => Allowance!Out(d) <= v5[q].used)
      <4>1. PICK q \in Takers : v5[q].at = "writes" /\ (v5[q].date = d => Allowance!Out(d) <= v5[q].used)
        BY <3>2
      <4>2. v5'[q] = v5[q] /\ v5[q].used \in Nat
        BY <1>0, <1>3, <3>1, <4>1, TakerForm
      <4> QED BY <2>1, <4>1, <4>2
    <3>3. CASE Allowance!Out(d) <= IF v2.date = d THEN v2.used ELSE 0
      <4>1. v2.used \in Nat
        BY <1>0 DEF Allowance!TypeOK
      <4> QED BY <1>1, <2>1, <3>3, <4>1
    <3> QED BY <2>2, <2>4, <2>5, <3>1, <3>2, <3>3 DEF Allowance!CountOf
  <2> QED BY <2>3, <2>4, <2>5 DEF Allowance!CountOf
<1> QED BY <1>3, <1>4, CountHolds DEF Allowance!Inductive, Allowance!Counted

LEMMA DayTurns ==
  ASSUME Allowance!Inductive, Allowance!Midnight
  PROVE  Allowance!Inductive'
<1>0. Allowance!TypeOK /\ Allowance!LockHeld
  BY DEF Allowance!Inductive
<1>1. v1' \in Days /\ v1' = v1 + 1 /\ UNCHANGED <<v2, v3, v4, v5, v6, v7, v8, v9>>
  BY DEF Allowance!Midnight
<1>2. v1 \in Nat /\ Days \subseteq Nat
  BY <1>0, MessageBudgetAssumption DEF Allowance!TypeOK
<1>3. Allowance!TypeOK'
  BY <1>0, <1>1 DEF Allowance!TypeOK
<1>4. Allowance!LockHeld'
  <2>1. ASSUME NEW p \in Takers
        PROVE  v5[p] = Allowance!Idle \/ v5[p].date \in {d \in Days : d <= v1 + 1}
    <3>1. v5[p] = Allowance!Idle \/ (v5[p].date \in Days /\ v5[p].date <= v1)
      BY <1>0 DEF Allowance!LockHeld
    <3>2. CASE v5[p].date \in Days /\ v5[p].date <= v1
      <4>0. v5[p].date \in Nat
        BY <1>2, <3>2
      <4>1. v5[p].date <= v1 + 1
        BY <1>2, <3>2, <4>0
      <4> QED BY <3>2, <4>1
    <3> QED BY <3>1, <3>2
  <2> QED BY <1>0, <1>1, <2>1 DEF Allowance!LockHeld, Allowance!Used
<1>5. ASSUME NEW d \in Days
      PROVE  Allowance!CountOf(d)'
  <2>0. /\ Allowance!Out(d) = v7[d] + Card(d) /\ v7[d] \in Nat /\ Card(d) \in Nat
    BY <1>0, OutIs
  <2>1. Allowance!Out(d)' = Allowance!Out(d)
    BY <1>1 DEF Allowance!Out, Allowance!Granted, Allowance!Holds
  <2>2. Allowance!CountOf(d)
    BY DEF Allowance!Inductive, Allowance!Counted
  <2>3. d > v1' => d > v1
    BY <1>1, <1>2
  <2>4. d = v1' => d > v1
    BY <1>1, <1>2
  <2>5. v2.used \in Nat
    BY <1>0 DEF Allowance!TypeOK
  <2>6. d = v1' => Allowance!Out(d)' <= IF v2'.date = d THEN v2'.used ELSE 0
    BY <1>1, <2>1, <2>2, <2>4, <2>5 DEF Allowance!CountOf
  <2> QED BY <1>1, <2>1, <2>2, <2>3, <2>6 DEF Allowance!CountOf
<1> QED BY <1>3, <1>4, <1>5, CountHolds DEF Allowance!Inductive, Allowance!Counted

LEMMA BudgetInductive ==
  ASSUME Allowance!Inductive, [Allowance!Next]_(Allowance!vars)
  PROVE  Allowance!Inductive'
<1>1. CASE UNCHANGED Allowance!vars
  BY <1>1 DEF Allowance!vars, Allowance!Inductive, Allowance!TypeOK, Allowance!LockHeld, Allowance!Used,
     Allowance!Counted, Allowance!CountOf, Allowance!Out, Allowance!Granted, Allowance!Holds,
     Allowance!BudgetHolds
<1> QED BY <1>1, Opening, Locking, ReadingFile, Cutting, Writing, LettingGo, Sending, Killing, DayTurns
        DEF Allowance!Next

LEMMA BudgetStarts ==
  ASSUME Allowance!Init
  PROVE  Allowance!Inductive
<1>1. /\ v1 = 1 /\ v2 = Allowance!Empty /\ v4 = "nobody" /\ v6 = 0
      /\ v5 = [p \in Takers |-> Allowance!Idle] /\ v7 = [d \in Days |-> 0] /\ v8 = {} /\ v9 = FALSE
  BY DEF Allowance!Init
<1>2. Allowance!Idle \in Allowance!Places /\ Allowance!Idle.at = "idle"
  BY DEF Allowance!Places, Allowance!Idle
<1>3. Allowance!Empty \in [date : {0} \cup Days, used : 0 .. MaxPerDay] /\ Allowance!Empty.used = 0
  BY MessageBudgetAssumption DEF Allowance!Empty
<1>4. Allowance!TypeOK
  BY <1>1, <1>2, <1>3, MessageBudgetAssumption DEF Allowance!TypeOK
<1>5. Allowance!LockHeld
  BY <1>1, <1>2 DEF Allowance!LockHeld
<1>6. ASSUME NEW d \in Days
      PROVE  Allowance!Out(d) = 0
  <2>1. Allowance!Granted(d) = {}
    BY <1>1, <1>2 DEF Allowance!Granted, Allowance!Holds
  <2>2. Card(d) = 0
    BY <2>1, FS_EmptySet, CountsAlike DEF Card
  <2> QED BY <1>1, <1>4, <2>2, OutIs
<1>7. Allowance!Counted
  BY <1>1, <1>3, <1>6, MessageBudgetAssumption DEF Allowance!Counted, Allowance!CountOf
<1>8. Allowance!BudgetHolds
  BY <1>1, MessageBudgetAssumption DEF Allowance!BudgetHolds
<1> QED BY <1>4, <1>5, <1>7, <1>8 DEF Allowance!Inductive

-----------------------------------------------------------------------------
(* The host's health, told and judged (HostHealth).                        *)

LEMMA CheckForm ==
  ASSUME Reporter!TypeOK, NEW c \in Reporter!Checkers
  PROVE  \/ v3[c] = Reporter!Idle /\ v3[c].at = "idle"
         \/ v3[c] \in [at : {"read"}, previous : Reporter!Reports]
         \/ v3[c] \in [at : {"collected", "told"}, previous : Reporter!Reports, report : Reporter!Reports]
BY DEF Reporter!TypeOK, Reporter!Steps, Reporter!Idle

LEMMA OneChecks ==
  ASSUME Reporter!TypeOK, NEW c \in Reporter!Checkers, NEW s \in Reporter!Steps, v3' = [v3 EXCEPT ![c] = s]
  PROVE  /\ v3' \in [Reporter!Checkers -> Reporter!Steps] /\ v3'[c] = s
         /\ \A d \in Reporter!Checkers \ {c} : v3'[d] = v3[d]
BY DEF Reporter!TypeOK

LEMMA IdleStep == Reporter!Idle \in Reporter!Steps /\ Reporter!Idle.at = "idle"
BY DEF Reporter!Idle, Reporter!Steps

LEMMA SeenForm ==
  ASSUME Reporter!TypeOK
  PROVE  /\ v1 \in Nat /\ v1 # 0 /\ Len(v6) \in Nat
         /\ \A i \in 1 .. Len(v6) : v6[i].at \in Nat /\ v6[i].at # 0
<1> DEFINE S == [at : 1 .. MaxTime, failing : BOOLEAN]
<1>1. v6 \in Seq(S)
  BY DEF Reporter!TypeOK
<1>2. \A x \in S : x.at \in 1 .. MaxTime
  OBVIOUS
<1>3. v1 \in Nat /\ v1 # 0
  BY HostHealthAssumption DEF Reporter!TypeOK
<1> HIDE DEF S
<1>4. \A i \in 1 .. Len(v6) : v6[i] \in S
  BY <1>1
<1> QED BY <1>1, <1>2, <1>3, <1>4, HostHealthAssumption

LEMMA BeginsKeeps ==
  ASSUME Reporter!Inductive, NEW c \in Reporter!Checkers, Reporter!Begins(c)
  PROVE  Reporter!Inductive'
<1> DEFINE s == [at |-> "read", previous |-> v2]
<1>0. Reporter!TypeOK /\ Reporter!InTime
  BY DEF Reporter!Inductive
<1>1. /\ v3[c] = Reporter!Idle /\ v5 < MaxChecks /\ v5' = v5 + 1 /\ v3' = [v3 EXCEPT ![c] = s]
      /\ v9' = (v9 \/ \E d \in Reporter!Checkers : v3[d] # Reporter!Idle)
      /\ UNCHANGED <<v1, v2, v4, v6, v7, v8>>
  BY DEF Reporter!Begins
<1>2. s \in Reporter!Steps /\ s.at = "read" /\ s.previous = v2
  BY <1>0 DEF Reporter!TypeOK, Reporter!Steps
<1> HIDE DEF s
<1>3. /\ v3' \in [Reporter!Checkers -> Reporter!Steps] /\ v3'[c] = s
      /\ \A d \in Reporter!Checkers \ {c} : v3'[d] = v3[d]
  BY <1>0, <1>1, <1>2, OneChecks
<1>4. Reporter!TypeOK'
  BY <1>0, <1>1, <1>3, HostHealthAssumption DEF Reporter!TypeOK
<1>5. Reporter!InTime'
  BY <1>0, <1>1, <1>2, <1>3 DEF Reporter!InTime, Reporter!Under
<1>6. ASSUME ~v9'
      PROVE  /\ Reporter!OneAtATime' /\ Reporter!ToldSoFar' /\ Reporter!SpellStands'
             /\ Reporter!ReportStands'
  <2>1. ~v9 /\ \A d \in Reporter!Checkers : v3[d] = Reporter!Idle
    BY <1>1, <1>6
  <2>2. Reporter!ToldSoFar /\ Reporter!SpellStands
    BY <2>1 DEF Reporter!Inductive
  <2>3. \A d \in Reporter!Checkers \ {c} : v3'[d] = Reporter!Idle
    BY <1>3, <2>1
  <2>4. \A d \in Reporter!Checkers : v3'[d].at # "told" /\ v3'[d].at # "collected" /\ v3[d].at # "told"
    BY <1>2, <1>3, <2>1, <2>3, IdleStep
  <2>5. Reporter!OneAtATime'
    BY <1>1, <1>2, <1>3, <2>3 DEF Reporter!OneAtATime
  <2>6. Reporter!ToldSoFar'
    BY <1>1, <2>2, <2>4 DEF Reporter!ToldSoFar, Reporter!Under, Reporter!Bad
  <2>7. Reporter!SpellStands'
    BY <1>1, <2>2 DEF Reporter!SpellStands
  <2>8. Reporter!ReportStands'
    BY <2>4 DEF Reporter!ReportStands, Reporter!Under
  <2> QED BY <2>5, <2>6, <2>7, <2>8
<1> QED BY <1>4, <1>5, <1>6 DEF Reporter!Inductive

LEMMA CutOffKeeps ==
  ASSUME Reporter!Inductive, NEW c \in Reporter!Checkers, Reporter!CutOff(c)
  PROVE  Reporter!Inductive'
<1>0. Reporter!TypeOK /\ Reporter!InTime
  BY DEF Reporter!Inductive
<1>1. v3' = [v3 EXCEPT ![c] = Reporter!Idle] /\ v9' = TRUE /\ UNCHANGED <<v1, v2, v4, v5, v6, v7, v8>>
  BY DEF Reporter!CutOff
<1>2. /\ v3' \in [Reporter!Checkers -> Reporter!Steps] /\ v3'[c] = Reporter!Idle
      /\ \A d \in Reporter!Checkers \ {c} : v3'[d] = v3[d]
  BY <1>0, <1>1, IdleStep, OneChecks
<1>3. Reporter!TypeOK'
  BY <1>0, <1>1, <1>2 DEF Reporter!TypeOK
<1>4. Reporter!InTime'
  BY <1>0, <1>1, <1>2, IdleStep DEF Reporter!InTime, Reporter!Under
<1> QED BY <1>1, <1>3, <1>4 DEF Reporter!Inductive

LEMMA TimeKeeps ==
  ASSUME Reporter!Inductive, Reporter!TimePasses
  PROVE  Reporter!Inductive'
<1>0. Reporter!TypeOK /\ Reporter!InTime
  BY DEF Reporter!Inductive
<1>1. /\ v1 < MaxTime /\ v1' = v1 + 1 /\ UNCHANGED <<v2, v3, v4, v5, v6, v7, v8, v9>>
      /\ \A c \in Reporter!Checkers : v3[c] = Reporter!Idle
  BY DEF Reporter!TimePasses
<1>2. \A c \in Reporter!Checkers : v3'[c].at = "idle"
  BY <1>1, IdleStep
<1>3. Reporter!TypeOK'
  BY <1>0, <1>1, HostHealthAssumption DEF Reporter!TypeOK
<1>4. Reporter!InTime'
  <2>1. v1 \in Nat /\ \A i \in 1 .. Len(v6) : v6[i].at \in Nat
    BY <1>0, SeenForm
  <2> QED BY <1>0, <1>1, <1>2, <2>1 DEF Reporter!InTime, Reporter!Under
<1>5. ASSUME ~v9'
      PROVE  /\ Reporter!OneAtATime' /\ Reporter!ToldSoFar' /\ Reporter!SpellStands'
             /\ Reporter!ReportStands'
  <2>1. Reporter!OneAtATime /\ Reporter!ToldSoFar /\ Reporter!SpellStands
    BY <1>1, <1>5 DEF Reporter!Inductive
  <2>2. Reporter!OneAtATime'
    BY <1>1, <2>1 DEF Reporter!OneAtATime
  <2>3. Reporter!ToldSoFar'
    BY <1>1, <2>1 DEF Reporter!ToldSoFar, Reporter!Under, Reporter!Bad
  <2>4. Reporter!SpellStands'
    BY <1>1, <2>1 DEF Reporter!SpellStands
  <2>5. Reporter!ReportStands'
    BY <1>2 DEF Reporter!ReportStands, Reporter!Under
  <2> QED BY <2>2, <2>3, <2>4, <2>5
<1> QED BY <1>3, <1>4, <1>5 DEF Reporter!Inductive

(* What a report says of the supply, as it is made.                        *)
LEMMA ReportForm ==
  ASSUME Reporter!TypeOK, NEW wrong, NEW read \in {"none", "set", "clear", "denied", "garbled"},
         NEW since \in 0 .. MaxTime
  PROVE  LET r == Reporter!Report(wrong, read, since) IN
         /\ r \in Reporter!Reports /\ r.at = v1 /\ r.read = read
         /\ read = "set" => r.since = IF since = 0 THEN v1 ELSE since
         /\ read = "set" => (r.supply = "unhealthy" <=> v1 - r.since >= Persists)
<1> DEFINE supply == Reporter!Supply(read, since)
           status == IF Reporter!Found(wrong, "unhealthy") # {} \/ supply = "unhealthy" THEN "unhealthy"
                     ELSE IF Reporter!Found(wrong, "degraded") # {} \/ supply = "degraded" THEN "degraded"
                     ELSE "ok"
           began == IF read # "set" THEN 0 ELSE IF since = 0 THEN v1 ELSE since
<1>1. supply \in {"ok", "degraded", "unhealthy"}
  BY DEF Reporter!Supply
<1>2. read = "set" => (supply = "unhealthy" <=> v1 - began >= Persists)
  BY DEF Reporter!Supply, Reporter!Never
<1>3. status \in {"ok", "degraded", "unhealthy"}
  OBVIOUS
<1>4. v1 \in 0 .. MaxTime /\ began \in 0 .. MaxTime
  BY HostHealthAssumption DEF Reporter!TypeOK
<1>5. Reporter!Report(wrong, read, since)
        = [at |-> v1, read |-> read, supply |-> supply, since |-> began, status |-> status]
  BY DEF Reporter!Report, Reporter!Never
<1> HIDE DEF supply, status, began
<1>6. Reporter!Report(wrong, read, since) \in Reporter!Reports
  BY <1>1, <1>3, <1>4, <1>5 DEF Reporter!Reports
<1> QED BY <1>2, <1>5, <1>6 DEF began

LEMMA CollectsKeeps ==
  ASSUME Reporter!Inductive, NEW c \in Reporter!Checkers, Reporter!Collects(c)
  PROVE  Reporter!Inductive'
<1>0. Reporter!TypeOK /\ Reporter!InTime
  BY DEF Reporter!Inductive
<1>p. v3[c] \in [at : {"read"}, previous : Reporter!Reports] /\ v3[c].at = "read"
  BY <1>0, CheckForm DEF Reporter!Collects, Reporter!Under
<1> DEFINE prev == v3[c].previous
<1>q. prev \in Reporter!Reports
  BY <1>p
<1> DEFINE since == Reporter!FaultSince(prev)
<1>r. since \in 0 .. MaxTime
  BY <1>q, HostHealthAssumption DEF Reporter!FaultSince, Reporter!Never, Reporter!Reports
<1>s. PICK wrong \in Reporter!Hosts, read \in Reporter!Readings :
        v3' = [v3 EXCEPT ![c] = [at |-> "collected", previous |-> prev,
                                 report |-> Reporter!Report(wrong, read, since)]]
  BY DEF Reporter!Collects
<1>t. read \in {"none", "set", "clear", "denied", "garbled"}
  BY DEF Reporter!Readings
<1> DEFINE r == Reporter!Report(wrong, read, since)
           s == [at |-> "collected", previous |-> prev, report |-> r]
<1>1. /\ r \in Reporter!Reports /\ r.at = v1 /\ r.read = read
      /\ read = "set" => r.since = IF since = 0 THEN v1 ELSE since
      /\ read = "set" => (r.supply = "unhealthy" <=> v1 - r.since >= Persists)
  BY <1>0, <1>r, <1>t, ReportForm
<1> HIDE DEF r
<1>2. s \in Reporter!Steps /\ s.at = "collected" /\ s.previous = prev /\ s.report = r
  BY <1>1, <1>q DEF Reporter!Steps
<1>u. v3' = [v3 EXCEPT ![c] = s]
  BY <1>s DEF r
<1>v. since = IF prev.read = "set" THEN prev.since ELSE 0
  BY DEF Reporter!FaultSince, Reporter!Never
<1> HIDE DEF s, since, prev
<1>3. /\ v3' \in [Reporter!Checkers -> Reporter!Steps] /\ v3'[c] = s
      /\ \A d \in Reporter!Checkers \ {c} : v3'[d] = v3[d]
  BY <1>0, <1>2, <1>u, OneChecks
<1>w. UNCHANGED <<v1, v2, v4, v5, v6, v7, v8, v9>>
  BY DEF Reporter!Collects
<1>4. Reporter!TypeOK'
  BY <1>0, <1>3, <1>w DEF Reporter!TypeOK
<1>5. Reporter!InTime'
  BY <1>0, <1>1, <1>2, <1>3, <1>w DEF Reporter!InTime, Reporter!Under
<1>6. ASSUME ~v9'
      PROVE  /\ Reporter!OneAtATime' /\ Reporter!ToldSoFar' /\ Reporter!SpellStands'
             /\ Reporter!ReportStands'
  <2>1. Reporter!OneAtATime /\ Reporter!ToldSoFar /\ Reporter!SpellStands
    BY <1>6, <1>w DEF Reporter!Inductive
  <2>2. v3[c] # Reporter!Idle
    BY <1>p, IdleStep
  <2>3. prev = v2 /\ \A d \in Reporter!Checkers \ {c} : v3[d] = Reporter!Idle
    BY <2>1, <2>2 DEF Reporter!OneAtATime, prev
  <2>4. \A d \in Reporter!Checkers \ {c} : v3'[d] = Reporter!Idle
    BY <1>3, <2>3
  <2>5. /\ \A d \in Reporter!Checkers : v3'[d].at # "told" /\ v3[d].at # "told"
        /\ \A d \in Reporter!Checkers \ {c} : v3'[d].at = "idle"
    BY <1>2, <1>3, <1>p, <2>3, <2>4, IdleStep
  <2>6. Reporter!OneAtATime'
    BY <1>2, <1>3, <1>w, <2>3, <2>4 DEF Reporter!OneAtATime
  <2>7. Reporter!ToldSoFar'
    BY <1>w, <2>1, <2>5 DEF Reporter!ToldSoFar, Reporter!Under, Reporter!Bad
  <2>8. Reporter!SpellStands'
    BY <1>w, <2>1 DEF Reporter!SpellStands
  <2>9. v2.read = "set" => v2.since # 0
    BY <1>0, <2>1, SeenForm DEF Reporter!SpellStands
  <2>10. r.read = "set" =>
           /\ r.since = IF v2.read = "set" THEN v2.since ELSE v1
           /\ r.supply = "unhealthy" <=> v1 - r.since >= Persists
    BY <1>1, <1>v, <2>3, <2>9
  <2>11. Reporter!ReportStands'
    BY <1>2, <1>3, <1>w, <2>5, <2>10 DEF Reporter!ReportStands, Reporter!Under
  <2> QED BY <2>6, <2>7, <2>8, <2>11
<1> QED BY <1>4, <1>5, <1>6 DEF Reporter!Inductive

LEMMA TellsKeeps ==
  ASSUME Reporter!Inductive, NEW c \in Reporter!Checkers, Reporter!Tells(c)
  PROVE  Reporter!Inductive'
<1>0. Reporter!TypeOK /\ Reporter!InTime
  BY DEF Reporter!Inductive
<1>p. /\ v3[c] \in [at : {"collected", "told"}, previous : Reporter!Reports, report : Reporter!Reports]
      /\ v3[c].at = "collected"
  BY <1>0, CheckForm DEF Reporter!Tells, Reporter!Under
<1> DEFINE prev == v3[c].previous
           r == v3[c].report
           s == [v3[c] EXCEPT !.at = "told"]
           news == Reporter!News(prev, r)
<1>q. prev \in Reporter!Reports /\ r \in Reporter!Reports
  BY <1>p
<1>r. s = [at |-> "told", previous |-> prev, report |-> r]
  BY <1>p
<1>s. s \in Reporter!Steps /\ s.at = "told" /\ s.previous = prev /\ s.report = r
  BY <1>q, <1>r DEF Reporter!Steps
<1>t. v3' = [v3 EXCEPT ![c] = s] /\ UNCHANGED <<v1, v2, v5, v6, v9>>
  BY DEF Reporter!Tells
<1>u. PICK reached \in SUBSET Channels :
        /\ news = "none" => reached = Channels
        /\ v4' = [n \in Channels |-> IF news # "none" /\ n \in reached THEN news ELSE v4[n]]
        /\ v7' = v7 \cup (Channels \ reached)
        /\ v8' = (v8 \/ (news # "none" /\ \E n \in Channels \ v7 : v4[n] = news))
  BY DEF Reporter!Tells
<1>v. /\ news \in {"none", "unhealthy", "recovered"}
      /\ news = "unhealthy" <=> Reporter!Bad(r) /\ ~Reporter!Bad(prev)
      /\ news = "recovered" <=> Reporter!Bad(prev) /\ ~Reporter!Bad(r)
  BY DEF Reporter!News
<1> HIDE DEF s, news, prev, r
<1>3. /\ v3' \in [Reporter!Checkers -> Reporter!Steps] /\ v3'[c] = s
      /\ \A d \in Reporter!Checkers \ {c} : v3'[d] = v3[d]
  BY <1>0, <1>s, <1>t, OneChecks
<1>4. Reporter!TypeOK'
  BY <1>0, <1>3, <1>t, <1>u, <1>v DEF Reporter!TypeOK
<1>5. Reporter!InTime'
  BY <1>0, <1>p, <1>s, <1>3, <1>t DEF Reporter!InTime, Reporter!Under, r
<1>6. ASSUME ~v9'
      PROVE  /\ Reporter!OneAtATime' /\ Reporter!ToldSoFar' /\ Reporter!SpellStands'
             /\ Reporter!ReportStands'
  <2>1. Reporter!OneAtATime /\ Reporter!ToldSoFar /\ Reporter!SpellStands /\ Reporter!ReportStands
    BY <1>6, <1>t DEF Reporter!Inductive
  <2>2. v3[c] # Reporter!Idle
    BY <1>p, IdleStep
  <2>3. prev = v2 /\ \A d \in Reporter!Checkers \ {c} : v3[d] = Reporter!Idle
    BY <2>1, <2>2 DEF Reporter!OneAtATime, prev
  <2>4. \A d \in Reporter!Checkers \ {c} : v3'[d] = Reporter!Idle /\ v3'[d].at = "idle"
    BY <1>3, <2>3, IdleStep
  <2>5. \A d \in Reporter!Checkers : v3[d].at # "told"
    BY <1>p, <2>3, IdleStep
  <2>6. Reporter!OneAtATime'
    BY <1>s, <1>3, <1>t, <2>3, <2>4 DEF Reporter!OneAtATime
  <2>7. ~v8 /\ \A n \in Channels \ v7 : v4[n] = "unhealthy" <=> Reporter!Bad(prev)
    BY <2>1, <2>3, <2>5 DEF Reporter!ToldSoFar, Reporter!Under
  <2>8. ~v8'
    BY <1>u, <1>v, <2>7
  <2>9. \A n \in Channels \ v7' : v4'[n] = "unhealthy" <=> Reporter!Bad(r)
    BY <1>u, <1>v, <2>7
  <2>10. \A d \in Reporter!Checkers : v3'[d].at = "told" <=> d = c
    BY <1>s, <1>3, <2>4
  <2>11. Reporter!ToldSoFar'
    BY <1>s, <1>3, <2>8, <2>9, <2>10 DEF Reporter!ToldSoFar, Reporter!Under, Reporter!Bad
  <2>12. Reporter!SpellStands'
    BY <1>t, <2>1 DEF Reporter!SpellStands
  <2>13. Reporter!ReportStands'
    BY <1>p, <1>s, <1>3, <1>t, <2>1, <2>4 DEF Reporter!ReportStands, Reporter!Under, r
  <2> QED BY <2>6, <2>11, <2>12, <2>13
<1> QED BY <1>4, <1>5, <1>6 DEF Reporter!Inductive

LEMMA WritesKeeps ==
  ASSUME Reporter!Inductive, NEW c \in Reporter!Checkers, Reporter!Writes(c)
  PROVE  Reporter!Inductive'
<1>0. Reporter!TypeOK /\ Reporter!InTime
  BY DEF Reporter!Inductive
<1>p. /\ v3[c] \in [at : {"collected", "told"}, previous : Reporter!Reports, report : Reporter!Reports]
      /\ v3[c].at = "told"
  BY <1>0, CheckForm DEF Reporter!Writes, Reporter!Under
<1> DEFINE r == v3[c].report
           e == [at |-> r.at, failing |-> r.read = "set"]
           n == Len(v6)
<1>1. r \in Reporter!Reports /\ r.at = v1
  BY <1>0, <1>p DEF Reporter!InTime, Reporter!Under
<1>2. /\ v2' = r /\ v6' = Append(v6, e) /\ v3' = [v3 EXCEPT ![c] = Reporter!Idle]
      /\ UNCHANGED <<v1, v4, v5, v7, v8, v9>>
  BY DEF Reporter!Writes
<1>3. /\ v3' \in [Reporter!Checkers -> Reporter!Steps] /\ v3'[c] = Reporter!Idle
      /\ \A d \in Reporter!Checkers \ {c} : v3'[d] = v3[d]
  BY <1>0, <1>2, IdleStep, OneChecks
<1>4. e \in [at : 1 .. MaxTime, failing : BOOLEAN] /\ e.at = v1 /\ (e.failing <=> r.read = "set")
  BY <1>0, <1>1 DEF Reporter!TypeOK
<1>5. v6 \in Seq([at : 1 .. MaxTime, failing : BOOLEAN]) /\ n \in Nat
  BY <1>0 DEF Reporter!TypeOK
<1> HIDE DEF e
<1>6. /\ v6' \in Seq([at : 1 .. MaxTime, failing : BOOLEAN]) /\ v6' # <<>> /\ Len(v6') = n + 1
      /\ v6'[n + 1] = e /\ \A i \in 1 .. n : v6'[i] = v6[i]
  BY <1>2, <1>4, <1>5
<1>7. v2' # Reporter!None
  <2>1. v1 # 0
    BY <1>0, SeenForm
  <2>2. Reporter!None.at = 0
    BY DEF Reporter!None, Reporter!Never
  <2> QED BY <1>1, <1>2, <2>1, <2>2
<1> HIDE DEF r
<1>8. Reporter!TypeOK'
  BY <1>0, <1>1, <1>2, <1>3, <1>6, <1>7 DEF Reporter!TypeOK
<1>9. Reporter!InTime'
  <2>1. \A i \in 1 .. Len(v6') : v6'[i].at <= v1
    BY <1>0, <1>4, <1>5, <1>6, SeenForm DEF Reporter!InTime
  <2> QED BY <1>0, <1>2, <1>3, <2>1, IdleStep DEF Reporter!InTime, Reporter!Under
<1>10. ASSUME ~v9'
       PROVE  /\ Reporter!OneAtATime' /\ Reporter!ToldSoFar' /\ Reporter!SpellStands'
              /\ Reporter!ReportStands'
  <2>1. Reporter!OneAtATime /\ Reporter!ToldSoFar /\ Reporter!SpellStands /\ Reporter!ReportStands
    BY <1>10, <1>2 DEF Reporter!Inductive
  <2>2. v3[c] # Reporter!Idle
    BY <1>p, IdleStep
  <2>3. \A d \in Reporter!Checkers \ {c} : v3[d] = Reporter!Idle
    BY <2>1, <2>2 DEF Reporter!OneAtATime
  <2>4. \A d \in Reporter!Checkers : v3'[d] = Reporter!Idle /\ v3'[d].at = "idle"
    BY <1>3, <2>3, IdleStep
  <2>5. Reporter!OneAtATime' /\ Reporter!ReportStands'
    BY <2>4 DEF Reporter!OneAtATime, Reporter!ReportStands, Reporter!Under
  <2>6. Reporter!ToldSoFar'
    BY <1>p, <1>2, <2>1, <2>4 DEF Reporter!ToldSoFar, Reporter!Under, Reporter!Bad, r
  <2>7. \A i, k \in 1 .. Len(v6') : i <= k => v6'[i].at <= v6'[k].at
    <3>1. /\ \A i, k \in 1 .. n : i <= k => v6[i].at <= v6[k].at
          /\ \A i \in 1 .. n : v6[i].at <= v1
      BY <1>0, <2>1 DEF Reporter!InTime, Reporter!SpellStands
    <3>2. SUFFICES ASSUME NEW i \in 1 .. n + 1, NEW k \in 1 .. n + 1, i <= k
                   PROVE  v6'[i].at <= v6'[k].at
      BY <1>6
    <3>3. v1 \in Nat
      BY <1>0, SeenForm
    <3> HIDE DEF n
    <3>4. CASE k = n + 1
      <4>1. v6'[k].at = v1
        BY <1>4, <1>6, <3>4
      <4>2. CASE i = n + 1
        BY <3>3, <3>4, <4>1, <4>2
      <4>3. CASE i \in 1 .. n
        BY <1>6, <3>1, <4>1, <4>3
      <4> QED BY <1>5, <4>2, <4>3
    <3>5. CASE k \in 1 .. n
      <4>1. i \in 1 .. n
        BY <1>5, <3>2, <3>5
      <4> QED BY <1>6, <3>1, <3>2, <3>5, <4>1
    <3> QED BY <1>5, <3>4, <3>5
  <2>8. v6'[Len(v6')] = [at |-> v2'.at, failing |-> v2'.read = "set"]
    BY <1>2, <1>6 DEF e
  <2>9. ASSUME r.read = "set"
        PROVE  /\ \E i \in 1 .. Len(v6') :
                    /\ v6'[i].at = r.since /\ \A k \in i .. Len(v6') : v6'[k].failing
                    /\ i > 1 => ~v6'[i - 1].failing
               /\ r.supply = "unhealthy" <=> r.at - r.since >= Persists
    <3>1. /\ r.since = IF v2.read = "set" THEN v2.since ELSE v1
          /\ r.supply = "unhealthy" <=> v1 - r.since >= Persists
      BY <1>p, <2>1, <2>9 DEF Reporter!ReportStands, Reporter!Under, r
    <3>2. CASE v2.read = "set"
      <4>1. PICK i \in 1 .. n :
              /\ v6[i].at = v2.since /\ \A k \in i .. n : v6[k].failing
              /\ i > 1 => ~v6[i - 1].failing
        BY <2>1, <3>2 DEF Reporter!SpellStands
      <4>2. \A k \in i .. n + 1 : v6'[k].failing
        <5> SUFFICES ASSUME NEW k \in i .. n + 1
                     PROVE  v6'[k].failing
          OBVIOUS
        <5> HIDE DEF n
        <5>1. CASE k = n + 1
          BY <1>4, <1>6, <2>9, <5>1
        <5>2. CASE k \in i .. n
          <6>1. k \in 1 .. n
            BY <1>5, <5>2
          <6> QED BY <1>6, <4>1, <5>2, <6>1
        <5> QED BY <1>5, <5>1, <5>2
      <4>3. v6'[i].at = r.since
        BY <1>6, <3>1, <3>2, <4>1
      <4>4. i > 1 => ~v6'[i - 1].failing
        <5> HIDE DEF n
        <5>1. i > 1 => i - 1 \in 1 .. n
          BY <1>5
        <5> QED BY <1>6, <4>1, <5>1
      <4>5. i \in 1 .. n + 1
        BY <1>5
      <4> QED BY <1>1, <1>6, <3>1, <4>2, <4>3, <4>4, <4>5
    <3>3. CASE v2.read # "set"
      <4>1. n > 0 => ~v6[n].failing
        BY <1>5, <2>1, <3>3 DEF Reporter!SpellStands
      <4>2. /\ n + 1 \in 1 .. n + 1 /\ v6'[n + 1].at = r.since
            /\ \A k \in n + 1 .. n + 1 : v6'[k].failing
            /\ n + 1 > 1 => ~v6'[n + 1 - 1].failing
        BY <1>4, <1>5, <1>6, <2>9, <3>1, <3>3, <4>1
      <4> QED BY <1>1, <1>6, <3>1, <4>2
    <3> QED BY <3>2, <3>3
  <2>10. Reporter!SpellStands'
    BY <1>2, <2>7, <2>8, <2>9 DEF Reporter!SpellStands
  <2> QED BY <2>5, <2>6, <2>10
<1> QED BY <1>8, <1>9, <1>10 DEF Reporter!Inductive

LEMMA HealthInductive ==
  ASSUME Reporter!Inductive, [Reporter!Next]_(Reporter!vars)
  PROVE  Reporter!Inductive'
<1>1. CASE UNCHANGED Reporter!vars
  BY <1>1
  DEF Reporter!vars, Reporter!Inductive, Reporter!TypeOK, Reporter!InTime, Reporter!OneAtATime,
      Reporter!ToldSoFar, Reporter!SpellStands, Reporter!ReportStands, Reporter!Under, Reporter!Bad
<1>2. CASE Reporter!Next
  BY <1>2, TimeKeeps, BeginsKeeps, CollectsKeeps, TellsKeeps, WritesKeeps, CutOffKeeps
  DEF Reporter!Next
<1> QED BY <1>1, <1>2

LEMMA HealthStarts ==
  ASSUME Reporter!Init
  PROVE  Reporter!Inductive
<1>1. Reporter!TypeOK
  <2>1. Reporter!None \in Reporter!Reports
    BY HostHealthAssumption DEF Reporter!None, Reporter!Reports, Reporter!Never
  <2> QED BY <2>1, IdleStep, HostHealthAssumption DEF Reporter!Init, Reporter!TypeOK
<1>2. Len(v6) = 0 /\ v6 = <<>> /\ v2.read = "none" /\ v2.status = "none"
  BY DEF Reporter!Init, Reporter!None
<1>3. /\ \A c \in Reporter!Checkers : v3[c] = Reporter!Idle /\ v3[c].at = "idle"
      /\ ~v8 /\ \A n \in Channels : v4[n] = "none"
  BY IdleStep DEF Reporter!Init
<1>4. Reporter!InTime /\ Reporter!OneAtATime /\ Reporter!ReportStands
  BY <1>2, <1>3 DEF Reporter!InTime, Reporter!OneAtATime, Reporter!ReportStands, Reporter!Under
<1>5. Reporter!ToldSoFar /\ Reporter!SpellStands
  BY <1>2, <1>3 DEF Reporter!ToldSoFar, Reporter!SpellStands, Reporter!Under, Reporter!Bad
<1> QED BY <1>1, <1>4, <1>5 DEF Reporter!Inductive

LEMMA ToldRight ==
  ASSUME Reporter!Inductive
  PROVE  Reporter!TransitionsTold
<1> SUFFICES ASSUME ~v9, \A c \in Reporter!Checkers : v3[c] = Reporter!Idle
             PROVE  (\A n \in Channels \ v7 : v4[n] = "unhealthy" <=> Reporter!Bad(v2)) /\ ~v8
  BY DEF Reporter!TransitionsTold
<1>1. \A c \in Reporter!Checkers : v3[c].at # "told"
  BY IdleStep
<1> QED BY <1>1 DEF Reporter!Inductive, Reporter!ToldSoFar, Reporter!Under

LEMMA JudgedRight ==
  ASSUME Reporter!Inductive
  PROVE  Reporter!SupplyJudged
<1> SUFFICES ASSUME ~v9, v2.read = "set"
             PROVE  v2.supply = "unhealthy" <=>
                      \E j \in 1 .. Len(v6) : /\ v2.at - v6[j].at >= Persists
                                              /\ \A k \in j .. Len(v6) : v6[k].failing
  BY DEF Reporter!SupplyJudged
<1>1. Reporter!TypeOK /\ Reporter!SpellStands
  BY DEF Reporter!Inductive
<1>2. v2.supply = "unhealthy" <=> v2.at - v2.since >= Persists
  BY <1>1 DEF Reporter!SpellStands
<1>3. PICK i \in 1 .. Len(v6) :
        /\ v6[i].at = v2.since /\ \A k \in i .. Len(v6) : v6[k].failing
        /\ i > 1 => ~v6[i - 1].failing
  BY <1>1 DEF Reporter!SpellStands
<1>4. v2.at \in Nat
  <2>1. v2 \in Reporter!Reports
    BY <1>1 DEF Reporter!TypeOK
  <2> QED BY <2>1, HostHealthAssumption DEF Reporter!Reports
<1>5. ASSUME NEW j \in 1 .. Len(v6), v2.at - v6[j].at >= Persists,
             \A k \in j .. Len(v6) : v6[k].failing
      PROVE  v2.at - v6[i].at >= Persists
  <2>1. i <= j
    BY <1>1, <1>3, <1>5, SeenForm
  <2>2. v6[i].at <= v6[j].at
    BY <1>1, <2>1 DEF Reporter!SpellStands
  <2> QED BY <1>1, <1>4, <1>5, <2>2, SeenForm, HostHealthAssumption
<1> QED BY <1>2, <1>3, <1>5

-----------------------------------------------------------------------------
(* What commands make of a host's configuration (HostConfig).              *)

LEMMA CommandForm ==
  ASSUME Settings!TypeOK, NEW c \in Admins
  PROVE  \/ v9[c] = Settings!Idle /\ ~Settings!OfFile(v9[c]) /\ ~Settings!Keyed(v9[c])
         \/ /\ v9[c] \in Settings!Changes /\ v9[c] # Settings!Idle /\ Settings!OfFile(v9[c])
            /\ ~Settings!Keyed(v9[c])
         \/ /\ v9[c] \in Settings!KeyChanges /\ v9[c] # Settings!Idle /\ ~Settings!OfFile(v9[c])
            /\ Settings!Keyed(v9[c])
BY DEF Settings!TypeOK, Settings!Idle, Settings!Changes, Settings!KeyChanges, Settings!OfFile,
       Settings!Keyed

LEMMA OneCommands ==
  ASSUME Settings!TypeOK, NEW c \in Admins,
         NEW s \in {Settings!Idle} \cup Settings!Changes \cup Settings!KeyChanges,
         v9' = [v9 EXCEPT ![c] = s]
  PROVE  /\ v9' \in [Admins -> {Settings!Idle} \cup Settings!Changes \cup Settings!KeyChanges]
         /\ v9'[c] = s /\ \A d \in Admins \ {c} : v9'[d] = v9[d]
BY DEF Settings!TypeOK

LEMMA NoCommand ==
  /\ Settings!Idle \in {Settings!Idle} \cup Settings!Changes \cup Settings!KeyChanges
  /\ ~Settings!OfFile(Settings!Idle) /\ ~Settings!Keyed(Settings!Idle)
BY DEF Settings!Idle, Settings!OfFile, Settings!Keyed

(* While none meet, who has the file, or the key, has it alone.            *)
LEMMA OnlyOne ==
  ASSUME Settings!TypeOK, Settings!NoneMeet, NEW c \in Admins, NEW d \in Admins \ {c}
  PROVE  /\ Settings!OfFile(v9[c]) => ~Settings!OfFile(v9[d])
         /\ Settings!Keyed(v9[c]) => ~Settings!Keyed(v9[d])
BY CommandForm DEF Settings!NoneMeet

(* A command changes one channel at most, and the link only for the better. *)
LEMMA ChangeForm ==
  ASSUME NEW q \in Settings!Changes, NEW f \in Settings!Config
  PROVE  /\ Settings!Changed(q, f) \in Settings!Config
         /\ \A i \in ChannelIds :
              Settings!Changed(q, f).channels[i].kind =
                IF q.op \in {"set", "retype"} /\ i = q.id THEN q.kind
                ELSE IF q.op = "remove" /\ i = q.id THEN "none" ELSE f.channels[i].kind
         /\ Settings!Changed(q, f).link <=> (f.link \/ q.op = "link")
         /\ q.op \in {"limit", "link", "apply"} => Settings!Changed(q, f).channels = f.channels
         /\ q.op = "apply" => Settings!Changed(q, f) = f
         /\ q.op = "link" /\ f.link => Settings!Changed(q, f) = f
<1> DEFINE g == Settings!Changed(q, f)
           C == [ChannelIds -> [kind : Settings!Kinds \cup {"none"}, on : BOOLEAN]]
<1>1. /\ q.op \in {"limit", "link", "set", "tune", "remove", "apply", "switch", "retype"}
      /\ q.kind \in Settings!Kinds \cup {"none"} /\ q.n \in 0 .. MaxCommands
  BY HostConfigAssumption DEF Settings!Changes
<1>2. /\ f.channels \in C /\ f.limit \in 0 .. MaxCommands /\ f.link \in BOOLEAN
      /\ f = [channels |-> f.channels, limit |-> f.limit, link |-> f.link]
  BY DEF Settings!Config
<1>3. CASE q.op = "limit"
  <2>1. g = [f EXCEPT !.limit = q.n]
    BY <1>3 DEF Settings!Changed
  <2>2. g = [channels |-> f.channels, limit |-> q.n, link |-> f.link]
    BY <1>2, <2>1
  <2> HIDE DEF g
  <2> QED BY <1>1, <1>2, <1>3, <2>2 DEF Settings!Config, g
<1>4. CASE q.op = "link"
  <2>1. g = [f EXCEPT !.link = TRUE]
    BY <1>4 DEF Settings!Changed
  <2>2. g = [channels |-> f.channels, limit |-> f.limit, link |-> TRUE]
    BY <1>2, <2>1
  <2> HIDE DEF g
  <2> QED BY <1>1, <1>2, <1>4, <2>2 DEF Settings!Config, g
<1>5. CASE q.op = "apply"
  <2>1. g = f
    BY <1>5 DEF Settings!Changed
  <2> HIDE DEF g
  <2> QED BY <1>1, <1>2, <1>5, <2>1 DEF g
<1>6. ASSUME NEW ch, q.op \in {"set", "tune", "switch", "remove", "retype"},
             g = [channels |-> ch, limit |-> f.limit, link |-> f.link], ch \in C,
             \A i \in ChannelIds : ch[i].kind = IF q.op \in {"set", "retype"} /\ i = q.id THEN q.kind
                                     ELSE IF q.op = "remove" /\ i = q.id THEN "none" ELSE f.channels[i].kind
      PROVE  /\ g \in Settings!Config /\ g.link = f.link
             /\ \A i \in ChannelIds :
                  g.channels[i].kind = IF q.op \in {"set", "retype"} /\ i = q.id THEN q.kind
                                       ELSE IF q.op = "remove" /\ i = q.id THEN "none" ELSE f.channels[i].kind
  <2> HIDE DEF g
  <2> QED BY <1>2, <1>6 DEF Settings!Config
<1>7. CASE q.op = "set"
  <2> DEFINE x == [kind |-> q.kind, on |-> TRUE]
             ch == [f.channels EXCEPT ![q.id] = x]
  <2>1. g = [f EXCEPT !.channels[q.id] = x]
    BY <1>7 DEF Settings!Changed
  <2>2. g = [channels |-> ch, limit |-> f.limit, link |-> f.link]
    BY <1>2, <2>1
  <2>3. x \in [kind : Settings!Kinds \cup {"none"}, on : BOOLEAN] /\ x.kind = q.kind
    BY <1>1
  <2> HIDE DEF x, g
  <2>4. ch \in C /\ \A i \in ChannelIds : ch[i] = IF i = q.id THEN x ELSE f.channels[i]
    BY <1>2, <2>3
  <2> HIDE DEF ch
  <2>5. /\ g \in Settings!Config /\ g.link = f.link
        /\ \A i \in ChannelIds :
             g.channels[i].kind = IF q.op \in {"set", "retype"} /\ i = q.id THEN q.kind
                                  ELSE IF q.op = "remove" /\ i = q.id THEN "none" ELSE f.channels[i].kind
    BY <1>6, <1>7, <2>2, <2>3, <2>4
  <2> QED BY <1>2, <1>7, <2>5 DEF g
<1>8. CASE q.op = "remove"
  <2> DEFINE ch == [f.channels EXCEPT ![q.id] = Settings!Off]
  <2>1. g = [f EXCEPT !.channels[q.id] = Settings!Off]
    BY <1>8 DEF Settings!Changed
  <2>2. g = [channels |-> ch, limit |-> f.limit, link |-> f.link]
    BY <1>2, <2>1
  <2>3. /\ Settings!Off \in [kind : Settings!Kinds \cup {"none"}, on : BOOLEAN]
        /\ Settings!Off.kind = "none"
    BY DEF Settings!Off
  <2> HIDE DEF g
  <2>4. ch \in C /\ \A i \in ChannelIds : ch[i] = IF i = q.id THEN Settings!Off ELSE f.channels[i]
    BY <1>2, <2>3
  <2> HIDE DEF ch
  <2>5. /\ g \in Settings!Config /\ g.link = f.link
        /\ \A i \in ChannelIds :
             g.channels[i].kind = IF q.op \in {"set", "retype"} /\ i = q.id THEN q.kind
                                  ELSE IF q.op = "remove" /\ i = q.id THEN "none" ELSE f.channels[i].kind
    BY <1>6, <1>8, <2>2, <2>3, <2>4
  <2> QED BY <1>2, <1>8, <2>5 DEF g
<1>9. CASE q.op \in {"tune", "switch"}
  <2> DEFINE x == [f.channels[q.id] EXCEPT !.on = ~f.channels[q.id].on]
             ch == [f.channels EXCEPT ![q.id] = x]
  <2>1. g = [f EXCEPT !.channels[q.id].on = ~f.channels[q.id].on]
    BY <1>9 DEF Settings!Changed
  <2>2. g = [channels |-> ch, limit |-> f.limit, link |-> f.link]
    BY <1>2, <2>1
  <2> HIDE DEF g
  <2>3. CASE q.id \in ChannelIds
    <3>1. f.channels[q.id] \in [kind : Settings!Kinds \cup {"none"}, on : BOOLEAN]
      BY <1>2, <2>3
    <3>2. x \in [kind : Settings!Kinds \cup {"none"}, on : BOOLEAN] /\ x.kind = f.channels[q.id].kind
      BY <3>1
    <3> HIDE DEF x
    <3>3. ch \in C /\ \A i \in ChannelIds : ch[i] = IF i = q.id THEN x ELSE f.channels[i]
      BY <1>2, <3>2
    <3> HIDE DEF ch
    <3>5. /\ g \in Settings!Config /\ g.link = f.link
          /\ \A i \in ChannelIds :
               g.channels[i].kind = IF q.op \in {"set", "retype"} /\ i = q.id THEN q.kind
                                    ELSE IF q.op = "remove" /\ i = q.id THEN "none" ELSE f.channels[i].kind
      BY <1>6, <1>9, <2>2, <3>2, <3>3
    <3> QED BY <1>2, <1>9, <3>5 DEF g
  <2>4. CASE q.id \notin ChannelIds
    <3> HIDE DEF x
    <3>1. ch \in C /\ \A i \in ChannelIds : ch[i] = f.channels[i]
      BY <1>2, <2>4
    <3> HIDE DEF ch
    <3>5. /\ g \in Settings!Config /\ g.link = f.link
          /\ \A i \in ChannelIds :
               g.channels[i].kind = IF q.op \in {"set", "retype"} /\ i = q.id THEN q.kind
                                    ELSE IF q.op = "remove" /\ i = q.id THEN "none" ELSE f.channels[i].kind
      BY <1>6, <1>9, <2>2, <3>1
    <3> QED BY <1>2, <1>9, <3>5 DEF g
  <2> QED BY <2>3, <2>4
<1>10. CASE q.op = "retype"
  <2> DEFINE x == [f.channels[q.id] EXCEPT !.kind = q.kind]
             ch == [f.channels EXCEPT ![q.id] = x]
  <2>1. g = [f EXCEPT !.channels[q.id].kind = q.kind]
    BY <1>10 DEF Settings!Changed
  <2>2. g = [channels |-> ch, limit |-> f.limit, link |-> f.link]
    BY <1>2, <2>1
  <2> HIDE DEF g
  <2>3. CASE q.id \in ChannelIds
    <3>1. f.channels[q.id] \in [kind : Settings!Kinds \cup {"none"}, on : BOOLEAN]
      BY <1>2, <2>3
    <3>2. x \in [kind : Settings!Kinds \cup {"none"}, on : BOOLEAN] /\ x.kind = q.kind
      BY <1>1, <3>1
    <3> HIDE DEF x
    <3>3. ch \in C /\ \A i \in ChannelIds : ch[i] = IF i = q.id THEN x ELSE f.channels[i]
      BY <1>2, <3>2
    <3> HIDE DEF ch
    <3>5. /\ g \in Settings!Config /\ g.link = f.link
          /\ \A i \in ChannelIds :
               g.channels[i].kind = IF q.op \in {"set", "retype"} /\ i = q.id THEN q.kind
                                    ELSE IF q.op = "remove" /\ i = q.id THEN "none" ELSE f.channels[i].kind
      BY <1>6, <1>10, <2>2, <3>2, <3>3
    <3> QED BY <1>2, <1>10, <3>5 DEF g
  <2>4. CASE q.id \notin ChannelIds
    <3> HIDE DEF x
    <3>1. ch \in C /\ \A i \in ChannelIds : ch[i] = f.channels[i]
      BY <1>2, <2>4
    <3> HIDE DEF ch
    <3>5. /\ g \in Settings!Config /\ g.link = f.link
          /\ \A i \in ChannelIds :
               g.channels[i].kind = IF q.op \in {"set", "retype"} /\ i = q.id THEN q.kind
                                    ELSE IF q.op = "remove" /\ i = q.id THEN "none" ELSE f.channels[i].kind
      BY <1>6, <1>10, <2>2, <2>4, <3>1
    <3> QED BY <1>2, <1>10, <3>5 DEF g
  <2> QED BY <2>3, <2>4
<1> QED BY <1>1, <1>3, <1>4, <1>5, <1>7, <1>8, <1>9, <1>10

LEMMA RenderForm ==
  ASSUME NEW f \in Settings!Config
  PROVE  /\ Settings!Rendered(f) \in Settings!Config
         /\ Settings!Valid(f) => Settings!Valid(Settings!Rendered(f))
<1> DEFINE x(i) == IF f.channels[i].on THEN f.channels[i] ELSE Settings!Off
           ch == [i \in ChannelIds |-> x(i)]
           g == Settings!Rendered(f)
<1>1. /\ f.channels \in [ChannelIds -> [kind : Settings!Kinds \cup {"none"}, on : BOOLEAN]]
      /\ f.limit \in 0 .. MaxCommands /\ f.link \in BOOLEAN
      /\ f = [channels |-> f.channels, limit |-> f.limit, link |-> f.link]
  BY DEF Settings!Config
<1>2. g = [f EXCEPT !.channels = ch]
  BY DEF Settings!Rendered
<1>3. g = [channels |-> ch, limit |-> f.limit, link |-> f.link]
  BY <1>1, <1>2
<1>4. /\ Settings!Off \in [kind : Settings!Kinds \cup {"none"}, on : BOOLEAN]
      /\ Settings!Off.kind = "none"
  BY DEF Settings!Off
<1>5. \A i \in ChannelIds : /\ x(i) \in [kind : Settings!Kinds \cup {"none"}, on : BOOLEAN]
                            /\ x(i).kind \in {f.channels[i].kind, "none"}
  BY <1>1, <1>4
<1> HIDE DEF g, x
<1>6. g \in Settings!Config
  BY <1>1, <1>3, <1>5 DEF Settings!Config
<1>7. g.link = f.link /\ \A i \in ChannelIds : g.channels[i] = x(i)
  BY <1>3
<1>8. Settings!Valid(f) => Settings!Valid(g)
  BY <1>5, <1>7 DEF Settings!Valid
<1> QED BY <1>6, <1>8 DEF g

LEMMA RenderSame ==
  ASSUME NEW f \in Settings!Config, NEW g \in Settings!Config, f.channels = g.channels
  PROVE  Settings!Rendered(f).channels = Settings!Rendered(g).channels
<1> DEFINE ch(h) == [i \in ChannelIds |-> IF h.channels[i].on THEN h.channels[i] ELSE Settings!Off]
<1>1. ASSUME NEW h \in Settings!Config
      PROVE  Settings!Rendered(h).channels = ch(h)
  <2>1. h = [channels |-> h.channels, limit |-> h.limit, link |-> h.link]
    BY DEF Settings!Config
  <2>2. Settings!Rendered(h) = [h EXCEPT !.channels = ch(h)]
    BY DEF Settings!Rendered
  <2> HIDE DEF ch
  <2> QED BY <2>1, <2>2
<1> QED BY <1>1

LEMMA StartsChange ==
  ASSUME Settings!Inductive, NEW c \in Admins, NEW q \in Settings!Changes,
         q.read = v1, q.n = v10 + 1, ~q.secret, Settings!Valid(Settings!Changed(q, v1)),
         q.at \in {"asks", "loaded"} \/ (q.op = "apply" /\ q.at = "written"),
         q.at = "asks" => q.op \in {"link", "set"} /\ q.kind # "none",
         q.op = "set" => q.kind # "none" /\ (q.at = "asks" <=> q.kind # "callmebot"),
         q.op = "retype" => q.kind # "none",
         Settings!Begins(c, q), UNCHANGED <<v1, v2, v3, v4, v5, v6, v7, v8, v11, v12, v13, v15>>
  PROVE  Settings!Inductive'
<1>0. Settings!TypeOK /\ Settings!StaysValid
  BY DEF Settings!Inductive
<1>1. /\ v9[c] = Settings!Idle /\ v10 < MaxCommands /\ v10' = v10 + 1 /\ v9' = [v9 EXCEPT ![c] = q]
      /\ v14' = (v14 \/ \E d \in Admins : /\ v9[d] # Settings!Idle /\ q # Settings!Idle
                                          /\ (Settings!Keyed(v9[d]) <=> Settings!Keyed(q)))
  BY DEF Settings!Begins
<1>2. Settings!OfFile(q) /\ ~Settings!Keyed(q) /\ q # Settings!Idle
  BY DEF Settings!Changes, Settings!OfFile, Settings!Keyed, Settings!Idle
<1>3. /\ v9' \in [Admins -> {Settings!Idle} \cup Settings!Changes \cup Settings!KeyChanges]
      /\ v9'[c] = q /\ \A d \in Admins \ {c} : v9'[d] = v9[d]
  BY <1>0, <1>1, OneCommands
<1>4. v10 \in Nat /\ v10' \in 0 .. MaxCommands
  BY <1>0, <1>1, HostConfigAssumption DEF Settings!TypeOK
<1>5. Settings!TypeOK'
  <2>1. v5 \in [Settings!Kinds -> 0 .. v10'] /\ v12 \in [ChannelIds -> 0 .. v10']
    <3>1. v5 \in [Settings!Kinds -> 0 .. v10] /\ v12 \in [ChannelIds -> 0 .. v10]
      BY <1>0 DEF Settings!TypeOK
    <3>2. \A x \in 0 .. v10 : x \in 0 .. v10'
      BY <1>1, <1>4
    <3> QED BY <3>1, <3>2
  <2>2. v14' \in BOOLEAN
    BY <1>0, <1>1 DEF Settings!TypeOK
  <2> QED BY <1>0, <1>3, <1>4, <2>1, <2>2 DEF Settings!TypeOK
<1>6. Settings!StaysValid'
  <2>1. \A d \in Admins \ {c} : Settings!OfFile(v9'[d]) =>
          /\ Settings!Valid(Settings!Changed(v9'[d], v9'[d].read)) /\ v9'[d].n <= v10'
          /\ v9'[d].op = "retype" => v9'[d].kind # "none"
    <3> SUFFICES ASSUME NEW d \in Admins \ {c}, Settings!OfFile(v9[d])
                 PROVE  /\ Settings!Valid(Settings!Changed(v9[d], v9[d].read)) /\ v9[d].n <= v10'
                        /\ v9[d].op = "retype" => v9[d].kind # "none"
      BY <1>3
    <3>1. /\ Settings!Valid(Settings!Changed(v9[d], v9[d].read)) /\ v9[d].n <= v10
          /\ v9[d].op = "retype" => v9[d].kind # "none"
      BY <1>0 DEF Settings!StaysValid
    <3>2. v9[d].n \in Nat
      BY <1>0, CommandForm, HostConfigAssumption DEF Settings!Changes
    <3> QED BY <1>1, <1>4, <3>1, <3>2
  <2>2. Settings!Valid(Settings!Changed(q, q.read)) /\ q.n <= v10' /\ (q.op = "retype" => q.kind # "none")
    BY <1>1, <1>4
  <2> QED BY <1>0, <1>3, <2>1, <2>2 DEF Settings!StaysValid, Settings!Valid
<1>7. ASSUME ~v14'
      PROVE  /\ Settings!NoneMeet' /\ Settings!InForce' /\ Settings!Newcomer' /\ Settings!OneFileEach'
             /\ Settings!Credited'
             /\ Settings!KeyPair'
  <2>1. ~v14 /\ \A d \in Admins : v9[d] # Settings!Idle => Settings!Keyed(v9[d])
    BY <1>1, <1>2, <1>7, CommandForm, <1>0
  <2>2. Settings!NoneMeet /\ Settings!InForce /\ Settings!Newcomer /\ Settings!OneFileEach
      /\ Settings!Credited /\ Settings!KeyPair
    BY <2>1 DEF Settings!Inductive
  <2>3. \A d \in Admins : ~Settings!OfFile(v9[d])
    BY <1>0, <2>1, CommandForm
  <2>4. v1 = v11 /\ v2 = Settings!Rendered(v11) /\ Settings!Told
    BY <2>2, <2>3 DEF Settings!InForce
  <2>5. q.op = "apply" => Settings!Changed(q, v11) = v11
    BY <1>0, ChangeForm DEF Settings!TypeOK
  <2>6. Settings!NoneMeet'
    BY <1>2, <1>3, <2>1, <2>2 DEF Settings!NoneMeet
  <2>7. Settings!InForce'
    BY <1>2, <1>3, <2>3, <2>4, <2>5 DEF Settings!InForce, Settings!Told
  <2>8. (\A i \in ChannelIds : v12[i] < q.n) /\ (\A k \in Settings!Kinds : v5[k] < q.n)
    BY <1>0, <1>4 DEF Settings!TypeOK
  <2>9. Settings!Newcomer'
    BY <1>2, <1>3, <2>3, <2>8 DEF Settings!Newcomer
  <2>f. Settings!OneFileEach'
    BY <2>2 DEF Settings!OneFileEach
  <2>10. Settings!Credited'
    BY <2>2 DEF Settings!Credited, Settings!HasItsCredential, Settings!Held
  <2>11. Settings!KeyPair'
    BY <1>1, <1>2, <1>3, <2>2, NoCommand DEF Settings!KeyPair
  <2> QED BY <2>f, <2>6, <2>7, <2>9, <2>10, <2>11
<1> QED BY <1>5, <1>6, <1>7 DEF Settings!Inductive

(* A command that begins on the key, or one that is turned away.            *)
LEMMA StartsKey ==
  ASSUME Settings!Inductive, NEW c \in Admins, NEW q,
         \/ q = Settings!Idle /\ v8' = v8
         \/ q \in Settings!KeyChanges /\ q.op = "rotate" /\ q.at = "made" /\ v8' = q.pem
         \/ q \in Settings!KeyChanges /\ q.op = "repair" /\ q.at = "publish" /\ v8' = v8 /\ v6 # v7,
         Settings!Begins(c, q), UNCHANGED <<v1, v2, v3, v4, v5, v6, v7, v11, v12, v13, v15>>
  PROVE  Settings!Inductive'
<1>0. Settings!TypeOK /\ Settings!StaysValid
  BY DEF Settings!Inductive
<1>1. /\ v9[c] = Settings!Idle /\ v10 < MaxCommands /\ v10' = v10 + 1 /\ v9' = [v9 EXCEPT ![c] = q]
      /\ v14' = (v14 \/ \E d \in Admins : /\ v9[d] # Settings!Idle /\ q # Settings!Idle
                                          /\ (Settings!Keyed(v9[d]) <=> Settings!Keyed(q)))
  BY DEF Settings!Begins
<1>2. /\ ~Settings!OfFile(q) /\ (q # Settings!Idle <=> Settings!Keyed(q))
      /\ q \in {Settings!Idle} \cup Settings!Changes \cup Settings!KeyChanges
      /\ v8' \in {Settings!Empty} \cup Settings!SealKeys
  BY <1>0 DEF Settings!KeyChanges, Settings!OfFile, Settings!Keyed, Settings!Idle, Settings!TypeOK
<1>3. /\ v9' \in [Admins -> {Settings!Idle} \cup Settings!Changes \cup Settings!KeyChanges]
      /\ v9'[c] = q /\ \A d \in Admins \ {c} : v9'[d] = v9[d]
  BY <1>0, <1>1, <1>2, OneCommands
<1>4. v10 \in Nat /\ v10' \in 0 .. MaxCommands
  BY <1>0, <1>1, HostConfigAssumption DEF Settings!TypeOK
<1>5. Settings!TypeOK'
  <2>1. v5 \in [Settings!Kinds -> 0 .. v10'] /\ v12 \in [ChannelIds -> 0 .. v10']
    <3>1. v5 \in [Settings!Kinds -> 0 .. v10] /\ v12 \in [ChannelIds -> 0 .. v10]
      BY <1>0 DEF Settings!TypeOK
    <3>2. \A x \in 0 .. v10 : x \in 0 .. v10'
      BY <1>1, <1>4
    <3> QED BY <3>1, <3>2
  <2>2. v14' \in BOOLEAN
    BY <1>0, <1>1 DEF Settings!TypeOK
  <2> QED BY <1>0, <1>2, <1>3, <1>4, <2>1, <2>2 DEF Settings!TypeOK
<1>6. Settings!StaysValid'
  <2>1. \A d \in Admins : Settings!OfFile(v9'[d]) =>
          /\ Settings!Valid(Settings!Changed(v9'[d], v9'[d].read)) /\ v9'[d].n <= v10'
          /\ v9'[d].op = "retype" => v9'[d].kind # "none"
    <3> SUFFICES ASSUME NEW d \in Admins \ {c}, Settings!OfFile(v9[d])
                 PROVE  /\ Settings!Valid(Settings!Changed(v9[d], v9[d].read)) /\ v9[d].n <= v10'
                        /\ v9[d].op = "retype" => v9[d].kind # "none"
      BY <1>2, <1>3
    <3>1. /\ Settings!Valid(Settings!Changed(v9[d], v9[d].read)) /\ v9[d].n <= v10
          /\ v9[d].op = "retype" => v9[d].kind # "none"
      BY <1>0 DEF Settings!StaysValid
    <3>2. v9[d].n \in Nat
      BY <1>0, CommandForm, HostConfigAssumption DEF Settings!Changes
    <3> QED BY <1>1, <1>4, <3>1, <3>2
  <2> QED BY <1>0, <2>1 DEF Settings!StaysValid, Settings!Valid
<1>7. ASSUME ~v14'
      PROVE  /\ Settings!NoneMeet' /\ Settings!InForce' /\ Settings!Newcomer' /\ Settings!OneFileEach'
             /\ Settings!Credited'
             /\ Settings!KeyPair'
  <2>1. ~v14 /\ (q # Settings!Idle => \A d \in Admins : ~Settings!Keyed(v9[d]))
    BY <1>0, <1>1, <1>2, <1>7, CommandForm
  <2>2. Settings!NoneMeet /\ Settings!InForce /\ Settings!Newcomer /\ Settings!OneFileEach
      /\ Settings!Credited /\ Settings!KeyPair
    BY <2>1 DEF Settings!Inductive
  <2>6. Settings!NoneMeet'
    BY <1>0, <1>2, <1>3, <2>1, <2>2, CommandForm DEF Settings!NoneMeet
  <2>7. Settings!InForce'
    BY <1>1, <1>2, <1>3, <2>2, NoCommand DEF Settings!InForce, Settings!Told
  <2>9. Settings!Newcomer'
    BY <1>2, <1>3, <2>2 DEF Settings!Newcomer
  <2>f. Settings!OneFileEach'
    BY <2>2 DEF Settings!OneFileEach
  <2>10. Settings!Credited'
    BY <2>2 DEF Settings!Credited, Settings!HasItsCredential, Settings!Held
  <2>11. Settings!KeyPair'
    <3>1. CASE q = Settings!Idle
      <4>1. \A d \in Admins : v9'[d] = v9[d]
        BY <1>1, <1>3, <3>1
      <4>2. v8' = v8
        BY <3>1 DEF Settings!KeyChanges, Settings!Idle
      <4> QED BY <2>2, <4>1, <4>2 DEF Settings!KeyPair
    <3>2. CASE q # Settings!Idle
      <4>1. v6 = v7 /\ \A d \in Admins \ {c} : ~Settings!Keyed(v9'[d])
        BY <1>3, <2>1, <2>2, <3>2 DEF Settings!KeyPair
      <4>2. q.at = "made" /\ v8' = q.pem
        BY <3>2, <4>1
      <4> QED BY <1>2, <1>3, <3>2, <4>1, <4>2 DEF Settings!KeyPair
    <3> QED BY <3>1, <3>2
  <2> QED BY <2>f, <2>6, <2>7, <2>9, <2>10, <2>11
<1> QED BY <1>5, <1>6, <1>7 DEF Settings!Inductive

(* A command goes a step, or ends, and meets nobody by that.                *)
LEMMA GoesOn ==
  ASSUME Settings!TypeOK, NEW c \in Admins, v9[c] # Settings!Idle,
         NEW s \in {Settings!Idle} \cup Settings!Changes \cup Settings!KeyChanges,
         s = Settings!Idle \/ (Settings!Keyed(s) <=> Settings!Keyed(v9[c])),
         v9' = [v9 EXCEPT ![c] = s]
  PROVE  Settings!NoneMeet => Settings!NoneMeet'
<1>1. v9'[c] = s /\ \A d \in Admins \ {c} : v9'[d] = v9[d]
  BY OneCommands
<1> QED BY <1>1 DEF Settings!NoneMeet

LEMMA FileStep ==
  ASSUME NEW q \in Settings!Changes, NEW at \in {"loaded", "written", "applied"}
  PROVE  LET s == [q EXCEPT !.at = at] IN
         /\ s \in Settings!Changes /\ s.at = at
         /\ s.op = q.op /\ s.n = q.n /\ s.id = q.id /\ s.kind = q.kind /\ s.read = q.read
         /\ s.secret = q.secret
BY DEF Settings!Changes

LEMMA SameChange ==
  ASSUME NEW q, NEW s, s.op = q.op, s.n = q.n, s.id = q.id, s.kind = q.kind, NEW f
  PROVE  Settings!Changed(s, f) = Settings!Changed(q, f)
BY DEF Settings!Changed

(* What is valid stays it, whatever one command on the file does.           *)
LEMMA StillValid ==
  ASSUME Settings!TypeOK, Settings!StaysValid, NEW c \in Admins, v9[c] \in Settings!Changes,
         NEW s \in {Settings!Idle} \cup Settings!Changes \cup Settings!KeyChanges,
         \/ s = Settings!Idle
         \/ /\ s.op = v9[c].op /\ s.n = v9[c].n /\ s.id = v9[c].id /\ s.kind = v9[c].kind
            /\ s.read = v9[c].read,
         v9' = [v9 EXCEPT ![c] = s], v10' = v10,
         Settings!Valid(v1'), Settings!Valid(v2')
  PROVE  Settings!StaysValid'
<1>1. v9'[c] = s /\ \A d \in Admins \ {c} : v9'[d] = v9[d]
  BY OneCommands
<1>2. Settings!OfFile(v9[c])
  BY DEF Settings!OfFile, Settings!Changes
<1>3. Settings!OfFile(s) => /\ Settings!Valid(Settings!Changed(s, s.read)) /\ s.n <= v10
                            /\ s.op = "retype" => s.kind # "none"
  BY <1>2, NoCommand, SameChange DEF Settings!StaysValid
<1> QED BY <1>1, <1>3 DEF Settings!StaysValid, Settings!Valid

LEMMA StoresKeeps ==
  ASSUME Settings!Inductive, NEW c \in Admins, Settings!StoresSecret(c)
  PROVE  Settings!Inductive'
<1> DEFINE q == v9[c]
           s == [q EXCEPT !.at = IF q.op = "link" /\ q.read.link THEN "applied" ELSE "loaded",
                          !.secret = TRUE]
           x == IF Settings!Opens(q) THEN q.n ELSE Settings!Empty
<1>0. Settings!TypeOK /\ Settings!StaysValid
  BY DEF Settings!Inductive
<1>1. q \in Settings!Changes /\ q.at = "asks" /\ q # Settings!Idle /\ Settings!OfFile(q) /\ ~Settings!Keyed(q)
  BY <1>0, CommandForm DEF Settings!StoresSecret, Settings!Under, Settings!KeyChanges, Settings!Idle
<1>2. /\ v15' = (v15 \/ ~Settings!Opens(q)) /\ UNCHANGED <<v1, v2, v3, v4, v6, v7, v8, v10, v11, v12, v13, v14>>
      /\ \/ /\ q.op = "link" /\ ~Settings!Opens(q)
            /\ v9' = [v9 EXCEPT ![c] = Settings!Idle] /\ v5' = v5
         \/ v5' = [v5 EXCEPT ![q.kind] = x] /\ v9' = [v9 EXCEPT ![c] = s]
  BY DEF Settings!StoresSecret, Settings!seal
<1>3. /\ s \in Settings!Changes /\ s.secret = TRUE /\ s.op = q.op /\ s.n = q.n /\ s.id = q.id
      /\ s.kind = q.kind /\ s.read = q.read
      /\ s.at = IF q.op = "link" /\ q.read.link THEN "applied" ELSE "loaded"
  <2> HIDE DEF q
  <2> QED BY <1>1 DEF Settings!Changes
<1>4. Settings!OfFile(s) /\ ~Settings!Keyed(s)
  BY <1>1, <1>3 DEF Settings!OfFile, Settings!Keyed
<1>5. x \in 0 .. v10
  BY <1>0, <1>1, HostConfigAssumption DEF Settings!TypeOK, Settings!StaysValid, Settings!Empty, Settings!Changes
<1>n. /\ q.n \in Nat /\ q.n # 0 /\ q.n <= v10 /\ q.read \in Settings!Config
      /\ v5 \in [Settings!Kinds -> 0 .. v10] /\ v12 \in [ChannelIds -> 0 .. v10] /\ v10 \in Nat
  BY <1>0, <1>1, HostConfigAssumption DEF Settings!TypeOK, Settings!StaysValid, Settings!Changes
<1>o. (Settings!Opens(q) => x = q.n) /\ Settings!Opens(q) \in BOOLEAN
  BY DEF Settings!Opens
<1> HIDE DEF s, x, q
<1>6. PICK t \in {Settings!Idle, s} :
        /\ v9' = [v9 EXCEPT ![c] = t]
        /\ t = Settings!Idle => v5' = v5 /\ ~Settings!Opens(q)
        /\ t = s => v5' = [v5 EXCEPT ![q.kind] = x]
  <2>1. s # Settings!Idle
    BY <1>4, NoCommand
  <2> QED BY <1>2, <2>1
<1>7. t \in {Settings!Idle} \cup Settings!Changes \cup Settings!KeyChanges
  BY <1>3
<1>8. /\ v9' \in [Admins -> {Settings!Idle} \cup Settings!Changes \cup Settings!KeyChanges]
      /\ v9'[c] = t /\ \A d \in Admins \ {c} : v9'[d] = v9[d]
  BY <1>0, <1>6, <1>7, OneCommands
<1>9. v5' \in [Settings!Kinds -> 0 .. v10] /\ \A k \in Settings!Kinds : k # q.kind => v5'[k] = v5[k]
  BY <1>n, <1>5, <1>6
<1>10. Settings!TypeOK'
  <2>1. v15' \in BOOLEAN
    BY <1>0, <1>2, <1>o DEF Settings!TypeOK
  <2> QED BY <1>0, <1>2, <1>8, <1>9, <2>1 DEF Settings!TypeOK
<1>11. Settings!StaysValid'
  BY <1>0, <1>1, <1>2, <1>3, <1>6, <1>7, StillValid DEF Settings!StaysValid, q
<1>12. ASSUME ~v14'
       PROVE  /\ Settings!NoneMeet' /\ Settings!InForce' /\ Settings!Newcomer' /\ Settings!OneFileEach'
             /\ Settings!Credited'
              /\ Settings!KeyPair'
  <2>1. Settings!NoneMeet /\ Settings!InForce /\ Settings!Newcomer /\ Settings!OneFileEach
      /\ Settings!Credited /\ Settings!KeyPair
    BY <1>2, <1>12 DEF Settings!Inductive
  <2>2. \A d \in Admins \ {c} : ~Settings!OfFile(v9[d])
    BY <1>0, <1>1, <2>1, OnlyOne DEF q
  <2>3. Settings!NoneMeet'
    BY <1>0, <1>1, <1>4, <1>6, <1>7, <2>1, GoesOn DEF q
  <2>4. q.read = v11 /\ v1 = v11 /\ v2 = Settings!Rendered(v11) /\ Settings!Told
    BY <1>1, <2>1 DEF Settings!InForce, q
  <2>5. /\ \A i \in ChannelIds : v12[i] < q.n
        /\ \A k \in Settings!Kinds : k # q.kind => v5[k] < q.n
        /\ q.op \in {"link", "set"} /\ q.kind \in Settings!Kinds /\ (q.op = "set" => q.kind # "callmebot")
    BY <1>1, <2>1 DEF Settings!Newcomer, q, Settings!Changes
  <2>6. Settings!InForce'
    <3>1. Settings!Told'
      BY <1>2, <2>4 DEF Settings!Told
    <3>2. CASE t = Settings!Idle
      BY <1>2, <1>8, <2>2, <2>4, <3>1, <3>2, NoCommand DEF Settings!InForce
    <3>3. CASE t = s
      <4>1. s.at = "applied" => Settings!Changed(s, v11) = v11
        BY <1>3, <1>n, <2>4, ChangeForm
      <4>2. s.at \in {"loaded", "applied"}
        BY <1>3
      <4> QED BY <1>2, <1>3, <1>4, <1>8, <2>2, <2>4, <3>1, <3>3, <4>1, <4>2 DEF Settings!InForce
    <3> QED BY <1>6, <3>2, <3>3
  <2>7. Settings!Newcomer'
    <3>1. CASE t = Settings!Idle
      BY <1>8, <2>2, <3>1, NoCommand DEF Settings!Newcomer
    <3>2. CASE t = s
      <4>1. ~v15' => v5'[q.kind] = q.n
        BY <1>2, <1>6, <1>n, <1>o, <2>5, <3>2
      <4>2. /\ \A i \in ChannelIds : v12'[i] < s.n
            /\ \A k \in Settings!Kinds : k # s.kind \/ ~s.secret => v5'[k] < s.n
            /\ s.secret /\ ~v15' => v5'[s.kind] = s.n
        BY <1>2, <1>3, <1>9, <2>5, <4>1
      <4>3. /\ s.op \in {"link", "set"} /\ s.kind # "none"
            /\ s.op = "set" => s.kind # "callmebot"
        BY <1>3, <2>5 DEF Settings!Kinds
      <4>4. \A d \in Admins : Settings!OfFile(v9'[d]) => v9'[d] = s
        BY <1>8, <2>2, <3>2
      <4> QED BY <1>3, <4>2, <4>3, <4>4 DEF Settings!Newcomer
    <3> QED BY <1>6, <3>1, <3>2
  <2>f. Settings!OneFileEach'
    <3>1. \A k \in Settings!Kinds \ {q.kind} : v5'[k] < q.n
      BY <1>9, <2>5
    <3>2. v5' = v5 \/ v5'[q.kind] = q.n \/ v5'[q.kind] = Settings!Empty
      <4>1. CASE t = s /\ q.kind \in Settings!Kinds
        <5>1. v5'[q.kind] = x
          BY <1>6, <1>n, <4>1
        <5> QED BY <5>1 DEF x
      <4>2. CASE t # s \/ q.kind \notin Settings!Kinds
        BY <1>6, <1>n, <4>2
      <4> QED BY <4>1, <4>2
    <3> QED BY <1>9, <1>n, <2>1, <3>1, <3>2 DEF Settings!OneFileEach
  <2>8. Settings!Credited'
    <3> SUFFICES ASSUME ~v15', NEW i \in Settings!Held(v11), v11.channels[i].kind # "callmebot"
                 PROVE  LET k == v11.channels[i].kind IN
                        \/ v5'[k] = v12[i]
                        \/ v5'[k] > v12[i] /\ \A j \in Settings!Held(v11) \ {i} :
                                                v11.channels[j].kind # k => v12[j] # v5'[k]
      BY <1>2 DEF Settings!Credited, Settings!HasItsCredential, Settings!Held
    <3> DEFINE k == v11.channels[i].kind
    <3>1. i \in ChannelIds /\ k \in Settings!Kinds
      BY <1>0 DEF Settings!Held, Settings!TypeOK, Settings!Config
    <3>2. ~v15 /\ Settings!Opens(q)
      BY <1>2
    <3>3. \/ v5[k] = v12[i]
          \/ v5[k] > v12[i] /\ \A j \in Settings!Held(v11) \ {i} : v11.channels[j].kind # k => v12[j] # v5[k]
      BY <2>1, <3>2 DEF Settings!Credited, Settings!HasItsCredential
    <3> HIDE DEF k
    <3>4. CASE k # q.kind
      BY <1>9, <3>1, <3>3, <3>4 DEF k
    <3>5. CASE k = q.kind
      <4>1. v5'[k] = q.n
        BY <1>6, <1>n, <1>o, <2>5, <3>2, <3>5
      <4>2. \A j \in Settings!Held(v11) : v12[j] < q.n /\ v12[j] \in Nat
        BY <1>n, <2>5 DEF Settings!Held
      <4> QED BY <1>n, <4>1, <4>2 DEF k
    <3> QED BY <3>4, <3>5
  <2>9. Settings!KeyPair'
    BY <1>1, <1>2, <1>4, <1>6, <1>8, <2>1, NoCommand DEF Settings!KeyPair, q
  <2> QED BY <2>f, <2>3, <2>6, <2>7, <2>8, <2>9
<1> QED BY <1>10, <1>11, <1>12 DEF Settings!Inductive

(* The file or the environment is written by the command that has both.      *)
LEMMA WritesKeepFile ==
  ASSUME Settings!Inductive, NEW c \in Admins, Settings!WritesConfig(c) \/ Settings!Applies(c)
  PROVE  Settings!Inductive'
<1> DEFINE q == v9[c]
           g == Settings!Changed(q, q.read)
<1>0. Settings!TypeOK /\ Settings!StaysValid
  BY DEF Settings!Inductive
<1>1. /\ q \in Settings!Changes /\ q.at \in {"loaded", "written"} /\ q # Settings!Idle
      /\ Settings!OfFile(q) /\ ~Settings!Keyed(q)
  BY <1>0, CommandForm
     DEF Settings!WritesConfig, Settings!Applies, Settings!Under, Settings!KeyChanges, Settings!Idle
<1>2. PICK at \in {"written", "applied"} :
        /\ v9' = [v9 EXCEPT ![c].at = at]
        /\ UNCHANGED <<v3, v4, v5, v6, v7, v8, v10, v11, v12, v13, v14, v15>>
        /\ \/ at = "written" /\ q.at = "loaded" /\ v1' = g /\ v2' = v2
           \/ at = "applied" /\ q.at = "written" /\ v1' = v1 /\ v2' = Settings!Rendered(g)
  BY DEF Settings!WritesConfig, Settings!Applies, Settings!Goes, Settings!seal, Settings!Under
<1> DEFINE s == [q EXCEPT !.at = at]
<1>3. /\ s \in Settings!Changes /\ s.at = at
      /\ s.op = q.op /\ s.n = q.n /\ s.id = q.id /\ s.kind = q.kind /\ s.read = q.read
      /\ s.secret = q.secret
  <2> HIDE DEF q
  <2>1. q \in Settings!Changes /\ at \in {"loaded", "written", "applied"}
    BY <1>1
  <2> QED BY <2>1, FileStep
<1>u. v9' = [v9 EXCEPT ![c] = s]
  BY <1>2
<1>4. Settings!OfFile(s) /\ ~Settings!Keyed(s)
  BY <1>1, <1>3 DEF Settings!OfFile, Settings!Keyed
<1>5. g \in Settings!Config /\ Settings!Valid(g) /\ q.read \in Settings!Config
  BY <1>0, <1>1, ChangeForm DEF Settings!StaysValid, Settings!Changes
<1>6. Settings!Rendered(g) \in Settings!Config /\ Settings!Valid(Settings!Rendered(g))
  BY <1>5, RenderForm
<1> HIDE DEF s, g, q
<1>7. Settings!Valid(v1') /\ Settings!Valid(v2') /\ {v1', v2'} \subseteq Settings!Config
  BY <1>0, <1>2, <1>5, <1>6 DEF Settings!StaysValid, Settings!TypeOK
<1>8. /\ v9' \in [Admins -> {Settings!Idle} \cup Settings!Changes \cup Settings!KeyChanges]
      /\ v9'[c] = s /\ \A d \in Admins \ {c} : v9'[d] = v9[d]
  BY <1>0, <1>u, <1>3, OneCommands
<1>9. Settings!TypeOK'
  BY <1>0, <1>2, <1>7, <1>8 DEF Settings!TypeOK
<1>10. Settings!StaysValid'
  BY <1>0, <1>1, <1>2, <1>3, <1>u, <1>7, StillValid DEF q
<1>11. ASSUME ~v14'
       PROVE  /\ Settings!NoneMeet' /\ Settings!InForce' /\ Settings!Newcomer' /\ Settings!OneFileEach'
             /\ Settings!Credited'
              /\ Settings!KeyPair'
  <2>1. Settings!NoneMeet /\ Settings!InForce /\ Settings!Newcomer /\ Settings!OneFileEach
      /\ Settings!Credited /\ Settings!KeyPair
    BY <1>2, <1>11 DEF Settings!Inductive
  <2>2. \A d \in Admins \ {c} : ~Settings!OfFile(v9[d])
    BY <1>0, <1>1, <2>1, OnlyOne DEF q
  <2>3. Settings!NoneMeet'
    BY <1>0, <1>1, <1>3, <1>4, <1>u, <2>1, GoesOn DEF q
  <2>4. /\ q.read = v11 /\ v1 = (IF q.at = "loaded" THEN v11 ELSE Settings!Changed(q, v11))
        /\ v2 = Settings!Rendered(v11) /\ Settings!Told
    BY <1>1, <2>1 DEF Settings!InForce, q
  <2>5. g = Settings!Changed(q, v11) /\ g = Settings!Changed(s, v11)
    BY <1>3, <2>4, SameChange DEF g
  <2>6. at = "applied" /\ s.op \in {"limit", "link", "apply"} => Settings!Told'
    <3> SUFFICES ASSUME at = "applied", s.op \in {"limit", "link", "apply"}
                 PROVE  Settings!Told'
      OBVIOUS
    <3>1. v11 \in Settings!Config
      BY <1>0 DEF Settings!TypeOK
    <3>2. g.channels = v11.channels
      BY <1>1, <1>3, <2>5, <3>1, ChangeForm
    <3>3. Settings!Rendered(g).channels = Settings!Rendered(v11).channels
      BY <1>5, <3>1, <3>2, RenderSame
    <3>4. v2' = Settings!Rendered(g)
      BY <1>2
    <3> QED BY <1>2, <2>4, <3>3, <3>4 DEF Settings!Told
  <2>7. at = "written" => Settings!Told'
    BY <1>2, <2>4 DEF Settings!Told
  <2>8. /\ v1' = Settings!Changed(s, v11)
        /\ v2' = Settings!Rendered(IF at = "applied" THEN Settings!Changed(s, v11) ELSE v11)
    BY <1>2, <2>4, <2>5
  <2>9. \A d \in Admins : Settings!OfFile(v9'[d]) => v9'[d] = s
    BY <1>8, <2>2
  <2>10. Settings!InForce'
    BY <1>2, <1>3, <1>4, <1>8, <2>4, <2>6, <2>7, <2>8, <2>9 DEF Settings!InForce
  <2>11. Settings!Newcomer'
    <3>1. /\ \A i \in ChannelIds : v12[i] < q.n
          /\ \A k \in Settings!Kinds : k # q.kind \/ ~q.secret => v5[k] < q.n
          /\ q.secret /\ ~v15 => v5[q.kind] = q.n
          /\ q.secret => q.op \in {"link", "set"} /\ q.kind # "none"
          /\ q.op = "set" => q.kind # "none" /\ (q.secret <=> q.kind # "callmebot")
      BY <1>1, <2>1 DEF Settings!Newcomer, q
    <3> QED BY <1>2, <1>3, <2>9, <3>1 DEF Settings!Newcomer
  <2>f. Settings!OneFileEach'
    BY <1>2, <2>1 DEF Settings!OneFileEach
  <2>12. Settings!Credited'
    BY <1>2, <2>1 DEF Settings!Credited, Settings!HasItsCredential, Settings!Held
  <2>13. Settings!KeyPair'
    BY <1>1, <1>2, <1>4, <1>8, <2>1 DEF Settings!KeyPair, q
  <2> QED BY <2>f, <2>3, <2>10, <2>11, <2>12, <2>13
<1> QED BY <1>9, <1>10, <1>11 DEF Settings!Inductive

LEMMA EndsKeep ==
  ASSUME Settings!Inductive, NEW c \in Admins, Settings!Ends(c)
  PROVE  Settings!Inductive'
<1> DEFINE q == v9[c]
           g == Settings!Changed(q, v11)
           x == IF q.secret THEN q.n ELSE Settings!Empty
<1>0. Settings!TypeOK /\ Settings!StaysValid
  BY DEF Settings!Inductive
<1>1. /\ q \in Settings!Changes /\ q.at = "applied" /\ q # Settings!Idle
      /\ Settings!OfFile(q) /\ ~Settings!Keyed(q)
  BY <1>0, CommandForm DEF Settings!Ends, Settings!Under, Settings!KeyChanges, Settings!Idle
<1>2. /\ v9' = [v9 EXCEPT ![c] = Settings!Idle] /\ v11' = g
      /\ v12' = CASE q.op = "set"    -> [v12 EXCEPT ![q.id] = x]
                  [] q.op = "retype" -> [v12 EXCEPT ![q.id] = v5[q.kind]]
                  [] OTHER           -> v12
      /\ UNCHANGED <<v1, v2, v4, v5, v6, v7, v8, v10, v14, v15>>
  BY DEF Settings!Ends, Settings!seal, Settings!CredentialAfter
<1>3. \/ v3' = v2 /\ v13' = "nothing"
      \/ v3' = v3 /\ v13' = v13 /\ (q.op \in {"limit", "link", "apply"} \/ v13' # "nothing")
      \/ v3' = v3 /\ v13' \in {"told", "untold"}
  <2>1. CASE q.op \in {"set", "tune", "remove"}
    BY <2>1 DEF Settings!Ends, Settings!RestartsAfter, Settings!TakesUp
  <2>2. CASE q.op \notin {"set", "tune", "remove"}
    <3>1. \/ v13' = (IF q.op \in {"switch", "retype"} /\ v13 = "nothing" THEN "untold" ELSE v13) /\ v3' = v3
          \/ v3' = v2 /\ v13' = "nothing"
      BY <2>2 DEF Settings!Ends, Settings!RestartsAfter, Settings!TakesUp
    <3> QED BY <1>1, <2>2, <3>1 DEF Settings!Changes
  <2> QED BY <2>1, <2>2
<1>n. /\ q.n \in Nat /\ q.n # 0 /\ q.n <= v10 /\ q.secret \in BOOLEAN /\ v10 \in Nat
      /\ v5 \in [Settings!Kinds -> 0 .. v10] /\ v12 \in [ChannelIds -> 0 .. v10]
      /\ v11 \in Settings!Config
  BY <1>0, <1>1, HostConfigAssumption DEF Settings!TypeOK, Settings!StaysValid, Settings!Changes
<1>4. g \in Settings!Config
  BY <1>1, <1>n, ChangeForm
<1>5. x \in 0 .. v10 /\ x = IF q.secret THEN q.n ELSE 0
  BY <1>n DEF Settings!Empty
<1>r. q.op = "retype" => q.kind \in Settings!Kinds /\ v5[q.kind] \in 0 .. v10
  BY <1>0, <1>1, <1>n DEF Settings!StaysValid, Settings!Changes
<1>c. /\ \A i \in ChannelIds :
           g.channels[i].kind = IF q.op \in {"set", "retype"} /\ i = q.id THEN q.kind
                                ELSE IF q.op = "remove" /\ i = q.id THEN "none" ELSE v11.channels[i].kind
  BY <1>1, <1>n, ChangeForm
<1> HIDE DEF q, g, x
<1>6. /\ v9' \in [Admins -> {Settings!Idle} \cup Settings!Changes \cup Settings!KeyChanges]
      /\ v9'[c] = Settings!Idle /\ \A d \in Admins \ {c} : v9'[d] = v9[d]
  BY <1>0, <1>2, NoCommand, OneCommands
<1>7. /\ v12' \in [ChannelIds -> 0 .. v10]
      /\ \A i \in ChannelIds : v12'[i] = IF q.op = "set" /\ i = q.id THEN x
                                         ELSE IF q.op = "retype" /\ i = q.id THEN v5[q.kind] ELSE v12[i]
  <2>1. CASE q.op = "set"
    BY <1>n, <1>2, <1>5, <2>1
  <2>2. CASE q.op = "retype"
    BY <1>n, <1>2, <1>r, <2>2
  <2>3. CASE q.op \notin {"set", "retype"}
    BY <1>n, <1>2, <2>3
  <2> QED BY <2>1, <2>2, <2>3
<1>8. Settings!TypeOK'
  <2>1. v3' \in Settings!Config /\ v13' \in {"nothing", "told", "untold"}
    BY <1>0, <1>3 DEF Settings!TypeOK
  <2> QED BY <1>0, <1>2, <1>4, <1>6, <1>7, <2>1 DEF Settings!TypeOK
<1>9. Settings!StaysValid'
  BY <1>0, <1>1, <1>2, NoCommand, StillValid DEF Settings!StaysValid, q
<1>10. ASSUME ~v14'
       PROVE  /\ Settings!NoneMeet' /\ Settings!InForce' /\ Settings!Newcomer' /\ Settings!OneFileEach'
             /\ Settings!Credited'
              /\ Settings!KeyPair'
  <2>1. Settings!NoneMeet /\ Settings!InForce /\ Settings!Newcomer /\ Settings!OneFileEach
      /\ Settings!Credited /\ Settings!KeyPair
    BY <1>2, <1>10 DEF Settings!Inductive
  <2>2. \A d \in Admins : ~Settings!OfFile(v9'[d])
    BY <1>0, <1>1, <1>6, <2>1, OnlyOne, NoCommand DEF q
  <2>3. Settings!NoneMeet'
    BY <1>0, <1>1, <1>2, <2>1, GoesOn, NoCommand DEF q
  <2>4. /\ v1 = g /\ v2 = Settings!Rendered(g)
        /\ q.op \in {"limit", "link", "apply"} => Settings!Told
    BY <1>1, <2>1 DEF Settings!InForce, q, g
  <2>5. Settings!Told'
    BY <1>2, <1>3, <2>4 DEF Settings!Told
  <2>6. Settings!InForce'
    BY <1>2, <2>2, <2>4, <2>5 DEF Settings!InForce
  <2>7. Settings!Newcomer'
    BY <2>2 DEF Settings!Newcomer
  <2>f. Settings!OneFileEach'
    BY <1>2, <2>1 DEF Settings!OneFileEach
  <2>8. /\ \A i \in ChannelIds : v12[i] < q.n
        /\ \A k \in Settings!Kinds : k # q.kind => v5[k] < q.n
        /\ q.secret /\ ~v15 => v5[q.kind] = q.n
        /\ q.op = "set" => (q.secret <=> q.kind # "callmebot")
    BY <1>1, <2>1 DEF Settings!Newcomer, q
  <2>9. Settings!Credited'
    <3> SUFFICES ASSUME ~v15, NEW i \in Settings!Held(g), g.channels[i].kind # "callmebot"
                 PROVE  LET k == g.channels[i].kind IN
                        \/ v5[k] = v12'[i]
                        \/ v5[k] > v12'[i] /\ \A j \in Settings!Held(g) \ {i} :
                                                g.channels[j].kind # k => v12'[j] # v5[k]
      BY <1>2 DEF Settings!Credited, Settings!HasItsCredential, Settings!Held
    <3> DEFINE k == g.channels[i].kind
    <3>1. i \in ChannelIds /\ k \in Settings!Kinds
      BY <1>4 DEF Settings!Held, Settings!Config
    <3>2. CASE q.op = "set" /\ i = q.id
      <4>1. k = q.kind
        BY <1>c, <3>1, <3>2
      <4> QED BY <1>5, <1>7, <2>8, <3>1, <3>2, <4>1
    <3>r. CASE q.op = "retype" /\ i = q.id
      BY <1>c, <1>7, <3>1, <3>r
    <3>3. CASE ~(q.op \in {"set", "retype"} /\ i = q.id)
      <4>1. k = v11.channels[i].kind /\ i \in Settings!Held(v11) /\ v12'[i] = v12[i]
        BY <1>c, <1>7, <3>1, <3>3 DEF Settings!Held, Settings!Kinds
      <4>2. \/ v5[k] = v12[i]
            \/ v5[k] > v12[i] /\ \A j \in Settings!Held(v11) \ {i} : v11.channels[j].kind # k => v12[j] # v5[k]
        BY <2>1, <4>1 DEF Settings!Credited, Settings!HasItsCredential
      <4>3. ASSUME v5[k] > v12[i], NEW j \in Settings!Held(g) \ {i}, g.channels[j].kind # k,
                   \A h \in Settings!Held(v11) \ {i} : v11.channels[h].kind # k => v12[h] # v5[k]
            PROVE  v12'[j] # v5[k]
        <5>1. j \in ChannelIds
          BY DEF Settings!Held
        <5>2. CASE q.op = "set" /\ j = q.id
          <6>1. v12'[j] = x /\ q.kind # k
            BY <1>c, <1>7, <4>3, <5>1, <5>2
          <6>2. v5[k] < q.n /\ v5[k] # 0
            BY <1>n, <2>8, <3>1, <4>3, <6>1
          <6> QED BY <1>n, <1>5, <3>1, <6>1, <6>2
        <5>r. CASE q.op = "retype" /\ j = q.id
          <6>1. v12'[j] = v5[q.kind] /\ q.kind # k /\ q.kind \in Settings!Kinds
            BY <1>c, <1>r, <1>7, <4>3, <5>1, <5>r
          <6>2. v5[k] # 0
            BY <1>n, <3>1, <4>1, <4>3
          <6> QED BY <2>1, <3>1, <6>1, <6>2 DEF Settings!OneFileEach, Settings!Empty
        <5>3. CASE ~(q.op \in {"set", "retype"} /\ j = q.id)
          <6>1. v12'[j] = v12[j]
            BY <1>7, <5>1, <5>3
          <6>2. j \in Settings!Held(v11) \ {i} /\ v11.channels[j].kind = g.channels[j].kind
            BY <1>c, <4>3, <5>1, <5>3 DEF Settings!Held
          <6> QED BY <4>3, <6>1, <6>2
        <5> QED BY <5>2, <5>r, <5>3
      <4> QED BY <4>1, <4>2, <4>3
    <3> QED BY <3>2, <3>r, <3>3
  <2>10. Settings!KeyPair'
    BY <1>1, <1>2, <1>6, <2>1, NoCommand DEF Settings!KeyPair, q
  <2> QED BY <2>f, <2>3, <2>6, <2>7, <2>9, <2>10
<1> QED BY <1>8, <1>9, <1>10 DEF Settings!Inductive

LEMMA LoadsKeep ==
  ASSUME Settings!Inductive, NEW c \in Admins,
         Settings!Loads(c) \/ Settings!LoadsForSecret(c) \/ Settings!LoadsSealed(c) \/ Settings!AppliesAgain(c)
  PROVE  Settings!Inductive'
<1>0. Settings!TypeOK /\ Settings!StaysValid
  BY DEF Settings!Inductive
<1>1. /\ v1 \in Settings!Config /\ v6 \in Settings!SealKeys /\ v10 \in 0 .. MaxCommands
      /\ Settings!Valid(v1)
  BY <1>0 DEF Settings!TypeOK, Settings!StaysValid
<1>2. UNCHANGED <<v1, v2, v3, v4, v5, v6, v7, v8, v11, v12, v13, v15>>
  BY DEF Settings!Loads, Settings!LoadsForSecret, Settings!LoadsSealed, Settings!AppliesAgain,
         Settings!seal
<1>4. ASSUME NEW op \in {"limit", "link", "set", "tune", "remove", "apply", "switch", "retype"}, NEW i \in Settings!Ids,
             NEW k \in Settings!Kinds \cup {"none"}, NEW at \in {"asks", "loaded", "written"},
             Settings!Begins(c, Settings!Request(op, i, k, at)),
             Settings!Valid(Settings!Changed(Settings!Request(op, i, k, at), v1)),
             at = "asks" => op \in {"link", "set"} /\ k # "none",
             at = "written" => op = "apply",
             op = "set" => k # "none" /\ (at = "asks" <=> k # "callmebot"),
             op = "retype" => k # "none"
      PROVE  Settings!Inductive'
  <2> DEFINE q == Settings!Request(op, i, k, at)
  <2>1. /\ q \in Settings!Changes /\ q.op = op /\ q.id = i /\ q.kind = k /\ q.at = at
        /\ q.read = v1 /\ q.n = v10 + 1 /\ q.secret = FALSE
    <3>1. at \in {"asks", "loaded", "written", "applied"}
      OBVIOUS
    <3>2. v10 + 1 \in 1 .. MaxCommands
      BY <1>1, <1>4, HostConfigAssumption DEF Settings!Begins
    <3> QED BY <1>1, <3>1, <3>2 DEF Settings!Request, Settings!Changes
  <2>2. Settings!Begins(c, q) /\ Settings!Valid(Settings!Changed(q, v1))
    BY <1>4
  <2> HIDE DEF q
  <2> QED BY <1>2, <1>4, <2>1, <2>2, StartsChange
<1>5. \A op \in {"link", "set"}, i \in Settings!Ids, k \in Settings!Kinds, at \in {"asks"} :
        Settings!Begins(c, Settings!Request(op, i, k, at)) /\ (op = "set" => k # "callmebot") =>
          Settings!Valid(Settings!Changed(Settings!Request(op, i, k, at), v1))
  <2> SUFFICES ASSUME NEW op \in {"link", "set"}, NEW i \in Settings!Ids, NEW k \in Settings!Kinds,
                      Settings!Begins(c, Settings!Request(op, i, k, "asks")), op = "set" => k # "callmebot"
               PROVE  Settings!Valid(Settings!Changed(Settings!Request(op, i, k, "asks"), v1))
    OBVIOUS
  <2> DEFINE q == Settings!Request(op, i, k, "asks")
  <2>1. q \in Settings!Changes /\ q.op = op /\ q.kind = k
    <3>1. /\ op \in {"limit", "link", "set", "tune", "remove", "apply", "switch", "retype"}
          /\ k \in Settings!Kinds \cup {"none"}
          /\ "asks" \in {"asks", "loaded", "written", "applied"}
      OBVIOUS
    <3>2. v10 + 1 \in 1 .. MaxCommands
      BY <1>1, HostConfigAssumption DEF Settings!Begins
    <3> QED BY <1>1, <3>1, <3>2 DEF Settings!Request, Settings!Changes
  <2> HIDE DEF q
  <2>2. \A j \in ChannelIds : Settings!Changed(q, v1).channels[j].kind = "callmebot" =>
          v1.channels[j].kind = "callmebot"
    BY <1>1, <2>1, ChangeForm
  <2>3. v1.link => Settings!Changed(q, v1).link
    BY <1>1, <2>1, ChangeForm
  <2>4. Settings!Valid(Settings!Changed(q, v1))
    BY <1>1, <2>2, <2>3 DEF Settings!Valid
  <2> QED BY <2>4 DEF q
<1>s. /\ Settings!Held(v1) \subseteq Settings!Ids /\ Settings!Settable(v1) \subseteq Settings!Ids
      /\ 1 \in Settings!Ids
  <2>1. Settings!Held(v1) \subseteq ChannelIds /\ ChannelIds \subseteq Settings!Ids /\ 1 \in Settings!Ids
    BY DEF Settings!Ids, Settings!Held
  <2>2. CASE Settings!Held(v1) = ChannelIds
    BY <2>1, <2>2 DEF Settings!Settable
  <2>3. CASE Settings!Held(v1) # ChannelIds
    <3> DEFINE free == ChannelIds \ Settings!Held(v1)
    <3>1. free \in (SUBSET ChannelIds) \ {{}}
      BY <2>1, <2>3
    <3>2. Settings!Min(free) \in Settings!Ids
      BY <3>1 DEF Settings!Ids
    <3>3. Settings!Settable(v1) = Settings!Held(v1) \cup {Settings!Min(free)}
      BY <2>3 DEF Settings!Settable
    <3> QED BY <2>1, <3>2, <3>3
  <2> QED BY <2>1, <2>2, <2>3
<1>6. ASSUME NEW q \in Settings!Secrets, Settings!Begins(c, q)
      PROVE  Settings!Inductive'
  <2>1. CASE q = Settings!Request("link", 1, "callmebot", "asks")
    BY <1>4, <1>5, <1>6, <1>s, <2>1 DEF Settings!Kinds
  <2>2. ASSUME NEW i \in Settings!Settable(v1), NEW k \in {"webhook", "telegram"},
               q = Settings!Request("set", i, k, "asks")
        PROVE  Settings!Inductive'
    BY <1>4, <1>5, <1>6, <1>s, <2>2 DEF Settings!Kinds
  <2> QED BY <1>6, <2>1, <2>2 DEF Settings!Secrets
<1>7. CASE Settings!Loads(c)
  <2>1. PICK q \in {Settings!Request("limit", 1, "none", "loaded")} \cup Settings!ByHand
              \cup {Settings!Request(op, i, "none", "loaded") : op \in {"tune", "remove"}, i \in Settings!Held(v1)}
              \cup {Settings!Request("set", i, "callmebot", "loaded") : i \in Settings!Settable(v1)} :
            Settings!Valid(Settings!Changed(q, v1)) /\ Settings!Begins(c, q)
    BY <1>7 DEF Settings!Loads
  <2>2. CASE q = Settings!Request("limit", 1, "none", "loaded")
    BY <1>4, <1>s, <2>1, <2>2
  <2>3. ASSUME NEW op \in {"tune", "remove"}, NEW i \in Settings!Held(v1),
               q = Settings!Request(op, i, "none", "loaded")
        PROVE  Settings!Inductive'
    BY <1>4, <1>s, <2>1, <2>3
  <2>4. ASSUME NEW i \in Settings!Settable(v1), q = Settings!Request("set", i, "callmebot", "loaded")
        PROVE  Settings!Inductive'
    BY <1>4, <1>s, <2>1, <2>4 DEF Settings!Kinds
  <2>5. CASE q \in Settings!ByHand
    <3>1. CASE \E i \in Settings!Held(v1) : q = Settings!Request("switch", i, "none", "loaded")
      BY <1>4, <1>s, <2>1, <3>1
    <3>2. CASE \E i \in Settings!Held(v1), k \in Settings!Kinds :
                 q = Settings!Request("retype", i, k, "loaded")
      BY <1>4, <1>s, <2>1, <3>2 DEF Settings!Kinds
    <3> QED BY <2>5, <3>1, <3>2 DEF Settings!ByHand
  <2> QED BY <2>1, <2>2, <2>3, <2>4, <2>5
<1>8. CASE Settings!LoadsForSecret(c)
  BY <1>6, <1>8 DEF Settings!LoadsForSecret
<1>9. CASE Settings!LoadsSealed(c)
  <2>1. ASSUME Settings!Begins(c, Settings!Idle)
        PROVE  Settings!Inductive'
    BY <1>2, <2>1, StartsKey
  <2> QED BY <1>6, <1>9, <2>1 DEF Settings!LoadsSealed
<1>10. CASE Settings!AppliesAgain(c)
  <2>1. Settings!Begins(c, Settings!Request("apply", 1, "none", "written"))
    BY <1>10 DEF Settings!AppliesAgain
  <2>2. Settings!Valid(Settings!Changed(Settings!Request("apply", 1, "none", "written"), v1))
    BY <1>1 DEF Settings!Changed, Settings!Request
  <2> QED BY <1>4, <1>s, <2>1, <2>2
<1> QED BY <1>7, <1>8, <1>9, <1>10

LEMMA CutKeeps ==
  ASSUME Settings!Inductive, NEW c \in Admins, Settings!Cut(c)
  PROVE  Settings!Inductive'
<1>0. Settings!TypeOK /\ Settings!StaysValid
  BY DEF Settings!Inductive
<1>1. /\ v9' = [v9 EXCEPT ![c] = Settings!Idle] /\ v14' = TRUE
      /\ UNCHANGED <<v1, v2, v3, v4, v5, v6, v7, v8, v10, v11, v12, v13, v15>>
  BY DEF Settings!Cut, Settings!seal
<1>2. /\ v9' \in [Admins -> {Settings!Idle} \cup Settings!Changes \cup Settings!KeyChanges]
      /\ v9'[c] = Settings!Idle /\ \A d \in Admins \ {c} : v9'[d] = v9[d]
  BY <1>0, <1>1, NoCommand, OneCommands
<1>3. Settings!TypeOK'
  BY <1>0, <1>1, <1>2 DEF Settings!TypeOK
<1>4. Settings!StaysValid'
  BY <1>0, <1>1, <1>2, NoCommand DEF Settings!StaysValid, Settings!Valid
<1> QED BY <1>1, <1>3, <1>4 DEF Settings!Inductive

(* The key made takes the place of the last, and then its public half.      *)
LEMMA KeyKeeps ==
  ASSUME Settings!Inductive, NEW c \in Admins, Settings!Moves(c) \/ Settings!Publishes(c)
  PROVE  Settings!Inductive'
<1> DEFINE q == v9[c]
           s == [q EXCEPT !.at = "publish"]
<1>0. Settings!TypeOK /\ Settings!StaysValid
  BY DEF Settings!Inductive
<1>1. q \in Settings!KeyChanges /\ q # Settings!Idle /\ ~Settings!OfFile(q) /\ Settings!Keyed(q)
  BY <1>0, CommandForm
     DEF Settings!Moves, Settings!Publishes, Settings!Under, Settings!Changes, Settings!Idle
<1>2. /\ UNCHANGED <<v1, v2, v3, v4, v5, v10, v11, v12, v13, v14, v15>>
      /\ \/ /\ q.at = "made" /\ v8 = Settings!Empty /\ v9' = [v9 EXCEPT ![c] = Settings!Idle]
            /\ UNCHANGED <<v6, v7, v8>>
         \/ /\ q.at = "made" /\ v8 # Settings!Empty /\ v6' = v8 /\ v8' = Settings!Empty /\ v7' = v7
            /\ v9' = [v9 EXCEPT ![c] = s]
         \/ /\ q.at = "publish" /\ v7' = q.pem /\ v9' = [v9 EXCEPT ![c] = Settings!Idle]
            /\ UNCHANGED <<v6, v8>>
  BY DEF Settings!Moves, Settings!Publishes, Settings!Goes, Settings!Under
<1>3. q.at = "made" => /\ s \in Settings!KeyChanges /\ s.op = q.op /\ s.pem = q.pem /\ s.at = "publish"
                       /\ ~Settings!OfFile(s) /\ Settings!Keyed(s)
  <2> HIDE DEF q
  <2> QED BY <1>1 DEF Settings!KeyChanges, Settings!OfFile, Settings!Keyed
<1>p. q.pem \in Settings!SealKeys /\ q.pem # Settings!Empty
  <2>1. q.pem \in Settings!SealKeys
    BY <1>1 DEF Settings!KeyChanges
  <2> QED BY <2>1, HostConfigAssumption DEF Settings!SealKeys, Settings!Empty
<1> HIDE DEF s, q
<1>4. PICK t \in {Settings!Idle} \cup Settings!Changes \cup Settings!KeyChanges :
        /\ v9' = [v9 EXCEPT ![c] = t] /\ ~Settings!OfFile(t)
        /\ t = Settings!Idle \/ (t = s /\ q.at = "made" /\ Settings!Keyed(t))
  BY <1>2, <1>3, NoCommand
<1>5. /\ v9' \in [Admins -> {Settings!Idle} \cup Settings!Changes \cup Settings!KeyChanges]
      /\ v9'[c] = t /\ \A d \in Admins \ {c} : v9'[d] = v9[d]
  BY <1>0, <1>4, OneCommands
<1>6. Settings!TypeOK'
  <2>1. {v6', v7'} \subseteq Settings!SealKeys /\ v8' \in {Settings!Empty} \cup Settings!SealKeys
    BY <1>0, <1>2, <1>p DEF Settings!TypeOK
  <2> QED BY <1>0, <1>2, <1>5, <2>1 DEF Settings!TypeOK
<1>7. Settings!StaysValid'
  BY <1>0, <1>2, <1>4, <1>5 DEF Settings!StaysValid, Settings!Valid
<1>8. ASSUME ~v14'
      PROVE  /\ Settings!NoneMeet' /\ Settings!InForce' /\ Settings!Newcomer' /\ Settings!OneFileEach'
             /\ Settings!Credited'
             /\ Settings!KeyPair'
  <2>1. Settings!NoneMeet /\ Settings!InForce /\ Settings!Newcomer /\ Settings!OneFileEach
      /\ Settings!Credited /\ Settings!KeyPair
    BY <1>2, <1>8 DEF Settings!Inductive
  <2>2. \A d \in Admins \ {c} : ~Settings!Keyed(v9'[d])
    BY <1>0, <1>1, <1>5, <2>1, OnlyOne DEF q
  <2>3. Settings!NoneMeet'
    BY <1>0, <1>1, <1>4, <2>1, GoesOn DEF q
  <2>4. Settings!InForce'
    BY <1>1, <1>2, <1>4, <1>5, <2>1 DEF Settings!InForce, Settings!Told, q
  <2>5. Settings!Newcomer'
    BY <1>2, <1>4, <1>5, <2>1 DEF Settings!Newcomer
  <2>f. Settings!OneFileEach'
    BY <1>2, <2>1 DEF Settings!OneFileEach
  <2>6. Settings!Credited'
    BY <1>2, <2>1 DEF Settings!Credited, Settings!HasItsCredential, Settings!Held
  <2>7. IF q.at = "made" THEN v6 = v7 /\ v8 = q.pem ELSE v6 = q.pem
    BY <1>1, <2>1 DEF Settings!KeyPair, q
  <2>8. Settings!KeyPair'
    <3>1. CASE q.at = "made"
      <4>1. v6' = v8 /\ v9' = [v9 EXCEPT ![c] = s]
        BY <1>2, <1>p, <2>7, <3>1
      <4>2. v9'[c] = s
        BY <1>0, <1>1, <1>3, <3>1, <4>1, OneCommands
      <4> QED BY <1>3, <2>2, <2>7, <3>1, <4>1, <4>2 DEF Settings!KeyPair
    <3>2. CASE q.at # "made"
      <4>1. v7' = v6'
        BY <1>2, <2>7, <3>2
      <4>2. v9'[c] = Settings!Idle
        BY <1>4, <1>5, <3>2
      <4> QED BY <2>2, <4>1, <4>2, NoCommand DEF Settings!KeyPair
    <3> QED BY <3>1, <3>2
  <2> QED BY <2>f, <2>3, <2>4, <2>5, <2>6, <2>8
<1> QED BY <1>6, <1>7, <1>8 DEF Settings!Inductive

LEMMA SettingsInductive ==
  ASSUME Settings!Inductive, [Settings!Next]_(Settings!vars)
  PROVE  Settings!Inductive'
<1> DEFINE Step(c) ==
      \/ Settings!Loads(c) \/ Settings!LoadsForSecret(c) \/ Settings!LoadsSealed(c)
      \/ Settings!AppliesAgain(c) \/ Settings!StoresSecret(c) \/ Settings!WritesConfig(c)
      \/ Settings!Applies(c) \/ Settings!Ends(c) \/ Settings!Cut(c) \/ Settings!Generates(c)
      \/ Settings!Moves(c) \/ Settings!Publishes(c) \/ Settings!Repairs(c)
<1>1. CASE \E c \in Admins : Step(c)
  <2> SUFFICES ASSUME NEW c \in Admins, Step(c)
               PROVE  Settings!Inductive'
    BY <1>1
  <2>1. CASE Settings!Generates(c)
    <3> DEFINE q == [op |-> "rotate", at |-> "made", pem |-> v10 + 1]
    <3>1. /\ Settings!Begins(c, q) /\ v8' = v10 + 1
          /\ UNCHANGED <<v1, v2, v3, v4, v5, v6, v7, v11, v12, v13, v15>>
      BY <2>1 DEF Settings!Generates
    <3>2. v10 + 1 \in Settings!SealKeys
      BY HostConfigAssumption DEF Settings!Inductive, Settings!TypeOK, Settings!SealKeys
    <3>3. q \in Settings!KeyChanges /\ q.op = "rotate" /\ q.at = "made" /\ q.pem = v10 + 1
      BY <3>2 DEF Settings!KeyChanges
    <3> HIDE DEF q
    <3> QED BY <3>1, <3>3, StartsKey
  <2>2. CASE Settings!Repairs(c)
    <3> DEFINE q == [op |-> "repair", at |-> "publish", pem |-> v6]
    <3>1. /\ Settings!Begins(c, q) /\ v8' = v8 /\ v6 # v7
          /\ UNCHANGED <<v1, v2, v3, v4, v5, v6, v7, v11, v12, v13, v15>>
      BY <2>2 DEF Settings!Repairs, Settings!seal
    <3>2. v6 \in Settings!SealKeys
      BY DEF Settings!Inductive, Settings!TypeOK
    <3>3. q \in Settings!KeyChanges /\ q.op = "repair" /\ q.at = "publish"
      BY <3>2 DEF Settings!KeyChanges
    <3> HIDE DEF q
    <3> QED BY <3>1, <3>3, StartsKey
  <2> QED BY <2>1, <2>2, LoadsKeep, StoresKeeps, WritesKeepFile, EndsKeep, CutKeeps, KeyKeeps
<1>2. CASE Settings!Restarts \/ Settings!RunStartsOrEnds \/ UNCHANGED Settings!vars
  <2>0. Settings!TypeOK /\ Settings!StaysValid
    BY DEF Settings!Inductive
  <2>1. /\ UNCHANGED <<v1, v2, v5, v6, v7, v8, v9, v10, v11, v12, v14, v15>>
        /\ v4' \in {v4, ~v4}
        /\ \/ v3' = v2 /\ v13' = "nothing"
           \/ v3' = v3 /\ v13' = v13
    BY <1>2 DEF Settings!Restarts, Settings!TakesUp, Settings!RunStartsOrEnds, Settings!vars, Settings!seal
  <2>2. Settings!TypeOK'
    BY <2>0, <2>1 DEF Settings!TypeOK
  <2>3. Settings!StaysValid'
    BY <2>0, <2>1 DEF Settings!StaysValid, Settings!Valid
  <2>4. Settings!Told => Settings!Told'
    BY <2>1 DEF Settings!Told
  <2>5. ASSUME ~v14'
        PROVE  /\ Settings!NoneMeet' /\ Settings!InForce' /\ Settings!Newcomer' /\ Settings!OneFileEach'
             /\ Settings!Credited'
               /\ Settings!KeyPair'
    <3>1. Settings!NoneMeet /\ Settings!InForce /\ Settings!Newcomer /\ Settings!OneFileEach
      /\ Settings!Credited /\ Settings!KeyPair
      BY <2>1, <2>5 DEF Settings!Inductive
    <3>2. Settings!NoneMeet' /\ Settings!Newcomer' /\ Settings!OneFileEach' /\ Settings!KeyPair'
      BY <2>1, <3>1 DEF Settings!NoneMeet, Settings!Newcomer, Settings!OneFileEach, Settings!KeyPair
    <3>3. Settings!Credited'
      BY <2>1, <3>1 DEF Settings!Credited, Settings!HasItsCredential, Settings!Held
    <3>4. Settings!InForce'
      BY <2>1, <2>4, <3>1 DEF Settings!InForce
    <3> QED BY <3>2, <3>3, <3>4
  <2> QED BY <2>2, <2>3, <2>5 DEF Settings!Inductive
<1> QED BY <1>1, <1>2 DEF Settings!Next

LEMMA SettingsStart ==
  ASSUME Settings!Init
  PROVE  Settings!Inductive
<1>1. v1 \in Settings!Config /\ \A i \in ChannelIds : v1.channels[i].kind = "none"
  BY HostConfigAssumption DEF Settings!Init, Settings!Config, Settings!Off
<1>2. /\ v2 = Settings!Rendered(v1) /\ v3 = v2 /\ v11 = v1 /\ v4 \in BOOLEAN /\ v10 = 0
      /\ v5 \in [Settings!Kinds -> 0 .. 0] /\ v12 \in [ChannelIds -> 0 .. 0] /\ v8 = Settings!Empty
      /\ v6 = MaxCommands + 1 /\ v7 = MaxCommands + 1 /\ v13 = "nothing" /\ v14 = FALSE /\ v15 = FALSE
      /\ \A c \in Admins : v9[c] = Settings!Idle
  BY DEF Settings!Init, Settings!Empty
<1>3. v2 \in Settings!Config /\ Settings!Valid(v1) /\ Settings!Valid(v2)
  BY <1>1, <1>2, RenderForm DEF Settings!Valid
<1>4. Settings!TypeOK
  <2>1. v6 \in Settings!SealKeys /\ v10 \in 0 .. MaxCommands
    BY <1>2, HostConfigAssumption DEF Settings!SealKeys
  <2>2. v9 \in [Admins -> {Settings!Idle} \cup Settings!Changes \cup Settings!KeyChanges]
    BY DEF Settings!Init
  <2> QED BY <1>1, <1>2, <1>3, <2>1, <2>2 DEF Settings!TypeOK
<1>5. Settings!StaysValid /\ Settings!NoneMeet /\ Settings!Newcomer
  BY <1>2, <1>3, NoCommand DEF Settings!StaysValid, Settings!NoneMeet, Settings!Newcomer
<1>6. Settings!InForce /\ Settings!KeyPair
  BY <1>2, NoCommand DEF Settings!InForce, Settings!KeyPair, Settings!Told
<1>7. Settings!Credited /\ Settings!OneFileEach
  BY <1>1, <1>2 DEF Settings!Credited, Settings!Held, Settings!OneFileEach, Settings!Empty
<1> QED BY <1>4, <1>5, <1>6, <1>7 DEF Settings!Inductive

LEMMA SettledRight ==
  ASSUME Settings!Inductive
  PROVE  Settings!SettledIsWhole
<1>1. Settings!Valid(v1) /\ Settings!Valid(v2)
  BY DEF Settings!Inductive, Settings!StaysValid
<1>2. ASSUME ~v14, Settings!Alone
      PROVE  /\ v1 = v11 /\ v2 = Settings!Rendered(v11) /\ v7 = v6
             /\ v3.channels # v2.channels => v13 # "nothing"
             /\ \A i \in Settings!Held(v1) : Settings!HasItsCredential(v1, i)
  <2>1. \A c \in Admins : ~Settings!OfFile(v9[c]) /\ ~Settings!Keyed(v9[c])
    BY <1>2, NoCommand DEF Settings!Alone
  <2>2. v1 = v11 /\ v2 = Settings!Rendered(v11) /\ Settings!Told /\ v7 = v6
    BY <1>2, <2>1 DEF Settings!Inductive, Settings!InForce, Settings!KeyPair
  <2>3. \A i \in Settings!Held(v1) : Settings!HasItsCredential(v1, i)
    BY <1>2, <2>2 DEF Settings!Inductive, Settings!Credited
  <2> QED BY <2>2, <2>3 DEF Settings!Told
<1> QED BY <1>1, <1>2 DEF Settings!SettledIsWhole

-----------------------------------------------------------------------------
(* People, their sessions and the rigs that join (Accounts).               *)

LEMMA DoorStarts ==
  ASSUME Door!Init
  PROVE  Door!Inductive
<1> USE AccountsAssumption DEF Door!Init, Door!Accounts
<1>0. Door!SessionsKept /\ Door!NobodyStranded
  BY DEF Door!SessionsKept, Door!NobodyStranded, Door!Shows
<1>1. Door!TypeOK
  <2>1. \A s \in v3 : s.account \in DOMAIN People
    BY <1>0 DEF Door!SessionsKept
  <2>2. v9 = 0 /\ 0 \in 0 .. MaxVisits
    OBVIOUS
  <2>5. v12 \in BOOLEAN
    OBVIOUS
  <2>3. v5 \in [States -> {"new", "spent"} \cup Browsers]
    OBVIOUS
  <2>4. v2 \in [DOMAIN People -> Emails \cup {Nobody}] /\ v7 \in [Owned -> DOMAIN People]
    OBVIOUS
  <2> QED BY <2>1, <2>2, <2>3, <2>4, <2>5 DEF Door!TypeOK
<1>2. Door!RequestsHold
  BY DEF Door!RequestsHold, Door!Idle
<1>3. Door!CodesApart
  BY DEF Door!CodesApart, Door!None
<1>4. Door!CodesSpent /\ Door!StatesSpent /\ Door!TokensSpent /\ Door!UsedOnce
  BY DEF Door!CodesSpent, Door!StatesSpent, Door!TokensSpent, Door!UsedOnce
<1>5. Door!JoinsApart
  BY DEF Door!JoinsApart, Door!Idle
<1> QED BY <1>0, <1>1, <1>2, <1>3, <1>4, <1>5 DEF Door!Inductive

LEMMA DoorTypes ==
  ASSUME Door!Inductive, [Door!Next]_(Door!vars)
  PROVE  Door!TypeOK'
<1> USE AccountsAssumption
<1> USE DEF Door!TypeOK, Door!Accounts, Door!people, Door!doors, Door!Begins, Door!OneStep,
            Door!Ends, Door!LetIn
<1> SUFFICES ASSUME Door!TypeOK, Door!RequestsHold, Door!SessionsKept
             PROVE  Door!TypeOK'
  BY DEF Door!Inductive
<1>1. ASSUME NEW c \in Visitors, NEW e \in Emails, NEW b \in Browsers,
             Door!AsksCode(c, e, b) \/ (\E guess \in 0 .. v9 : Door!ReadsCode(c, e, b, guess))
      PROVE  Door!TypeOK'
  BY <1>1 DEF Door!AsksCode, Door!ReadsCode
<1>2. ASSUME NEW c \in Visitors, Door!SpendsCode(c) \/ Door!GuessesWrong(c)
      PROVE  Door!TypeOK'
  BY <1>2 DEF Door!SpendsCode, Door!GuessesWrong
<1>3. ASSUME NEW c \in Visitors, NEW s \in States, NEW b \in Browsers,
             Door!BeginsState(c, s, b) \/ Door!ReadsState(c, s, b)
      PROVE  Door!TypeOK'
  BY <1>3 DEF Door!BeginsState, Door!ReadsState
<1>4. ASSUME NEW c \in Visitors, NEW a \in v1, Door!SpendsState(c, a)
      PROVE  Door!TypeOK'
  BY <1>4 DEF Door!SpendsState, Door!RequestsHold, Door!State
<1>5. ASSUME NEW c \in Visitors, Door!CreatesSession(c)
      PROVE  Door!TypeOK'
  BY <1>5 DEF Door!CreatesSession, Door!RequestsHold, Door!Enters
<1>6. ASSUME NEW c \in Visitors, NEW s \in v3, Door!SignsOut(c, s) \/ Door!SignsOutOthers(c, s)
      PROVE  Door!TypeOK'
  BY <1>6 DEF Door!SignsOut, Door!SignsOutOthers
<1>7. ASSUME NEW c \in Visitors, NEW k \in Door!Accounts, NEW d \in Door!Accounts,
             Door!MergeReads(c, k, d)
      PROVE  Door!TypeOK'
  BY <1>7 DEF Door!MergeReads
<1>8. ASSUME NEW c \in Visitors, Door!MergeWrites(c)
      PROVE  Door!TypeOK'
  <2>1. Door!Merge(v8[c])
    BY <1>8 DEF Door!MergeWrites, Door!RequestsHold
  <2>2. v2' \in [Door!Accounts -> Emails \cup {Nobody}] /\ v1' \subseteq Door!Accounts
    BY <1>8, <2>1 DEF Door!MergeWrites, Door!Merge
  <2>3. v7' \in [Owned -> Door!Accounts] /\ v9' = v9 /\ v12' \in BOOLEAN /\ v5' = v5
    BY <1>8, <2>1 DEF Door!MergeWrites, Door!Merge, Door!Moved
  <2>4. \A s \in v3' : s.account \in Door!Accounts
    BY <1>8, <2>1 DEF Door!MergeWrites, Door!Merge, Door!Moved, Door!SessionsKept
  <2> QED BY <2>2, <2>3, <2>4
<1>9. ASSUME NEW c \in Visitors, NEW t \in Owned, NEW a \in Door!Accounts,
             Door!GivesReads(c, t, a)
      PROVE  Door!TypeOK'
  BY <1>9 DEF Door!GivesReads
<1>10. ASSUME NEW c \in Visitors, Door!Gives(c)
      PROVE  Door!TypeOK'
  BY <1>10 DEF Door!Gives, Door!RequestsHold, Door!Give
<1>11. ASSUME NEW c \in Visitors, NEW r \in Joining, Door!Claims(c, r) \/ Door!Renews(c, r)
      PROVE  Door!TypeOK'
  BY <1>11 DEF Door!Claims, Door!Renews
<1>12. ASSUME NEW c \in Visitors, Door!MakesKey(c) \/ Door!Unclaims(c)
      PROVE  Door!TypeOK'
  BY <1>12 DEF Door!MakesKey, Door!Unclaims
<1>13. CASE Door!Prunes \/ (\E e \in Emails : Door!CodeExpires(e)) \/ UNCHANGED Door!vars
  BY <1>13 DEF Door!Prunes, Door!CodeExpires, Door!vars
<1> QED
  BY <1>1, <1>2, <1>3, <1>4, <1>5, <1>6, <1>7, <1>8, <1>9, <1>10, <1>11, <1>12, <1>13 DEF Door!Next

(* A wrong guess leaves a code its number, or takes it.                    *)
LEMMA GuessKeepsNumbers ==
  ASSUME Door!RequestsHold, Door!CodesApart, NEW c \in Visitors, Door!GuessesWrong(c)
  PROVE  \A f \in Emails : v4'[f].id = v4[f].id \/ v4'[f].id = 0
<1> DEFINE e == v8[c].email
<1>1. e \in Emails /\ v4[e].attempts \in Nat
  BY DEF Door!GuessesWrong, Door!CodesApart, Door!RequestsHold, Door!Code
<1>2. [v4[e] EXCEPT !.attempts = v4[e].attempts + 1].id = v4[e].id
  BY <1>1 DEF Door!CodesApart
<1>3. v4' = v4 \/ v4' = [v4 EXCEPT ![e] = Door!None]
      \/ v4' = [v4 EXCEPT ![e] = [v4[e] EXCEPT !.attempts = v4[e].attempts + 1]]
  BY <1>1 DEF Door!GuessesWrong
<1> HIDE DEF e
<1>4. Door!None.id = 0 /\ DOMAIN v4 = Emails
  BY DEF Door!None, Door!CodesApart
<1> QED BY <1>1, <1>2, <1>3, <1>4

(* A request that is not under way is idle, and the requests go on by themselves.  *)
LEMMA DoorRequests ==
  ASSUME Door!Inductive, [Door!Next]_(Door!vars)
  PROVE  Door!RequestsHold'
<1> USE AccountsAssumption
<1> SUFFICES ASSUME Door!TypeOK, Door!RequestsHold, Door!CodesApart, Door!JoinsApart
             PROVE  Door!RequestsHold'
  BY DEF Door!Inductive
<1> USE DEF Door!TypeOK, Door!Accounts, Door!people, Door!doors, Door!Begins, Door!OneStep,
            Door!Ends, Door!LetIn, Door!RequestsHold, Door!Idle
<1> USE DEF Door!Code, Door!State, Door!Enters, Door!Merge, Door!Give, Door!Join
<1>1. ASSUME NEW c \in Visitors, NEW e \in Emails, NEW b \in Browsers,
             Door!AsksCode(c, e, b)
      PROVE  Door!RequestsHold'
  BY <1>1 DEF Door!AsksCode, Door!CodesApart
<1>2. ASSUME NEW c \in Visitors, NEW e \in Emails, NEW b \in Browsers,
             \E guess \in 0 .. v9 : Door!ReadsCode(c, e, b, guess)
      PROVE  Door!RequestsHold'
  BY <1>2 DEF Door!ReadsCode, Door!CodesApart, Door!None
<1>3. ASSUME NEW c \in Visitors, Door!SpendsCode(c)
      PROVE  Door!RequestsHold'
  <2> DEFINE q == v8[c]
  <2>2. \A e \in Emails : v4'[e] = v4[e] \/ v4'[e].id = 0
    BY <1>3 DEF Door!SpendsCode, Door!None, Door!CodesApart
  <2>3. Door!AccountWith(q.email) # Nobody => Door!AccountWith(q.email) \in v1
    BY DEF Door!AccountWith
  <2>4. \/ v8' = [v8 EXCEPT ![c] = Door!Idle]
        \/ v8' = [v8 EXCEPT ![c] = [op |-> "session", account |-> Door!AccountWith(q.email)]]
           /\ Door!AccountWith(q.email) \in v1
    BY <1>3, <2>3 DEF Door!SpendsCode
  <2>5. v9' = v9
    BY <1>3 DEF Door!SpendsCode
  <2> QED BY <2>2, <2>4, <2>5
<1>4. ASSUME NEW c \in Visitors, Door!GuessesWrong(c)
      PROVE  Door!RequestsHold'
  <2>4. \A f \in Emails : v4'[f].id = v4[f].id \/ v4'[f].id = 0
    BY <1>4, GuessKeepsNumbers
  <2>5. v9' = v9 /\ v8' = [v8 EXCEPT ![c] = Door!Idle]
    BY <1>4 DEF Door!GuessesWrong
  <2> QED BY <2>4, <2>5
<1>5. ASSUME NEW c \in Visitors, NEW s \in States, NEW b \in Browsers,
             Door!BeginsState(c, s, b) \/ Door!ReadsState(c, s, b)
      PROVE  Door!RequestsHold'
  BY <1>5 DEF Door!BeginsState, Door!ReadsState
<1>6. ASSUME NEW c \in Visitors, NEW a \in v1, Door!SpendsState(c, a)
      PROVE  Door!RequestsHold'
  BY <1>6 DEF Door!SpendsState
<1>7. ASSUME NEW c \in Visitors, Door!CreatesSession(c)
      PROVE  Door!RequestsHold'
  BY <1>7 DEF Door!CreatesSession
<1>8. ASSUME NEW c \in Visitors, NEW s \in v3, Door!SignsOut(c, s) \/ Door!SignsOutOthers(c, s)
      PROVE  Door!RequestsHold'
  BY <1>8 DEF Door!SignsOut, Door!SignsOutOthers
<1>9. ASSUME NEW c \in Visitors, NEW k \in Door!Accounts, NEW d \in Door!Accounts,
             Door!MergeReads(c, k, d)
      PROVE  Door!RequestsHold'
  BY <1>9 DEF Door!MergeReads
<1>10. ASSUME NEW c \in Visitors, Door!MergeWrites(c) \/ Door!Gives(c)
      PROVE  Door!RequestsHold'
  BY <1>10 DEF Door!MergeWrites, Door!Gives
<1>11. ASSUME NEW c \in Visitors, NEW t \in Owned, NEW a \in Door!Accounts,
             Door!GivesReads(c, t, a)
      PROVE  Door!RequestsHold'
  BY <1>11 DEF Door!GivesReads
<1>12. ASSUME NEW c \in Visitors, NEW r \in Joining, Door!Claims(c, r) \/ Door!Renews(c, r)
      PROVE  Door!RequestsHold'
  <2>1. v6[r].token \in Nat
    BY DEF Door!JoinsApart
  <2>2. CASE Door!Claims(c, r)
    BY <2>1, <2>2 DEF Door!Claims
  <2>3. CASE Door!Renews(c, r)
    BY <2>3 DEF Door!Renews
  <2> QED BY <1>12, <2>2, <2>3
<1>13. ASSUME NEW c \in Visitors, Door!MakesKey(c) \/ Door!Unclaims(c)
      PROVE  Door!RequestsHold'
  BY <1>13 DEF Door!MakesKey, Door!Unclaims
<1>14. CASE Door!Prunes \/ (\E e \in Emails : Door!CodeExpires(e)) \/ UNCHANGED Door!vars
  <2>1. CASE Door!Prunes \/ (\E e \in Emails : Door!CodeExpires(e))
    <3>1. \A e \in Emails : v4'[e].id = v4[e].id \/ v4'[e].id = 0
      <4>1. ASSUME NEW f \in Emails, Door!CodeExpires(f)
            PROVE  \A e \in Emails : v4'[e].id = v4[e].id
        BY <4>1 DEF Door!CodeExpires, Door!CodesApart
      <4>2. CASE Door!Prunes
        BY <4>2 DEF Door!Prunes, Door!None
      <4> QED BY <2>1, <4>1, <4>2
    <3>2. v9' = v9 /\ v8' = v8
      BY <2>1 DEF Door!Prunes, Door!CodeExpires
    <3> QED BY <3>1, <3>2
  <2>2. CASE UNCHANGED Door!vars
    BY <2>2 DEF Door!vars
  <2> QED BY <1>14, <2>1, <2>2
<1> QED
  BY <1>1, <1>2, <1>3, <1>4, <1>5, <1>6, <1>7, <1>8, <1>9, <1>10, <1>11, <1>12, <1>13, <1>14
  DEF Door!Next

(* Codes go by numbers of their own, and a guess at one that is there is counted.  *)
LEMMA DoorCodes ==
  ASSUME Door!Inductive, [Door!Next]_(Door!vars)
  PROVE  Door!CodesApart'
<1> USE AccountsAssumption
<1> SUFFICES ASSUME Door!TypeOK, Door!RequestsHold, Door!CodesApart
             PROVE  Door!CodesApart'
  BY DEF Door!Inductive
<1> DEFINE Rows == [id : Nat, browser : Browsers \cup {Nobody}, attempts : Nat, live : BOOLEAN]
<1>r. v4 \in [Emails -> Rows] /\ \A e \in Emails : v4[e].id <= v9
  BY DEF Door!CodesApart, Door!TypeOK
<1> USE DEF Door!TypeOK, Door!people, Door!doors, Door!Begins, Door!OneStep, Door!Ends, Door!LetIn
<1>0. Door!None \in Rows /\ Door!None.id = 0
  BY DEF Door!None
<1>1. ASSUME NEW c \in Visitors, NEW e \in Emails, NEW b \in Browsers,
             Door!AsksCode(c, e, b)
      PROVE  Door!CodesApart'
  <2> DEFINE new == [id |-> v9 + 1, browser |-> b, attempts |-> 0, live |-> TRUE]
  <2>1. v9' = v9 + 1 /\ v9' \in 1 .. MaxVisits /\ v4' = [v4 EXCEPT ![e] = new] /\ v11' = v11
    BY <1>1 DEF Door!AsksCode
  <2>2. new \in Rows /\ new.id = v9 + 1 /\ new.attempts = 0
    OBVIOUS
  <2> HIDE DEF new
  <2> QED BY <1>r, <2>1, <2>2 DEF Door!CodesApart
<1>2. CASE v4' = v4 /\ v11' = v11 /\ v9' \in v9 .. MaxVisits
  BY <1>2, <1>r DEF Door!CodesApart
<1>3. ASSUME NEW e \in Emails, v4' = [v4 EXCEPT ![e] = Door!None], v11' = v11, v9' = v9
      PROVE  Door!CodesApart'
  BY <1>3, <1>r, <1>0 DEF Door!CodesApart
<1>4. ASSUME NEW c \in Visitors, Door!GuessesWrong(c)
      PROVE  Door!CodesApart'
  <2> DEFINE e == v8[c].email
             n == v4[e].attempts + 1
             id == v8[c].row.id
             counted == [v4[e] EXCEPT !.attempts = n]
  <2>1. e \in Emails /\ id \in 1 .. v9 /\ \A f \in Emails : v4[f].id = id => f = e
    BY <1>4 DEF Door!GuessesWrong, Door!RequestsHold, Door!Code
  <2>2. n \in Nat
    BY <2>1, <1>r
  <2>3. counted \in Rows /\ counted.id = v4[e].id /\ counted.attempts = n
    BY <2>1, <2>2, <1>r
  <2>4. IF v4[e].id = id
          THEN IF n >= MaxGuesses THEN v4' = [v4 EXCEPT ![e] = Door!None]
               ELSE v4' = [v4 EXCEPT ![e] = counted]
          ELSE v4' = v4
    BY <1>4, <2>1 DEF Door!GuessesWrong
  <2>5. v11' = [v11 EXCEPT ![id] = v11[id] + 1] /\ v9' = v9
    BY <1>4, <2>1 DEF Door!GuessesWrong, Door!CodesApart
  <2> HIDE DEF e, n, id, counted
  <2>6. n = v4[e].attempts + 1
    BY DEF n
  <2>7. /\ v11' \in [1 .. MaxVisits -> Nat] /\ v11'[id] = v11[id] + 1
        /\ \A k \in 1 .. MaxVisits : k # id => v11'[k] = v11[k]
    BY <2>1, <2>5 DEF Door!CodesApart
  <2>8. \A k \in 1 .. MaxVisits : k > v9' => v11'[k] = 0
    BY <2>1, <2>5, <2>7 DEF Door!CodesApart
  <2>9. \A f \in Emails : f # e => v4'[f] = v4[f] /\ v4[f].id # id
    BY <2>1, <2>4, <1>r
  <2>10. \/ v4'[e] = v4[e] /\ v4[e].id # id
         \/ v4'[e] = Door!None
         \/ v4'[e] = counted /\ v4[e].id = id /\ n < MaxGuesses
    BY <2>1, <2>2, <2>4, <1>r
  <2>11. v4' \in [Emails -> Rows] /\ \A f \in Emails : v4'[f].id = v4[f].id \/ v4'[f] = Door!None
    BY <2>1, <2>3, <2>4, <1>r, <1>0
  <2>12. \A f \in Emails : v4'[f].id \in 0 .. v9'
    BY <2>5, <2>11, <1>r, <1>0
  <2>13. \A f \in Emails : IF v4'[f].id = 0 THEN v4'[f] = Door!None
                           ELSE v4'[f].attempts = v11'[v4'[f].id] /\ v4'[f].attempts < MaxGuesses
    <3>1. ASSUME NEW f \in Emails, f # e
          PROVE  IF v4'[f].id = 0 THEN v4'[f] = Door!None
                 ELSE v4'[f].attempts = v11'[v4'[f].id] /\ v4'[f].attempts < MaxGuesses
      BY <2>7, <2>9, <3>1, <1>r DEF Door!CodesApart
    <3>2. IF v4'[e].id = 0 THEN v4'[e] = Door!None
          ELSE v4'[e].attempts = v11'[v4'[e].id] /\ v4'[e].attempts < MaxGuesses
      <4>1. CASE v4'[e] = v4[e] /\ v4[e].id # id
        BY <2>1, <2>7, <4>1, <1>r DEF Door!CodesApart
      <4>2. CASE v4'[e] = counted /\ v4[e].id = id /\ n < MaxGuesses
        <5>1. id # 0 /\ id \in 1 .. MaxVisits
          BY <2>1
        <5>2. v4[e].attempts = v11[id]
          BY <2>1, <4>2, <5>1 DEF Door!CodesApart
        <5> QED BY <2>3, <2>6, <2>7, <4>2, <5>1, <5>2
      <4> QED BY <2>10, <4>1, <4>2, <1>0
    <3> QED BY <3>1, <3>2
  <2>14. \A f, g \in Emails : v4'[f].id = v4'[g].id /\ v4'[f].id # 0 => f = g
    BY <2>11, <1>0 DEF Door!CodesApart
  <2>15. v4' \in [Emails -> [id : 0 .. v9', browser : Browsers \cup {Nobody}, attempts : Nat,
                            live : BOOLEAN]]
    BY <2>11, <2>12
  <2> QED BY <2>7, <2>8, <2>13, <2>14, <2>15 DEF Door!CodesApart
<1>5. ASSUME NEW e \in Emails, Door!CodeExpires(e)
      PROVE  Door!CodesApart'
  <2> DEFINE over == [v4[e] EXCEPT !.live = FALSE]
  <2>1. over \in Rows /\ over.id = v4[e].id /\ over.attempts = v4[e].attempts
    BY <1>r
  <2>2. v4' = [v4 EXCEPT ![e] = over] /\ v9' = v9 /\ v11' = v11 /\ v4[e].live
    BY <1>5 DEF Door!CodeExpires
  <2> HIDE DEF over
  <2>3. v4[e].id # 0
    BY <2>2 DEF Door!CodesApart, Door!None
  <2> QED BY <2>1, <2>2, <2>3, <1>r DEF Door!CodesApart
<1>6. CASE Door!Prunes
  BY <1>6, <1>r, <1>0 DEF Door!Prunes, Door!CodesApart
<1>7. ASSUME NEW c \in Visitors, Door!SpendsCode(c)
      PROVE  Door!CodesApart'
  <2>1. v8[c].email \in Emails
    BY <1>7 DEF Door!SpendsCode, Door!RequestsHold, Door!Code
  <2>2. v4' = v4 \/ v4' = [v4 EXCEPT ![v8[c].email] = Door!None]
    BY <1>7 DEF Door!SpendsCode
  <2>3. v9' = v9 /\ v11' = v11
    BY <1>7 DEF Door!SpendsCode
  <2> QED BY <2>1, <2>2, <2>3, <1>2, <1>3
<1>8. ASSUME NEW c \in Visitors, NEW e \in Emails, NEW b \in Browsers,
             \E guess \in 0 .. v9 : Door!ReadsCode(c, e, b, guess)
      PROVE  Door!CodesApart'
  BY <1>8, <1>2 DEF Door!ReadsCode
<1>9. ASSUME NEW c \in Visitors, NEW s \in States, NEW b \in Browsers,
             Door!BeginsState(c, s, b) \/ Door!ReadsState(c, s, b)
      PROVE  Door!CodesApart'
  BY <1>9, <1>2 DEF Door!BeginsState, Door!ReadsState
<1>10. ASSUME NEW c \in Visitors, NEW a \in v1, Door!SpendsState(c, a)
      PROVE  Door!CodesApart'
  BY <1>10, <1>2 DEF Door!SpendsState
<1>11. ASSUME NEW c \in Visitors, Door!CreatesSession(c) \/ Door!MergeWrites(c) \/ Door!Gives(c)
      PROVE  Door!CodesApart'
  BY <1>11, <1>2 DEF Door!CreatesSession, Door!MergeWrites, Door!Gives
<1>12. ASSUME NEW c \in Visitors, NEW s \in v3, Door!SignsOut(c, s) \/ Door!SignsOutOthers(c, s)
      PROVE  Door!CodesApart'
  BY <1>12, <1>2 DEF Door!SignsOut, Door!SignsOutOthers
<1>13. ASSUME NEW c \in Visitors, NEW k \in Door!Accounts, NEW d \in Door!Accounts,
             Door!MergeReads(c, k, d)
      PROVE  Door!CodesApart'
  BY <1>13, <1>2 DEF Door!MergeReads
<1>14. ASSUME NEW c \in Visitors, NEW t \in Owned, NEW a \in Door!Accounts,
             Door!GivesReads(c, t, a)
      PROVE  Door!CodesApart'
  BY <1>14, <1>2 DEF Door!GivesReads
<1>15. ASSUME NEW c \in Visitors, NEW r \in Joining, Door!Claims(c, r) \/ Door!Renews(c, r)
      PROVE  Door!CodesApart'
  BY <1>15, <1>2 DEF Door!Claims, Door!Renews
<1>16. ASSUME NEW c \in Visitors, Door!MakesKey(c) \/ Door!Unclaims(c)
      PROVE  Door!CodesApart'
  BY <1>16, <1>2 DEF Door!MakesKey, Door!Unclaims
<1>17. CASE UNCHANGED Door!vars
  BY <1>17, <1>2 DEF Door!vars
<1> QED
  BY <1>1, <1>4, <1>5, <1>6, <1>7, <1>8, <1>9, <1>10, <1>11, <1>12, <1>13, <1>14, <1>15, <1>16,
     <1>17 DEF Door!Next

\* A step with no code, state or token in it.
Elsewhere ==
  /\ UNCHANGED <<v4, v5, v6, v10>> /\ v9' \in {v9, v9 + 1} /\ (v12 => v12')
  /\ \A c \in Visitors : v8'[c].op = "join" => v8'[c] = v8[c]

(* What opens and shuts the doors.                                         *)
LEMMA DoorSteps ==
  ASSUME Door!TypeOK, Door!RequestsHold, [Door!Next]_(Door!vars)
  PROVE  \/ Elsewhere
         \/ \E c \in Visitors :
              \/ \E e \in Emails, b \in Browsers : Door!AsksCode(c, e, b)
              \/ Door!SpendsCode(c)
              \/ Door!GuessesWrong(c)
              \/ \E s \in States, b \in Browsers : Door!BeginsState(c, s, b)
              \/ \E a \in v1 : Door!SpendsState(c, a)
              \/ \E r \in Joining : Door!Claims(c, r) \/ Door!Renews(c, r)
              \/ Door!MakesKey(c)
              \/ Door!Unclaims(c)
         \/ \E e \in Emails : Door!CodeExpires(e)
         \/ Door!Prunes
<1> USE DEF Door!doors, Door!Begins, Door!OneStep, Door!Ends, Door!Idle, Elsewhere
<1>0. v8 = [c \in Visitors |-> v8[c]] /\ v12 \in BOOLEAN
  BY DEF Door!RequestsHold, Door!TypeOK
<1>1. ASSUME NEW c \in Visitors, NEW e \in Emails, NEW b \in Browsers, NEW guess \in 0 .. v9,
             Door!ReadsCode(c, e, b, guess)
      PROVE  Elsewhere
  BY <1>0, <1>1 DEF Door!ReadsCode
<1>2. ASSUME NEW c \in Visitors, NEW s \in States, NEW b \in Browsers, Door!ReadsState(c, s, b)
      PROVE  Elsewhere
  BY <1>0, <1>2 DEF Door!ReadsState
<1>3. ASSUME NEW c \in Visitors, Door!CreatesSession(c) \/ Door!Gives(c)
      PROVE  Elsewhere
  BY <1>0, <1>3 DEF Door!CreatesSession, Door!Gives
<1>4. ASSUME NEW c \in Visitors, Door!MergeWrites(c)
      PROVE  Elsewhere
  BY <1>0, <1>4 DEF Door!MergeWrites
<1>5. ASSUME NEW c \in Visitors, NEW s \in v3, Door!SignsOut(c, s) \/ Door!SignsOutOthers(c, s)
      PROVE  Elsewhere
  BY <1>0, <1>5 DEF Door!SignsOut, Door!SignsOutOthers
<1>6. ASSUME NEW c \in Visitors, NEW k \in Door!Accounts, NEW d \in Door!Accounts,
             Door!MergeReads(c, k, d)
      PROVE  Elsewhere
  BY <1>0, <1>6 DEF Door!MergeReads
<1>7. ASSUME NEW c \in Visitors, NEW t \in Owned, NEW a \in Door!Accounts, Door!GivesReads(c, t, a)
      PROVE  Elsewhere
  BY <1>0, <1>7 DEF Door!GivesReads
<1>8. CASE UNCHANGED Door!vars
  BY <1>8 DEF Door!vars
<1> QED BY <1>1, <1>2, <1>3, <1>4, <1>5, <1>6, <1>7, <1>8 DEF Door!Next

(* A code that let somebody in is gone.                                    *)
LEMMA DoorCodesSpent ==
  ASSUME Door!Inductive, [Door!Next]_(Door!vars)
  PROVE  Door!CodesSpent'
<1> SUFFICES ASSUME Door!TypeOK, Door!RequestsHold, Door!CodesApart, Door!CodesSpent
             PROVE  Door!CodesSpent'
  BY DEF Door!Inductive
<1>t. v9 \in Nat /\ \A e \in Emails : v4[e].id <= v9
  BY AccountsAssumption DEF Door!TypeOK, Door!CodesApart
<1> USE AccountsAssumption
<1> USE DEF Door!Begins, Door!OneStep, Door!Ends, Door!LetIn
<1>1. ASSUME v9' \in {v9, v9 + 1},
             \A u \in v10' : u[1][1] = "code" => u \in v10,
             \A e \in Emails : v4'[e].id \in {v4[e].id, 0} \/ v4'[e].id = v9 + 1
      PROVE  Door!CodesSpent'
  BY <1>1, <1>t DEF Door!CodesSpent
<1>2. ASSUME NEW c \in Visitors, NEW e \in Emails, NEW b \in Browsers, Door!AsksCode(c, e, b)
      PROVE  Door!CodesSpent'
  <2>1. v9' = v9 + 1 /\ v10' = v10 /\ \A f \in Emails : v4'[f] = v4[f] \/ v4'[f].id = v9 + 1
    BY <1>2 DEF Door!AsksCode, Door!CodesApart
  <2> QED BY <1>1, <2>1
<1>3. ASSUME NEW c \in Visitors, Door!SpendsCode(c)
      PROVE  Door!CodesSpent'
  <2> DEFINE q == v8[c]
  <2>1. q.email \in Emails /\ q.row.id \in 1 .. v9
        /\ \A e \in Emails : v4[e].id = q.row.id => e = q.email
    BY <1>3 DEF Door!SpendsCode, Door!RequestsHold, Door!Code
  <2>2. v9' = v9
    BY <1>3 DEF Door!SpendsCode
  <2>3. CASE v4[q.email].id # q.row.id
    <3>1. v4' = v4 /\ v10' = v10
      BY <1>3, <2>3 DEF Door!SpendsCode
    <3> QED BY <1>1, <2>2, <3>1
  <2>4. CASE v4[q.email].id = q.row.id
    <3>1. /\ v4' = [v4 EXCEPT ![q.email] = Door!None]
          /\ v10' = v10 \cup {<<<<"code", q.row.id>>, v9, c>>}
      BY <1>3, <2>4 DEF Door!SpendsCode
    <3>2. \A e \in Emails : v4'[e].id # q.row.id /\ v4'[e].id \in {v4[e].id, 0}
      BY <2>1, <3>1 DEF Door!None, Door!CodesApart
    <3> QED BY <1>t, <2>1, <2>2, <3>1, <3>2 DEF Door!CodesSpent
  <2> QED BY <2>3, <2>4
<1>4. ASSUME NEW c \in Visitors, Door!GuessesWrong(c)
      PROVE  Door!CodesSpent'
  <2>1. v9' = v9 /\ v10' = v10
    BY <1>4 DEF Door!GuessesWrong
  <2>2. \A e \in Emails : v4'[e].id \in {v4[e].id, 0}
    BY <1>4, GuessKeepsNumbers
  <2> QED BY <1>1, <2>1, <2>2
<1>5. CASE Door!Prunes
  BY <1>1, <1>5 DEF Door!Prunes, Door!None
<1>6. ASSUME NEW e \in Emails, Door!CodeExpires(e)
      PROVE  Door!CodesSpent'
  <2>1. v9' = v9 /\ v10' = v10 /\ \A f \in Emails : v4'[f].id = v4[f].id
    BY <1>6 DEF Door!CodeExpires, Door!CodesApart
  <2> QED BY <1>1, <2>1
<1>7. ASSUME NEW c \in Visitors,
             \/ \E s \in States, b \in Browsers : Door!BeginsState(c, s, b)
             \/ \E a \in v1 : Door!SpendsState(c, a)
             \/ \E r \in Joining : Door!Claims(c, r) \/ Door!Renews(c, r)
             \/ Door!MakesKey(c) \/ Door!Unclaims(c)
      PROVE  Door!CodesSpent'
  <2>1. v9' \in {v9, v9 + 1} /\ v4' = v4
    BY <1>7 DEF Door!BeginsState, Door!SpendsState, Door!Claims, Door!Renews, Door!MakesKey,
                Door!Unclaims, Door!doors
  <2>2. \/ v10' = v10
        \/ v10' = v10 \cup {<<<<"state", v8[c].state>>, v9, c>>}
        \/ v10' = v10 \cup {<<<<v8[c].rig, v8[c].token>>, v9, c>>} /\ v8[c].rig \in Joining
    BY <1>7 DEF Door!BeginsState, Door!SpendsState, Door!Claims, Door!Renews, Door!MakesKey,
                Door!Unclaims, Door!RequestsHold, Door!Join
  <2>3. \A u \in v10' : u[1][1] = "code" => u \in v10
    BY <2>2
  <2> QED BY <1>1, <2>1, <2>3
<1>8. CASE Elsewhere
  BY <1>1, <1>8 DEF Elsewhere
<1> QED BY DoorSteps, <1>2, <1>3, <1>4, <1>5, <1>6, <1>7, <1>8

(* A state that let somebody in is spent.                                  *)
LEMMA DoorStatesSpent ==
  ASSUME Door!Inductive, [Door!Next]_(Door!vars)
  PROVE  Door!StatesSpent'
<1> SUFFICES ASSUME Door!TypeOK, Door!RequestsHold, Door!StatesSpent
             PROVE  Door!StatesSpent'
  BY DEF Door!Inductive
<1> USE AccountsAssumption
<1> USE DEF Door!LetIn
<1>1. ASSUME \A u \in v10' : u[1][1] = "state" => u \in v10,
             \A s \in States : v5[s] = "spent" => v5'[s] = "spent"
      PROVE  Door!StatesSpent'
  BY <1>1 DEF Door!StatesSpent
<1>2. ASSUME NEW c \in Visitors, NEW s \in States, NEW b \in Browsers, Door!BeginsState(c, s, b)
      PROVE  Door!StatesSpent'
  BY <1>1, <1>2 DEF Door!BeginsState, Door!TypeOK
<1>3. ASSUME NEW c \in Visitors, NEW a \in v1, Door!SpendsState(c, a)
      PROVE  Door!StatesSpent'
  <2>1. v8[c].state \in States
    BY <1>3 DEF Door!SpendsState, Door!RequestsHold, Door!State
  <2>2. \A s \in States : v5'[s] = IF s = v8[c].state THEN "spent" ELSE v5[s]
    BY <1>3, <2>1 DEF Door!SpendsState, Door!TypeOK
  <2>3. v10' = v10 \/ v10' = v10 \cup {<<<<"state", v8[c].state>>, v9, c>>}
    BY <1>3 DEF Door!SpendsState
  <2> QED BY <2>1, <2>2, <2>3 DEF Door!StatesSpent
<1>4. ASSUME NEW c \in Visitors, Door!SpendsCode(c)
      PROVE  Door!StatesSpent'
  <2>1. v5' = v5 /\ (v10' = v10 \/ v10' = v10 \cup {<<<<"code", v8[c].row.id>>, v9, c>>})
    BY <1>4 DEF Door!SpendsCode
  <2> QED BY <1>1, <2>1
<1>5. ASSUME NEW c \in Visitors, Door!MakesKey(c)
      PROVE  Door!StatesSpent'
  <2>1. /\ v5' = v5 /\ v8[c].rig \in Joining
        /\ v10' = v10 \cup {<<<<v8[c].rig, v8[c].token>>, v9, c>>}
    BY <1>5 DEF Door!MakesKey, Door!doors, Door!RequestsHold, Door!Join
  <2> QED BY <1>1, <2>1
<1>6. ASSUME NEW c \in Visitors, \/ \E e \in Emails, b \in Browsers : Door!AsksCode(c, e, b)
                                \/ Door!GuessesWrong(c) \/ Door!Unclaims(c)
                                \/ \E r \in Joining : Door!Claims(c, r) \/ Door!Renews(c, r)
      PROVE  Door!StatesSpent'
  BY <1>1, <1>6 DEF Door!AsksCode, Door!GuessesWrong, Door!Unclaims, Door!Claims, Door!Renews
<1>7. CASE Elsewhere \/ Door!Prunes \/ (\E e \in Emails : Door!CodeExpires(e))
  BY <1>1, <1>7 DEF Elsewhere, Door!Prunes, Door!CodeExpires
<1> QED BY DoorSteps, <1>2, <1>3, <1>4, <1>5, <1>6, <1>7

(* A token is claimed once, and one that let a rig in is used.             *)
LEMMA DoorTokens ==
  ASSUME Door!Inductive, [Door!Next]_(Door!vars)
  PROVE  Door!JoinsApart' /\ Door!TokensSpent'
<1> SUFFICES ASSUME Door!TypeOK, Door!RequestsHold, Door!JoinsApart, Door!TokensSpent
             PROVE  Door!JoinsApart' /\ Door!TokensSpent'
  BY DEF Door!Inductive
<1> USE AccountsAssumption
<1> USE DEF Door!LetIn, Door!Begins, Door!OneStep, Door!Ends, Door!Idle
<1>0. v8 = [c \in Visitors |-> v8[c]] /\ v12 \in BOOLEAN
  BY DEF Door!RequestsHold, Door!TypeOK
<1>1. ASSUME v6' = v6, v12 => v12', \A u \in v10' : u[1][1] \in Joining => u \in v10,
             \A c \in Visitors : v8'[c].op = "join" => v8'[c] = v8[c]
      PROVE  Door!JoinsApart' /\ Door!TokensSpent'
  BY <1>1 DEF Door!JoinsApart, Door!TokensSpent
<1>2. ASSUME NEW c \in Visitors, NEW r \in Joining, Door!Claims(c, r)
      PROVE  Door!JoinsApart' /\ Door!TokensSpent'
  <2> DEFINE q == [op |-> "join", rig |-> r, token |-> v6[r].token]
             used == [v6[r] EXCEPT !.status = "used"]
  <2>1. used = [token |-> v6[r].token, status |-> "used"]
    BY DEF Door!JoinsApart
  <2>2. v8' = [v8 EXCEPT ![c] = q] /\ v6' = [v6 EXCEPT ![r] = used] /\ v12' = v12 /\ v10' = v10
    BY <1>2 DEF Door!Claims
  <2>3. v6[r].status = "waiting"
    BY <1>2 DEF Door!Claims
  <2>4. q.op = "join" /\ q.rig = r /\ q.token = v6[r].token
    OBVIOUS
  <2> HIDE DEF q, used
  <2>5. Door!JoinsApart'
    BY <1>0, <2>1, <2>2, <2>3, <2>4 DEF Door!JoinsApart, Door!RequestsHold, Door!Join
  <2>6. Door!TokensSpent'
    BY <1>0, <2>1, <2>2, <2>3, <2>4 DEF Door!JoinsApart, Door!TokensSpent
  <2> QED BY <2>5, <2>6
<1>3. ASSUME NEW c \in Visitors, NEW r \in Joining, Door!Renews(c, r)
      PROVE  Door!JoinsApart' /\ Door!TokensSpent'
  <2>1. /\ v6[r].token \in Nat /\ v12' = v12 /\ v10' = v10
        /\ v6' = [v6 EXCEPT ![r] = [token |-> v6[r].token + 1, status |-> "waiting"]]
        /\ v8' = [v8 EXCEPT ![c] = Door!Idle]
    BY <1>3 DEF Door!Renews, Door!JoinsApart
  <2>2. \A d \in Visitors : v8'[d].op = "join" => v8'[d] = v8[d]
    BY <1>0, <2>1
  <2>3. Door!JoinsApart'
    BY <2>1, <2>2 DEF Door!JoinsApart, Door!RequestsHold, Door!Join
  <2>4. Door!TokensSpent'
    BY <2>1, <2>2 DEF Door!JoinsApart, Door!TokensSpent
  <2> QED BY <2>3, <2>4
<1>4. ASSUME NEW c \in Visitors, Door!MakesKey(c)
      PROVE  Door!JoinsApart' /\ Door!TokensSpent'
  <2>1. /\ v6' = v6 /\ v12' = v12 /\ v8[c].rig \in Joining /\ v8[c].token \in Nat
        /\ v8[c].op = "join"
        /\ v10' = v10 \cup {<<<<v8[c].rig, v8[c].token>>, v9, c>>}
        /\ v8' = [v8 EXCEPT ![c] = Door!Idle]
    BY <1>4 DEF Door!MakesKey, Door!doors, Door!RequestsHold, Door!Join
  <2>2. \A d \in Visitors : v8'[d].op = "join" => v8'[d] = v8[d] /\ d # c
    BY <1>0, <2>1
  <2>3. Door!JoinsApart'
    BY <2>1, <2>2 DEF Door!JoinsApart
  <2>4. Door!TokensSpent'
    BY <2>1, <2>2 DEF Door!JoinsApart, Door!TokensSpent
  <2> QED BY <2>3, <2>4
<1>5. ASSUME NEW c \in Visitors, Door!Unclaims(c)
      PROVE  Door!JoinsApart' /\ Door!TokensSpent'
  <2> DEFINE r == v8[c].rig
             again == [v6[r] EXCEPT !.status = "waiting"]
  <2>1. r \in Joining /\ v8[c].op = "join"
    BY <1>5 DEF Door!Unclaims, Door!RequestsHold, Door!Join
  <2>2. again = [token |-> v6[r].token, status |-> "waiting"]
    BY <2>1 DEF Door!JoinsApart
  <2>3. /\ v6' = [v6 EXCEPT ![r] = again] /\ v10' = v10 /\ v8' = [v8 EXCEPT ![c] = Door!Idle]
        /\ v12' = (v12 \/ v6[r].token # v8[c].token)
    BY <1>5 DEF Door!Unclaims
  <2> HIDE DEF again
  <2>4. \A d \in Visitors : v8'[d].op = "join" => v8'[d] = v8[d] /\ d # c
    BY <1>0, <2>3
  <2>5. v12' \/ (v6[r].token = v8[c].token /\ ~v12)
    BY <2>3
  <2>6. Door!JoinsApart'
    BY <2>1, <2>2, <2>3, <2>4, <2>5 DEF Door!JoinsApart
  <2>7. Door!TokensSpent'
    BY <2>1, <2>2, <2>3, <2>4, <2>5 DEF Door!JoinsApart, Door!TokensSpent
  <2> QED BY <2>6, <2>7
<1>6. ASSUME NEW c \in Visitors, Door!SpendsCode(c)
      PROVE  Door!JoinsApart' /\ Door!TokensSpent'
  <2>1. v6' = v6 /\ v12' = v12 /\ \A d \in Visitors : v8'[d].op = "join" => v8'[d] = v8[d]
    BY <1>0, <1>6 DEF Door!SpendsCode
  <2>2. v10' = v10 \/ v10' = v10 \cup {<<<<"code", v8[c].row.id>>, v9, c>>}
    BY <1>6 DEF Door!SpendsCode
  <2> QED BY <1>1, <2>1, <2>2
<1>7. ASSUME NEW c \in Visitors, NEW a \in v1, Door!SpendsState(c, a)
      PROVE  Door!JoinsApart' /\ Door!TokensSpent'
  <2>1. v6' = v6 /\ v12' = v12 /\ \A d \in Visitors : v8'[d].op = "join" => v8'[d] = v8[d]
    BY <1>0, <1>7 DEF Door!SpendsState
  <2>2. v10' = v10 \/ v10' = v10 \cup {<<<<"state", v8[c].state>>, v9, c>>}
    BY <1>7 DEF Door!SpendsState
  <2> QED BY <1>1, <2>1, <2>2
<1>8. ASSUME NEW c \in Visitors,
             \/ \E e \in Emails, b \in Browsers : Door!AsksCode(c, e, b)
             \/ Door!GuessesWrong(c)
             \/ \E s \in States, b \in Browsers : Door!BeginsState(c, s, b)
      PROVE  Door!JoinsApart' /\ Door!TokensSpent'
  <2>1. /\ v6' = v6 /\ v12' = v12 /\ v10' = v10 /\ v8' = [v8 EXCEPT ![c] = Door!Idle]
    BY <1>8 DEF Door!AsksCode, Door!GuessesWrong, Door!BeginsState
  <2>2. \A d \in Visitors : v8'[d].op = "join" => v8'[d] = v8[d]
    BY <1>0, <2>1
  <2> QED BY <1>1, <2>1, <2>2
<1>9. CASE Elsewhere \/ Door!Prunes \/ (\E e \in Emails : Door!CodeExpires(e))
  BY <1>1, <1>9 DEF Elsewhere, Door!Prunes, Door!CodeExpires
<1> QED BY DoorSteps, <1>2, <1>3, <1>4, <1>5, <1>6, <1>7, <1>8, <1>9

(* A secret lets in once: what let in before is not what lets in now.      *)
LEMMA DoorUsedOnce ==
  ASSUME Door!Inductive, [Door!Next]_(Door!vars)
  PROVE  Door!UsedOnce'
<1> SUFFICES ASSUME Door!TypeOK, Door!RequestsHold, Door!CodesSpent, Door!StatesSpent,
                    Door!TokensSpent, Door!UsedOnce
             PROVE  Door!UsedOnce'
  BY DEF Door!Inductive
<1> USE DEF Door!LetIn
<1>1. ASSUME v10' = v10, v12 => v12'
      PROVE  Door!UsedOnce'
  BY <1>1 DEF Door!UsedOnce
<1>2. ASSUME NEW w, v10' = v10 \cup {w}, v12' = v12,
             \A u \in v10 : u[1] = w[1] => v12 /\ u[1][1] \in Joining
      PROVE  Door!UsedOnce'
  BY <1>2 DEF Door!UsedOnce
<1>3. ASSUME NEW c \in Visitors, Door!SpendsCode(c)
      PROVE  Door!UsedOnce'
  <2> DEFINE q == v8[c]
             w == <<<<"code", q.row.id>>, v9, c>>
  <2>1. q.email \in Emails /\ v12' = v12
    BY <1>3 DEF Door!SpendsCode, Door!RequestsHold, Door!Code
  <2>2. v10' = v10 \/ (v10' = v10 \cup {w} /\ v4[q.email].id = q.row.id)
    BY <1>3 DEF Door!SpendsCode
  <2>3. w[1] = <<"code", q.row.id>> /\ w[1][1] = "code" /\ w[1][2] = q.row.id
    OBVIOUS
  <2> HIDE DEF w
  <2>4. ASSUME v4[q.email].id = q.row.id, NEW u \in v10, u[1] = w[1]
        PROVE  FALSE
    BY <2>1, <2>3, <2>4 DEF Door!CodesSpent
  <2> QED BY <1>1, <1>2, <2>1, <2>2, <2>4
<1>4. ASSUME NEW c \in Visitors, NEW a \in v1, Door!SpendsState(c, a)
      PROVE  Door!UsedOnce'
  <2> DEFINE q == v8[c]
             w == <<<<"state", q.state>>, v9, c>>
  <2>1. v12' = v12
    BY <1>4 DEF Door!SpendsState
  <2>2. v10' = v10 \/ (v10' = v10 \cup {w} /\ v5[q.state] # "spent")
    BY <1>4 DEF Door!SpendsState
  <2>3. w[1] = <<"state", q.state>> /\ w[1][1] = "state" /\ w[1][2] = q.state
    OBVIOUS
  <2> HIDE DEF w
  <2>4. ASSUME v5[q.state] # "spent", NEW u \in v10, u[1] = w[1]
        PROVE  FALSE
    BY <2>3, <2>4 DEF Door!StatesSpent
  <2> QED BY <1>1, <1>2, <2>1, <2>2, <2>4
<1>5. ASSUME NEW c \in Visitors, Door!MakesKey(c)
      PROVE  Door!UsedOnce'
  <2> DEFINE q == v8[c]
             w == <<<<q.rig, q.token>>, v9, c>>
  <2>1. v12' = v12 /\ v12 \in BOOLEAN /\ q.rig \in Joining /\ q.op = "join" /\ v10' = v10 \cup {w}
    BY <1>5 DEF Door!MakesKey, Door!RequestsHold, Door!Join, Door!TypeOK
  <2>2. w[1] = <<q.rig, q.token>> /\ w[1][1] = q.rig
    OBVIOUS
  <2> HIDE DEF w
  <2>3. ASSUME NEW u \in v10, u[1] = w[1]
        PROVE  v12 /\ u[1][1] \in Joining
    BY <2>1, <2>2, <2>3 DEF Door!TokensSpent
  <2> QED BY <1>2, <2>1, <2>3
<1>6. ASSUME NEW c \in Visitors,
             \/ \E e \in Emails, b \in Browsers : Door!AsksCode(c, e, b)
             \/ Door!GuessesWrong(c)
             \/ \E s \in States, b \in Browsers : Door!BeginsState(c, s, b)
             \/ \E r \in Joining : Door!Claims(c, r) \/ Door!Renews(c, r)
             \/ Door!Unclaims(c)
      PROVE  Door!UsedOnce'
  BY <1>1, <1>6 DEF Door!AsksCode, Door!GuessesWrong, Door!BeginsState, Door!Claims, Door!Renews,
     Door!Unclaims
<1>7. CASE Elsewhere \/ Door!Prunes \/ (\E e \in Emails : Door!CodeExpires(e))
  BY <1>1, <1>7 DEF Elsewhere, Door!Prunes, Door!CodeExpires
<1> QED
  <2> HIDE DEF Door!LetIn
  <2>1. CASE \E c \in Visitors : (\E r \in Joining : Door!Claims(c, r) \/ Door!Renews(c, r))
                               \/ (\E e \in Emails, b \in Browsers : Door!AsksCode(c, e, b))
                               \/ (\E s \in States, b \in Browsers : Door!BeginsState(c, s, b))
                               \/ Door!GuessesWrong(c) \/ Door!Unclaims(c)
    <3>1. PICK c \in Visitors : (\E r \in Joining : Door!Claims(c, r) \/ Door!Renews(c, r))
                               \/ (\E e \in Emails, b \in Browsers : Door!AsksCode(c, e, b))
                               \/ (\E s \in States, b \in Browsers : Door!BeginsState(c, s, b))
                               \/ Door!GuessesWrong(c) \/ Door!Unclaims(c)
      BY <2>1
    <3> HIDE DEF Door!UsedOnce
    <3>2. ASSUME NEW e \in Emails, NEW b \in Browsers, Door!AsksCode(c, e, b)
          PROVE  Door!UsedOnce'
      BY <1>6, <3>2
    <3>3. ASSUME NEW s \in States, NEW b \in Browsers, Door!BeginsState(c, s, b)
          PROVE  Door!UsedOnce'
      BY <1>6, <3>3
    <3>4. ASSUME NEW r \in Joining, Door!Claims(c, r) \/ Door!Renews(c, r)
          PROVE  Door!UsedOnce'
      BY <1>6, <3>4
    <3>5. CASE Door!GuessesWrong(c) \/ Door!Unclaims(c)
      BY <1>6, <3>5
    <3> QED BY <3>1, <3>2, <3>3, <3>4, <3>5
  <2>2. CASE \E c \in Visitors : Door!SpendsCode(c) \/ Door!MakesKey(c)
                               \/ (\E a \in v1 : Door!SpendsState(c, a))
    BY <2>2, <1>3, <1>4, <1>5
  <2> QED BY DoorSteps, <2>1, <2>2, <1>7

(* A session is of who signed in, and what an account owned has one to answer for it.  *)
LEMMA DoorPeople ==
  ASSUME Door!Inductive, [Door!Next]_(Door!vars)
  PROVE  Door!SessionsKept' /\ Door!NobodyStranded'
<1> SUFFICES ASSUME Door!TypeOK, Door!RequestsHold, Door!SessionsKept, Door!NobodyStranded
             PROVE  Door!SessionsKept' /\ Door!NobodyStranded'
  BY DEF Door!Inductive
<1> USE DEF Door!Accounts, Door!Shows
<1>0. v12 \in BOOLEAN /\ v9 \in Nat /\ v1 \subseteq Door!Accounts
  BY AccountsAssumption DEF Door!TypeOK
<1>1. ASSUME v1' = v1, v7' = v7, v12 => v12', v3' \subseteq v3
      PROVE  Door!SessionsKept' /\ Door!NobodyStranded'
  <2>1. Door!SessionsKept'
    BY <1>1 DEF Door!SessionsKept
  <2>2. Door!NobodyStranded'
    BY <1>1 DEF Door!NobodyStranded
  <2> QED BY <2>1, <2>2
<1>2. ASSUME NEW c \in Visitors, Door!CreatesSession(c)
      PROVE  Door!SessionsKept' /\ Door!NobodyStranded'
  <2> DEFINE a == v8[c].account
             s == [id |-> <<v9, c>>, account |-> a, person |-> People[a]]
  <2>1. v3' = v3 \cup {s} /\ v1' = v1 /\ v7' = v7 /\ v12' = v12 /\ a \in Door!Accounts
    BY <1>2 DEF Door!CreatesSession, Door!people, Door!RequestsHold, Door!Enters
  <2>2. s.account = a /\ s.person = People[a]
    OBVIOUS
  <2>3. s \in [id : Nat \X (Visitors \cup {Nobody}), account : Door!Accounts,
               person : {People[b] : b \in Door!Accounts}]
    BY <1>0, <2>1
  <2> HIDE DEF s
  <2>4. Door!SessionsKept'
    BY <2>1, <2>2, <2>3 DEF Door!SessionsKept
  <2>5. Door!NobodyStranded'
    BY <2>1, <2>2 DEF Door!NobodyStranded
  <2> QED BY <2>4, <2>5
<1>3. ASSUME NEW c \in Visitors, Door!MergeWrites(c)
      PROVE  Door!SessionsKept' /\ Door!NobodyStranded'
  <2> DEFINE m == v8[c]
  <2>1. m.keep \in Door!Accounts /\ m.drop \in Door!Accounts /\ m.keep # m.drop
        /\ People[m.keep] = People[m.drop]
    BY <1>3 DEF Door!MergeWrites, Door!RequestsHold, Door!Merge
  <2>2. /\ v3' = {[s EXCEPT !.account = Door!Moved(m, s.account)] : s \in v3}
        /\ v7' = [t \in Owned |-> Door!Moved(m, v7[t])]
        /\ v1' = v1 \ {m.drop}
        /\ v12' = (v12 \/ ~({m.keep, m.drop} \subseteq v1))
    BY <1>3 DEF Door!MergeWrites
  <2> HIDE DEF m
  <2>3. ASSUME NEW s \in v3'
        PROVE  /\ s \in [id : Nat \X (Visitors \cup {Nobody}), account : Door!Accounts,
                         person : {People[b] : b \in Door!Accounts}]
               /\ People[s.account] = s.person
    <3>1. PICK t \in v3 : s = [t EXCEPT !.account = Door!Moved(m, t.account)]
      BY <2>2
    <3>2. /\ t \in [id : Nat \X (Visitors \cup {Nobody}), account : Door!Accounts,
                     person : {People[b] : b \in Door!Accounts}]
          /\ People[t.account] = t.person
      BY DEF Door!SessionsKept
    <3>3. Door!Moved(m, t.account) \in Door!Accounts
          /\ People[Door!Moved(m, t.account)] = t.person
      BY <2>1, <3>2 DEF Door!Moved
    <3> QED BY <3>1, <3>2, <3>3
  <2>4. Door!SessionsKept'
    BY <2>3 DEF Door!SessionsKept
  <2>5. \A s \in v3' : Door!Shows(s)' # Nobody => People[Door!Shows(s)'] = s.person
    BY <2>3
  <2>6. ASSUME ~v12'
        PROVE  /\ \A t \in Owned : v7'[t] \in v1'
               /\ {People[a] : a \in v1'} = {People[a] : a \in Door!Accounts}
    <3>1. ~v12 /\ m.keep \in v1 /\ m.drop \in v1
      BY <2>2, <2>6
    <3>2. ASSUME NEW t \in Owned
          PROVE  v7'[t] \in v1'
      BY <2>1, <2>2, <3>1 DEF Door!Moved, Door!NobodyStranded
    <3>3. \A a \in v1 : \E b \in v1' : People[b] = People[a]
      BY <2>1, <2>2, <3>1
    <3>4. {People[a] : a \in v1} = {People[a] : a \in Door!Accounts}
      BY <3>1 DEF Door!NobodyStranded
    <3>5. {People[a] : a \in v1'} = {People[a] : a \in v1}
      BY <2>2, <3>3
    <3> QED BY <3>2, <3>4, <3>5
  <2>7. Door!NobodyStranded'
    BY <2>5, <2>6 DEF Door!NobodyStranded
  <2> QED BY <2>4, <2>7
<1>4. ASSUME NEW c \in Visitors, Door!Gives(c)
      PROVE  Door!SessionsKept' /\ Door!NobodyStranded'
  <2>1. /\ v7' = [v7 EXCEPT ![v8[c].what] = v8[c].account] /\ v1' = v1 /\ v3' = v3
        /\ v12' = (v12 \/ v8[c].account \notin v1)
    BY <1>4 DEF Door!Gives
  <2>2. Door!SessionsKept'
    BY <2>1 DEF Door!SessionsKept
  <2>3. Door!NobodyStranded'
    BY <2>1 DEF Door!NobodyStranded, Door!TypeOK
  <2> QED BY <2>2, <2>3
<1>5. ASSUME NEW c \in Visitors, NEW s \in v3, Door!SignsOut(c, s) \/ Door!SignsOutOthers(c, s)
      PROVE  Door!SessionsKept' /\ Door!NobodyStranded'
  BY <1>1, <1>5 DEF Door!SignsOut, Door!SignsOutOthers, Door!people
<1>6. ASSUME NEW c \in Visitors, NEW e \in Emails, NEW b \in Browsers,
             Door!AsksCode(c, e, b) \/ (\E guess \in 0 .. v9 : Door!ReadsCode(c, e, b, guess))
      PROVE  Door!SessionsKept' /\ Door!NobodyStranded'
  BY <1>1, <1>6 DEF Door!AsksCode, Door!ReadsCode, Door!people
<1>7. ASSUME NEW c \in Visitors, Door!SpendsCode(c) \/ Door!GuessesWrong(c)
      PROVE  Door!SessionsKept' /\ Door!NobodyStranded'
  BY <1>1, <1>7 DEF Door!SpendsCode, Door!GuessesWrong, Door!people
<1>8. ASSUME NEW c \in Visitors, NEW s \in States, NEW b \in Browsers,
             Door!BeginsState(c, s, b) \/ Door!ReadsState(c, s, b)
      PROVE  Door!SessionsKept' /\ Door!NobodyStranded'
  BY <1>1, <1>8 DEF Door!BeginsState, Door!ReadsState, Door!people
<1>9. ASSUME NEW c \in Visitors, NEW a \in v1, Door!SpendsState(c, a)
      PROVE  Door!SessionsKept' /\ Door!NobodyStranded'
  BY <1>1, <1>9 DEF Door!SpendsState, Door!people
<1>10. ASSUME NEW c \in Visitors, NEW k \in Door!Accounts, NEW d \in Door!Accounts,
             Door!MergeReads(c, k, d)
      PROVE  Door!SessionsKept' /\ Door!NobodyStranded'
  BY <1>1, <1>10 DEF Door!MergeReads, Door!people
<1>11. ASSUME NEW c \in Visitors, NEW t \in Owned, NEW a \in Door!Accounts,
             Door!GivesReads(c, t, a)
      PROVE  Door!SessionsKept' /\ Door!NobodyStranded'
  BY <1>1, <1>11 DEF Door!GivesReads, Door!people
<1>12. ASSUME NEW c \in Visitors, NEW r \in Joining, Door!Claims(c, r) \/ Door!Renews(c, r)
      PROVE  Door!SessionsKept' /\ Door!NobodyStranded'
  BY <1>1, <1>12 DEF Door!Claims, Door!Renews, Door!people
<1>13. ASSUME NEW c \in Visitors, Door!MakesKey(c) \/ Door!Unclaims(c)
      PROVE  Door!SessionsKept' /\ Door!NobodyStranded'
  BY <1>0, <1>1, <1>13 DEF Door!MakesKey, Door!Unclaims, Door!people
<1>14. CASE Door!Prunes \/ (\E e \in Emails : Door!CodeExpires(e)) \/ UNCHANGED Door!vars
  BY <1>1, <1>14 DEF Door!Prunes, Door!CodeExpires, Door!vars, Door!people
<1> HIDE DEF Door!Accounts
<1> QED
  BY <1>2, <1>3, <1>4, <1>5, <1>6, <1>7, <1>8, <1>9, <1>10, <1>11, <1>12, <1>13, <1>14
  DEF Door!Next

LEMMA DoorInductive ==
  ASSUME Door!Inductive, [Door!Next]_(Door!vars)
  PROVE  Door!Inductive'
BY DoorTypes, DoorRequests, DoorCodes, DoorCodesSpent, DoorStatesSpent, DoorTokens, DoorUsedOnce,
   DoorPeople DEF Door!Inductive

(* A code that is there was guessed wrong as often as its row says.        *)
LEMMA CapRight ==
  ASSUME Door!Inductive
  PROVE  Door!CapHolds
BY DEF Door!Inductive, Door!CodesApart, Door!CapHolds, Door!None

-----------------------------------------------------------------------------
(* An upgrade of the host (HostUpgrade). *)

(* Nothing but f leaves the pins with it, and none is there twice.  *)
LEMMA UnpinnedRight ==
  ASSUME NEW F, v12 \in Seq(F), \A i, k \in DOMAIN v12 : i # k => v12[i] # v12[k], NEW f
  PROVE  LET p == Upgrade!Unpinned(f) IN
         /\ p \in Seq(F) /\ \A i \in DOMAIN p : p[i] # f
         /\ \A i, k \in DOMAIN p : i # k => p[i] # p[k]
<1> DEFINE p == Upgrade!Unpinned(f)
<1>1. CASE \E i \in DOMAIN v12 : v12[i] = f
  <2> DEFINE i == CHOOSE j \in DOMAIN v12 : v12[j] = f
  <2>1. i \in DOMAIN v12 /\ v12[i] = f
    BY <1>1
  <2>2. p = [k \in 1 .. Len(v12) - 1 |-> v12[IF k < i THEN k ELSE k + 1]]
    BY <1>1 DEF Upgrade!Unpinned
  <2> HIDE DEF i, p
  <2>3. Len(v12) \in Nat /\ DOMAIN v12 = 1 .. Len(v12) /\ \A k \in DOMAIN v12 : v12[k] \in F
    OBVIOUS
  <2>4. Len(v12) - 1 \in Nat /\ DOMAIN p = 1 .. Len(v12) - 1 /\ i \in 1 .. Len(v12)
    BY <2>1, <2>2, <2>3
  <2>5. ASSUME NEW k \in 1 .. Len(v12) - 1
        PROVE  p[k] = v12[IF k < i THEN k ELSE k + 1] /\ (IF k < i THEN k ELSE k + 1) \in DOMAIN v12 \ {i}
    BY <2>2, <2>3, <2>4
  <2>6. p \in Seq(F)
    <3>1. p \in [1 .. Len(v12) - 1 -> F]
      BY <2>2, <2>3, <2>5
    <3> QED BY <3>1, <2>4
  <2>7. \A k \in DOMAIN p : p[k] # f
    BY <2>1, <2>3, <2>4, <2>5
  <2>8. ASSUME NEW k \in DOMAIN p, NEW l \in DOMAIN p, k # l
        PROVE  p[k] # p[l]
    <3>1. (IF k < i THEN k ELSE k + 1) # (IF l < i THEN l ELSE l + 1)
      BY <2>4, <2>8
    <3> QED BY <3>1, <2>4, <2>5
  <2> QED BY <2>6, <2>7, <2>8 DEF p
<1>2. CASE ~\E i \in DOMAIN v12 : v12[i] = f
  BY <1>2 DEF Upgrade!Unpinned
<1> QED BY <1>1, <1>2

LEMMA PinnedRight ==
  ASSUME NEW F, v12 \in Seq(F), \A i, k \in DOMAIN v12 : i # k => v12[i] # v12[k], NEW f \in F
  PROVE  LET p == Upgrade!Pinned(f) IN
         /\ p \in Seq(F) /\ p # <<>> /\ p[Len(p)] = f
         /\ \A i, k \in DOMAIN p : i # k => p[i] # p[k]
<1> DEFINE q == Upgrade!Unpinned(f)
           p == Append(q, f)
<1>1. q \in Seq(F) /\ (\A i \in DOMAIN q : q[i] # f) /\ \A i, k \in DOMAIN q : i # k => q[i] # q[k]
  BY UnpinnedRight
<1>2. Upgrade!Pinned(f) = p
  BY DEF Upgrade!Pinned
<1> HIDE DEF q
<1>3. Len(q) \in Nat /\ DOMAIN q = 1 .. Len(q) /\ DOMAIN p = 1 .. Len(q) + 1 /\ Len(p) = Len(q) + 1
  BY <1>1
<1>4. p[Len(q) + 1] = f /\ \A k \in DOMAIN q : p[k] = q[k]
  BY <1>1
<1>5. p \in Seq(F) /\ p # <<>>
  BY <1>1
<1> HIDE DEF p
<1>6. \A i, k \in DOMAIN p : i # k => p[i] # p[k]
  BY <1>1, <1>3, <1>4
<1> QED BY <1>2, <1>3, <1>4, <1>5, <1>6

(* The pin given last is the current one, if its bundle is there.  *)
LEMMA CurrentIsLast ==
  ASSUME NEW F, v12 \in Seq(F), v12 # <<>>, v12[Len(v12)] \in v11
  PROVE  Upgrade!Current = v12[Len(v12)]
<1> DEFINE P == Upgrade!Present
           n == Len(v12)
           c == CHOOSE i \in P : \A k \in P : k <= i
<1>1. n \in P /\ P \subseteq 1 .. n /\ n \in Nat
  BY DEF Upgrade!Present
<1>2. \A k \in P : k <= n
  BY <1>1
<1>3. c \in P /\ \A k \in P : k <= c
  BY <1>1, <1>2
<1>4. c = n
  <2> HIDE DEF P, n, c
  <2>1. c <= n /\ n <= c
    BY <1>1, <1>2, <1>3
  <2> QED BY <1>1, <1>3, <2>1
<1>5. P # {} /\ Upgrade!Current = IF P = {} THEN "none" ELSE v12[c]
  BY <1>1 DEF Upgrade!Current
<1> QED BY <1>4, <1>5

(* What an upgrade is while it is under way, and what a step of it leaves it.  *)
LEMMA UpgradeIs ==
  ASSUME Upgrade!TypeOK, NEW u \in Upgrade!Upgraders, v6[u] # Upgrade!Idle
  PROVE  v6[u] \in Upgrade!Underway /\ v6[u].at # "idle" /\ v6[u].release \in Offered
<1>1. v6[u] \in Upgrade!Underway
  BY DEF Upgrade!TypeOK
<1> QED BY <1>1 DEF Upgrade!Underway

LEMMA UpgradeGoes ==
  ASSUME Upgrade!TypeOK, NEW u \in Upgrade!Upgraders, v6[u] # Upgrade!Idle,
         NEW at \in {"reads", "wheels", "pip", "dashboard", "firmware", "places", "pins", "stamps",
                     "restarts", "cleans", "ends"},
         NEW pinning \in BOOLEAN, v6' = [v6 EXCEPT ![u].at = at, ![u].pinning = pinning]
  PROVE  /\ v6' \in [Upgrade!Upgraders -> {Upgrade!Idle} \cup Upgrade!Underway]
         /\ v6'[u].at = at /\ v6'[u].pinning = pinning
         /\ v6'[u].release = v6[u].release /\ v6'[u].file = v6[u].file
         /\ v6'[u].restaged = v6[u].restaged /\ v6'[u].alone = v6[u].alone
         /\ \A w \in Upgrade!Upgraders : w # u => v6'[w] = v6[w]
<1> DEFINE a == v6[u]
           b == [a EXCEPT !.at = at, !.pinning = pinning]
<1>1. a \in Upgrade!Underway
  BY UpgradeIs
<1>2. b \in Upgrade!Underway /\ b.at = at /\ b.pinning = pinning /\ b.release = a.release
      /\ b.file = a.file /\ b.restaged = a.restaged /\ b.alone = a.alone
  BY <1>1 DEF Upgrade!Underway
<1>3. v6 \in [Upgrade!Upgraders -> {Upgrade!Idle} \cup Upgrade!Underway]
  BY DEF Upgrade!TypeOK
<1>4. v6' = [v6 EXCEPT ![u] = b]
  BY <1>3
<1> HIDE DEF b
<1>5. v6'[u] = b /\ \A w \in Upgrade!Upgraders : w # u => v6'[w] = v6[w]
  BY <1>3, <1>4
<1>6. v6' \in [Upgrade!Upgraders -> {Upgrade!Idle} \cup Upgrade!Underway]
  BY <1>2, <1>3, <1>4
<1> QED BY <1>2, <1>5, <1>6

LEMMA PlainlyGoes ==
  ASSUME Upgrade!TypeOK, NEW u \in Upgrade!Upgraders, v6[u] # Upgrade!Idle,
         NEW at \in {"reads", "wheels", "pip", "dashboard", "firmware", "places", "pins", "stamps",
                     "restarts", "cleans", "ends"},
         Upgrade!Goes(u, at)
  PROVE  /\ v6' \in [Upgrade!Upgraders -> {Upgrade!Idle} \cup Upgrade!Underway]
         /\ v6'[u].at = at /\ v6'[u].pinning = v6[u].pinning
         /\ v6'[u].release = v6[u].release /\ v6'[u].file = v6[u].file
         /\ v6'[u].restaged = v6[u].restaged /\ v6'[u].alone = v6[u].alone
         /\ \A w \in Upgrade!Upgraders : w # u => v6'[w] = v6[w]
<1> DEFINE a == v6[u]
           b == [a EXCEPT !.at = at]
<1>1. a \in Upgrade!Underway
  BY UpgradeIs
<1>2. b \in Upgrade!Underway /\ b.at = at /\ b.pinning = a.pinning /\ b.release = a.release
      /\ b.file = a.file /\ b.restaged = a.restaged /\ b.alone = a.alone
  BY <1>1 DEF Upgrade!Underway
<1>3. v6 \in [Upgrade!Upgraders -> {Upgrade!Idle} \cup Upgrade!Underway]
  BY DEF Upgrade!TypeOK
<1>4. v6' = [v6 EXCEPT ![u] = b]
  BY <1>3 DEF Upgrade!Goes
<1> HIDE DEF b
<1>5. v6'[u] = b /\ \A w \in Upgrade!Upgraders : w # u => v6'[w] = v6[w]
  BY <1>3, <1>4
<1>6. v6' \in [Upgrade!Upgraders -> {Upgrade!Idle} \cup Upgrade!Underway]
  BY <1>2, <1>3, <1>4
<1> QED BY <1>2, <1>5, <1>6

(* Who stages a release again meets the upgrade from its directory, and disturbs no other.  *)
Restaged(a) == [a EXCEPT !.restaged = TRUE]
Beside(a) == [a EXCEPT !.alone = FALSE]

LEMMA UpgradeMet ==
  ASSUME Upgrade!TypeOK, NEW r, v6' = Upgrade!Met(r)
  PROVE  /\ v6' \in [Upgrade!Upgraders -> {Upgrade!Idle} \cup Upgrade!Underway]
         /\ v6'["hand"] = v6["hand"]
         /\ v6["unit"] = Upgrade!Idle => v6'["unit"] = Upgrade!Idle
         /\ v6["unit"] # Upgrade!Idle =>
              /\ v6'["unit"] \in Upgrade!Underway
              /\ v6'["unit"].at = v6["unit"].at /\ v6'["unit"].pinning = v6["unit"].pinning
              /\ v6'["unit"].release = v6["unit"].release /\ v6'["unit"].file = v6["unit"].file
              /\ v6'["unit"].alone = v6["unit"].alone
              /\ (v6'["unit"].restaged <=> v6["unit"].restaged \/ v6["unit"].release = r)
<1> DEFINE U == Upgrade!Upgraders
<1>1. v6 \in [U -> {Upgrade!Idle} \cup Upgrade!Underway] /\ {"unit", "hand"} = U
  BY DEF Upgrade!TypeOK, Upgrade!Upgraders
<1>2. ASSUME NEW a \in Upgrade!Underway
      PROVE  /\ Restaged(a) \in Upgrade!Underway /\ a.restaged \in BOOLEAN
             /\ Restaged(a).at = a.at /\ Restaged(a).release = a.release /\ Restaged(a).file = a.file
             /\ Restaged(a).restaged /\ Restaged(a).pinning = a.pinning /\ Restaged(a).alone = a.alone
  BY DEF Upgrade!Underway, Restaged
<1>3. ASSUME NEW u \in U, v6[u] # Upgrade!Idle
      PROVE  v6[u] \in Upgrade!Underway
  BY <1>3, UpgradeIs
<1>4. v6' = [u \in U |-> IF u = "unit" /\ v6[u] # Upgrade!Idle /\ v6[u].release = r
                        THEN Restaged(v6[u]) ELSE v6[u]]
  BY DEF Upgrade!Met, Restaged
<1> HIDE DEF U
<1>5. v6'["hand"] = v6["hand"]
  BY <1>1, <1>4
<1>6. v6'["unit"] = IF v6["unit"] # Upgrade!Idle /\ v6["unit"].release = r
                    THEN Restaged(v6["unit"]) ELSE v6["unit"]
  BY <1>1, <1>4
<1>7. v6' \in [U -> {Upgrade!Idle} \cup Upgrade!Underway]
  <2>1. ASSUME NEW u \in U
        PROVE  (IF u = "unit" /\ v6[u] # Upgrade!Idle /\ v6[u].release = r THEN Restaged(v6[u]) ELSE v6[u])
                 \in {Upgrade!Idle} \cup Upgrade!Underway
    BY <1>1, <1>2, <1>3
  <2> QED BY <1>4, <2>1
<1>8. "unit" \in U
  BY <1>1
<1>9. CASE v6["unit"] # Upgrade!Idle /\ v6["unit"].release = r
  BY <1>2, <1>3, <1>5, <1>6, <1>7, <1>8, <1>9 DEF U
<1>10. CASE ~(v6["unit"] # Upgrade!Idle /\ v6["unit"].release = r)
  <2>1. v6'["unit"] = v6["unit"]
    BY <1>6, <1>10
  <2> QED BY <1>2, <1>3, <1>5, <1>7, <1>8, <1>10, <2>1 DEF U
<1> QED BY <1>9, <1>10

(* Who works on the store disturbs an upgrade that has seen to its firmware.  *)
LEMMA UpgradeDisturbed ==
  ASSUME Upgrade!TypeOK, v6' = Upgrade!Disturbed
  PROVE  /\ v6' \in [Upgrade!Upgraders -> {Upgrade!Idle} \cup Upgrade!Underway]
         /\ \A u \in Upgrade!Upgraders :
              /\ v6[u] = Upgrade!Idle => v6'[u] = Upgrade!Idle
              /\ v6[u] # Upgrade!Idle =>
                   /\ v6'[u] \in Upgrade!Underway
                   /\ v6'[u].at = v6[u].at /\ v6'[u].pinning = v6[u].pinning
                   /\ v6'[u].release = v6[u].release /\ v6'[u].file = v6[u].file
                   /\ v6'[u].restaged = v6[u].restaged
                   /\ (v6'[u].alone <=> v6[u].alone /\ ~v6[u].pinning)
<1> DEFINE U == Upgrade!Upgraders
<1>1. v6 \in [U -> {Upgrade!Idle} \cup Upgrade!Underway]
  BY DEF Upgrade!TypeOK
<1>2. ASSUME NEW a \in Upgrade!Underway
      PROVE  /\ Beside(a) \in Upgrade!Underway /\ a.alone \in BOOLEAN /\ a.pinning \in BOOLEAN
             /\ Beside(a).at = a.at /\ Beside(a).release = a.release /\ Beside(a).file = a.file
             /\ Beside(a).restaged = a.restaged /\ Beside(a).pinning = a.pinning /\ ~Beside(a).alone
  BY DEF Upgrade!Underway, Beside
<1>3. ASSUME NEW u \in U, v6[u] # Upgrade!Idle
      PROVE  v6[u] \in Upgrade!Underway
  BY <1>3, UpgradeIs
<1>4. v6' = [u \in U |-> IF v6[u] # Upgrade!Idle /\ v6[u].pinning THEN Beside(v6[u]) ELSE v6[u]]
  BY DEF Upgrade!Disturbed, Beside
<1> HIDE DEF U
<1>5. v6' \in [U -> {Upgrade!Idle} \cup Upgrade!Underway]
  <2>1. ASSUME NEW u \in U
        PROVE  (IF v6[u] # Upgrade!Idle /\ v6[u].pinning THEN Beside(v6[u]) ELSE v6[u])
                 \in {Upgrade!Idle} \cup Upgrade!Underway
    BY <1>1, <1>2, <1>3
  <2> QED BY <1>4, <2>1
<1>6. ASSUME NEW u \in U, v6[u] = Upgrade!Idle
      PROVE  v6'[u] = Upgrade!Idle
  BY <1>4, <1>6
<1>7. ASSUME NEW u \in U, v6[u] # Upgrade!Idle
      PROVE  /\ v6'[u] \in Upgrade!Underway
             /\ v6'[u].at = v6[u].at /\ v6'[u].pinning = v6[u].pinning
             /\ v6'[u].release = v6[u].release /\ v6'[u].file = v6[u].file
             /\ v6'[u].restaged = v6[u].restaged
             /\ (v6'[u].alone <=> v6[u].alone /\ ~v6[u].pinning)
  <2>1. v6[u] \in Upgrade!Underway
    BY <1>3, <1>7
  <2>2. CASE v6[u].pinning
    <3>1. v6'[u] = Beside(v6[u])
      BY <1>4, <1>7, <2>2
    <3>2. ~v6'[u].alone
      BY <1>2, <2>1, <3>1
    <3>3. /\ v6'[u] \in Upgrade!Underway
          /\ v6'[u].at = v6[u].at /\ v6'[u].pinning = v6[u].pinning
          /\ v6'[u].release = v6[u].release /\ v6'[u].file = v6[u].file
          /\ v6'[u].restaged = v6[u].restaged
      BY <1>2, <2>1, <3>1
    <3> QED BY <2>2, <3>2, <3>3
  <2>3. CASE ~v6[u].pinning
    <3>1. v6'[u] = v6[u]
      BY <1>4, <1>7, <2>3
    <3> QED BY <1>2, <2>1, <2>3, <3>1
  <2> QED BY <2>2, <2>3
<1> QED BY <1>5, <1>6, <1>7 DEF U

LEMMA UpgradeBegins ==
  ASSUME Upgrade!TypeOK, NEW u \in Upgrade!Upgraders, NEW w \in Upgrade!Upgraders, w # u,
         NEW r \in Offered, NEW at \in {"reads", "wheels"}, Upgrade!Begins(u, r, at)
  PROVE  /\ v6' \in [Upgrade!Upgraders -> {Upgrade!Idle} \cup Upgrade!Underway]
         /\ v6'[u].at = at /\ v6'[u].release = r /\ v6'[u].file = 1
         /\ ~v6'[u].restaged /\ ~v6'[u].pinning
         /\ v6'[u].alone => v6'[w] = Upgrade!Idle
         /\ v6[w] = Upgrade!Idle => v6'[w] = Upgrade!Idle
         /\ v6[w] # Upgrade!Idle =>
              /\ v6'[w] \in Upgrade!Underway
              /\ v6'[w].at = v6[w].at /\ v6'[w].pinning = v6[w].pinning
              /\ v6'[w].release = v6[w].release /\ v6'[w].file = v6[w].file
              /\ v6'[w].restaged = v6[w].restaged /\ ~v6'[w].alone
<1> DEFINE U == Upgrade!Upgraders
           new == [at |-> at, release |-> r, file |-> 1, restaged |-> FALSE, pinning |-> FALSE,
                   alone |-> v6[w] = Upgrade!Idle]
<1>1. U = {u, w} /\ Upgrade!Other(u) = w
  BY DEF Upgrade!Upgraders, Upgrade!Other
<1>2. v6' = [v \in U |-> IF v = u THEN new ELSE IF v6[v] = Upgrade!Idle THEN Upgrade!Idle ELSE Beside(v6[v])]
  BY <1>1 DEF Upgrade!Begins, Beside
<1>3. new \in Upgrade!Underway /\ new.at = at /\ new.release = r /\ new.file = 1
      /\ ~new.restaged /\ ~new.pinning /\ (new.alone <=> v6[w] = Upgrade!Idle)
  <2>1. Len(Upgrade!Files) = 3 /\ 1 \in 1 .. Len(Upgrade!Files)
    BY DEF Upgrade!Files
  <2>2. (v6[w] = Upgrade!Idle) \in BOOLEAN
    OBVIOUS
  <2> QED BY <2>1, <2>2 DEF Upgrade!Underway
<1>4. ASSUME NEW a \in Upgrade!Underway
      PROVE  /\ Beside(a) \in Upgrade!Underway /\ ~Beside(a).alone
             /\ Beside(a).at = a.at /\ Beside(a).release = a.release /\ Beside(a).file = a.file
             /\ Beside(a).restaged = a.restaged /\ Beside(a).pinning = a.pinning
  BY DEF Upgrade!Underway, Beside
<1> HIDE DEF new, U
<1>5. v6'[u] = new /\ v6'[w] = IF v6[w] = Upgrade!Idle THEN Upgrade!Idle ELSE Beside(v6[w])
  BY <1>1, <1>2
<1>6. v6[w] # Upgrade!Idle => v6[w] \in Upgrade!Underway
  BY UpgradeIs
<1>7. v6' \in [U -> {Upgrade!Idle} \cup Upgrade!Underway]
  <2>1. ASSUME NEW v \in U
        PROVE  (IF v = u THEN new ELSE IF v6[v] = Upgrade!Idle THEN Upgrade!Idle ELSE Beside(v6[v]))
                 \in {Upgrade!Idle} \cup Upgrade!Underway
    BY <1>1, <1>3, <1>4, <1>6
  <2> QED BY <1>2, <2>1
<1>8. v6'[u].at = at /\ v6'[u].release = r /\ v6'[u].file = 1 /\ ~v6'[u].restaged /\ ~v6'[u].pinning
  BY <1>3, <1>5
<1>9. v6'[u].alone => v6'[w] = Upgrade!Idle
  BY <1>3, <1>5
<1>10. v6[w] = Upgrade!Idle => v6'[w] = Upgrade!Idle
  BY <1>5
<1>11. v6[w] # Upgrade!Idle =>
              /\ v6'[w] \in Upgrade!Underway
              /\ v6'[w].at = v6[w].at /\ v6'[w].pinning = v6[w].pinning
              /\ v6'[w].release = v6[w].release /\ v6'[w].file = v6[w].file
              /\ v6'[w].restaged = v6[w].restaged /\ ~v6'[w].alone
  <2> SUFFICES ASSUME v6[w] # Upgrade!Idle PROVE v6'[w] = Beside(v6[w]) /\ v6[w] \in Upgrade!Underway
    BY <1>4
  <2> QED BY <1>5, <1>6
<1> QED BY <1>7, <1>8, <1>9, <1>10, <1>11 DEF U

(* What holds of the host but for the upgrades.  *)
UpgradeHeld ==
  /\ v1 \in Offered /\ v5 \in {0} \cup Offered
  /\ v2 \in [Offered -> [Upgrade!FileNames -> {"none", "whole", "damaged"}]]
  /\ v4 \in [Stagers -> {Upgrade!Idle} \cup Upgrade!Staging]
  /\ {v7, v8, v10} \subseteq {Upgrade!Mixed} \cup Offered /\ v9 \in Offered
  /\ v11 \subseteq Upgrade!Firmwares /\ v12 \in Seq(Upgrade!Firmwares)
  /\ \A i, k \in DOMAIN v12 : i # k => v12[i] # v12[k]

LEMMA UpgradeHolds ==
  /\ Upgrade!Inductive <=>
       /\ UpgradeHeld /\ v6 \in [Upgrade!Upgraders -> {Upgrade!Idle} \cup Upgrade!Underway]
       /\ \A u \in Upgrade!Upgraders : v6[u] # Upgrade!Idle => Upgrade!InOrder(u)
  /\ Upgrade!Inductive' <=>
       /\ UpgradeHeld' /\ v6' \in [Upgrade!Upgraders -> {Upgrade!Idle} \cup Upgrade!Underway]
       /\ \A u \in Upgrade!Upgraders : v6'[u] # Upgrade!Idle => Upgrade!InOrder(u)'
BY DEF Upgrade!Inductive, Upgrade!TypeOK, UpgradeHeld

(* An upgrade another is beside keeps its order whatever that one does.  *)
LEMMA UpgradeBeside ==
  ASSUME NEW w \in Upgrade!Upgraders, Upgrade!InOrder(w), ~v6'[w].alone,
         v6'[w].at = v6[w].at, v6'[w].release = v6[w].release, v6'[w].file = v6[w].file,
         v6'[w].pinning = v6[w].pinning, v6[w].restaged => v6'[w].restaged,
         w = "hand" \/ v6'[w].restaged \/ v2'[v6[w].release] = v2[v6[w].release]
  PROVE  Upgrade!InOrder(w)'
BY DEF Upgrade!InOrder, Upgrade!Is, Upgrade!AfterPins

(* An upgrade keeps its order while what it has done is left.  *)
LEMMA UpgradeLeft ==
  ASSUME NEW w \in Upgrade!Upgraders, Upgrade!InOrder(w), v6'[w].alone => v6[w].alone,
         v6[Upgrade!Other(w)] = Upgrade!Idle => v6'[Upgrade!Other(w)] = Upgrade!Idle,
         v6'[w].at = v6[w].at, v6'[w].release = v6[w].release, v6'[w].file = v6[w].file,
         v6'[w].pinning = v6[w].pinning, v6[w].restaged => v6'[w].restaged,
         w = "hand" \/ v6'[w].restaged \/ v2'[v6[w].release] = v2[v6[w].release],
         UNCHANGED <<v7, v8, v9>>, v10' \in {v10, v7},
         v6'[w].alone /\ v6[w].pinning => UNCHANGED <<v11, v12>>
  PROVE  Upgrade!InOrder(w)'
BY DEF Upgrade!InOrder, Upgrade!Done, Upgrade!Is, Upgrade!AfterPins, Upgrade!AfterPip, Upgrade!AfterWeb,
       Upgrade!Revision

(* While one upgrade acts, the other, if there is one, has it beside it.  *)
LEMMA UpgradeActs ==
  ASSUME Upgrade!Inductive, UpgradeHeld', NEW u \in Upgrade!Upgraders, v6[u] # Upgrade!Idle,
         v6' \in [Upgrade!Upgraders -> {Upgrade!Idle} \cup Upgrade!Underway],
         \A w \in Upgrade!Upgraders : w # u => v6'[w] = v6[w],
         v2' = v2 \/ u = "unit",
         v6'[u] # Upgrade!Idle => Upgrade!InOrder(u)'
  PROVE  Upgrade!Inductive'
<1> SUFFICES ASSUME NEW w \in Upgrade!Upgraders, w # u, v6'[w] # Upgrade!Idle
             PROVE  Upgrade!InOrder(w)'
  BY UpgradeHolds
<1>1. v6'[w] = v6[w] /\ Upgrade!InOrder(w)
  BY UpgradeHolds
<1>2. Upgrade!Other(w) = u /\ (u = "unit" => w = "hand")
  BY DEF Upgrade!Upgraders, Upgrade!Other
<1>3. ~v6[w].alone
  BY <1>1, <1>2 DEF Upgrade!InOrder
<1>4. w = "hand" \/ v2'[v6[w].release] = v2[v6[w].release]
  BY <1>2
<1> QED BY <1>1, <1>3, <1>4, UpgradeBeside

(* Nothing is done to what an upgrade has put in place.  *)
LEMMA UpgradeIdles ==
  ASSUME Upgrade!Inductive, UpgradeHeld', v6' = v6, v2' = v2, UNCHANGED <<v7, v8, v9, v11, v12>>,
         v10' \in {v10, v7}
  PROVE  Upgrade!Inductive'
<1> SUFFICES ASSUME NEW w \in Upgrade!Upgraders, v6'[w] # Upgrade!Idle
             PROVE  Upgrade!InOrder(w)'
  BY UpgradeHolds
<1>1. Upgrade!InOrder(w)
  BY UpgradeHolds
<1> QED BY <1>1, UpgradeLeft

(* Whoever stages keeps to what a stager is.  *)
LEMMA StagingGoes ==
  ASSUME UpgradeHeld, NEW s \in Stagers, v4[s] # Upgrade!Idle,
         NEW at \in {"starts", "fetches", "writes", "checks", "asks"}, NEW k \in 1 .. Len(Upgrade!Files)
  PROVE  /\ [v4 EXCEPT ![s].at = at] \in [Stagers -> {Upgrade!Idle} \cup Upgrade!Staging]
         /\ [v4 EXCEPT ![s].at = at, ![s].file = k] \in [Stagers -> {Upgrade!Idle} \cup Upgrade!Staging]
         /\ [v4 EXCEPT ![s] = Upgrade!Idle] \in [Stagers -> {Upgrade!Idle} \cup Upgrade!Staging]
         /\ v4[s].release \in Offered /\ v4[s].file \in 1 .. Len(Upgrade!Files)
<1>1. v4 \in [Stagers -> {Upgrade!Idle} \cup Upgrade!Staging] /\ v4[s] \in Upgrade!Staging
  BY DEF UpgradeHeld
<1>2. /\ [v4[s] EXCEPT !.at = at] \in Upgrade!Staging /\ [v4[s] EXCEPT !.at = at, !.file = k] \in Upgrade!Staging
      /\ v4[s].release \in Offered /\ v4[s].file \in 1 .. Len(Upgrade!Files)
  BY <1>1 DEF Upgrade!Staging
<1>3. [v4 EXCEPT ![s].at = at] = [v4 EXCEPT ![s] = [v4[s] EXCEPT !.at = at]]
  BY <1>1
<1>4. [v4 EXCEPT ![s].at = at, ![s].file = k] = [v4 EXCEPT ![s] = [v4[s] EXCEPT !.at = at, !.file = k]]
  BY <1>1
<1> QED BY <1>1, <1>2, <1>3, <1>4

LEMMA PublishedKeeps ==
  ASSUME Upgrade!Inductive, NEW r \in Offered, Upgrade!Published(r)
  PROVE  Upgrade!Inductive'
<1>1. UpgradeHeld' /\ v6' = v6 /\ v2' = v2 /\ UNCHANGED <<v7, v8, v9, v10, v11, v12>>
  BY UpgradeHolds DEF Upgrade!Published, Upgrade!disk, Upgrade!store, UpgradeHeld
<1> QED BY <1>1, UpgradeIdles

LEMMA StagingKeeps ==
  ASSUME Upgrade!Inductive, NEW s \in Stagers,
         \/ Upgrade!Looks(s) \/ Upgrade!Starts(s) \/ Upgrade!Checks(s) \/ Upgrade!Asks(s)
         \/ Upgrade!StagingFails(s)
  PROVE  Upgrade!Inductive'
<1>0. UpgradeHeld
  BY UpgradeHolds
<1>1. v6' = v6 /\ v2' = v2 /\ UNCHANGED <<v1, v7, v8, v9, v10, v11, v12>>
  BY DEF Upgrade!Looks, Upgrade!Starts, Upgrade!Checks, Upgrade!Asks, Upgrade!StagingFails, Upgrade!disk,
         Upgrade!store
<1>2. v4' \in [Stagers -> {Upgrade!Idle} \cup Upgrade!Staging] /\ v5' \in {0} \cup Offered
  <2>0. 1 \in 1 .. Len(Upgrade!Files)
    BY DEF Upgrade!Files
  <2>1. CASE Upgrade!Looks(s)
    <3>1. [at |-> "starts", release |-> v1, file |-> 1] \in Upgrade!Staging
      BY <1>0, <2>0 DEF UpgradeHeld, Upgrade!Staging
    <3> QED BY <1>0, <2>1, <3>1 DEF Upgrade!Looks, UpgradeHeld
  <2>2. CASE Upgrade!Starts(s)
    <3>1. v4[s] # Upgrade!Idle
      BY <2>2 DEF Upgrade!Starts, Upgrade!Idle
    <3>2. [v4 EXCEPT ![s].at = "fetches"] \in [Stagers -> {Upgrade!Idle} \cup Upgrade!Staging]
      BY <1>0, <2>0, <3>1, StagingGoes
    <3> QED BY <1>0, <2>2, <3>2 DEF Upgrade!Starts, UpgradeHeld
  <2>3. CASE Upgrade!Checks(s)
    <3>1. v4[s] # Upgrade!Idle
      BY <2>3 DEF Upgrade!Checks, Upgrade!Idle
    <3>2. [v4 EXCEPT ![s].at = "asks"] \in [Stagers -> {Upgrade!Idle} \cup Upgrade!Staging]
      BY <1>0, <2>0, <3>1, StagingGoes
    <3> QED BY <1>0, <2>3, <3>2 DEF Upgrade!Checks, UpgradeHeld
  <2>4. CASE Upgrade!Asks(s)
    <3>1. v4[s] # Upgrade!Idle
      BY <2>4 DEF Upgrade!Asks, Upgrade!Idle
    <3>2. /\ [v4 EXCEPT ![s] = Upgrade!Idle] \in [Stagers -> {Upgrade!Idle} \cup Upgrade!Staging]
          /\ v4[s].release \in Offered
      BY <1>0, <2>0, <3>1, StagingGoes
    <3> QED BY <2>4, <3>2 DEF Upgrade!Asks
  <2>5. CASE Upgrade!StagingFails(s)
    BY <1>0, <2>0, <2>5, StagingGoes DEF Upgrade!StagingFails, UpgradeHeld, Upgrade!Idle
  <2> QED BY <2>1, <2>2, <2>3, <2>4, <2>5
<1>3. UpgradeHeld'
  BY <1>0, <1>1, <1>2 DEF UpgradeHeld
<1> QED BY <1>1, <1>3, UpgradeIdles


(* A file written again meets the unit where it installs from the file.  *)
LEMMA WritingKeeps ==
  ASSUME Upgrade!Inductive, NEW s \in Stagers, Upgrade!Fetches(s) \/ Upgrade!Written(s)
  PROVE  Upgrade!Inductive'
<1> DEFINE r == v4[s].release
           k == v4[s].file
<1>0. UpgradeHeld /\ Upgrade!TypeOK
  BY UpgradeHolds DEF Upgrade!Inductive
<1>1. v4[s] # Upgrade!Idle
  BY DEF Upgrade!Fetches, Upgrade!Written, Upgrade!Idle
<1>2. r \in Offered /\ k \in 1 .. 3 /\ Len(Upgrade!Files) = 3 /\ 1 \in 1 .. Len(Upgrade!Files)
  <2>1. Len(Upgrade!Files) = 3 /\ 1 \in 1 .. Len(Upgrade!Files)
    BY DEF Upgrade!Files
  <2>2. r \in Offered /\ k \in 1 .. Len(Upgrade!Files)
    BY <1>0, <1>1, <2>1, StagingGoes
  <2> QED BY <2>1, <2>2
<1>3. \E what \in {"whole", "damaged"} : v2' = [v2 EXCEPT ![r][Upgrade!Files[k]] = what]
  BY DEF Upgrade!Fetches, Upgrade!Written
<1>4. Upgrade!Files[k] \in Upgrade!FileNames
  BY <1>2 DEF Upgrade!Files, Upgrade!FileNames
<1>5. v2' \in [Offered -> [Upgrade!FileNames -> {"none", "whole", "damaged"}]]
      /\ \A q \in Offered : q # r => v2'[q] = v2[q]
  BY <1>0, <1>2, <1>3, <1>4 DEF UpgradeHeld
<1>6. v6' = Upgrade!Met(r) /\ UNCHANGED <<v1, v5, v7, v8, v9, v10, v11, v12>>
  BY DEF Upgrade!Fetches, Upgrade!Written, Upgrade!disk, Upgrade!store
<1>7. v4' \in [Stagers -> {Upgrade!Idle} \cup Upgrade!Staging]
  <2>1. CASE Upgrade!Fetches(s)
    <3>1. [v4 EXCEPT ![s].at = "writes"] \in [Stagers -> {Upgrade!Idle} \cup Upgrade!Staging]
      BY <1>0, <1>1, <1>2, StagingGoes
    <3> QED BY <2>1, <3>1 DEF Upgrade!Fetches
  <2>2. CASE Upgrade!Written(s) /\ k = 3
    <3>1. [v4 EXCEPT ![s].at = "checks"] \in [Stagers -> {Upgrade!Idle} \cup Upgrade!Staging]
      BY <1>0, <1>1, <1>2, StagingGoes
    <3>2. v4' = [v4 EXCEPT ![s] = [@ EXCEPT !.at = "checks"]]
      BY <1>2, <2>2 DEF Upgrade!Written
    <3> QED BY <3>1, <3>2
  <2>3. CASE Upgrade!Written(s) /\ k # 3
    <3>0. k + 1 \in 1 .. Len(Upgrade!Files)
      BY <1>2, <2>3
    <3>1. [v4 EXCEPT ![s].at = "fetches", ![s].file = k + 1] \in [Stagers -> {Upgrade!Idle} \cup Upgrade!Staging]
      <4> HIDE DEF k
      <4> QED BY <1>0, <1>1, <3>0, StagingGoes
    <3>2. v4' = [v4 EXCEPT ![s] = [@ EXCEPT !.at = "fetches", !.file = k + 1]]
      BY <1>2, <2>3 DEF Upgrade!Written
    <3>3. v4 \in [Stagers -> {Upgrade!Idle} \cup Upgrade!Staging]
      BY <1>0 DEF UpgradeHeld
    <3>4. [v4 EXCEPT ![s].at = "fetches", ![s].file = k + 1]
            = [v4 EXCEPT ![s] = [@ EXCEPT !.at = "fetches", !.file = k + 1]]
      BY <3>3
    <3> QED BY <3>1, <3>2, <3>4
  <2> QED BY <2>1, <2>2, <2>3
<1>8. UpgradeHeld'
  BY <1>0, <1>5, <1>6, <1>7 DEF UpgradeHeld
<1>9. /\ v6' \in [Upgrade!Upgraders -> {Upgrade!Idle} \cup Upgrade!Underway]
      /\ v6'["hand"] = v6["hand"]
      /\ v6["unit"] = Upgrade!Idle => v6'["unit"] = Upgrade!Idle
      /\ v6["unit"] # Upgrade!Idle =>
           /\ v6'["unit"] \in Upgrade!Underway
           /\ v6'["unit"].at = v6["unit"].at /\ v6'["unit"].pinning = v6["unit"].pinning
           /\ v6'["unit"].release = v6["unit"].release /\ v6'["unit"].file = v6["unit"].file
           /\ v6'["unit"].alone = v6["unit"].alone
           /\ (v6'["unit"].restaged <=> v6["unit"].restaged \/ v6["unit"].release = r)
  <2> HIDE DEF r
  <2> QED BY <1>0, <1>6, UpgradeMet
<1> HIDE DEF r
<1>10. ASSUME v6'["unit"] # Upgrade!Idle
       PROVE  Upgrade!InOrder("unit")'
  <2>1. "unit" \in Upgrade!Upgraders /\ v6["unit"] # Upgrade!Idle /\ Upgrade!Other("unit") = "hand"
    BY <1>9, <1>10 DEF Upgrade!Upgraders, Upgrade!Other
  <2>2. Upgrade!InOrder("unit") /\ v6["unit"].release \in Offered
    BY <1>0, <2>1, UpgradeHolds, UpgradeIs
  <2>3. v6'["unit"].restaged \/ v2'[v6["unit"].release] = v2[v6["unit"].release]
    BY <1>5, <1>9, <2>1, <2>2
  <2> QED BY <1>6, <1>9, <2>1, <2>2, <2>3, UpgradeLeft
<1>11. ASSUME v6'["hand"] # Upgrade!Idle
       PROVE  Upgrade!InOrder("hand")'
  <2>1. "hand" \in Upgrade!Upgraders /\ v6["hand"] # Upgrade!Idle /\ Upgrade!Other("hand") = "unit"
    BY <1>9, <1>11 DEF Upgrade!Upgraders, Upgrade!Other
  <2>2. Upgrade!InOrder("hand")
    BY <2>1, UpgradeHolds
  <2> QED BY <1>6, <1>9, <2>1, <2>2, UpgradeLeft
<1> QED BY <1>8, <1>9, <1>10, <1>11, UpgradeHolds DEF Upgrade!Upgraders

(* Who works on the store meets an upgrade that has seen to its firmware.  *)
LEMMA DisturbedKeeps ==
  ASSUME Upgrade!Inductive, UpgradeHeld', v6' = Upgrade!Disturbed, v2' = v2, UNCHANGED <<v7, v8, v9, v10>>
  PROVE  Upgrade!Inductive'
<1>1. Upgrade!TypeOK
  BY DEF Upgrade!Inductive
<1>2. v6' \in [Upgrade!Upgraders -> {Upgrade!Idle} \cup Upgrade!Underway]
  BY <1>1, UpgradeDisturbed
<1> SUFFICES ASSUME NEW w \in Upgrade!Upgraders, v6'[w] # Upgrade!Idle
             PROVE  Upgrade!InOrder(w)'
  BY <1>2, UpgradeHolds
<1>3. v6[w] # Upgrade!Idle
  BY <1>1, UpgradeDisturbed
<1>4. Upgrade!InOrder(w)
  BY <1>3, UpgradeHolds
<1>5. Upgrade!Other(w) \in Upgrade!Upgraders
  BY DEF Upgrade!Upgraders, Upgrade!Other
<1>6. v6[Upgrade!Other(w)] = Upgrade!Idle => v6'[Upgrade!Other(w)] = Upgrade!Idle
  BY <1>1, <1>5, UpgradeDisturbed
<1>7. /\ v6'[w].at = v6[w].at /\ v6'[w].pinning = v6[w].pinning
      /\ v6'[w].release = v6[w].release /\ v6'[w].file = v6[w].file
      /\ v6'[w].restaged = v6[w].restaged
      /\ (v6'[w].alone <=> v6[w].alone /\ ~v6[w].pinning)
  BY <1>1, <1>3, UpgradeDisturbed
<1> QED BY <1>4, <1>6, <1>7, UpgradeLeft

LEMMA OperatorKeeps ==
  ASSUME Upgrade!Inductive, NEW f \in Upgrade!Firmwares, Upgrade!Operator(f) \/ Upgrade!Deletes(f)
  PROVE  Upgrade!Inductive'
<1>0. UpgradeHeld
  BY UpgradeHolds
<1>1. v6' = Upgrade!Disturbed /\ v2' = v2 /\ UNCHANGED <<v1, v4, v5, v7, v8, v9, v10>>
  BY DEF Upgrade!Operator, Upgrade!Deletes, Upgrade!disk
<1>2. v12 \in Seq(Upgrade!Firmwares) /\ \A i, k \in DOMAIN v12 : i # k => v12[i] # v12[k]
  BY <1>0 DEF UpgradeHeld
<1>3. CASE Upgrade!Operator(f)
  <2>1. v11' = v11 /\ v12' \in {Upgrade!Pinned(f), Upgrade!Unpinned(f)}
    BY <1>3 DEF Upgrade!Operator
  <2>2. v12' \in Seq(Upgrade!Firmwares) /\ \A i, k \in DOMAIN v12' : i # k => v12'[i] # v12'[k]
    BY <1>2, <2>1, PinnedRight, UnpinnedRight
  <2>3. UpgradeHeld'
    BY <1>0, <1>1, <2>1, <2>2 DEF UpgradeHeld
  <2> QED BY <1>1, <2>3, DisturbedKeeps
<1>4. CASE Upgrade!Deletes(f)
  <2>1. v11' \subseteq v11 /\ v12' = v12
    BY <1>4 DEF Upgrade!Deletes
  <2>2. UpgradeHeld'
    BY <1>0, <1>1, <2>1 DEF UpgradeHeld
  <2> QED BY <1>1, <2>2, DisturbedKeeps
<1> QED BY <1>3, <1>4

LEMMA BeginningKeeps ==
  ASSUME Upgrade!Inductive, Upgrade!UnitTakes \/ \E r \in Offered : Upgrade!HandBegins(r)
  PROVE  Upgrade!Inductive'
<1>0. UpgradeHeld /\ Upgrade!TypeOK
  BY UpgradeHolds DEF Upgrade!Inductive
<1>1. /\ UNCHANGED <<v1, v2, v4, v7, v8, v9, v10, v11, v12>> /\ v5' \in {0} \cup Offered
      /\ \E u, w \in Upgrade!Upgraders : \E r \in Offered : \E at \in {"reads", "wheels"} :
           w # u /\ Upgrade!Begins(u, r, at) /\ (u = "unit" => at = "reads") /\ (u = "hand" => at = "wheels")
  <2>1. CASE Upgrade!UnitTakes
    <3>1. v5 \in Offered /\ Upgrade!Begins("unit", v5, "reads") /\ v5' = 0
      BY <1>0, <2>1 DEF Upgrade!UnitTakes, UpgradeHeld
    <3>2. UNCHANGED <<v1, v2, v4, v7, v8, v9, v10, v11, v12>>
      BY <2>1 DEF Upgrade!UnitTakes, Upgrade!disk, Upgrade!store
    <3> QED BY <3>1, <3>2 DEF Upgrade!Upgraders
  <2>2. CASE \E r \in Offered : Upgrade!HandBegins(r)
    <3>1. PICK r \in Offered : Upgrade!HandBegins(r)
      BY <2>2
    <3>2. Upgrade!Begins("hand", r, "wheels") /\ v5' = v5 /\ v5 \in {0} \cup Offered
      BY <1>0, <3>1 DEF Upgrade!HandBegins, UpgradeHeld
    <3>3. UNCHANGED <<v1, v2, v4, v7, v8, v9, v10, v11, v12>>
      BY <3>1 DEF Upgrade!HandBegins, Upgrade!disk, Upgrade!store
    <3> QED BY <3>2, <3>3 DEF Upgrade!Upgraders
  <2> QED BY <2>1, <2>2
<1>2. PICK u, w \in Upgrade!Upgraders : \E r \in Offered : \E at \in {"reads", "wheels"} :
           w # u /\ Upgrade!Begins(u, r, at) /\ (u = "unit" => at = "reads") /\ (u = "hand" => at = "wheels")
  BY <1>1
<1>3. PICK r \in Offered, at \in {"reads", "wheels"} :
           w # u /\ Upgrade!Begins(u, r, at) /\ (u = "unit" => at = "reads") /\ (u = "hand" => at = "wheels")
  BY <1>2
<1>4. /\ v6' \in [Upgrade!Upgraders -> {Upgrade!Idle} \cup Upgrade!Underway]
      /\ v6'[u].at = at /\ v6'[u].release = r /\ v6'[u].file = 1
      /\ ~v6'[u].restaged /\ ~v6'[u].pinning
      /\ v6'[u].alone => v6'[w] = Upgrade!Idle
      /\ v6[w] = Upgrade!Idle => v6'[w] = Upgrade!Idle
      /\ v6[w] # Upgrade!Idle =>
           /\ v6'[w] \in Upgrade!Underway
           /\ v6'[w].at = v6[w].at /\ v6'[w].pinning = v6[w].pinning
           /\ v6'[w].release = v6[w].release /\ v6'[w].file = v6[w].file
           /\ v6'[w].restaged = v6[w].restaged /\ ~v6'[w].alone
  BY <1>0, <1>3, UpgradeBegins
<1>5. Upgrade!Upgraders = {u, w} /\ Upgrade!Other(u) = w /\ u \in {"unit", "hand"}
  BY <1>3 DEF Upgrade!Upgraders, Upgrade!Other
<1>6. Upgrade!InOrder(u)'
  <2>1. Len(Upgrade!Files) = 3
    BY DEF Upgrade!Files
  <2>2. v6'[u].at \in {"reads", "wheels"} /\ (u = "unit" => v6'[u].at = "reads") /\ (u = "hand" => v6'[u].at = "wheels")
    BY <1>3, <1>4
  <2> QED BY <1>4, <1>5, <2>1, <2>2 DEF Upgrade!InOrder, Upgrade!Done, Upgrade!Is, Upgrade!AfterPins, Upgrade!AfterPip,
                                      Upgrade!AfterWeb
<1>7. ASSUME v6'[w] # Upgrade!Idle
      PROVE  Upgrade!InOrder(w)'
  <2>1. v6[w] # Upgrade!Idle
    BY <1>4, <1>7
  <2>2. Upgrade!InOrder(w)
    BY <2>1, UpgradeHolds
  <2> QED BY <1>1, <1>4, <2>1, <2>2, UpgradeBeside
<1>8. UpgradeHeld'
  BY <1>0, <1>1 DEF UpgradeHeld
<1> QED BY <1>4, <1>5, <1>6, <1>7, <1>8, UpgradeHolds

LEMMA EndingKeeps ==
  ASSUME Upgrade!Inductive,
         Upgrade!Cleans \/ Upgrade!HandEnds \/ \E u \in Upgrade!Upgraders : Upgrade!UpgradeStops(u)
  PROVE  Upgrade!Inductive'
<1>0. UpgradeHeld /\ v6 \in [Upgrade!Upgraders -> {Upgrade!Idle} \cup Upgrade!Underway]
  BY UpgradeHolds
<1>1. UNCHANGED <<v1, v5, v7, v8, v9, v10, v11, v12>>
  BY DEF Upgrade!Cleans, Upgrade!HandEnds, Upgrade!UpgradeStops, Upgrade!disk, Upgrade!store
<1>2. \E u \in Upgrade!Upgraders : v6[u] # Upgrade!Idle /\ v6' = [v6 EXCEPT ![u] = Upgrade!Idle] /\ (v2' = v2 \/ u = "unit")
  BY DEF Upgrade!Cleans, Upgrade!HandEnds, Upgrade!UpgradeStops, Upgrade!Is, Upgrade!Idle, Upgrade!Upgraders
<1>3. PICK u \in Upgrade!Upgraders : v6[u] # Upgrade!Idle /\ v6' = [v6 EXCEPT ![u] = Upgrade!Idle] /\ (v2' = v2 \/ u = "unit")
  BY <1>2
<1>4. /\ v6' \in [Upgrade!Upgraders -> {Upgrade!Idle} \cup Upgrade!Underway] /\ v6'[u] = Upgrade!Idle
      /\ \A w \in Upgrade!Upgraders : w # u => v6'[w] = v6[w]
  BY <1>0, <1>3
<1>5. /\ v2' \in [Offered -> [Upgrade!FileNames -> {"none", "whole", "damaged"}]]
      /\ v4' \in [Stagers -> {Upgrade!Idle} \cup Upgrade!Staging]
  <2>1. CASE Upgrade!Cleans
    <3>0. 1 \in 1 .. Len(Upgrade!Files)
      BY DEF Upgrade!Files
    <3>1. v2' = [r \in Offered |-> IF r = v6["unit"].release THEN v2[r] ELSE [f \in Upgrade!FileNames |-> "none"]]
      BY <2>1 DEF Upgrade!Cleans
    <3>2. v4' = [s \in Stagers |->
                   IF v4[s].at \in {"fetches", "writes", "checks"} /\ v4[s].release # v6["unit"].release
                     THEN [v4[s] EXCEPT !.at = "checks"] ELSE v4[s]]
      BY <2>1 DEF Upgrade!Cleans
    <3>3. ASSUME NEW s \in Stagers
          PROVE  (IF v4[s].at \in {"fetches", "writes", "checks"} /\ v4[s].release # v6["unit"].release
                     THEN [v4[s] EXCEPT !.at = "checks"] ELSE v4[s]) \in {Upgrade!Idle} \cup Upgrade!Staging
      <4>1. v4[s] \in {Upgrade!Idle} \cup Upgrade!Staging
        BY <1>0 DEF UpgradeHeld
      <4>2. CASE v4[s].at \in {"fetches", "writes", "checks"}
        <5>1. v4[s] \in Upgrade!Staging
          BY <4>1, <4>2 DEF Upgrade!Idle
        <5>2. [v4[s] EXCEPT !.at = "checks"] \in Upgrade!Staging
          BY <5>1 DEF Upgrade!Staging
        <5> QED BY <4>1, <5>2
      <4> QED BY <4>1, <4>2
    <3>4. v4' \in [Stagers -> {Upgrade!Idle} \cup Upgrade!Staging]
      BY <3>2, <3>3
    <3> QED BY <1>0, <3>1, <3>4 DEF UpgradeHeld
  <2>2. CASE ~Upgrade!Cleans
    BY <1>0, <2>2 DEF Upgrade!HandEnds, Upgrade!UpgradeStops, UpgradeHeld
  <2> QED BY <2>1, <2>2
<1>6. UpgradeHeld'
  BY <1>0, <1>1, <1>5 DEF UpgradeHeld
<1> QED BY <1>3, <1>4, <1>6, UpgradeActs

(* What UpgradeActs needs of a step that only moves u on.  *)
UpgradeMoves(u, at) ==
  /\ v6[u] # Upgrade!Idle /\ Upgrade!InOrder(u) /\ v6[u].release \in Offered
  /\ v6' \in [Upgrade!Upgraders -> {Upgrade!Idle} \cup Upgrade!Underway]
  /\ v6'[u].at = at /\ v6'[u].release = v6[u].release /\ v6'[u].file = v6[u].file
  /\ v6'[u].restaged = v6[u].restaged /\ v6'[u].alone = v6[u].alone
  /\ \A w \in Upgrade!Upgraders : w # u => v6'[w] = v6[w]

LEMMA UpgradeMoved ==
  ASSUME Upgrade!Inductive, NEW u \in Upgrade!Upgraders, v6[u].at # "idle",
         NEW at \in {"reads", "wheels", "pip", "dashboard", "firmware", "places", "pins", "stamps",
                     "restarts", "cleans", "ends"}
  PROVE  /\ Upgrade!Goes(u, at) => UpgradeMoves(u, at) /\ v6'[u].pinning = v6[u].pinning
         /\ v6' = [v6 EXCEPT ![u].at = at, ![u].pinning = TRUE] => UpgradeMoves(u, at) /\ v6'[u].pinning
<1>1. v6[u] # Upgrade!Idle /\ Upgrade!TypeOK
  BY DEF Upgrade!Idle, Upgrade!Inductive
<1>2. Upgrade!InOrder(u) /\ v6[u].release \in Offered
  BY <1>1, UpgradeHolds, UpgradeIs
<1>3. ASSUME Upgrade!Goes(u, at)
      PROVE  UpgradeMoves(u, at) /\ v6'[u].pinning = v6[u].pinning
  <2>1. /\ v6' \in [Upgrade!Upgraders -> {Upgrade!Idle} \cup Upgrade!Underway]
        /\ v6'[u].at = at /\ v6'[u].pinning = v6[u].pinning
        /\ v6'[u].release = v6[u].release /\ v6'[u].file = v6[u].file
        /\ v6'[u].restaged = v6[u].restaged /\ v6'[u].alone = v6[u].alone
        /\ \A w \in Upgrade!Upgraders : w # u => v6'[w] = v6[w]
    BY <1>1, <1>3, PlainlyGoes
  <2> QED BY <1>1, <1>2, <2>1 DEF UpgradeMoves
<1>4. ASSUME v6' = [v6 EXCEPT ![u].at = at, ![u].pinning = TRUE]
      PROVE  UpgradeMoves(u, at) /\ v6'[u].pinning
  <2>1. /\ v6' \in [Upgrade!Upgraders -> {Upgrade!Idle} \cup Upgrade!Underway]
        /\ v6'[u].at = at /\ v6'[u].pinning = TRUE
        /\ v6'[u].release = v6[u].release /\ v6'[u].file = v6[u].file
        /\ v6'[u].restaged = v6[u].restaged /\ v6'[u].alone = v6[u].alone
        /\ \A w \in Upgrade!Upgraders : w # u => v6'[w] = v6[w]
    BY <1>1, <1>4, UpgradeGoes
  <2>2. v6'[u].pinning
    BY <2>1
  <2> QED BY <1>1, <1>2, <2>1, <2>2 DEF UpgradeMoves
<1> QED BY <1>3, <1>4

(* One step of an upgrade takes it from one place in its order to the next.  *)
LEMMA UpgradeMovesOn ==
  ASSUME Upgrade!Inductive, UpgradeHeld', NEW u \in Upgrade!Upgraders, NEW at, UpgradeMoves(u, at), v2' = v2,
         Upgrade!InOrder(u)'
  PROVE  Upgrade!Inductive'
BY UpgradeActs DEF UpgradeMoves

LEMMA PipKeeps ==
  ASSUME Upgrade!Inductive, NEW u \in Upgrade!Upgraders, Upgrade!PipStarts(u) \/ Upgrade!PipEnds(u)
  PROVE  Upgrade!Inductive'
<1>0. UpgradeHeld
  BY UpgradeHolds
<1>1. UNCHANGED <<v1, v2, v4, v5, v8, v9, v10, v11, v12>>
  BY DEF Upgrade!PipStarts, Upgrade!PipEnds, Upgrade!store
<1>2. u \in {"unit", "hand"}
  BY DEF Upgrade!Upgraders
<1>3. CASE Upgrade!PipStarts(u)
  <2>1. v6[u].at = "wheels" /\ Upgrade!Goes(u, "pip") /\ v7' = Upgrade!Mixed
    BY <1>3 DEF Upgrade!PipStarts, Upgrade!Is
  <2>2. UpgradeMoves(u, "pip") /\ v6'[u].pinning = v6[u].pinning
    BY <2>1, UpgradeMoved
  <2>3. UpgradeHeld'
    BY <1>0, <1>1, <2>1 DEF UpgradeHeld
  <2>4. Upgrade!InOrder(u)'
    BY <1>1, <1>2, <2>1, <2>2 DEF UpgradeMoves, Upgrade!InOrder, Upgrade!Done, Upgrade!Is, Upgrade!AfterPins, Upgrade!AfterPip,
                                  Upgrade!AfterWeb, Upgrade!Other, Upgrade!Upgraders
  <2> QED BY <1>1, <2>2, <2>3, <2>4, UpgradeMovesOn
<1>4. CASE Upgrade!PipEnds(u)
  <2> DEFINE at == IF u = "hand" THEN "dashboard" ELSE "firmware"
  <2>1. v6[u].at = "pip" /\ Upgrade!Goes(u, at)
        /\ v7' \in {v6[u].release} \cup IF Upgrade!Is(Upgrade!Other(u), "pip") THEN {Upgrade!Mixed} ELSE {}
    BY <1>4 DEF Upgrade!PipEnds, Upgrade!Is
  <2>2. UpgradeMoves(u, at) /\ v6'[u].pinning = v6[u].pinning
    BY <2>1, UpgradeMoved
  <2>3. UpgradeHeld'
    BY <1>0, <1>1, <2>1, <2>2 DEF UpgradeHeld, UpgradeMoves
  <2>4. v6[u].alone => v7' = v6[u].release
    BY <2>1, <2>2 DEF UpgradeMoves, Upgrade!InOrder, Upgrade!Is, Upgrade!Idle
  <2>5. Upgrade!InOrder(u)'
    BY <1>1, <1>2, <2>1, <2>2, <2>4 DEF UpgradeMoves, Upgrade!InOrder, Upgrade!Done, Upgrade!Is, Upgrade!AfterPins,
                           Upgrade!AfterPip, Upgrade!AfterWeb, Upgrade!Other, Upgrade!Upgraders
  <2> QED BY <1>1, <2>2, <2>3, <2>5, UpgradeMovesOn
<1> QED BY <1>3, <1>4

LEMMA DashboardKeeps ==
  ASSUME Upgrade!Inductive, NEW u \in Upgrade!Upgraders, Upgrade!Dashboard(u)
  PROVE  Upgrade!Inductive'
<1> DEFINE at == IF u = "hand" THEN "firmware" ELSE "stamps"
<1>0. UpgradeHeld /\ u \in {"unit", "hand"}
  BY UpgradeHolds DEF Upgrade!Upgraders
<1>1. UNCHANGED <<v1, v2, v4, v5, v7, v9, v10, v11, v12>>
  BY DEF Upgrade!Dashboard, Upgrade!store
<1>2. /\ v6[u].at = "dashboard" /\ Upgrade!Goes(u, at)
      /\ v8' = IF u = "hand" \/ v2[v6[u].release]["dashboard"] = "whole" THEN v6[u].release ELSE Upgrade!Mixed
  BY DEF Upgrade!Dashboard, Upgrade!Is
<1>3. UpgradeMoves(u, at) /\ v6'[u].pinning = v6[u].pinning
  BY <1>2, UpgradeMoved
<1>4. UpgradeHeld'
  BY <1>0, <1>1, <1>2, <1>3 DEF UpgradeHeld, UpgradeMoves
<1>5. v8' = v6[u].release \/ v6[u].restaged
  BY <1>0, <1>2, <1>3 DEF UpgradeMoves, Upgrade!InOrder, Upgrade!Is
<1>6. Upgrade!InOrder(u)'
  BY <1>0, <1>1, <1>2, <1>3, <1>5 DEF UpgradeMoves, Upgrade!InOrder, Upgrade!Done, Upgrade!Is, Upgrade!AfterPins,
                     Upgrade!AfterPip, Upgrade!AfterWeb, Upgrade!Other, Upgrade!Upgraders, Upgrade!Revision
<1> QED BY <1>1, <1>3, <1>4, <1>6, UpgradeMovesOn

LEMMA FirmwareKeeps ==
  ASSUME Upgrade!Inductive, NEW u \in Upgrade!Upgraders, Upgrade!Finds(u) \/ Upgrade!Unpacks(u) \/ Upgrade!Places(u)
  PROVE  Upgrade!Inductive'
<1>0. UpgradeHeld /\ u \in {"unit", "hand"}
  BY UpgradeHolds DEF Upgrade!Upgraders
<1>1. UNCHANGED <<v1, v2, v4, v5, v7, v8, v9, v10, v12>>
  BY DEF Upgrade!Finds, Upgrade!Unpacks, Upgrade!Places, Upgrade!disk, Upgrade!store
<1>2. CASE Upgrade!Unpacks(u)
  <2>1. v6[u].at = "firmware" /\ Upgrade!Goes(u, "places") /\ v11' = v11
    BY <1>2 DEF Upgrade!Unpacks, Upgrade!Is, Upgrade!store
  <2>2. UpgradeMoves(u, "places") /\ v6'[u].pinning = v6[u].pinning
    BY <2>1, UpgradeMoved
  <2>3. UpgradeHeld'
    BY <1>0, <1>1, <2>1 DEF UpgradeHeld
  <2>4. Upgrade!InOrder(u)'
    BY <1>0, <1>1, <2>1, <2>2 DEF UpgradeMoves, Upgrade!InOrder, Upgrade!Done, Upgrade!Is, Upgrade!AfterPins,
                     Upgrade!AfterPip, Upgrade!AfterWeb, Upgrade!Other, Upgrade!Upgraders, Upgrade!Revision
  <2> QED BY <1>1, <2>2, <2>3, <2>4, UpgradeMovesOn
<1>3. CASE Upgrade!Finds(u) \/ Upgrade!Places(u)
  <2>1. /\ v6[u].at \in {"firmware", "places"} /\ v6' = [v6 EXCEPT ![u].at = "pins", ![u].pinning = TRUE]
        /\ v11' \in {v11, v11 \cup {Upgrade!Revision(u)}} /\ Upgrade!Revision(u) \in v11'
    BY <1>3 DEF Upgrade!Finds, Upgrade!Places, Upgrade!Is, Upgrade!store
  <2>2. UpgradeMoves(u, "pins") /\ v6'[u].pinning
    BY <2>1, UpgradeMoved
  <2>3. Upgrade!Revision(u) \in Upgrade!Firmwares /\ Upgrade!Revision(u)' = Upgrade!Revision(u)
    BY <2>2 DEF UpgradeMoves, Upgrade!Revision, Upgrade!Firmwares
  <2>4. UpgradeHeld'
    BY <1>0, <1>1, <2>1, <2>3 DEF UpgradeHeld
  <2>5. Upgrade!InOrder(u)'
    BY <1>0, <1>1, <2>1, <2>2, <2>3 DEF UpgradeMoves, Upgrade!InOrder, Upgrade!Done, Upgrade!Is, Upgrade!AfterPins,
                     Upgrade!AfterPip, Upgrade!AfterWeb, Upgrade!Other, Upgrade!Upgraders
  <2> QED BY <1>1, <2>2, <2>4, <2>5, UpgradeMovesOn
<1> QED BY <1>2, <1>3

LEMMA PinsKeeps ==
  ASSUME Upgrade!Inductive, NEW u \in Upgrade!Upgraders, Upgrade!Pins(u)
  PROVE  Upgrade!Inductive'
<1> DEFINE at == Upgrade!AfterFirmware(u)
           f == Upgrade!Revision(u)
<1>0. UpgradeHeld /\ u \in {"unit", "hand"} /\ (u = "hand" => at = "ends") /\ (u = "unit" => at = "dashboard")
  BY UpgradeHolds DEF Upgrade!Upgraders, Upgrade!AfterFirmware
<1>1. UNCHANGED <<v1, v2, v4, v5, v7, v8, v9, v10, v11>>
  BY DEF Upgrade!Pins, Upgrade!disk
<1>2. v6[u].at = "pins" /\ Upgrade!Goes(u, at) /\ v12' = Upgrade!Pinned(f)
  BY DEF Upgrade!Pins, Upgrade!Is
<1>3. UpgradeMoves(u, at) /\ v6'[u].pinning = v6[u].pinning
  BY <1>0, <1>2, UpgradeMoved
<1>4. f \in Upgrade!Firmwares /\ Upgrade!Revision(u)' = f
  BY <1>3 DEF UpgradeMoves, Upgrade!Revision, Upgrade!Firmwares
<1>5. v12' \in Seq(Upgrade!Firmwares) /\ v12' # <<>> /\ v12'[Len(v12')] = f
      /\ \A i, k \in DOMAIN v12' : i # k => v12'[i] # v12'[k]
  BY <1>0, <1>2, <1>4, PinnedRight DEF UpgradeHeld
<1>6. UpgradeHeld'
  BY <1>0, <1>1, <1>5 DEF UpgradeHeld
<1> HIDE DEF f, at
<1>7. v6[u].alone => f \in v11'
  BY <1>1, <1>2, <1>3 DEF UpgradeMoves, Upgrade!InOrder, Upgrade!Done, Upgrade!Is, f
<1>8. Upgrade!InOrder(u)'
  BY <1>0, <1>1, <1>2, <1>3, <1>4, <1>5, <1>7 DEF UpgradeMoves, Upgrade!InOrder, Upgrade!Done, Upgrade!Is, Upgrade!AfterPins,
                     Upgrade!AfterPip, Upgrade!AfterWeb, Upgrade!Other, Upgrade!Upgraders
<1> QED BY <1>1, <1>3, <1>6, <1>8, UpgradeMovesOn

LEMMA ReadsKeeps ==
  ASSUME Upgrade!Inductive, Upgrade!Reads
  PROVE  Upgrade!Inductive'
<1> DEFINE r == v6["unit"].release
           k == v6["unit"].file
<1>0. UpgradeHeld /\ Upgrade!TypeOK /\ "unit" \in Upgrade!Upgraders
  BY UpgradeHolds DEF Upgrade!Inductive, Upgrade!Upgraders
<1>1. UNCHANGED <<v1, v2, v4, v5, v7, v8, v9, v10, v11, v12>> /\ v6["unit"].at = "reads"
      /\ v2[r][Upgrade!Files[k]] = "whole"
  BY DEF Upgrade!Reads, Upgrade!disk, Upgrade!store, Upgrade!Is, Upgrade!Fits
<1>2. v6["unit"] # Upgrade!Idle /\ v6["unit"] \in Upgrade!Underway /\ Upgrade!InOrder("unit")
  <2>1. v6["unit"] # Upgrade!Idle
    BY <1>1 DEF Upgrade!Idle
  <2> QED BY <1>0, <2>1, UpgradeHolds, UpgradeIs
<1>3. Len(Upgrade!Files) = 3 /\ k \in 1 .. 3 /\ Upgrade!Files[2] = "dashboard"
  <2>1. Len(Upgrade!Files) = 3 /\ Upgrade!Files[2] = "dashboard"
    BY DEF Upgrade!Files
  <2> QED BY <1>2, <2>1 DEF Upgrade!Underway
<1>4. UpgradeHeld'
  BY <1>0, <1>1 DEF UpgradeHeld
<1>5. CASE k = 3
  <2>1. v6' = [v6 EXCEPT !["unit"] = [@ EXCEPT !.at = "wheels"]]
    BY <1>3, <1>5 DEF Upgrade!Reads
  <2>2. Upgrade!Goes("unit", "wheels")
    BY <2>1 DEF Upgrade!Goes
  <2>3. UpgradeMoves("unit", "wheels") /\ v6'["unit"].pinning = v6["unit"].pinning
    BY <1>0, <1>1, <2>2, UpgradeMoved
  <2>4. Upgrade!InOrder("unit")'
    BY <1>1, <1>3, <1>5, <2>3 DEF UpgradeMoves, Upgrade!InOrder, Upgrade!Done, Upgrade!Is, Upgrade!AfterPins,
                     Upgrade!AfterPip, Upgrade!AfterWeb, Upgrade!Other, Upgrade!Upgraders
  <2> QED BY <1>0, <1>1, <1>4, <2>3, <2>4, UpgradeMovesOn
<1>6. CASE k # 3
  <2> DEFINE a == v6["unit"]
             b == [a EXCEPT !.file = k + 1]
  <2>1. v6' = [v6 EXCEPT !["unit"] = b]
    <3>1. v6' = [v6 EXCEPT !["unit"] = [@ EXCEPT !.file = k + 1]]
      BY <1>3, <1>6 DEF Upgrade!Reads
    <3> QED BY <3>1
  <2>2. b \in Upgrade!Underway /\ b.at = a.at /\ b.release = a.release /\ b.file = k + 1
        /\ b.restaged = a.restaged /\ b.pinning = a.pinning /\ b.alone = a.alone
    <3>1. k + 1 \in 1 .. Len(Upgrade!Files)
      BY <1>3, <1>6
    <3> HIDE DEF k
    <3> QED BY <1>2, <3>1 DEF Upgrade!Underway
  <2> HIDE DEF b
  <2>3. v6'["unit"] = b /\ (\A w \in Upgrade!Upgraders : w # "unit" => v6'[w] = v6[w])
        /\ v6' \in [Upgrade!Upgraders -> {Upgrade!Idle} \cup Upgrade!Underway]
    <3>1. v6 \in [Upgrade!Upgraders -> {Upgrade!Idle} \cup Upgrade!Underway]
      BY <1>0 DEF Upgrade!TypeOK
    <3> QED BY <1>0, <2>1, <2>2, <3>1
  <2>4. k + 1 = 3 => v2[r]["dashboard"] = "whole"
    BY <1>1, <1>3
  <2>5. Upgrade!InOrder("unit")'
    BY <1>1, <1>2, <1>3, <2>2, <2>3, <2>4 DEF Upgrade!InOrder, Upgrade!Done, Upgrade!Is, Upgrade!AfterPins,
                     Upgrade!AfterPip, Upgrade!AfterWeb, Upgrade!Other, Upgrade!Upgraders
  <2> QED BY <1>0, <1>1, <1>2, <1>4, <2>3, <2>5, UpgradeActs
<1> QED BY <1>5, <1>6

LEMMA StampsKeeps ==
  ASSUME Upgrade!Inductive, Upgrade!Stamps
  PROVE  Upgrade!Inductive'
<1>0. UpgradeHeld /\ "unit" \in Upgrade!Upgraders
  BY UpgradeHolds DEF Upgrade!Upgraders
<1>1. UNCHANGED <<v1, v2, v4, v5, v7, v10, v11, v12>> /\ v6["unit"].at = "stamps"
      /\ v9' = v6["unit"].release /\ v8' \in {v8, v6["unit"].release} /\ Upgrade!Goes("unit", "restarts")
  BY DEF Upgrade!Stamps, Upgrade!store, Upgrade!Is
<1>2. UpgradeMoves("unit", "restarts") /\ v6'["unit"].pinning = v6["unit"].pinning
  BY <1>0, <1>1, UpgradeMoved
<1>3. UpgradeHeld'
  BY <1>0, <1>1, <1>2 DEF UpgradeHeld, UpgradeMoves
<1>4. Upgrade!InOrder("unit")'
  BY <1>1, <1>2 DEF UpgradeMoves, Upgrade!InOrder, Upgrade!Done, Upgrade!Is, Upgrade!AfterPins,
                     Upgrade!AfterPip, Upgrade!AfterWeb, Upgrade!Other, Upgrade!Upgraders, Upgrade!Revision
<1> QED BY <1>0, <1>1, <1>2, <1>3, <1>4, UpgradeMovesOn

LEMMA RestartsKeep ==
  ASSUME Upgrade!Inductive, Upgrade!UnitRestarts \/ Upgrade!Restart
  PROVE  Upgrade!Inductive'
<1>0. UpgradeHeld /\ "unit" \in Upgrade!Upgraders
  BY UpgradeHolds DEF Upgrade!Upgraders
<1>1. UNCHANGED <<v1, v2, v5, v7, v8, v9, v11, v12>> /\ v10' = v7 /\ v4' = [s \in Stagers |-> Upgrade!Idle]
  BY DEF Upgrade!UnitRestarts, Upgrade!Restart, Upgrade!ServiceStarts, Upgrade!disk, Upgrade!store
<1>2. UpgradeHeld'
  BY <1>0, <1>1 DEF UpgradeHeld
<1>3. CASE Upgrade!UnitRestarts
  <2>1. v6["unit"].at = "restarts" /\ Upgrade!Goes("unit", "cleans")
    BY <1>3 DEF Upgrade!UnitRestarts, Upgrade!Is
  <2>2. UpgradeMoves("unit", "cleans") /\ v6'["unit"].pinning = v6["unit"].pinning
    BY <1>0, <2>1, UpgradeMoved
  <2>3. Upgrade!InOrder("unit")'
    BY <1>1, <2>1, <2>2 DEF UpgradeMoves, Upgrade!InOrder, Upgrade!Done, Upgrade!Is, Upgrade!AfterPins,
                     Upgrade!AfterPip, Upgrade!AfterWeb, Upgrade!Other, Upgrade!Upgraders, Upgrade!Revision
  <2> QED BY <1>0, <1>1, <1>2, <2>2, <2>3, UpgradeMovesOn
<1>4. CASE Upgrade!Restart
  <2>1. v6' = v6
    BY <1>4 DEF Upgrade!Restart
  <2> QED BY <1>1, <1>2, <2>1, UpgradeIdles
<1> QED BY <1>3, <1>4

LEMMA UpgradeInductive ==
  ASSUME Upgrade!Inductive, [Upgrade!Next]_(Upgrade!vars)
  PROVE  Upgrade!Inductive'
<1>1. CASE UNCHANGED Upgrade!vars
  <2>1. UNCHANGED <<v1, v2, v4, v5, v6, v7, v8, v9, v10, v11, v12>>
    BY <1>1 DEF Upgrade!vars, Upgrade!disk, Upgrade!store
  <2>2. UpgradeHeld'
    BY <2>1, UpgradeHolds DEF UpgradeHeld
  <2> QED BY <2>1, <2>2, UpgradeIdles
<1>2. CASE Upgrade!Next
  BY <1>2, PublishedKeeps, BeginningKeeps, StagingKeeps, WritingKeeps, ReadsKeeps, StampsKeeps, RestartsKeep,
     EndingKeeps, PipKeeps, DashboardKeeps, FirmwareKeeps, PinsKeeps, OperatorKeeps DEF Upgrade!Next
<1> QED BY <1>1, <1>2

LEMMA UpgradeStarts ==
  ASSUME Upgrade!Init
  PROVE  Upgrade!Inductive
<1>1. /\ v1 = 1 /\ v5 = 0 /\ v2 = [r \in Offered |-> [f \in Upgrade!FileNames |-> "none"]]
      /\ v4 = [s \in Stagers |-> Upgrade!Idle] /\ v6 = [u \in Upgrade!Upgraders |-> Upgrade!Idle]
      /\ v7 = 1 /\ v8 = 1 /\ v9 = 1 /\ v10 = 1 /\ v11 = {BuiltWith[1]} /\ v12 = <<BuiltWith[1]>>
  BY DEF Upgrade!Init
<1>2. BuiltWith[1] \in Upgrade!Firmwares /\ 1 \in Offered
  BY HostUpgradeAssumption DEF Upgrade!Firmwares
<1>3. v12 \in Seq(Upgrade!Firmwares) /\ \A i, k \in DOMAIN v12 : i # k => v12[i] # v12[k]
  BY <1>1, <1>2
<1>4. v2 \in [Offered -> [Upgrade!FileNames -> {"none", "whole", "damaged"}]]
  BY <1>1
<1>5. UpgradeHeld
  BY <1>1, <1>2, <1>3, <1>4 DEF UpgradeHeld
<1> QED BY <1>1, <1>5, UpgradeHolds

(* What an upgrade that met nothing has done when it says it is done.  *)
LEMMA UpgradeRight ==
  ASSUME Upgrade!Inductive
  PROVE  Upgrade!UpgradedWhole
<1> SUFFICES ASSUME NEW u \in Upgrade!Upgraders, v6[u].at \in {"ends", "cleans"}, v6[u].alone
             PROVE  /\ v7 = v6[u].release /\ Upgrade!Current = BuiltWith[v6[u].release]
                    /\ v8 = v6[u].release \/ v6[u].restaged
                    /\ u = "unit" => v9 = v6[u].release /\ v10 = v6[u].release
  BY DEF Upgrade!UpgradedWhole
<1>1. Upgrade!InOrder(u)
  BY UpgradeHolds DEF Upgrade!Idle
<1>2. u \in {"unit", "hand"}
  BY DEF Upgrade!Upgraders
<1>3. /\ v7 = v6[u].release /\ (v8 = v6[u].release \/ v6[u].restaged)
      /\ u = "unit" => v9 = v6[u].release /\ v10 = v6[u].release
      /\ BuiltWith[v6[u].release] \in v11 /\ v12 # <<>> /\ v12[Len(v12)] = BuiltWith[v6[u].release]
  BY <1>1, <1>2 DEF Upgrade!InOrder, Upgrade!Done, Upgrade!Is, Upgrade!AfterPins,
                     Upgrade!AfterPip, Upgrade!AfterWeb, Upgrade!Revision
<1>4. v12 \in Seq(Upgrade!Firmwares)
  BY UpgradeHolds DEF UpgradeHeld
<1>5. Upgrade!Current = v12[Len(v12)]
  BY <1>3, <1>4, CurrentIsLast
<1> QED BY <1>3, <1>5
=============================================================================
