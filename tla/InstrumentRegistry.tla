-------------------------- MODULE InstrumentRegistry --------------------------
(***************************************************************************)
(* The two registries of a rig, of its boards and of the instruments wired *)
(* to them, each a file.  The service and every discovery read both and    *)
(* write the boards under the rig lock.  The commands of the administrator *)
(* read and write without it, and then publish what they did by a          *)
(* discovery.  Whoever reads the instruments checks them against the       *)
(* boards, and stops if they do not go together.                           *)
(*                                                                         *)
(* What a discovery publishes is BoardRegistry's.                          *)
(***************************************************************************)
EXTENDS Naturals

CONSTANTS
  Callers,     \* processes and request threads
  BoardIds, InstrumentIds,
  Macs,
  SelfNames,   \* [Macs -> the name a board gives itself, or that and its port]
  Asked,       \* what callers ask for: <<kind, id, with>>, with a MAC, a wire or a channel
  MaxCalls     \* bound

Absent == 0
NoInstrument == [mac |-> Absent, wires |-> {}]

VARIABLES
  boards,       \* [BoardIds -> MAC, or Absent]
  instruments,  \* [InstrumentIds -> [mac, wires]], a wire being <<channel, board, pin>>
  rig,          \* who has the rig lock, or Absent
  call,         \* [Callers -> what it is at, or Idle]
  begun,
  said,         \* history: [BoardIds -> what the last change of that one made of it]
  spoilt        \* history: what the invariant excepts happened

vars == <<boards, instruments, rig, call, begun, said, spoilt>>

Idle == [at |-> "idle"]
Under(c, at) == call[c].at = at
Doing(c) == call[c].op[1]
Id(c) == call[c].op[2]
With(c) == call[c].op[3]
Locked(c) == Doing(c) \in {"register", "unregister", "discover"}

-----------------------------------------------------------------------------
(* What goes together. *)

Registered(bs) == {b \in BoardIds : bs[b] # Absent}
MacsOf(bs) == {bs[b] : b \in Registered(bs)}
Distinct(f, ids) == \A x, y \in ids : f[x] = f[y] => x = y

\* load_registry, validate_registry.
ValidRegistry(bs) == Distinct(bs, Registered(bs))

Known(ins) == {i \in InstrumentIds : ins[i].mac # Absent}
Claimed(ins) == {ins[i].mac : i \in Known(ins)}
Wires(ins) == UNION {{<<i, w>> : w \in ins[i].wires} : i \in Known(ins)}

\* validate_instruments; which channels and pins there are, and can be wired, is left out.
ValidInstruments(ins, bs) ==
  /\ Distinct([i \in InstrumentIds |-> ins[i].mac], Known(ins))
  /\ Claimed(ins) \cap MacsOf(bs) = {} /\ Known(ins) \cap Registered(bs) = {}
  /\ \A u, v \in Wires(ins) :
       /\ u[2][2] \in Registered(bs)
       /\ u # v => /\ <<u[1], u[2][1]>> # <<v[1], v[2][1]>>
                   /\ <<u[2][2], u[2][3]>> # <<v[2][2], v[2][3]>>

WiredTo(ins, b) == {u \in Wires(ins) : u[2][2] = b}

Init ==
  /\ boards \in [BoardIds -> Macs \cup {Absent}] /\ ValidRegistry(boards)
  /\ instruments \in [InstrumentIds -> {NoInstrument} \cup
                       {[mac |-> m, wires |-> w] : m \in Macs,
                          w \in {{}} \cup {{a[3]} : a \in {x \in Asked : x[1] = "wire"}}}]
  /\ ValidInstruments(instruments, boards)
  /\ rig = Absent /\ call = [c \in Callers |-> Idle] /\ begun = 0 /\ said = boards /\ spoilt = FALSE

-----------------------------------------------------------------------------
(* A call. *)

GoesTo(c, at) == call' = [call EXCEPT ![c].at = at]

\* met: somebody wrote since it read, and not both of them have the rig lock for it.
At(op, at) == [op |-> op, at |-> at, boards |-> boards, instruments |-> instruments, met |-> FALSE]

Begins(c, op) ==
  /\ call[c] = Idle /\ begun < MaxCalls /\ begun' = begun + 1
  /\ call' = [call EXCEPT ![c] =
       At(op, IF op[1] \in {"register", "unregister", "discover"} THEN "locks" ELSE "reads")]
  /\ UNCHANGED <<boards, instruments, rig, said, spoilt>>

\* Variant: whoever has it.
TakesAnyway(c) ==
  /\ Under(c, "locks") /\ rig' = c
  /\ GoesTo(c, "reads")
  /\ UNCHANGED <<boards, instruments, begun, said, spoilt>>
Takes(c) ==
  /\ Under(c, "locks") /\ rig = Absent /\ rig' = c
  /\ GoesTo(c, "reads")
  /\ UNCHANGED <<boards, instruments, begun, said, spoilt>>

Ends(c) ==
  /\ call' = [call EXCEPT ![c] = Idle]
  /\ rig' = IF rig = c THEN Absent ELSE rig

ReadsBoards(c) ==
  /\ Under(c, "reads")
  /\ Locked(c) => ValidRegistry(boards)
  /\ call' = [call EXCEPT ![c] = At(@.op, IF Doing(c) = "add" THEN "writes" ELSE "compares")]
  /\ UNCHANGED <<boards, instruments, rig, begun, said, spoilt>>

\* boards remove reads the boards again for this.
ReadsInstruments(c) ==
  /\ Under(c, "compares")
  /\ ValidInstruments(instruments, IF Doing(c) = "remove" THEN boards ELSE call[c].boards)
  /\ call' = [call EXCEPT ![c].instruments = instruments,
       ![c].at = CASE Doing(c) \in {"remove", "register", "unregister", "discover"} -> "writes"
                   [] Doing(c) = "replace" /\ With(c) \in MacsOf(call[c].boards) -> "replaces"
                   [] OTHER -> "saves"]
  /\ UNCHANGED <<boards, instruments, rig, begun, said, spoilt>>

\* The boards somebody means to write: the one asked for with them, or without it.
WithBoard(bs, b, m) == [bs EXCEPT ![b] = m]

\* Variant: a board goes with wires on it.
MayGoWired(c) == call[c].boards[Id(c)] # Absent
MayGo(c) == call[c].boards[Id(c)] # Absent /\ WiredTo(call[c].instruments, Id(c)) = {}

MayCome(c) ==
  /\ call[c].boards[Id(c)] = Absent /\ With(c) \notin MacsOf(call[c].boards)
  /\ Doing(c) = "register" =>
       Id(c) \notin Known(call[c].instruments) /\ With(c) \notin Claimed(call[c].instruments)

\* register_detected: a device nobody has, under the name it gives itself or the longer one;
\* several at once are several discoveries.
Detected(c) ==
  {call[c].boards} \cup
  UNION {{WithBoard(call[c].boards, b, m) : b \in SelfNames[m] \ Registered(call[c].boards)} :
         m \in Macs \ (MacsOf(call[c].boards) \cup Claimed(call[c].instruments))}

NewBoards(c) ==
  CASE Doing(c) = "discover" -> Detected(c)
    [] Doing(c) \in {"add", "register"} /\ MayCome(c) -> {WithBoard(call[c].boards, Id(c), With(c))}
    [] Doing(c) \in {"remove", "unregister"} /\ MayGo(c) -> {WithBoard(call[c].boards, Id(c), Absent)}
    [] OTHER -> {}

\* Everybody who read before c wrote, and does not share the rig lock with it, is met.
Meets(c, next) ==
  call' = [d \in Callers |->
    IF d = c THEN next
    ELSE IF call[d].at \in {"idle", "locks", "reads"} THEN call[d]
    ELSE [call[d] EXCEPT !.met = @ \/ ~Locked(c) \/ ~Locked(d)]]

Publishes == At(<<"discover", Absent, Absent>>, "locks")

\* boards add asks no instrument, nor does a board that names itself ask for an instrument's name.
Clashes(c, bs) ==
  Registered(bs) \cap Known(instruments) # {} \/ MacsOf(bs) \cap Claimed(instruments) # {}

WritesBoards(c) ==
  /\ Under(c, "writes")
  /\ \E bs \in NewBoards(c) :
       /\ boards' = bs
       /\ said' = [b \in BoardIds |-> IF bs[b] # call[c].boards[b] THEN bs[b] ELSE said[b]]
       /\ spoilt' = (spoilt \/ call[c].met
                     \/ (Doing(c) \in {"add", "discover"} /\ Clashes(c, bs)))
  /\ Meets(c, IF Locked(c) THEN Idle ELSE Publishes)
  /\ rig' = IF rig = c THEN Absent ELSE rig
  /\ UNCHANGED <<instruments, begun>>

\* instruments add --replace-board: first the board goes, whatever is wired to it.
ReplacesBoard(c) ==
  /\ Under(c, "replaces")
  /\ LET b == CHOOSE x \in BoardIds : call[c].boards[x] = With(c)
         bs == WithBoard(call[c].boards, b, Absent) IN
     /\ boards' = bs /\ said' = [said EXCEPT ![b] = Absent]
     /\ spoilt' = (spoilt \/ call[c].met \/ WiredTo(instruments, b) # {})
     /\ Meets(c, [call[c] EXCEPT !.at = "saves", !.boards = bs])
  /\ UNCHANGED <<instruments, rig, begun>>

NewInstruments(c) ==
  LET ins == call[c].instruments  i == Id(c) IN
  CASE Doing(c) \in {"instrument", "replace"} /\ i \notin Known(ins) ->
         {[ins EXCEPT ![i] = [mac |-> With(c), wires |-> {}]]}
    [] Doing(c) = "drop" /\ i \in Known(ins) -> {[ins EXCEPT ![i] = NoInstrument]}
    [] Doing(c) = "wire" /\ i \in Known(ins) -> {[ins EXCEPT ![i].wires = @ \cup {With(c)}]}
    [] Doing(c) = "unwire" /\ \E w \in ins[i].wires : w[1] = With(c) ->
         {[ins EXCEPT ![i].wires = {w \in @ : w[1] # With(c)}]}
    [] OTHER -> {}

\* A channel that is wired is refused: to the same pin it would change nothing.
SavesInstruments(c) ==
  /\ Under(c, "saves")
  /\ \E ins \in NewInstruments(c) :
       /\ ValidInstruments(ins, call[c].boards)
       /\ ins # call[c].instruments
       /\ instruments' = ins
  /\ spoilt' = (spoilt \/ call[c].met)
  /\ Meets(c, Publishes)
  /\ UNCHANGED <<boards, rig, begun, said>>

\* Refused, raised or killed, wherever it is: what was written stays.
Stops(c) ==
  /\ call[c] # Idle /\ Ends(c)
  /\ UNCHANGED <<boards, instruments, begun, said, spoilt>>

Next ==
  \E c \in Callers :
    \/ \E op \in Asked : Begins(c, op)
    \/ Takes(c) \/ ReadsBoards(c) \/ ReadsInstruments(c)
    \/ WritesBoards(c) \/ ReplacesBoard(c) \/ SavesInstruments(c) \/ Stops(c)

Spec == Init /\ [][Next]_vars

-----------------------------------------------------------------------------
\* Every variable holds what the rest of the module takes it to hold.
TypeOK ==
  /\ boards \in [BoardIds -> Macs \cup {Absent}]
  /\ \A i \in InstrumentIds : instruments[i].mac \in Macs \cup {Absent}
  /\ rig \in Callers \cup {Absent}

\* The two registries go together at every moment, or every later discovery and command stops
\* at them: no device is in both, every wire ends on a board there is, and no two on one pin.
\* No change of a board is lost to another's.  Excepted is what follows a board that was added
\* under an instrument's name or MAC, or was replaced by an instrument with another's wires on
\* it, and commands of the administrator that met another change since they read.
RegistriesAgree ==
  ~spoilt => /\ ValidRegistry(boards) /\ ValidInstruments(instruments, boards)
             /\ boards = said
=============================================================================
