------------------------------ MODULE HostConfig ------------------------------
(***************************************************************************)
(* A host's configuration and what it is made into: the file, the          *)
(* environment rendered from it, the service that read that when it        *)
(* started, the credential files of the channels it notifies through, and  *)
(* the key pair that opens what the portal's page sealed.  The             *)
(* administrator's commands and the portal's, which run the same commands  *)
(* as root, are beside each other, take no lock, and can be cut off.       *)
(*                                                                         *)
(* A channel is changed by the commands of its own, which restart the      *)
(* service or say that it has to be, and by "config set notify.*" or in an *)
(* editor and then "config apply", which rewrite the environment and tell  *)
(* nobody: "switch" is such a change of a channel's enabled, "retype" of   *)
(* its kind.  Its number and the paths of its files stay, and a channel is *)
(* neither added nor taken out by hand.                                    *)
(***************************************************************************)
EXTENDS Naturals, FiniteSets, FiniteSetsExt

CONSTANTS
  Callers, MaxCalls,  \* commands at once, and bound: in all; a command is known by its number
  Channels,           \* ids a channel can get: 1 .. n
  Sealed              \* the commands that come with a credential the portal's page sealed

Kinds == {"webhook", "telegram", "callmebot"}
Off   == [kind |-> "none", on |-> FALSE]
Empty == 0            \* a credential that is none

VARIABLES
  config,   \* [channels: [Channels -> [kind, on]], limit, link: providers.callmebot is there]
  env,      \* runtime.env, as the config it says
  running,  \* what the environment was when the service started
  busy,     \* a run has the rig
  stored,   \* [Kinds -> the credential in that kind's file: the command that gave it, or Empty]
  private, public, staged,  \* the seal key, its public half, and the one being made
  call,     \* [Callers -> the command under way, or Idle]
  begun,    \* commands begun
  due,      \* history: what the config would be, had the commands come one by one
  given,    \* history: [Channels -> the command that set the channel's credential, or Empty]
  owed,     \* history: what was said of the service since it was restarted: "nothing", or
            \* "told" to restart it, or "untold": a channel changed by config set, to nobody's notice
  wild,     \* history: commands on the same files overlapped, or one was cut off
  turned    \* history: the key changed between a command's check against it and its use

vars == <<config, env, running, busy, stored, private, public, staged, call, begun, due, given,
          owed, wild, turned>>
seal == <<private, public, staged>>

Idle == [op |-> "idle"]
Under(c, at) == call[c].op # "idle" /\ call[c].at = at

\* runtime_env: of the channels those that are on, and of the rest what is there.
Rendered(f) ==
  [f EXCEPT !.channels = [i \in Channels |-> IF f.channels[i].on THEN f.channels[i] ELSE Off]]

Init ==
  /\ config = [channels |-> [i \in Channels |-> Off], limit |-> 0, link |-> FALSE]
  /\ env = Rendered(config) /\ running = env /\ busy \in BOOLEAN
  /\ stored = [k \in Kinds |-> Empty]
  /\ private = MaxCalls + 1 /\ public = MaxCalls + 1 /\ staged = Empty
  /\ call = [c \in Callers |-> Idle] /\ begun = 0
  /\ due = config /\ given = [i \in Channels |-> Empty]
  /\ owed = "nothing" /\ wild = FALSE /\ turned = FALSE

-----------------------------------------------------------------------------
(* What a command makes of the configuration it read, and when it refuses. *)

Held(f)    == {i \in Channels : f.channels[i].kind # "none"}
\* The channel named, or one more: the least number that is free.
Settable(f) == Held(f) \cup (IF Held(f) = Channels THEN {} ELSE {Min(Channels \ Held(f))})

\* set_value, set_values and with_notify_channels.
Changed(q, f) ==
  CASE q.op = "limit"  -> [f EXCEPT !.limit = q.n]
    [] q.op = "link"   -> [f EXCEPT !.link = TRUE]
    [] q.op = "set"    -> [f EXCEPT !.channels[q.id] = [kind |-> q.kind, on |-> TRUE]]
    [] q.op \in {"tune", "switch"} -> [f EXCEPT !.channels[q.id].on = ~@]
    [] q.op = "retype" -> [f EXCEPT !.channels[q.id].kind = q.kind]
    [] q.op = "remove" -> [f EXCEPT !.channels[q.id] = Off]
    [] q.op = "apply"  -> f

\* require_valid: a CallMeBot channel needs the host's link.
Valid(f) == \A i \in Channels : f.channels[i].kind = "callmebot" => f.link

-----------------------------------------------------------------------------
(* A command: the file is read, a credential put by, the file written, the *)
(* environment rendered, the service restarted.                            *)

Alone == \A c \in Callers : call[c] = Idle
Keyed(q) == q.op \in {"rotate", "repair"}
Begins(c, q) ==
  /\ call[c] = Idle /\ begun < MaxCalls
  /\ begun' = begun + 1
  /\ call' = [call EXCEPT ![c] = q]
  /\ wild' = (wild \/ \E d \in Callers : call[d] # Idle /\ q # Idle /\ (Keyed(call[d]) <=> Keyed(q)))
Goes(c, at) == call' = [call EXCEPT ![c].at = at]
Request(op, id, kind, at) ==
  [op |-> op, id |-> id, kind |-> kind, at |-> at, n |-> begun + 1, read |-> config,
   key |-> private, secret |-> FALSE]

\* command_config_set, command_config_set_many, command_notify_tune, command_notify_remove,
\* and command_notify_set of the kind that keeps no credential of its own.  An editor and
\* config apply do what config set does; it finds a channel when that is the only one.
ByHand == {Request("switch", i, "none", "loaded") : i \in Held(config)}
          \cup {Request("retype", i, k, "loaded") : i \in Held(config), k \in Kinds}
Loads(c) ==
  /\ \E q \in {Request("limit", 1, "none", "loaded")} \cup ByHand
              \cup {Request(op, i, "none", "loaded") : op \in {"tune", "remove"}, i \in Held(config)}
              \cup {Request("set", i, "callmebot", "loaded") : i \in Settable(config)} :
       Valid(Changed(q, config)) /\ Begins(c, q)
  /\ UNCHANGED <<config, env, running, busy, stored, seal, due, given, owed, turned>>

\* command_notify_set of the other kinds and command_providers_set, which ask for a credential.
Secrets == {Request("set", i, k, "asks") : i \in Settable(config), k \in {"webhook", "telegram"}}
           \cup {Request("link", 1, "callmebot", "asks")}
LoadsForSecret(c) ==
  /\ begun + 1 \notin Sealed
  /\ \E q \in Secrets : Begins(c, q)
  /\ UNCHANGED <<config, env, running, busy, stored, seal, due, given, owed, turned>>

\* The same, asked for by the portal's page: what was sealed for another key than the host's
\* is turned away, and the rest decrypted into the command.
LoadsSealed(c) ==
  /\ begun + 1 \in Sealed
  /\ \E q \in Secrets, key \in {public, private} :
       IF key = private THEN Begins(c, q) ELSE Begins(c, Idle)
  /\ UNCHANGED <<config, env, running, busy, stored, seal, due, given, owed, turned>>

\* What was sealed for a key that is the host's no more opens as nothing: the link is parsed
\* and refused, a channel's credential is written as it is.
Opens(q) == q.n \notin Sealed \/ q.key = private
StoresSecret(c) ==
  /\ Under(c, "asks")
  /\ LET q == call[c] IN
     /\ turned' = (turned \/ ~Opens(q))
     /\ IF q.op = "link" /\ ~Opens(q)
          THEN call' = [call EXCEPT ![c] = Idle] /\ UNCHANGED stored
          ELSE /\ stored' = [stored EXCEPT ![q.kind] = IF Opens(q) THEN q.n ELSE Empty]
               /\ call' = [call EXCEPT ![c] = [@ EXCEPT
                           !.at = IF q.op = "link" /\ q.read.link THEN "applied" ELSE "loaded",
                           !.secret = TRUE]]
  /\ UNCHANGED <<config, env, running, busy, seal, begun, due, given, owed, wild>>

\* write_atomic of what was made of the file as it was read.
WritesConfig(c) ==
  /\ Under(c, "loaded")
  /\ config' = Changed(call[c], call[c].read)
  /\ Goes(c, "written")
  /\ UNCHANGED <<env, running, busy, stored, seal, begun, due, given, owed, wild, turned>>

\* apply: rendered from what the command made, not from the file.
Applies(c) ==
  /\ Under(c, "written")
  /\ env' = Rendered(Changed(call[c], call[c].read))
  /\ Goes(c, "applied")
  /\ UNCHANGED <<config, running, busy, stored, seal, begun, due, given, owed, wild, turned>>

\* Variant: what is left to do is said when the service was restarted.
RestartsQuietly(q) ==
  IF q.op \in {"set", "tune", "remove"}
    THEN IF busy THEN UNCHANGED <<running, owed>> ELSE running' = env /\ owed' = "told"
    ELSE UNCHANGED <<running, owed>>

\* A change of a channel by its own commands restarts the service unless a run has the rig, and
\* then says that it has the old channels; a portal's other changes restart it (notify_remove,
\* which is a config set, too), an administrator's do not.
TakesUp == running' = env /\ owed' = "nothing"
RestartsAfter(q) ==
  IF q.op \in {"set", "tune", "remove"}
    THEN IF busy THEN owed' = "told" /\ UNCHANGED running ELSE TakesUp
    ELSE \/ /\ owed' = IF q.op \in {"switch", "retype"} /\ owed = "nothing" THEN "untold" ELSE owed
            /\ UNCHANGED running
         \/ q.op \in {"limit", "link", "switch"} /\ TakesUp

\* Set with its command, or made of another kind by hand, and so given what that kind's file has.
CredentialAfter(q) ==
  CASE q.op = "set"    -> [given EXCEPT ![q.id] = IF q.secret THEN q.n ELSE Empty]
    [] q.op = "retype" -> [given EXCEPT ![q.id] = stored[q.kind]]
    [] OTHER           -> given

\* restart_sending_service, and the command has ended.
Ends(c) ==
  /\ Under(c, "applied")
  /\ RestartsAfter(call[c])
  /\ due' = Changed(call[c], due)
  /\ given' = CredentialAfter(call[c])
  /\ call' = [call EXCEPT ![c] = Idle]
  /\ UNCHANGED <<config, env, busy, stored, seal, begun, wild, turned>>

\* command_config_apply: what is in the file, whatever was left undone.
AppliesAgain(c) ==
  /\ Begins(c, Request("apply", 1, "none", "written"))
  /\ UNCHANGED <<config, env, running, busy, stored, seal, due, given, owed, turned>>

\* Killed, or something it calls fails.
Cut(c) ==
  /\ call[c] # Idle
  /\ call' = [call EXCEPT ![c] = Idle]
  /\ wild' = TRUE
  /\ UNCHANGED <<config, env, running, busy, stored, seal, begun, due, given, owed, turned>>

\* Somebody restarts the service; a run starts, or ends.
Restarts ==
  /\ running # env \/ owed # "nothing"
  /\ TakesUp
  /\ UNCHANGED <<config, env, busy, stored, seal, call, begun, due, given, wild, turned>>
RunStartsOrEnds ==
  /\ busy' = ~busy
  /\ UNCHANGED <<config, env, running, stored, seal, call, begun, due, given, owed, wild, turned>>

-----------------------------------------------------------------------------
(* The seal key.                                                           *)

\* generate_seal_key: made beside, under one name for all who make one.
Generates(c) ==
  /\ Begins(c, [op |-> "rotate", at |-> "made", pem |-> begun + 1])
  /\ staged' = begun + 1
  /\ UNCHANGED <<config, env, running, busy, stored, private, public, due, given, owed, turned>>

\* What is there under that name is moved, which may be another's by now, or gone.
Moves(c) ==
  /\ Under(c, "made")
  /\ IF staged = Empty
       THEN call' = [call EXCEPT ![c] = Idle] /\ UNCHANGED <<private, staged>>
       ELSE private' = staged /\ staged' = Empty /\ Goes(c, "publish")
  /\ UNCHANGED <<config, env, running, busy, stored, public, begun, due, given, owed, wild, turned>>

\* The public half, as it was read of the key made, or of the key there is.
Publishes(c) ==
  /\ Under(c, "publish")
  /\ public' = call[c].pem
  /\ call' = [call EXCEPT ![c] = Idle]
  /\ UNCHANGED <<config, env, running, busy, stored, private, staged, begun, due, given, owed, wild,
                 turned>>

\* command_providers_seal_key: a public half that is not the key's is remade.
Repairs(c) ==
  /\ public # private
  /\ Begins(c, [op |-> "repair", at |-> "publish", pem |-> private])
  /\ UNCHANGED <<config, env, running, busy, stored, seal, due, given, owed, turned>>

Next ==
  \/ \E c \in Callers :
       \/ Loads(c) \/ LoadsForSecret(c) \/ LoadsSealed(c) \/ StoresSecret(c)
       \/ WritesConfig(c) \/ Applies(c) \/ Ends(c) \/ AppliesAgain(c) \/ Cut(c)
       \/ Generates(c) \/ Moves(c) \/ Publishes(c) \/ Repairs(c)
  \/ Restarts \/ RunStartsOrEnds

Spec == Init /\ [][Next]_vars

-----------------------------------------------------------------------------
Config == [channels : [Channels -> [kind : Kinds \cup {"none"}, on : BOOLEAN]],
           limit : 0 .. MaxCalls, link : BOOLEAN]
SealKeys == 1 .. MaxCalls + 1
Ids  == {1} \cup Channels \cup {Min(free) : free \in (SUBSET Channels) \ {{}}}
Changes == [op : {"limit", "link", "set", "tune", "remove", "apply", "switch", "retype"}, id : Ids,
            kind : Kinds \cup {"none"}, at : {"asks", "loaded", "written", "applied"},
            n : 1 .. MaxCalls, read : Config, key : SealKeys, secret : BOOLEAN]
KeyChanges == [op : {"rotate"}, at : {"made", "publish"}, pem : SealKeys]
              \cup [op : {"repair"}, at : {"publish"}, pem : SealKeys]

\* Every variable holds what the rest of the module takes it to hold.
TypeOK ==
  /\ {config, env, running, due} \subseteq Config
  /\ stored \in [Kinds -> 0 .. begun] /\ given \in [Channels -> 0 .. begun]
  /\ begun \in 0 .. MaxCalls /\ {busy, wild, turned} \subseteq BOOLEAN
  /\ owed \in {"nothing", "told", "untold"}
  /\ {private, public} \subseteq SealKeys /\ staged \in {Empty} \cup SealKeys
  /\ call \in [Callers -> {Idle} \cup Changes \cup KeyChanges]

\* The credential in a channel's file is the one that channel was set with, or that was there
\* when it was made of that kind by hand, but for a key turned under the command that set it and a channel of that kind set since, which has
\* the same file (removed, perhaps, or set over this one).
HasItsCredential(f, i) ==
  LET k == f.channels[i].kind IN
  \/ k = "callmebot" \/ turned
  \/ stored[k] = given[i]
  \/ stored[k] > given[i] /\ \A j \in Held(f) \ {i} : f.channels[j].kind # k => given[j] # stored[k]

\* The file and the environment are valid whatever commands met (require_valid before every
\* write).  When none met, none was cut off and none is under way, every change that was
\* acknowledged is in both; a service that notifies through other channels is one somebody
\* was told to restart (restart_sending_service), but for a change made by config set or by
\* hand, which tells nobody; the channels have their credentials; and what the page seals to
\* is the public half of the key that opens it.
SettledIsWhole ==
  /\ Valid(config) /\ Valid(env)
  /\ ~wild /\ Alone =>
       /\ config = due /\ env = Rendered(due) /\ public = private
       /\ running.channels # env.channels => owed # "nothing"
       /\ \A i \in Held(config) : HasItsCredential(config, i)

-----------------------------------------------------------------------------
(* What makes SettledIsWhole inductive: of every behaviour StaysValid, and  *)
(* the rest while no commands on the same files met and none was cut off.  *)

OfFile(q) == q.op \in {"limit", "link", "set", "tune", "remove", "apply", "switch", "retype"}

\* What a command is about to write is valid, and numbers are the commands' that were.
StaysValid ==
  /\ Valid(config) /\ Valid(env)
  /\ \A c \in Callers : LET q == call[c] IN
       OfFile(q) => Valid(Changed(q, q.read)) /\ q.n <= begun /\ (q.op = "retype" => q.kind # "none")

\* Of the commands on the file there is one at most, and of those on the key.
NoneMeet ==
  \A c, d \in Callers :
    c # d /\ call[c] # Idle /\ call[d] # Idle => (Keyed(call[c]) <=> ~Keyed(call[d]))

\* Whoever finds the service behind was told to restart it, or changed it by hand.
Told == running.channels # env.channels => owed # "nothing"

\* File and environment are as the commands before left them, but for what the one under way
\* has written of its change.
InForce ==
  /\ (\A c \in Callers : ~OfFile(call[c])) => config = due /\ env = Rendered(due) /\ Told
  /\ \A c \in Callers : LET q == call[c] IN OfFile(q) =>
       /\ q.read = due
       /\ config = IF q.at \in {"asks", "loaded"} THEN due ELSE Changed(q, due)
       /\ env = Rendered(IF q.at = "applied" THEN Changed(q, due) ELSE due)
       /\ q.at # "applied" \/ q.op \in {"limit", "link", "apply"} => Told

\* A credential that was put by is the newest there is, until its channel has it.
Newcomer ==
  \A c \in Callers : LET q == call[c] IN OfFile(q) =>
    /\ \A i \in Channels : given[i] < q.n
    /\ \A k \in Kinds : k # q.kind \/ ~q.secret => stored[k] < q.n
    /\ q.secret /\ ~turned => stored[q.kind] = q.n
    /\ q.secret \/ q.at = "asks" => q.op \in {"link", "set"} /\ q.kind # "none"
    /\ q.op = "set" => q.kind # "none" /\ (q.secret \/ q.at = "asks" <=> q.kind # "callmebot")

\* What two files have in common is nothing: a command puts its credential in one.
OneFileEach == \A k, l \in Kinds : k # l /\ stored[k] = stored[l] => stored[k] = Empty

Credited == \A i \in Held(due) : HasItsCredential(due, i)

\* The public half is the key's, but for the one being made or published.
KeyPair ==
  /\ (\A c \in Callers : ~Keyed(call[c])) => public = private
  /\ \A c \in Callers : LET q == call[c] IN Keyed(q) =>
       IF q.at = "made" THEN public = private /\ staged = q.pem ELSE private = q.pem

Inductive ==
  /\ TypeOK /\ StaysValid
  /\ ~wild => NoneMeet /\ InForce /\ Newcomer /\ OneFileEach /\ Credited /\ KeyPair
=============================================================================
