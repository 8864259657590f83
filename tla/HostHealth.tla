------------------------------ MODULE HostHealth ------------------------------
(***************************************************************************)
(* The host's health report: a check reads the last report, looks at       *)
(* everything there is, tells people when the host turned unhealthy or     *)
(* came back, and puts its report in the place of the last one.  The timer *)
(* and a deploy both check, with no lock; a check can be cut off anywhere. *)
(* Whether a fault of the Pi's supply is a dip or the supply itself, a     *)
(* report decides with what the reports before it saw.                     *)
(***************************************************************************)
EXTENDS Naturals, Sequences

CONSTANTS
  Turned,     \* what the host's environment turns on
  Faults,     \* what can be wrong with the host beside its supply
  Channels,   \* the channels that ask for the host's health
  Persists,   \* THROTTLE_PERSISTS_AFTER, in moments
  MaxTime, MaxChecks  \* bounds: moments, and checks in all

Never == 0    \* the start of a spell that there is not
\* What is read where no report is.
None  == [at |-> Never, read |-> "none", supply |-> "ok", since |-> Never,
          status |-> "none"]

VARIABLES
  now,
  file,    \* status.json: the last report, or None
  check,   \* [Checkers -> the check under way, or Idle]
  told,    \* [Channels -> the last message that arrived]
  begun,   \* checks begun
  seen,    \* history: when a report saw the supply fail, and when one did not, as they came
  lost,    \* history: channels a message did not reach
  again,   \* history: a message was sent that repeats the one before it
  beside   \* history: two checks overlapped, or one was cut off

vars == <<now, file, check, told, begun, seen, lost, again, beside>>

Checkers == {"timer", "deploy"}
Idle == [at |-> "idle"]

Init ==
  /\ now = 1 /\ file = None /\ begun = 0 /\ seen = <<>>
  /\ check = [c \in Checkers |-> Idle]
  /\ told = [n \in Channels |-> "none"]
  /\ lost = {} /\ again = FALSE /\ beside = FALSE

-----------------------------------------------------------------------------
(* What a check looks at: which fault it finds, and how bad that is. *)

Red(name, fault)   == [name |-> name, fault |-> fault, status |-> "unhealthy"]
Amber(name, fault) == [name |-> name, fault |-> fault, status |-> "degraded"]
If(what, checks)   == IF what \in Turned THEN checks ELSE {}

ToolChecks ==
  {Red("mode", "simulated"), Red("python", "no interpreter"), Red("tools", "a tool missing")}
  \cup If("runner", {Red("runner_service", "runner stopped")})

ChannelChecks ==
  If("channel", {Amber("gateway_channel", "no AP"), Red("gateway_channel", "AP elsewhere")})
GatewayChecks ==
  If("gateway",
     ChannelChecks
     \cup {Red("gateway_service", "probe stopped"), Red("gateway_credentials", "no password"),
           Red("gateway_endpoint", "probe silent")})

ServiceChecks ==
  If("service",
     {Red("farm_service", "service stopped"), Red("farm_endpoint", "API silent")}
     \cup If("public", {Red("reverse_proxy", "proxy stopped"), Amber("reverse_proxy", "no site")}))

MachineChecks ==
  {Red("disk_config", "no number"), Amber("disk", "disk filling"), Red("disk", "disk full"),
   Red("usb_power", "hub denied")}
LockChecks == {Red("rig_lock", "no lock file")}
MetricChecks == {Amber("host", "warm"), Red("host", "hot"), Amber("host", "no metrics")}

BoardChecks ==
  {Red("board_config", "no count"), Amber("board_map", "no map"), Red("board_map", "map unread"),
   Amber("board_map", "boards away")}

ProviderChecks ==
  If("provider", {Red("provider_callmebot", "no link"), Amber("provider_callmebot_route", "no route")})
BackupChecks == If("backup", {Amber("backup", "backup old")})

Checks == ToolChecks \cup GatewayChecks \cup ServiceChecks \cup MachineChecks \cup LockChecks
          \cup MetricChecks \cup BoardChecks \cup ProviderChecks \cup BackupChecks

Found(wrong, status) == {k \in Checks : k.fault \in wrong /\ k.status = status}

-----------------------------------------------------------------------------
(* The Pi's supply.  Its flag is read several times: set in one, clear in   *)
(* all, kept from this user, or not to be made out.                         *)

Readings == IF "power" \in Turned THEN {"set", "clear", "denied", "garbled"} ELSE {"none"}

\* Variant: a supply found wanting is the start of a spell, by a report that could not read
\* it too.
FaultSinceAny(previous) ==
  IF previous.supply = "ok" THEN Never
  ELSE IF previous.since = Never THEN previous.at ELSE previous.since

\* power_fault_since: a report that saw the fault says since when.
FaultSince(previous) ==
  IF previous.read = "set" THEN previous.since ELSE Never

\* classify_throttling
Supply(read, since) ==
  LET began == IF since = Never THEN now ELSE since IN
  CASE read = "set"    -> IF now - began >= Persists THEN "unhealthy" ELSE "degraded"
    [] read = "denied" -> "degraded"
    [] read = "garbled" -> "unhealthy"
    [] OTHER -> "ok"

\* collect_health: every check, and the worst of them.
Report(wrong, read, since) ==
  LET supply == Supply(read, since)
      red    == Found(wrong, "unhealthy") # {}
      amber  == Found(wrong, "degraded") # {}
  IN [at     |-> now, read |-> read, supply |-> supply,
      since  |-> IF read # "set" THEN Never ELSE IF since = Never THEN now ELSE since,
      status |-> IF red \/ supply = "unhealthy" THEN "unhealthy"
                 ELSE IF amber \/ supply = "degraded" THEN "degraded" ELSE "ok"]

\* The host in every state a fault puts it in, and in good order.
Hosts == {{}} \cup {{f} : f \in Faults}

-----------------------------------------------------------------------------
(* A check. *)

Bad(report) == report.status = "unhealthy"
Under(c, at) == check[c].at = at

Begins(c) ==
  /\ check[c] = Idle /\ begun < MaxChecks
  /\ begun' = begun + 1
  /\ check' = [check EXCEPT ![c] = [at |-> "read", previous |-> file]]
  /\ beside' = (beside \/ \E d \in Checkers : check[d] # Idle)
  /\ UNCHANGED <<now, file, told, seen, lost, again>>

Collects(c) ==
  /\ Under(c, "read")
  /\ \E wrong \in Hosts, read \in Readings :
       check' = [check EXCEPT ![c] = [at |-> "collected", previous |-> check[c].previous,
                   report |-> Report(wrong, read, FaultSince(check[c].previous))]]
  /\ UNCHANGED <<now, file, told, begun, seen, lost, again, beside>>

\* notify_transition: what there is to say of two reports.
News(previous, report) ==
  IF Bad(report) /\ ~Bad(previous) THEN "unhealthy"
  ELSE IF Bad(previous) /\ ~Bad(report) THEN "recovered" ELSE "none"

\* Every channel is tried once; one that fails is not tried again.
Tells(c) ==
  /\ Under(c, "collected")
  /\ LET news == News(check[c].previous, check[c].report) IN
     \E reached \in SUBSET Channels :
       /\ news = "none" => reached = Channels
       /\ told' = [n \in Channels |-> IF news # "none" /\ n \in reached THEN news ELSE told[n]]
       /\ lost' = lost \cup (Channels \ reached)
       /\ again' = (again \/ (news # "none" /\ \E n \in Channels \ lost : told[n] = news))
  /\ check' = [check EXCEPT ![c].at = "told"]
  /\ UNCHANGED <<now, file, begun, seen, beside>>

Writes(c) ==
  /\ Under(c, "told")
  /\ file' = check[c].report
  /\ seen' = Append(seen, [at |-> file'.at, failing |-> file'.read = "set"])
  /\ check' = [check EXCEPT ![c] = Idle]
  /\ UNCHANGED <<now, told, begun, lost, again, beside>>

CutOff(c) ==
  /\ check[c] # Idle
  /\ check' = [check EXCEPT ![c] = Idle]
  /\ beside' = TRUE
  /\ UNCHANGED <<now, file, told, begun, seen, lost, again>>

\* A check takes less than a moment.
TimePasses ==
  /\ now < MaxTime /\ \A c \in Checkers : check[c] = Idle
  /\ now' = now + 1
  /\ UNCHANGED <<file, check, told, begun, seen, lost, again, beside>>

Next ==
  \/ TimePasses
  \/ \E c \in Checkers : Begins(c) \/ Collects(c) \/ Tells(c) \/ Writes(c) \/ CutOff(c)

Spec == Init /\ [][Next]_vars

-----------------------------------------------------------------------------
Reports ==
  [at : 0 .. MaxTime, read : {"none", "set", "clear", "denied", "garbled"},
   supply : {"ok", "degraded", "unhealthy"}, since : 0 .. MaxTime,
   status : {"none", "ok", "degraded", "unhealthy"}]
Steps == {Idle} \cup [at : {"read"}, previous : Reports]
                \cup [at : {"collected", "told"}, previous : Reports, report : Reports]

\* Every variable holds what the rest of the module takes it to hold.
TypeOK ==
  /\ now \in 1 .. MaxTime /\ begun \in 0 .. MaxChecks
  /\ seen = <<>> <=> file = None
  /\ seen \in Seq([at : 1 .. MaxTime, failing : BOOLEAN]) /\ file \in Reports
  /\ check \in [Checkers -> Steps]
  /\ told \in [Channels -> {"none", "unhealthy", "recovered"}] /\ lost \subseteq Channels

\* A person on a channel that got every message knows how the host is, and was told once:
\* what arrived last is unhealthy exactly while the report says so.  Two checks at once, and
\* a check that was cut off after it told, can tell it twice.
TransitionsTold ==
  ~beside /\ (\A c \in Checkers : check[c] = Idle) =>
    /\ \A n \in Channels \ lost : told[n] = "unhealthy" <=> Bad(file)
    /\ ~again

\* The supply is what is unhealthy, and not a dip in it, exactly if it was seen failing at
\* every check of a time that long: one report of it that was clear, or could not be read,
\* starts that time anew.
SupplyJudged ==
  ~beside /\ file.read = "set" =>
    (file.supply = "unhealthy" <=>
       \E j \in 1 .. Len(seen) : /\ file.at - seen[j].at >= Persists
                                /\ \A k \in j .. Len(seen) : seen[k].failing)

-----------------------------------------------------------------------------
(* What makes both inductive: of every behaviour InTime, and the rest while *)
(* no check overlaps another or is cut off.                                *)

\* A report is of the moment, and no check came later.
InTime ==
  /\ \A i \in 1 .. Len(seen) : seen[i].at <= now
  /\ \A c \in Checkers : Under(c, "collected") \/ Under(c, "told") => check[c].report.at = now

\* A check stands on the last report, and is the only one.
OneAtATime ==
  \A c \in Checkers : check[c] # Idle =>
    /\ check[c].previous = file
    /\ \A d \in Checkers \ {c} : check[d] = Idle

\* Until a check has told, people know of the last report; then of its own.
ToldSoFar ==
  /\ ~again
  /\ \A n \in Channels \ lost :
       IF \E c \in Checkers : Under(c, "told")
         THEN \A c \in Checkers : Under(c, "told") => (told[n] = "unhealthy" <=> Bad(check[c].report))
         ELSE told[n] = "unhealthy" <=> Bad(file)

\* The checks came in the order of their time, the last was the file's, and a supply that
\* fails does so since the first of those at the end that saw it.
SpellStands ==
  /\ \A i, k \in 1 .. Len(seen) : i <= k => seen[i].at <= seen[k].at
  /\ seen # <<>> => seen[Len(seen)] = [at |-> file.at, failing |-> file.read = "set"]
  /\ file.read = "set" =>
       /\ \E i \in 1 .. Len(seen) :
            /\ seen[i].at = file.since /\ \A k \in i .. Len(seen) : seen[k].failing
            /\ i > 1 => ~seen[i - 1].failing
       /\ file.supply = "unhealthy" <=> file.at - file.since >= Persists

\* So is a report that is not in the file yet.
ReportStands ==
  \A c \in Checkers : Under(c, "collected") \/ Under(c, "told") =>
    LET r == check[c].report IN
    r.read = "set" =>
      /\ r.since = IF file.read = "set" THEN file.since ELSE now
      /\ r.supply = "unhealthy" <=> now - r.since >= Persists

Inductive ==
  /\ TypeOK /\ InTime
  /\ ~beside => OneAtATime /\ ToldSoFar /\ SpellStands /\ ReportStands
=============================================================================
