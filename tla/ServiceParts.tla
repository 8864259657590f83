------------------------------ MODULE ServiceParts ------------------------------
(***************************************************************************)
(* Components of a host's service and of its administration, each an       *)
(* instance over the variables of HostState, and with parameters, for      *)
(* ServiceProofs: who may ask and what was asked, the commands for a node, *)
(* the host's configuration and health, the messages it may send and what  *)
(* is installed on it.                                                     *)
(***************************************************************************)
EXTENDS HostState, Naturals, FiniteSets

CONSTANTS
  Names, NameCalls, KindOf, NameOf,                                  \* KeyNames
  PortalCommands, ByScript, Restarting,                              \* NodeControl
  Callers, Keys, Sessions, RoleOf, Tried, FailureLimit, MaxWrites,   \* Requests
  Visitors, MaxVisits, Emails, Browsers, States, People, EmailOf,    \* Accounts
  Owned, Joining, MaxGuesses,
  Admins, MaxCommands, ChannelIds, SealedOnes,                       \* HostConfig
  Turned, Faults, Channels, Persists, MaxTime, MaxChecks,            \* HostHealth
  Takers, Operators, Days, MaxPerDay, MaxTakes,                      \* MessageBudget
  Offered, BuiltWith, Stagers, MaxUpgrades                           \* HostUpgrade

ASSUME KeyNamesAssumption == NameOf \in [NameCalls -> Names] /\ Nobody \notin NameCalls
ASSUME NodeControlAssumption == ByScript \subseteq PortalCommands /\ Nobody \notin PortalCommands
ASSUME RequestsAssumption ==
  /\ Keys \cap Sessions = {} /\ Nobody \notin Keys \cup Sessions
  /\ RoleOf \in [Sessions -> {"admin", "user", "guest"}]
  /\ Nobody \notin Callers /\ Nobody \notin {"admin", "user", "node", "guest", "enroll"}
  /\ MaxWrites \in Nat
ASSUME AccountsAssumption ==
  /\ MaxVisits \in Nat /\ MaxGuesses \in Nat \ {0} /\ {"code", "state"} \cap Joining = {}
  /\ EmailOf \in [DOMAIN People -> Emails \cup {Nobody}]
ASSUME HostConfigAssumption == MaxCommands \in Nat
ASSUME HostHealthAssumption == Persists \in Nat /\ MaxTime \in Nat \ {0} /\ MaxChecks \in Nat
ASSUME MessageBudgetAssumption ==
  /\ IsFiniteSet(Takers) /\ "nobody" \notin Takers
  /\ Days \subseteq Nat \ {0} /\ 1 \in Days /\ MaxPerDay \in Nat /\ MaxTakes \in Nat
ASSUME HostUpgradeAssumption ==
  /\ Offered \subseteq Nat \ {0} /\ 1 \in Offered /\ DOMAIN BuiltWith = Offered
  /\ MaxUpgrades \in Nat

KeyOwners == INSTANCE KeyNames WITH
  Names <- Names, Calls <- NameCalls, KindOf <- KindOf, NameOf <- NameOf, None <- Nobody,
  keys <- v1, accounts <- v2, namespace <- v3, lock <- v4, at <- v5, read <- v6,
  taken <- v7, readable <- v8, granted <- v9, beside <- v10

Control == INSTANCE NodeControl WITH
  Commands <- PortalCommands, Control <- ByScript, Restarting <- Restarting, None <- Nobody,
  status <- v1, seen <- v2, todo <- v3, hand <- v4, outcome <- v5, request <- v6,
  script <- v7, acted <- v8, results <- v9, restarts <- v10, did <- v11

Api == INSTANCE Requests WITH
  Callers <- Callers, Keys <- Keys, Sessions <- Sessions, RoleOf <- RoleOf, Tried <- Tried,
  FailureLimit <- FailureLimit, MaxWrites <- MaxWrites,
  file <- v1, version <- v2, statable <- v3, loadable <- v4, cached <- v5, stamp <- v6,
  lock <- v7, req <- v8, audit <- v9, failures <- v10

\* What is asked for is a route the service has.
ASSUME RouteAssumption == Tried \subseteq UNION {DOMAIN t : t \in Api!Tables}

Door == INSTANCE Accounts WITH
  Callers <- Visitors, MaxCalls <- MaxVisits, Emails <- Emails, Browsers <- Browsers,
  States <- States, People <- People, EmailOf <- EmailOf, Owned <- Owned, Rigs <- Joining,
  MaxAttempts <- MaxGuesses,
  accounts <- v1, email <- v2, sessions <- v3, codes <- v4, states <- v5, joins <- v6,
  owner <- v7, call <- v8, begun <- v9, used <- v10, wrong <- v11, stale <- v12

Settings == INSTANCE HostConfig WITH
  Callers <- Admins, MaxCalls <- MaxCommands, Channels <- ChannelIds, Sealed <- SealedOnes,
  config <- v1, env <- v2, running <- v3, busy <- v4, stored <- v5, private <- v6,
  public <- v7, staged <- v8, call <- v9, begun <- v10, due <- v11, given <- v12,
  owed <- v13, wild <- v14, turned <- v15

Reporter == INSTANCE HostHealth WITH
  Turned <- Turned, Faults <- Faults, Channels <- Channels, Persists <- Persists,
  MaxTime <- MaxTime, MaxChecks <- MaxChecks,
  now <- v1, file <- v2, check <- v3, told <- v4, begun <- v5, seen <- v6, lost <- v7,
  again <- v8, beside <- v9

Allowance == INSTANCE MessageBudget WITH
  Takers <- Takers, Operators <- Operators, Days <- Days, MaxPerDay <- MaxPerDay,
  MaxTakes <- MaxTakes,
  today <- v1, file <- v2, owner <- v3, lock <- v4, taker <- v5, asked <- v6, taken <- v7,
  torn <- v8, crossed <- v9

Upgrade == INSTANCE HostUpgrade WITH
  Releases <- Offered, Carries <- BuiltWith, Stagers <- Stagers, MaxCalls <- MaxUpgrades,
  newest <- v1, dir <- v2, staging <- v3, stager <- v4, request <- v5, upgrade <- v6,
  venv <- v7, web <- v8, stamped <- v9, running <- v10, listed <- v11, pins <- v12, calls <- v13
=============================================================================
