-------------------------------- MODULE KeyNames --------------------------------
(***************************************************************************)
(* The one namespace of API keys and accounts, kept in two stores: the     *)
(* keys file and the farm's database.  Keys are made and revoked by the    *)
(* service, by the container's command and by the host's, each reading the *)
(* whole file and replacing it; the lock on the file beside it is held     *)
(* from the check to the write.  Accounts are made by the portal, whose    *)
(* side is outside the repository: it takes the same lock and asks for the *)
(* names of the keys.                                                      *)
(***************************************************************************)
EXTENDS FiniteSets

CONSTANTS
  Names,
  Calls,    \* calls, each made once
  KindOf,   \* [Calls -> "create", "revoke", "cli_create", "cli_revoke",
            \*           "host_create", "host_revoke", "sign_up"]
  NameOf,   \* [Calls -> Names]
  None

VARIABLES
  keys,      \* names in the keys file
  accounts,  \* handles in the database
  namespace, \* the call that holds the file lock, or None
  lock,      \* the call that holds the store's own lock in the service, or None
  at,        \* [Calls -> "start", "locked", "asked", "read", "done"]
  read,      \* [Calls -> the names it read]
  taken,     \* [Calls -> the names it was told are somebody's]
  readable,  \* the keys file can be read
  granted,   \* history: names whose key was handed out and not revoked since
  beside     \* history: a revoke without the file lock overlapped another call

vars == <<keys, accounts, namespace, lock, at, read, taken, readable, granted, beside>>

Init ==
  /\ keys \in SUBSET Names /\ accounts = {}
  /\ namespace = None /\ lock = None
  /\ at = [c \in Calls |-> "start"]
  /\ read = [c \in Calls |-> {}] /\ taken = [c \in Calls |-> {}]
  /\ readable = TRUE /\ granted = keys /\ beside = FALSE

\* The service's calls hold the store's own lock.
InService(c) == KindOf[c] \in {"create", "revoke"}
Making(c)    == KindOf[c] \in {"create", "cli_create", "host_create"}

\* Calls made under namespace_lock: all but the service's and the host's revoke.
\* Variant: a key is made without it.
NamesWithout(c) == KindOf[c] \in {"cli_create", "cli_revoke", "host_create", "sign_up"}

UnderNamespace(c) == KindOf[c] \notin {"revoke", "host_revoke"}

\* namespace_lock, then the store's own.
Takes(c) ==
  /\ at[c] = "start"
  /\ UnderNamespace(c) => namespace = None
  /\ InService(c) => lock = None
  /\ namespace' = IF UnderNamespace(c) THEN c ELSE namespace
  /\ lock' = IF InService(c) THEN c ELSE lock
  /\ at' = [at EXCEPT ![c] = "locked"]
  /\ UNCHANGED <<keys, accounts, read, taken, readable, granted, beside>>

\* reserved / account_handles, asked before the file is read.
Asks(c) ==
  /\ at[c] = "locked"
  /\ taken' = [taken EXCEPT ![c] = IF Making(c) THEN accounts ELSE {}]
  /\ at' = [at EXCEPT ![c] = "asked"]
  /\ UNCHANGED <<keys, accounts, namespace, lock, read, readable, granted, beside>>

\* load_keys; the names as key_names gives them to a sign-up.
Reads(c) ==
  /\ at[c] = "asked" /\ readable
  /\ read' = [read EXCEPT ![c] = keys]
  /\ at' = [at EXCEPT ![c] = "read"]
  /\ UNCHANGED <<keys, accounts, namespace, lock, taken, readable, granted, beside>>

LetsGo(c) ==
  /\ at' = [at EXCEPT ![c] = "done"]
  /\ namespace' = IF namespace = c THEN None ELSE namespace
  /\ lock' = IF lock = c THEN None ELSE lock
  /\ UNCHANGED <<read, taken>>

\* The file cannot be read: nobody is named on a guess.
Unread(c) ==
  /\ at[c] = "asked" /\ ~readable
  /\ LetsGo(c)
  /\ UNCHANGED <<keys, accounts, readable, granted, beside>>

Refused(c) ==
  /\ at[c] = "read"
  /\ \/ Making(c) /\ NameOf[c] \in read[c] \cup taken[c]
     \/ KindOf[c] = "sign_up" /\ NameOf[c] \in read[c] \cup accounts
     \/ ~Making(c) /\ KindOf[c] # "sign_up" /\ NameOf[c] \notin read[c]
  /\ LetsGo(c)
  /\ UNCHANGED <<keys, accounts, readable, granted, beside>>

\* A revoke that does not take the file lock, beside another call's read and write.
Overlaps(c) ==
  /\ KindOf[c] \in {"revoke", "host_revoke"}
  /\ keys # read[c] \/ \E d \in Calls \ {c} : at[d] = "read"

Creates(c) ==
  /\ at[c] = "read" /\ Making(c) /\ NameOf[c] \notin read[c] \cup taken[c]
  /\ keys' = read[c] \cup {NameOf[c]}
  /\ granted' = granted \cup {NameOf[c]}
  /\ LetsGo(c)
  /\ UNCHANGED <<accounts, readable, beside>>

Revokes(c) ==
  /\ at[c] = "read" /\ ~Making(c) /\ KindOf[c] # "sign_up" /\ NameOf[c] \in read[c]
  /\ keys' = read[c] \ {NameOf[c]}
  /\ granted' = granted \ {NameOf[c]}
  /\ beside' = (beside \/ Overlaps(c))
  /\ LetsGo(c)
  /\ UNCHANGED <<accounts, readable>>

SignsUp(c) ==
  /\ at[c] = "read" /\ KindOf[c] = "sign_up" /\ NameOf[c] \notin read[c] \cup accounts
  /\ accounts' = accounts \cup {NameOf[c]}
  /\ LetsGo(c)
  /\ UNCHANGED <<keys, readable, granted, beside>>

FileFails ==
  /\ readable' = ~readable
  /\ UNCHANGED <<keys, accounts, namespace, lock, at, read, taken, granted, beside>>

Next ==
  \/ \E c \in Calls : \/ Takes(c) \/ Asks(c) \/ Reads(c) \/ Unread(c) \/ Refused(c)
                      \/ Creates(c) \/ Revokes(c) \/ SignsUp(c)
  \/ FileFails

Spec == Init /\ [][Next]_vars

-----------------------------------------------------------------------------
\* Every variable holds what the rest of the module takes it to hold.
TypeOK ==
  /\ keys \cup accounts \cup granted \subseteq Names /\ beside \in BOOLEAN
  /\ namespace \in Calls \cup {None} /\ lock \in Calls \cup {None}
  /\ at \in [Calls -> {"start", "locked", "asked", "read", "done"}]
  /\ read \in [Calls -> SUBSET Names] /\ taken \in [Calls -> SUBSET Names]

\* A name is a key's or an account's, never both, whoever made them at once, and the file
\* holds the keys handed out and not revoked -- until a revoke that does not take the file
\* lock overlaps another call's read and write of it.
OneOwnerPerName == ~beside => keys \cap accounts = {} /\ keys = granted

-----------------------------------------------------------------------------
(* What makes OneOwnerPerName inductive.                                   *)

\* A call under namespace_lock has it from its start to its end.
Inside(c) == UnderNamespace(c) /\ at[c] \in {"locked", "asked", "read"}
OneInside == \A c \in Calls : Inside(c) => namespace = c

\* What it was told and what it read still stand.
ToldStands == \A c \in Calls : Making(c) /\ at[c] \in {"asked", "read"} => taken[c] = accounts
ReadStands == ~beside => \A c \in Calls : UnderNamespace(c) /\ at[c] = "read" => read[c] = keys

Inductive == TypeOK /\ OneInside /\ ToldStands /\ ReadStands /\ OneOwnerPerName
=============================================================================
