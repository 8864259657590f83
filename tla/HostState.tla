------------------------------- MODULE HostState -------------------------------
(***************************************************************************)
(* The state of a host's components that share no variable, when each is   *)
(* looked at by itself: v1, v2, ... are the variables of the one that a    *)
(* behaviour is of, in the order of its vars, as the instances say.        *)
(***************************************************************************)
CONSTANT Nobody  \* a value that is no other

VARIABLES
  v1, v2, v3, v4, v5, v6, v7, v8, v9, v10, v11, v12, v13, v14, v15, v16
=============================================================================
