------------------------------- MODULE MCOptions -------------------------------
(***************************************************************************)
(* Options for TLC: for each field, values of several types, around the    *)
(* limits of its integer type and of the checks.                           *)
(***************************************************************************)
EXTENDS Options, TLC

Vals(ty, vs) == {[ty |-> ty, v |-> x] : x \in vs}

Settings ==
  [path |-> Vals("string", {"/p", Empty}) \cup Vals("null", {Null}),
   win32_object_namespace |-> Vals("string", {"Global", Empty}) \cup Vals("null", {Null}),
   socket_host |-> Vals("string", {Empty, "h"}) \cup Vals("null", {Null}),
   backend |-> Vals("string", {"shared_memory", "unknown"}),
   channel_type |-> Vals("string", {"varlen"}) \cup Vals("boolean", {"fixed"}),
   type |-> Vals("string", {"varlen"}),
   create_if_missing |-> Vals("boolean", {0, 1}) \cup Vals("number", {0, 2}),
   socket_listen |-> Vals("boolean", {0, 1}),
   socket_connect_retries |-> Vals("number", {-1, 0, IntMax + 1}) \cup Vals("bigint", {0}),
   shm_size |-> Vals("number", {0, MinShm - 1, MinShm, MinShm + 8, Safe + 1}) \cup Vals("bigint", {MinShm + 12, U64 + 1}),
   item_size |-> Vals("number", {-1, 0, 3, 4, U32 + 1}) \cup Vals("bigint", {4}),
   data_align |-> Vals("number", {0, 2, 4, 6}),
   schema_id |-> Vals("number", {1}) \cup Vals("bigint", {U64}),
   creator_flags |-> Vals("bigint", {U64}),
   socket_port |-> Vals("number", {0, U16, U16 + 1}) \cup Vals("string", {0})]

\* What scripts ask for: a plain configuration with up to two fields set otherwise.
Plain ==
  LET Given(b, t, listen) ==
        [backend |-> [ty |-> "number", v |-> b], channel_type |-> [ty |-> "number", v |-> t],
         path |-> [ty |-> "string", v |-> "/p"], shm_size |-> [ty |-> "number", v |-> MinShm + 4],
         item_size |-> [ty |-> "number", v |-> 2], socket_port |-> [ty |-> "number", v |-> 1],
         socket_listen |-> [ty |-> "boolean", v |-> listen]]
  IN {Given(b, t, l) : b \in Enums["backend"], t \in Enums["channel_type"], l \in {0, 1}}

MCGivens ==
  UNION {{(f :> x) @@ (g :> y) @@ p : x \in Settings[f], y \in Settings[g], p \in Plain} :
           f \in DOMAIN Settings, g \in DOMAIN Settings}

MCAligns == {0, 2, 4, 8}
MCCapacities == {0, 4, 8, U64 + 1 - MinShm, U64}
MCPorts == {0, U16}
MCRetries == {-1, 0}
MCCreators == {channel_builder_options(type, 2, 0, 0, 1, 4) : type \in Enums["channel_type"]}
================================================================================
