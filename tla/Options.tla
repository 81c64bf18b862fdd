-------------------------------- MODULE Options --------------------------------
(***************************************************************************)
(* Transport options on their way to an endpoint and back: the JavaScript  *)
(* object or Python TransportOptions, xproc_c_options, transport_options,  *)
(* the checks each layer makes, the builders, the manifest a creator       *)
(* writes, the options read from an existing segment, and options() of an  *)
(* open handle.                                                            *)
(*                                                                         *)
(* A setting given by a script is [ty, v]: its dynamic type and its value. *)
(* Integer types keep their limits, scaled down.  creator_flags stands for *)
(* creator_timestamp_ns too, which is treated alike everywhere.            *)
(***************************************************************************)
EXTENDS Integers

CONSTANTS
  U16, U32, U64,   \* largest values of the unsigned types
  IntMax,          \* the largest int
  Windows,         \* whether the build is for Windows
  Safe,            \* Number.MAX_SAFE_INTEGER
  MinShm,          \* min_shm_size
  Givens,          \* what scripts pass: functions from names to settings
  Items, Aligns, Schemas, CreatorFlags, Capacities, Ports, Retries,   \* what builders are given
  Creators,        \* the options of those who may have created the segment before
  MaxCopies        \* bound: options taken from an endpoint or a segment

ASSUME OptionsAssumption ==
  /\ {U16, U32, Safe, U64} \subseteq Nat
  /\ 0 < U16 /\ U16 < U32 /\ U32 < Safe /\ Safe < U64
  /\ MinShm \in 1 .. U32 /\ 8 <= U32 /\ MaxCopies \in Nat
  /\ IntMax \in Nat /\ 200 <= IntMax /\ Windows \in BOOLEAN

Kinds == {"producer", "consumer", "observer"}
Null == "null"     \* no string
Empty == "empty"   \* the empty string

Strings == {"path", "win32_object_namespace", "socket_host"}
Flags == {"create_if_missing", "socket_listen"}
Enums == [backend |-> {"shared_memory", "socket"}, channel_type |-> {"fixed", "varlen"}]
Ints == {"socket_connect_retries", "socket_connect_retry_ms"}
Limit == [shm_size |-> U64, item_size |-> U32, data_align |-> U32, schema_id |-> U64,
          creator_flags |-> U64, socket_port |-> U16]
CInt == (-IntMax - 1) .. IntMax
Fields == Strings \cup Flags \cup DOMAIN Enums \cup Ints \cup DOMAIN Limit

\* xproc_c_options_init
options_init ==
  [backend |-> "shared_memory", path |-> Null, shm_size |-> 0, item_size |-> 0, data_align |-> 0,
   schema_id |-> 0, creator_flags |-> 0, create_if_missing |-> TRUE, channel_type |-> "fixed",
   win32_object_namespace |-> "Local", socket_host |-> "127.0.0.1", socket_port |-> 0,
   socket_listen |-> FALSE, socket_connect_retries |-> 200, socket_connect_retry_ms |-> 10]

-----------------------------------------------------------------------------
(* node/index.js and the conversions of the addon                          *)

\* Fault: the alias is left in the object.
normalizeKeepsAlias(js) ==
  IF "channel_type" \notin DOMAIN js /\ "type" \in DOMAIN js
    THEN [f \in DOMAIN js \cup {"channel_type"} |-> IF f = "channel_type" THEN js["type"] ELSE js[f]]
    ELSE js

\* normalizeOptions: one name for the channel type; undefined entries are not in js at all.
normalizeOptions(js) ==
  LET type == IF "channel_type" \in DOMAIN js THEN js["channel_type"]
              ELSE IF "type" \in DOMAIN js THEN js["type"]
              ELSE [ty |-> "string", v |-> "fixed"]
  IN [f \in (DOMAIN js \ {"type"}) \cup {"channel_type"} |-> IF f = "channel_type" THEN type ELSE js[f]]

\* parse_uint64 and the narrower ones: a number must be safe, a bigint only fit.
parse_uint(x, max) ==
  /\ x.ty \in {"number", "bigint"}
  /\ 0 <= x.v /\ x.v <= max
  /\ x.ty = "number" => x.v <= Safe

parse_bool(x) == x.ty = "boolean" \/ (x.ty = "number" /\ x.v \in {0, 1})

parse_int(x) == x.ty = "number" /\ x.v \in CInt

\* parse_backend and parse_channel_type, which also know several spellings.
parse_enum(f, x) == x.ty \in {"number", "string"} /\ x.v \in Enums[f]

assign_optional_string(x) == x.ty \in {"string", "null"}

\* Whether the addon takes the value of field f.
ParsesJs(f, x) ==
  CASE f \in Strings -> assign_optional_string(x)
    [] f \in Flags -> parse_bool(x)
    [] f \in DOMAIN Enums -> parse_enum(f, x)
    [] f \in Ints -> parse_int(x)
    [] OTHER -> parse_uint(x, Limit[f])

options_from_js_ok(js) ==
  /\ ~({"type", "channel_type"} \subseteq DOMAIN js)
  /\ \A f \in DOMAIN js \cap Fields : ParsesJs(f, js[f])

\* What is not given keeps its default.
options_from_js(js) ==
  [f \in Fields |->
     IF f \notin DOMAIN js THEN options_init[f]
     ELSE IF js[f].ty = "null" THEN Null
     ELSE IF f \in Flags THEN js[f].v = 1 ELSE js[f].v]

\* 64-bit fields become bigints, a null string undefined; the channel type has two names.
options_to_js(c) ==
  [f \in {g \in Fields : g \in Strings => c[g] # Null} \cup {"type"} |->
     IF f = "type" THEN [ty |-> "number", v |-> c["channel_type"]]
     ELSE IF f \in Strings THEN [ty |-> "string", v |-> c[f]]
     ELSE IF f \in Flags THEN [ty |-> "boolean", v |-> IF c[f] THEN 1 ELSE 0]
     ELSE IF f \in {"shm_size", "schema_id", "creator_flags"} THEN [ty |-> "bigint", v |-> c[f]]
     ELSE [ty |-> "number", v |-> c[f]]]

-----------------------------------------------------------------------------
(* Python: TransportOptions has typed attributes                           *)

ParsesPy(f, x) ==
  CASE f \in Strings -> x.ty \in {"string", "null"}
    [] f \in Flags -> x.ty = "boolean"
    [] f \in DOMAIN Enums -> x.ty = "number" /\ x.v \in Enums[f]
    [] f \in Ints -> x.ty = "number" /\ x.v \in CInt
    [] OTHER -> x.ty = "number" /\ 0 <= x.v /\ x.v <= Limit[f]

transport_options_ok(py) ==
  DOMAIN py \subseteq Fields /\ \A f \in DOMAIN py : ParsesPy(f, py[f])

\* transport_options() takes the C defaults, marshalled_options copies field by field.
marshalled_options(py) ==
  [f \in Fields |->
     IF f \notin DOMAIN py THEN options_init[f]
     ELSE IF py[f].ty = "null" THEN Null
     ELSE IF f \in Flags THEN py[f].v = 1 ELSE py[f].v]

\* make_transport_options
make_transport_options(c) ==
  [f \in Fields |->
     IF f \in Strings THEN [ty |-> IF c[f] = Null THEN "null" ELSE "string", v |-> c[f]]
     ELSE IF f \in Flags THEN [ty |-> "boolean", v |-> IF c[f] THEN 1 ELSE 0]
     ELSE [ty |-> "number", v |-> c[f]]]

-----------------------------------------------------------------------------
(* The C API                                                               *)

\* A null string is the default of transport_options.
to_cpp_options(c) ==
  [c EXCEPT !.path = IF @ = Null THEN Empty ELSE @,
            !.win32_object_namespace = IF @ = Null THEN "Local" ELSE @,
            !.socket_host = IF @ = Null THEN "127.0.0.1" ELSE @]

\* Fault: create_if_missing keeps the default of xproc_c_options_init.
fill_borrowed_forgets(o) ==
  [f \in Fields |-> IF f = "create_if_missing" THEN TRUE ELSE IF f \in Strings /\ o[f] = Empty THEN Null ELSE o[f]]

\* fill_borrowed_options and fill_owned_options: an empty string is given out as null.
fill_borrowed_options(o) ==
  [f \in Fields |-> IF f \in Strings /\ o[f] = Empty THEN Null ELSE o[f]]

-----------------------------------------------------------------------------
(* include/xproc/ipc/options.hpp                                           *)

PowerOfTwo(n) == \E k \in 0 .. n : n = 2 ^ k

validate_transport_options(o) ==
  /\ o.channel_type = "fixed" => o.item_size # 0
  /\ o.data_align # 0 => o.data_align >= 4 /\ PowerOfTwo(o.data_align)
  /\ Windows => o.win32_object_namespace \in {"Local", "Global"}
  /\ o.backend = "shared_memory" =>
       /\ o.path # Empty
       /\ o.shm_size # 0 => o.shm_size >= MinShm
  /\ o.backend = "socket" =>
       /\ o.socket_connect_retries >= 0 /\ o.socket_connect_retry_ms >= 0
       /\ ~o.socket_listen => o.socket_host # Empty /\ o.socket_port # 0

\* validate_producer_, validate_consumer_ and validate_observer_transport_options
validate_for(kind, o) ==
  /\ validate_transport_options(o)
  /\ kind = "observer" => o.backend = "shared_memory"
  /\ kind # "observer" /\ o.backend = "shared_memory" => (o.create_if_missing => o.shm_size # 0)
  /\ kind # "observer" /\ o.backend = "socket" => o.socket_listen = (kind = "consumer")

\* The sum is a size_t, and 0 means that the size is to be inferred.
shm_size_for_data_capacity(n) == (MinShm + n) % (U64 + 1)
shm_data_capacity_for_size(n) == IF n > MinShm THEN n - MinShm ELSE 0

-----------------------------------------------------------------------------
(* Builders                                                                *)

cpp_defaults == [options_init EXCEPT !.path = Empty]

\* fixed_channel_builder and varlen_channel_builder: options(capacity)
channel_builder_options(type, item, align, schema, flags, capacity) ==
  [cpp_defaults EXCEPT !.path = "/p", !.shm_size = shm_size_for_data_capacity(capacity),
     !.item_size = IF type = "fixed" THEN item ELSE 0, !.data_align = align, !.schema_id = schema,
     !.creator_flags = flags, !.create_if_missing = TRUE, !.channel_type = type]

socket_listener_options(type, item, port) ==
  [cpp_defaults EXCEPT !.backend = "socket", !.channel_type = type, !.item_size = item,
     !.socket_listen = TRUE, !.socket_host = Empty, !.socket_port = port]

socket_connector_options(type, item, port, retries) ==
  [cpp_defaults EXCEPT !.backend = "socket", !.channel_type = type, !.item_size = item,
     !.socket_listen = FALSE, !.socket_port = port, !.socket_connect_retries = retries]

-----------------------------------------------------------------------------
(* The manifest                                                            *)

Align(o) == IF o.data_align = 0 THEN 8 ELSE o.data_align
ItemSize(o) == IF o.channel_type = "fixed" THEN o.item_size ELSE 0

\* What the creator writes.
init_header(o) ==
  [type |-> o.channel_type, align |-> Align(o), item |-> ItemSize(o), schema |-> o.schema_id,
   flags |-> o.creator_flags, capacity |-> shm_data_capacity_for_size(o.shm_size)]

\* _init_header refuses a capacity that items do not fill.
CanInit(o) == ItemSize(o) # 0 => shm_data_capacity_for_size(o.shm_size) % ItemSize(o) = 0

\* validate_detailed, for an endpoint with options o
validate_detailed(h, o) ==
  /\ h.type = o.channel_type /\ h.item = ItemSize(o) /\ h.schema = o.schema_id
  /\ h.align = Align(o)
  /\ h.item # 0 => h.capacity % h.item = 0
  /\ h.capacity >= shm_data_capacity_for_size(o.shm_size)

\* Fault: the mapped size, rounded up to a page, is taken for the segment's.
read_existing_mapped_size(h) ==
  [cpp_defaults EXCEPT !.path = "/p", !.shm_size = shm_size_for_data_capacity(h.capacity) + 1,
     !.item_size = h.item, !.data_align = h.align, !.schema_id = h.schema, !.creator_flags = h.flags,
     !.create_if_missing = FALSE, !.channel_type = h.type]

\* The logical size of the segment, not the mapped one; never to be created.
read_existing_shm_options(h) ==
  [cpp_defaults EXCEPT !.path = "/p", !.shm_size = shm_size_for_data_capacity(h.capacity),
     !.item_size = h.item, !.data_align = h.align, !.schema_id = h.schema, !.creator_flags = h.flags,
     !.create_if_missing = FALSE, !.channel_type = h.type]

\* fixed_channel_attacher and varlen_channel_attacher insist on their type, and on a
\* schema if one was set (-1: none).
attacher_accepts(o, type, schema) == o.channel_type = type /\ schema \in {-1, o.schema_id}

-----------------------------------------------------------------------------
(* Inputs                                                                  *)

\* A transport_options: strings, bools, enumerators, ints and unsigned integers.
TypedOptions(o) ==
  /\ o = [f \in Fields |-> o[f]]
  /\ \A f \in Strings : o[f] # Null
  /\ \A f \in Flags : o[f] \in BOOLEAN
  /\ \A f \in DOMAIN Enums : o[f] \in Enums[f]
  /\ \A f \in Ints : o[f] \in CInt
  /\ \A f \in DOMAIN Limit : o[f] \in 0 .. Limit[f]

\* The arguments of the builders have the types of the code.
ASSUME BuilderAssumption ==
  /\ Items \subseteq 0 .. U32 /\ Aligns \subseteq 0 .. U32
  /\ Schemas \subseteq 0 .. U64 /\ CreatorFlags \subseteq 0 .. U64
  /\ Capacities \subseteq 0 .. U64 /\ Ports \subseteq 0 .. U16 /\ Retries \subseteq CInt

\* Scripts may pass anything; a number given for an integer is one.
ASSUME ScriptAssumption ==
  \A given \in Givens, f \in Ints \cup DOMAIN Limit :
    f \in DOMAIN given /\ given[f].ty \in {"number", "bigint"} => given[f].v \in Int

\* Earlier creators got through their checks and through _init_header.
ASSUME CreatorAssumption ==
  \A o \in Creators :
    /\ TypedOptions(o) /\ CanInit(o)
    /\ validate_for("producer", o) /\ o.backend = "shared_memory" /\ o.create_if_missing

-----------------------------------------------------------------------------
VARIABLES
  header,   \* the segment at the path: NoSegment, Blank (created, not formatted) or its manifest
  opts,     \* the transport_options in hand
  kind,     \* the endpoint they were used for last
  stage,    \* "start", "ready", "refused", "open", or "failed" by the system
  origin,   \* where they come from: "script", a C++ "builder", a "factory" of Node, a
            \* "handle", the "segment", or an "attach" of Node with a schema of its own
  copies

optionVars == <<header, opts, kind, stage, origin, copies>>

NoSegment == [type |-> "none"]
Blank == [type |-> "blank"]
Formatted == header \notin {NoSegment, Blank}

\* The path is free, or some creator was there before.
OptionsInit ==
  /\ header \in {NoSegment, Blank} \cup {init_header(o) : o \in Creators} /\ opts = cpp_defaults /\ kind = "none"
  /\ stage = "start" /\ origin = "script" /\ copies = 0

\* Options o arrive, or are refused on the way.
Arrive(o, ok, from) ==
  /\ stage' = IF ok THEN "ready" ELSE "refused"
  /\ opts' = IF ok THEN o ELSE cpp_defaults
  /\ origin' = from
  /\ UNCHANGED <<header, kind>>

\* A script's settings reach xproc_c_..._open.
Script(given) ==
  /\ stage = "start"
  /\ LET js == normalizeOptions(given)
     IN \/ Arrive(to_cpp_options(options_from_js(js)), options_from_js_ok(js), "script")
        \/ Arrive(to_cpp_options(marshalled_options(given)), transport_options_ok(given), "script")
  /\ UNCHANGED copies

\* A builder checks what it made and throws if it is not valid.
Build ==
  /\ stage = "start"
  /\ \E type \in Enums["channel_type"], item \in Items :
       \/ \E align \in Aligns, schema \in Schemas, flags \in CreatorFlags, capacity \in Capacities :
            LET o == channel_builder_options(type, item, align, schema, flags, capacity)
            IN Arrive(o, validate_transport_options(o), "builder")
       \/ \E port \in Ports :
            LET o == socket_listener_options(type, item, port)
            IN Arrive(o, validate_for("consumer", o), "builder")
       \/ \E port \in Ports, retries \in Retries :
            LET o == socket_connector_options(type, item, port, retries)
            IN Arrive(o, validate_for("producer", o), "builder")
  /\ UNCHANGED copies

\* createFixedChannel and createVarlenChannel of Node, which ask for both ends.
createChannel ==
  /\ stage = "start"
  /\ \E type \in Enums["channel_type"], item \in Items, align \in Aligns, schema \in Schemas,
        flags \in CreatorFlags, capacity \in Capacities :
       LET o == channel_builder_options(type, item, align, schema, flags, capacity)
       IN Arrive(o, validate_for("producer", o) /\ validate_for("consumer", o), "factory")
  /\ UNCHANGED copies

\* shm_channel_endpoints and makeShmEndpoints: the options for an observer create nothing.
observer_options ==
  /\ stage = "ready" /\ origin \in {"builder", "factory"} /\ opts.backend = "shared_memory"
  /\ opts' = [opts EXCEPT !.create_if_missing = FALSE]
  /\ UNCHANGED <<header, kind, stage, origin, copies>>

\* The endpoint takes over what the manifest says about the segment.
Attached(h) ==
  opts' = [opts EXCEPT !.shm_size = shm_size_for_data_capacity(h.capacity), !.creator_flags = h.flags]

\* The ends of a socket: the consumer listens and keeps the port it got, the producer
\* connects; either may fail.
OpenSocket(k) ==
  /\ UNCHANGED header
  /\ \/ stage' = "failed" /\ UNCHANGED opts
     \/ /\ stage' = "open"
        /\ \E bound \in 1 .. U16 :
             /\ k = "consumer" /\ opts.socket_port # 0 => bound = opts.socket_port
             /\ opts' = IF k = "consumer" THEN [opts EXCEPT !.socket_port = bound] ELSE opts

\* The constructor of the endpoint: create, attach or throw.
establish_connection(k) ==
  /\ stage = "ready"
  /\ \/ /\ ~validate_for(k, opts)
        /\ stage' = "refused" /\ UNCHANGED <<header, opts>>
     \/ validate_for(k, opts) /\ opts.backend = "socket" /\ OpenSocket(k)
     \/ /\ validate_for(k, opts) /\ opts.backend = "shared_memory"
        /\ \/ /\ header = NoSegment /\ (k = "observer" \/ ~opts.create_if_missing)
              /\ stage' = "refused" /\ UNCHANGED <<header, opts>>
           \/ /\ header = NoSegment /\ k # "observer" /\ opts.create_if_missing
              /\ header' = IF CanInit(opts) THEN init_header(opts) ELSE Blank
              /\ stage' = IF CanInit(opts) THEN "open" ELSE "refused"
              /\ IF CanInit(opts) THEN Attached(init_header(opts)) ELSE UNCHANGED opts
           \/ /\ Formatted /\ validate_detailed(header, opts)
              /\ stage' = "open" /\ Attached(header) /\ UNCHANGED header
           \/ /\ header # NoSegment /\ ~(Formatted /\ validate_detailed(header, opts))
              /\ stage' = "refused" /\ UNCHANGED <<header, opts>>
  /\ kind' = k
  /\ UNCHANGED <<origin, copies>>

\* options() of the open handle, used for another endpoint in C, in Node or in Python.
Copy ==
  /\ stage = "open" /\ copies < MaxCopies
  /\ LET c == fill_borrowed_options(opts)
         js == normalizeOptions(options_to_js(c))
         py == make_transport_options(c)
     IN \/ Arrive(to_cpp_options(c), TRUE, "handle")
        \/ Arrive(to_cpp_options(options_from_js(js)), options_from_js_ok(js), "handle")
        \/ Arrive(to_cpp_options(marshalled_options(py)), transport_options_ok(py), "handle")
  /\ copies' = copies + 1

\* xproc_c_shm_read_existing_options, and attach_fixed_channel and attach_varlen_channel.
ReadExisting ==
  /\ stage = "open" /\ Formatted /\ copies < MaxCopies
  /\ LET o == read_existing_shm_options(header)
     IN \/ Arrive(to_cpp_options(fill_borrowed_options(o)), validate_transport_options(o), "segment")
        \/ \E type \in Enums["channel_type"], schema \in {-1} \cup Schemas :
             Arrive(o, validate_transport_options(o) /\ attacher_accepts(o, type, schema), "segment")
  /\ copies' = copies + 1

\* attachFixedChannel and attachVarlenChannel of Node insist on their type only: a schema
\* that is given replaces the one read, and the endpoint will compare them.
attachChannel ==
  /\ stage = "open" /\ Formatted /\ copies < MaxCopies
  /\ \E type \in Enums["channel_type"], schema \in {-1} \cup Schemas :
       LET o == read_existing_shm_options(header)
           p == IF schema = -1 THEN o ELSE [o EXCEPT !.schema_id = schema]
           js == normalizeOptions(options_to_js(fill_borrowed_options(p)))
           b == to_cpp_options(options_from_js(js))
       IN Arrive(b, /\ validate_transport_options(o) /\ o.channel_type = type
                    /\ options_from_js_ok(js) /\ validate_for("producer", b) /\ validate_for("consumer", b),
                 IF schema = -1 THEN "segment" ELSE "attach")
  /\ copies' = copies + 1

OptionsNext ==
  \/ \E given \in Givens : Script(given)
  \/ Build \/ createChannel \/ observer_options \/ Copy \/ ReadExisting \/ attachChannel
  \/ \E k \in Kinds : establish_connection(k)

OptionsSpec == OptionsInit /\ [][OptionsNext]_optionVars

-----------------------------------------------------------------------------
(* Properties.                                                             *)

\* The kinds that make sense for the options in hand.
Offered(o) == IF o.backend = "shared_memory" THEN Kinds ELSE IF o.socket_listen THEN {"consumer"} ELSE {"producer"}

\* The sum of a builder's capacity and the control block wrapped to 0, which asks to infer
\* the size: the C++ builders check for no kind of endpoint and give such options out.
SizeWrapped(from, o) == from = "builder" /\ o.shm_size = 0 /\ o.create_if_missing

\* What an open endpoint gives out, through C or either binding, is refused by no endpoint
\* of a kind it can be meant for; and what a builder, a factory, an attacher or a segment
\* gives out passes the option checks of every such kind, unless its size wrapped to 0.
\* The checks do not compare capacity and item size: a creator may yet be refused by
\* _init_header, and an endpoint by the manifest of another channel.
GivenOutIsAccepted ==
  /\ origin = "handle" /\ stage = "refused" => kind \notin Offered(opts)
  /\ stage = "ready" /\ origin # "script" /\ ~SizeWrapped(origin, opts) =>
       \A k \in Offered(opts) : validate_for(k, opts)

\* Options taken from an open endpoint, through C or either binding, attach to its segment,
\* and so do those read from the manifest, by the C API, an attacher or Node; with a schema
\* of the caller's, which Node does not compare, they attach exactly if it is the segment's.
CopyAttaches ==
  stage = "ready" /\ opts.backend = "shared_memory" =>
    /\ origin \in {"handle", "segment"} => validate_detailed(header, opts)
    /\ origin = "attach" => (validate_detailed(header, opts) <=> opts.schema_id = header.schema)

\* Nothing is lost on the way out through C or a binding and in again through the same one,
\* except that an empty string, which the C API cannot tell from none, comes back as the default.
Kept(o, p) ==
  \A f \in Fields : p[f] = o[f] \/ (f \in Strings /\ o[f] = Empty /\ p[f] = options_init[f])
CopyKeepsSettings ==
  [][stage = "open" /\ origin' = "handle" /\ stage' = "ready" => Kept(opts, opts')]_optionVars
================================================================================
