----------------------------- MODULE Configuration -----------------------------
(***************************************************************************)
(* From the --config files to a started service: the merge, the reads of   *)
(* the constructor, the validation of the kontiki block, and what setup()  *)
(* and start() derive from it (broker mode, registration, HTTP routes,     *)
(* queues, tasks, the catalog sent to the registry).  The code decides     *)
(* several things twice: once in the pydantic model and again in reads of  *)
(* the raw mapping, each with a default of its own; once when it declares  *)
(* queues and again when it announces them.                                *)
(*                                                                         *)
(* A YAML document is a tree: a mapping is a function of its keys, a       *)
(* scalar or list is [leaf |-> v] with v a name for the value.             *)
(***************************************************************************)
EXTENDS Naturals, Sequences
LOCAL INSTANCE SequencesExt

CONSTANTS
    Documents,    \* the YAML documents a deployment may pass
    Services,     \* service classes: their event, rpc, http and task entrypoints,
                  \* no two of http on one path
    CertFiles,    \* the paths that name a certificate or key that loads
    MaxFiles      \* how many --config flags

VARIABLES
    files, service, flag,    \* the command line; flag: disable_service_registration
    read, config,            \* files merged so far, and their merge
    stage, why,              \* where start-up is, and what stopped it
    amqp,                    \* _amqp_required: true, false or None (null)
    registered,              \* a registry client exists
    routes,                  \* HTTP paths by handler, <<>> without a server
    served,                  \* http_server is not None
    todo,                    \* <<handler, event type>> pairs still to declare
    queues, failedQueues,    \* declared queues, and events with a failed queue
    catalog,                 \* registration_entrypoints(), {} before register()
    tasks                    \* schedules of the started tasks, by handler
vars == <<files, service, flag, read, config, stage, why, amqp, registered, routes,
          served, todo, queues, failedQueues, catalog, tasks>>
inputs == <<files, service, flag>>
bus == <<todo, queues, failedQueues, catalog>>

--------------------------------------------------------------------------------
(* Values.                                                                 *)

Leaf(v) == [leaf |-> v]
Null == Leaf("null")
EmptyDict == <<>>
Raises == Leaf("raises")     \* not a value: the read raised

Num == [v \in {"0", "1", "3", "5", "2", "10", "25", "60", "8080", "70000"} |->
           CASE v = "0" -> 0 [] v = "1" -> 1 [] v = "2" -> 2 [] v = "3" -> 3 [] v = "5" -> 5
             [] v = "10" -> 10 [] v = "25" -> 25 [] v = "60" -> 60 [] v = "8080" -> 8080
             [] OTHER -> 70000]
Bools == {"true", "false"}
Ints == DOMAIN Num
Numbers == Ints \cup {"0.5"}
Crons == {"every minute"}
Words == {"a", "b", "url", "address", "docs path", "business"} \cup Crons
Strs == Words \cup {"empty", "blank"}
Elements == [l \in {"[]", "[a,b]", "[a,empty]"} |->
                CASE l = "[]" -> <<>> [] l = "[a,b]" -> <<"a", "b">> [] OTHER -> <<"a", "empty">>]

IsDict(t) == "leaf" \notin DOMAIN t
Truthy(t) == t \notin {Leaf("false"), Leaf("0"), Leaf("empty"), Leaf("[]"), Null, EmptyDict}

\* Python's ==, for which True is 1 and False is 0.
AsNumber(v) == CASE v = "true" -> "1" [] v = "false" -> "0" [] OTHER -> v
Equal(x, y) == ~IsDict(x) /\ ~IsDict(y) /\ AsNumber(x.leaf) = AsNumber(y.leaf)

--------------------------------------------------------------------------------
(* merge() and the reads of the merged mapping.                            *)

RECURSIVE Merged(_, _), Conflicts(_, _)
\* Mutant: later files override earlier ones.
MergedLastWins(d1, d2) ==
    [k \in DOMAIN d1 \cup DOMAIN d2 |-> IF k \in DOMAIN d2 THEN d2[k] ELSE d1[k]]
Merged(d1, d2) ==
    [k \in DOMAIN d1 \cup DOMAIN d2 |->
        IF k \notin DOMAIN d1 THEN d2[k]
        ELSE IF k \in DOMAIN d2 /\ IsDict(d1[k]) /\ IsDict(d2[k]) THEN Merged(d1[k], d2[k])
        ELSE d1[k]]
Conflicts(d1, d2) ==
    {k \in DOMAIN d1 \cap DOMAIN d2 :
        IF IsDict(d1[k]) /\ IsDict(d2[k]) THEN Conflicts(d1[k], d2[k]) # {}
        ELSE ~Equal(d1[k], d2[k])}

\* ConfigParameter.get: a missing key is a KeyError, indexing a scalar a TypeError.
RECURSIVE Get(_, _, _)
Get(t, path, default) ==
    IF path = <<>> THEN t
    ELSE IF ~IsDict(t) THEN Raises
    ELSE IF Head(path) \notin DOMAIN t THEN default
    ELSE Get(t[Head(path)], Tail(path), default)

get_parameter(path, default) ==
    IF config # EmptyDict THEN Get(config, path, default)
    ELSE IF default = Null THEN Raises ELSE default
get_kontiki_parameter(path, default) == get_parameter(<<"kontiki">> \o path, default)

\* A value written in the class, or a configuration key (use_config).
resolve_parameter_path(spec) ==
    IF spec.key = <<>> THEN spec.value ELSE Get(config, spec.key, Raises)

\* Mutant: the default of the call is not the one of AmqpConfig.
is_amqp_required_optional == get_kontiki_parameter(<<"amqp", "required">>, Leaf("false"))
is_amqp_required == get_kontiki_parameter(<<"amqp", "required">>, Leaf("true"))
is_amqp_disabled == get_kontiki_parameter(<<"amqp", "disable">>, Leaf("false"))
max_attempts == get_kontiki_parameter(<<"amqp", "max_attempts">>, Leaf("3"))

\* path.split("."): a key of a mapping may have a dot of its own.
Split(key) == IF key = "a.b" THEN <<"a", "b">> ELSE <<key>>

\* RpcProxy.resolve_service_name and open_session(peer=).
resolve_service_name(peer) == get_kontiki_parameter(<<"peers">> \o Split(peer), Raises)

\* normalize_registration_group
Group(t) == IF t \in {Leaf(w) : w \in Words} THEN t ELSE Leaf("business")

\* The other reads of the package: path and the default at the call.
Reads == {
    [path |-> <<"amqp", "url">>, default |-> Leaf("url")],
    [path |-> <<"amqp", "rpc", "timeout">>, default |-> Leaf("10")],
    [path |-> <<"amqp", "max_pending_messages">>, default |-> Leaf("10")],
    [path |-> <<"shutdown", "grace_seconds">>, default |-> Leaf("25")],
    [path |-> <<"registration", "delay">>, default |-> Leaf("2")],
    [path |-> <<"registration", "report_uncaught_exceptions">>, default |-> Leaf("true")],
    [path |-> <<"heartbeat", "interval">>, default |-> Leaf("60")],
    [path |-> <<"http", "address">>, default |-> Leaf("address")],
    [path |-> <<"http", "port">>, default |-> Leaf("8080")],
    [path |-> <<"http", "documentation", "enabled">>, default |-> Leaf("true")],
    [path |-> <<"http", "documentation", "path_template">>, default |-> Leaf("docs path")]}

--------------------------------------------------------------------------------
(* KontikiConfig: extra keys forbidden, strict types.                      *)

Field(types, v) == [types |-> types, default |-> Leaf(v)]
Optional == Strs \cup {"null"}
Schema == [
    service_name |-> Field(Optional \ {"empty"}, "null"),
    amqp |-> [
        url |-> Field(Strs, "url"), disable |-> Field(Bools, "false"),
        required |-> Field(Bools, "true"), rpc |-> [timeout |-> Field(Numbers, "10")],
        max_pending_messages |-> Field(Ints, "10"),
        max_attempts |-> Field(Ints \ {"0"}, "3"),
        tls |-> [enabled |-> Field(Bools, "false"), ca_cert |-> Field(Optional, "null"),
                 client_cert |-> Field(Optional, "null"),
                 client_key |-> Field(Optional, "null")]],
    shutdown |-> [grace_seconds |-> Field(Numbers, "25")],
    registration |-> [
        disable |-> Field(Bools, "false"), delay |-> Field(Numbers, "2"),
        group |-> Field(Strs, "business"),
        report_uncaught_exceptions |-> Field(Bools, "true")],
    heartbeat |-> [interval |-> Field(Numbers, "60")],
    http |-> [
        disable |-> Field(Bools, "false"), address |-> Field(Strs, "address"),
        port |-> Field(Ints, "8080"),
        documentation |-> [
            enabled |-> Field(Bools, "true"), path_template |-> Field(Strs, "docs path"),
            title |-> Field(Optional, "null"), description |-> Field(Optional, "null")]]]

RECURSIVE WellTyped(_, _)
WellTyped(t, s) ==
    IF "types" \in DOMAIN s THEN ~IsDict(t) /\ t.leaf \in s.types
    ELSE IsDict(t) /\ \A k \in DOMAIN t : k \in DOMAIN s /\ WellTyped(t[k], s[k])

PeersValid(t) == IsDict(t) /\ \A k \in DOMAIN t : ~IsDict(t[k]) /\ t[k].leaf \in Strs \ {"empty"}

\* The validated object: what is written, or the field's default.
RECURSIVE FieldAt(_, _)
FieldAt(s, path) == IF path = <<>> THEN s ELSE FieldAt(s[Head(path)], Tail(path))
Kontiki == Get(config, <<"kontiki">>, EmptyDict)
Setting(path) == Get(Kontiki, path, FieldAt(Schema, path).default)
Written(path) == Get(Kontiki, path, Null)

certificate_when_enabled ==
    Setting(<<"amqp", "tls", "enabled">>) = Leaf("true") =>
        Setting(<<"amqp", "tls", "ca_cert">>) \notin {Null, Leaf("empty")}

\* Mutant: registration.disable: false beside amqp.disable is let through.
amqp_disable_required_only ==
    Setting(<<"amqp", "disable">>) = Leaf("true") => Written(<<"amqp", "required">>) # Leaf("true")
amqp_disable_conflicts ==
    Setting(<<"amqp", "disable">>) = Leaf("true") =>
        /\ Written(<<"amqp", "required">>) # Leaf("true")
        /\ Written(<<"registration", "disable">>) # Leaf("false")

Valid ==
    /\ IsDict(Kontiki)
    /\ LET known == [k \in DOMAIN Kontiki \ {"peers"} |-> Kontiki[k]] IN WellTyped(known, Schema)
    /\ "peers" \in DOMAIN Kontiki => PeersValid(Kontiki["peers"])
    /\ certificate_when_enabled
    /\ amqp_disable_conflicts

--------------------------------------------------------------------------------
(* Start-up.                                                               *)

Init ==
    /\ files \in UNION {[1 .. n -> Documents] : n \in 1 .. MaxFiles}
    /\ service \in Services /\ flag \in BOOLEAN
    /\ read = 0 /\ config = EmptyDict /\ stage = "load" /\ why = "none"
    /\ amqp = Leaf("true") /\ registered = FALSE /\ routes = <<>> /\ served = FALSE
    /\ todo = <<>> /\ queues = {} /\ failedQueues = {} /\ catalog = {} /\ tasks = <<>>

\* The exception ends the process, or, once tasks run, only the background
\* task of optional AMQP.
Stop(reason) ==
    /\ stage' = IF stage \in {"connect", "declare", "register", "consume"} /\ amqp = Leaf("false")
                THEN "up" ELSE "down"
    /\ why' = reason

\* On to the next stage, unless something the configuration does not decide
\* raises first: "outside" is the broker or a port that is taken, "class" the
\* code of the service (its config_model, its delegates).
Proceed(next, reason) == (stage' = next /\ UNCHANGED why) \/ Stop(reason)

LoadFile ==
    /\ stage = "load" /\ read < Len(files)
    /\ IF Conflicts(config, files[read + 1]) = {}
       THEN /\ config' = Merged(config, files[read + 1]) /\ read' = read + 1
            /\ UNCHANGED <<stage, why>>
       ELSE Stop("merge") /\ UNCHANGED <<config, read>>
    /\ UNCHANGED <<inputs, amqp, registered, routes, served, bus, tasks>>

\* _resolve_service_name: the configured name must be a non-empty string.
NameResolves == get_kontiki_parameter(<<"service_name">>, Null)
                    \in {Leaf(s) : s \in Optional \ {"empty"}}

\* ServiceContainer.__init__: two raw reads before anything is validated.
Construct ==
    /\ stage = "load" /\ read = Len(files)
    /\ IF NameResolves /\ is_amqp_required # Raises
       THEN stage' = "validate" /\ amqp' = is_amqp_required /\ UNCHANGED why
       ELSE Stop("construct") /\ UNCHANGED amqp
    /\ UNCHANGED <<inputs, read, config, registered, routes, served, bus, tasks>>

Validate ==
    /\ stage = "validate"
    /\ IF Valid THEN Proceed("configure", "class") ELSE Stop("validate")
    /\ UNCHANGED <<inputs, read, config, amqp, registered, routes, served, bus, tasks>>

check_amqp_disable ==
    Truthy(is_amqp_disabled) =>
        /\ get_kontiki_parameter(<<"amqp", "required">>, Null) # Leaf("true")
        /\ get_kontiki_parameter(<<"registration", "disable">>, Null) # Leaf("false")

ConfigureAmqp ==
    LET off == flag \/ Truthy(is_amqp_disabled)
        unregistered == \/ Truthy(get_kontiki_parameter(<<"registration", "disable">>,
                                      Leaf(IF off THEN "true" ELSE "false")))
                        \/ off
    IN
    /\ stage = "configure"
    /\ IF check_amqp_disable
       THEN /\ stage' = "http" /\ registered' = ~unregistered
            /\ amqp' = IF Truthy(is_amqp_disabled) THEN Null ELSE amqp
            /\ UNCHANGED why
       ELSE Stop("configure") /\ UNCHANGED <<amqp, registered>>
    /\ UNCHANGED <<inputs, read, config, routes, served, bus, tasks>>

\* add_entrypoints: a path that aiohttp refuses is logged, not served.
Servable == {Leaf(s) : s \in Words \cup {"empty"}}
HttpPaths == [h \in DOMAIN service.http |-> resolve_parameter_path(service.http[h])]
Routes == [h \in {x \in DOMAIN HttpPaths : HttpPaths[x] \in Servable} |->
              HttpPaths[h]]

\* setup_http_endpoints
SetupHttp ==
    LET off == get_kontiki_parameter(<<"http", "disable">>, Leaf("false")) IN
    /\ stage = "http"
    /\ IF service.http = <<>> \/ Truthy(off)
       THEN stage' = "delegates" /\ UNCHANGED <<why, routes, served>>
       ELSE IF \E h \in DOMAIN HttpPaths : HttpPaths[h] = Raises
       THEN Stop("own key") /\ UNCHANGED <<routes, served>>
       ELSE /\ served' = TRUE /\ stage' = "delegates" /\ UNCHANGED why /\ routes' = Routes
    /\ UNCHANGED <<inputs, read, config, amqp, registered, bus, tasks>>

SetupDelegates ==
    /\ stage = "delegates"
    /\ Proceed(IF Truthy(amqp) THEN "connect" ELSE "serve", "class")
    /\ UNCHANGED <<inputs, read, config, amqp, registered, routes, served, bus, tasks>>

\* create_tls_context: config["ca_cert"] of an enabled section, which must
\* load, and the client's pair when both are written.
TlsError ==
    LET tls == get_kontiki_parameter(<<"amqp", "tls">>, EmptyDict)
        option(k) == Get(tls, <<k>>, Null)
        client == {option("client_cert"), option("client_key")}
        loaded == {option("ca_cert")} \cup IF \A c \in client : Truthy(c) THEN client ELSE {}
    IN IF ~IsDict(tls) \/ ~Truthy(Get(tls, <<"enabled">>, Leaf("false"))) THEN "none"
       ELSE IF "ca_cert" \notin DOMAIN tls THEN "tls"
       ELSE IF loaded \subseteq {Leaf(f) : f \in CertFiles} THEN "none" ELSE "certificate"

\* A port, and a prefetch count, has sixteen bits.
MaxShort == 65535
TooLong(t) == Num[t.leaf] > MaxShort
max_pending_messages == get_kontiki_parameter(<<"amqp", "max_pending_messages">>, Leaf("10"))

normalize_event_types(t) ==
    IF IsDict(t) THEN <<>>
    ELSE IF t.leaf \in Strs \ {"empty"} THEN <<t.leaf>>
    ELSE IF t.leaf \in DOMAIN Elements /\ "empty" \notin {Elements[t.leaf][i] : i \in DOMAIN Elements[t.leaf]}
    THEN Elements[t.leaf] ELSE <<>>     \* <<>>: ValueError

Types(h) == normalize_event_types(resolve_parameter_path(service.event[h].type))
\* add_on_event_tasks' two loops; a handler whose types cannot be resolved is
\* the pair <<h, "raises">>.
Pairs(h) == IF Types(h) = <<>> THEN << <<h, "raises">> >>
            ELSE [i \in DOMAIN Types(h) |-> <<h, Types(h)[i]>>]

\* service_registry_client.setup() and Consumer.setup(), if there is either.
Consumes == service.event # <<>> \/ service.rpc # {}
ConnectAmqp ==
    /\ stage = "connect"
    /\ IF (registered \/ Consumes) /\ TlsError # "none"
       THEN Stop(TlsError) /\ UNCHANGED todo
       ELSE IF Consumes /\ TooLong(max_pending_messages)
       THEN Stop("prefetch") /\ UNCHANGED todo
       ELSE /\ stage' = IF Consumes THEN "declare" ELSE "register"
            /\ todo' = FlattenSeq([h \in DOMAIN service.event |-> Pairs(h)])
            /\ UNCHANGED why
    /\ UNCHANGED <<inputs, read, config, amqp, registered, routes, served, queues,
                   failedQueues, catalog, tasks>>

Attempts(h) ==
    IF service.event[h].attempts # Null THEN service.event[h].attempts ELSE max_attempts
\* Competing: a shared quorum queue with x-delivery-limit; broadcast and
\* in_session: a queue of the instance, bound to the event or to event.instance.
Queue(h, e) ==
    IF service.event[h].mode = "competing"
    THEN [event |-> e, shared |-> TRUE, limit |-> Num[Attempts(h).leaf] - 1]
    ELSE [event |-> e, shared |-> FALSE, limit |-> 0]
\* The broker refuses a queue of the same name with other arguments.
Refused(q) ==
    \E p \in queues : p.event = q.event /\ p.shared = q.shared /\ p.limit # q.limit

DeclareQueue ==
    LET h == Head(todo)[1]
        e == Head(todo)[2]
        work == service.event[h].mode = "competing"
    IN
    /\ stage = "declare" /\ todo # <<>>
    /\ failedQueues' = IF work /\ e # "raises" THEN failedQueues \cup {e} ELSE failedQueues
    /\ IF e = "raises"
       THEN Stop("own key") /\ UNCHANGED <<todo, queues>>
       ELSE IF work /\ Num[Attempts(h).leaf] < 1
       THEN Stop("attempts") /\ UNCHANGED <<todo, queues>>
       ELSE IF Refused(Queue(h, e))
       THEN Stop("refused") /\ UNCHANGED <<todo, queues>>
       ELSE queues' = queues \cup {Queue(h, e)} /\ todo' = Tail(todo) /\ UNCHANGED <<stage, why>>
    /\ UNCHANGED <<inputs, read, config, amqp, registered, routes, served, catalog, tasks>>

\* add_rpc_tasks: names cannot fail to resolve.
DeclareRpc ==
    /\ stage = "declare" /\ todo = <<>> /\ stage' = "register"
    /\ UNCHANGED <<inputs, read, config, why, amqp, registered, routes, served, bus, tasks>>

\* resolve_task_interval, resolve_task_cron
Schedule(h) ==
    LET at == resolve_parameter_path(service.task[h].at)
        allowed == IF service.task[h].cron THEN Crons ELSE Numbers
    IN IF ~IsDict(at) /\ at.leaf \in allowed THEN at ELSE Raises
Schedules == [h \in DOMAIN service.task |-> Schedule(h)]

\* registration_entrypoints
\* Mutant: the announced number is the configured one, whatever the handler says.
EventEntryDefault(h, e) ==
    [type |-> "event", name |-> e, handler |-> h, mode |-> service.event[h].mode,
     max_attempts |-> IF service.event[h].mode = "competing" THEN max_attempts ELSE Null]
EventEntry(h, e) ==
    [type |-> "event", name |-> e, handler |-> h, mode |-> service.event[h].mode,
     max_attempts |-> IF service.event[h].mode = "competing" THEN Attempts(h) ELSE Null]
_event_entrypoints ==
    UNION {{EventEntry(h, Types(h)[i]) : i \in DOMAIN Types(h)} : h \in DOMAIN service.event}
_http_entrypoints ==
    IF ~served THEN {}
    ELSE {[type |-> "http", handler |-> h, path |-> resolve_parameter_path(service.http[h])] :
             h \in DOMAIN service.http}
_task_entrypoints ==
    {[type |-> "task", handler |-> h, schedule |-> Schedule(h)] : h \in DOMAIN service.task}
_rpc_entrypoints == {[type |-> "rpc", name |-> m] : m \in service.rpc}

Register ==
    /\ stage = "register"
    /\ IF ~registered THEN stage' = "consume" /\ UNCHANGED <<why, catalog>>
       ELSE IF \E h \in DOMAIN service.task : Schedule(h) = Raises
       THEN Stop("own key") /\ UNCHANGED catalog
       ELSE /\ catalog' = _event_entrypoints \cup _http_entrypoints \cup _task_entrypoints
                              \cup _rpc_entrypoints
            /\ stage' = "consume" /\ UNCHANGED why
    /\ UNCHANGED <<inputs, read, config, amqp, registered, routes, served, todo, queues,
                   failedQueues, tasks>>

\* The end of _setup_amqp: consumer.start(), then the setup of a Messenger the
\* service may have, which is the first to load the certificates when nothing
\* registers or consumes.
StartConsumer ==
    /\ stage = "consume"
    /\ Proceed(IF amqp = Leaf("false") THEN "up" ELSE "serve",
               IF TlsError = "none" THEN "outside" ELSE TlsError)
    /\ UNCHANGED <<inputs, read, config, amqp, registered, routes, served, bus, tasks>>

\* The broker refuses or drops the connection at an earlier await of _setup_amqp.
BrokerFails ==
    /\ \/ stage = "connect" /\ (registered \/ Consumes) /\ TlsError = "none"
       \/ stage = "declare"
       \/ stage = "register" /\ registered
    /\ Stop("outside")
    /\ UNCHANGED <<inputs, read, config, amqp, registered, routes, served, bus, tasks>>

\* start(), in four steps.  HttpServer.start binds the port.
port == get_kontiki_parameter(<<"http", "port">>, Leaf("8080"))
StartHttp ==
    /\ stage = "serve"
    /\ IF ~served THEN stage' = "tasks" /\ UNCHANGED why
       ELSE IF TooLong(port) THEN Stop("port") ELSE Proceed("tasks", "outside")
    /\ UNCHANGED <<inputs, read, config, amqp, registered, routes, served, bus, tasks>>

\* The tasks: the first whose schedule does not resolve ends start-up.
StartTasks ==
    /\ stage = "tasks"
    /\ IF \E h \in DOMAIN service.task : Schedule(h) = Raises
       THEN Stop("own key") /\ UNCHANGED tasks
       ELSE tasks' = Schedules /\ stage' = "start" /\ UNCHANGED why
    /\ UNCHANGED <<inputs, read, config, amqp, registered, routes, served, bus>>

\* The delegates, then the background task of optional AMQP.
StartDelegates ==
    /\ stage = "start"
    /\ Proceed(IF amqp = Leaf("false") THEN "connect" ELSE "up", "class")
    /\ UNCHANGED <<inputs, read, config, amqp, registered, routes, served, bus, tasks>>

Next == \/ LoadFile \/ Construct \/ Validate \/ ConfigureAmqp \/ SetupHttp \/ SetupDelegates
        \/ ConnectAmqp \/ DeclareQueue \/ DeclareRpc \/ Register \/ StartConsumer
        \/ BrokerFails \/ StartHttp \/ StartTasks \/ StartDelegates
Spec == Init /\ [][Next]_vars

--------------------------------------------------------------------------------
(* Properties.                                                             *)

RECURSIVE Paths(_)
Paths(t) == {<<>>} \cup IF IsDict(t)
                       THEN UNION {{<<k>> \o p : p \in Paths(t[k])} : k \in DOMAIN t} ELSE {}
Absent == Leaf("absent")
At(t, path) == LET n == Get(t, path, Absent) IN IF n = Raises THEN Absent ELSE n
Agree(x, y) == Absent \in {x, y} \/ (IsDict(x) /\ IsDict(y)) \/ Equal(x, y)

\* The merge (merge.py) is a union, whatever the order and nesting of the
\* files: it fails exactly when two files disagree about a node, and otherwise
\* holds every node of every file and nothing else, each scalar as the first
\* file that has it writes it.
MergeIsUnion ==
    LET Docs == {files[i] : i \in DOMAIN files}
        all == UNION {Paths(d) : d \in Docs}
        consistent == \A p \in all, d \in Docs, e \in Docs : Agree(At(d, p), At(e, p))
        has(p) == {i \in DOMAIN files : At(files[i], p) # Absent}
    IN
    /\ why = "merge" => ~consistent
    /\ (stage # "load" /\ why # "merge") =>
        /\ consistent /\ Paths(config) = all
        /\ \A p \in all : LET first == CHOOSE i \in has(p) : \A j \in has(p) : i <= j IN
               IF IsDict(At(config, p)) THEN IsDict(At(files[first], p))
               ELSE At(config, p) = At(files[first], p)

\* What KontikiConfig accepts stops start-up later only through what it does
\* not look into: whether the certificates load, whether the port and the
\* prefetch count fit sixteen bits, whether a peer's key has a dot.  The second
\* check of amqp.disable, the lookup of ca_cert, the configured attempts, every
\* read of the raw mapping and every peer without a dot go through.  The rest
\* is the service's own (keys of use_config, a handler's max_attempts, two
\* handlers of one queue, its delegates) or outside (broker, port taken).
AcceptedIsUsable ==
    stage \notin {"load", "validate"} /\ why \notin {"merge", "construct", "validate"} =>
        LET tls(k) == Setting(<<"amqp", "tls", k>>)
            peers == Get(Kontiki, <<"peers">>, EmptyDict)
        IN
        /\ why \notin {"configure", "tls"}
        /\ why = "attempts" => \E h \in DOMAIN service.event : service.event[h].attempts = Leaf("0")
        /\ why = "certificate" =>
               /\ tls("enabled") = Leaf("true")
               /\ \/ tls("ca_cert").leaf \notin CertFiles
                  \/ \E k \in {"client_cert", "client_key"} :
                        Truthy(tls(k)) /\ tls(k).leaf \notin CertFiles
        /\ why = "port" => Num[Setting(<<"http", "port">>).leaf] > MaxShort
        /\ why = "prefetch" => Num[Setting(<<"amqp", "max_pending_messages">>).leaf] > MaxShort
        /\ \A r \in Reads : get_kontiki_parameter(r.path, r.default) # Raises
        /\ \A peer \in DOMAIN peers :
               resolve_service_name(peer) = IF Split(peer) = <<peer>> THEN peers[peer] ELSE Raises

\* The raw reads, each with the default of its call, see what the validated
\* object says: every setting, the broker mode, whether the service registers
\* and whether it serves HTTP.
ReadsAgree ==
    stage \notin {"load", "validate", "configure", "down"} =>
        LET disabled == Setting(<<"amqp", "disable">>) = Leaf("true") IN
        /\ \A r \in Reads : get_kontiki_parameter(r.path, r.default) = Setting(r.path)
        /\ Group(get_kontiki_parameter(<<"registration", "group">>, Leaf("empty")))
               = Group(Setting(<<"registration", "group">>))
        /\ amqp = IF disabled THEN Null ELSE Setting(<<"amqp", "required">>)
        /\ max_attempts = Setting(<<"amqp", "max_attempts">>)
        /\ registered <=> ~(flag \/ disabled \/ Setting(<<"registration", "disable">>) = Leaf("true"))
        /\ (stage = "up" /\ service.http # <<>>) =>
               (served <=> Setting(<<"http", "disable">>) = Leaf("false"))

\* What the registry is told (catalog.py) is what the service declared
\* (consumer/core.py) and runs: a competing entry has its queue with that many
\* attempts and a failed queue to inspect, every queue is announced, every
\* path is served unless aiohttp refuses it, the schedules are those of the
\* tasks.  Once the catalog is out no key, queue or certificate stops start-up
\* any more; only the port, the broker and the delegates may, since
\* consumer.start(), HttpServer.start() and delegate.start() come after it.
CatalogIsTrue ==
    catalog # {} =>
        LET events == {e \in catalog : e.type = "event"} IN
        /\ \A e \in events : \E q \in queues :
               /\ q.event = e.name /\ (q.shared <=> e.mode = "competing")
               /\ q.shared => q.limit + 1 = Num[e.max_attempts.leaf] /\ e.name \in failedQueues
        /\ \A q \in queues : \E e \in events : e.name = q.event /\ (q.shared <=> e.mode = "competing")
        /\ \A e \in catalog : e.type = "http" /\ e.path \in Servable =>
               e.handler \in DOMAIN routes /\ routes[e.handler] = e.path
        /\ why \in {"none", "outside", "class", "port"}
        /\ tasks # <<>> => \A e \in catalog : e.type = "task" => tasks[e.handler] = e.schedule
================================================================================
