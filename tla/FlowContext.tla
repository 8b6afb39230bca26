------------------------------ MODULE FlowContext ------------------------------
(***************************************************************************)
(* How a service knows which handler it is working for.  The ContextVar of *)
(* runtime/handler_scope.py refers to a mutable HandlerContext; entering a *)
(* handler sets it, leaving resets it, a task created by user code copies  *)
(* the reference, and every message, registry record and HTTP response is  *)
(* stamped from the object it refers to.  Messages carry flow and hop to   *)
(* the next service, whose handlers are coroutines of the same module.     *)
(*                                                                         *)
(* A context object is its number in objs, 0 the ContextVar's default; a   *)
(* hop id is the number of its message in msgs, 0 none (the 16 hex digits  *)
(* are taken to be unique).  A generated flow id is any member of Flows.   *)
(***************************************************************************)
EXTENDS Naturals, Sequences, FiniteSets

CONSTANTS
    Main,         \* the coroutine of setup() and start(), or a standalone client
    Loops,        \* timer loops and HTTP connections: handlers in turn, one context
    Workers,      \* deliveries: each handler task starts from the reader's context
    Children,     \* tasks created by user code, which may outlive their handler
    Kind,         \* [Loops -> {"http", "task"}] and [Workers -> {"event", "rpc"}]
    Flows,        \* flow ids
    Choices,      \* the values user code passes as flow_id=
    Empty,        \* the empty string, a flow id a caller may pass
    None,         \* Python's None
    MaxMessages, MaxObjects, MaxRecords    \* bounds

ASSUME DistinctAssumption ==
    /\ Main \notin Loops \cup Workers \cup Children
    /\ Loops \cap Workers = {} /\ Loops \cap Children = {} /\ Workers \cap Children = {}
    /\ Flows # {} /\ Choices \subseteq Flows \cup {Empty}
    /\ Empty \notin Flows /\ None \notin Flows \cup {Empty}
    /\ None \notin {"http", "task", "event", "rpc"}
ASSUME KindAssumption ==
    /\ Kind \in [Loops \cup Workers -> {"http", "task", "event", "rpc"}]
    /\ \A c \in Loops : Kind[c] \in {"http", "task"}
    /\ \A c \in Workers : Kind[c] \in {"event", "rpc"}
ASSUME BoundAssumption ==
    /\ MaxMessages \in Nat /\ MaxObjects \in Nat /\ MaxRecords \in Nat

Handlers == Loops \cup Workers
Coroutines == {Main} \cup Handlers \cup Children
Values == Flows \cup {Empty}
Kinds == {"http", "task", "event", "rpc"}

VARIABLES
    objs,       \* the HandlerContext objects: kind, flow_id, hop_id
    ctx,        \* the object each coroutine's ContextVar refers to
    token,      \* what reset() will bring back
    pc,         \* off, idle (between handlers), run (user code), reporting
    held,       \* flow_id of web.py's error path, read before its await
    msgs,       \* what was published, with its headers
    records,    \* exceptions and contexts sent to the registry
    replies,    \* HTTP responses with their flow_id header
    \* Ghosts: the scope each coroutine works for (0: none), and per scope the
    \* message that caused it, the flow decided last in it and its object.
    owner, scopes

code == <<objs, ctx, token, pc, held>>
wire == <<msgs, records, replies>>
vars == <<objs, ctx, token, pc, held, msgs, records, replies, owner, scopes>>

HandlerContext(kind, flow, hop) == [kind |-> kind, flow |-> flow, hop |-> hop]

Init ==
    /\ objs = <<>> /\ msgs = <<>> /\ records = {} /\ replies = {}
    /\ ctx = [c \in Coroutines |-> 0] /\ token = ctx
    /\ pc = [c \in Coroutines |-> IF c = Main THEN "run" ELSE "off"]
    /\ held = [c \in Coroutines |-> None]
    /\ owner = [c \in Coroutines |-> 0] /\ scopes = <<>>

--------------------------------------------------------------------------------
(* Reading the context.                                                    *)

current_handler_context(c) == IF ctx[c] = 0 \/ objs[ctx[c]].kind = None
                              THEN 0 ELSE ctx[c]
current_flow_id(c) == IF ctx[c] = 0 THEN None ELSE objs[ctx[c]].flow

\* parent_hop_id of an outbound message and hop_id of a record.
parent_hop(c) ==
    LET o == current_handler_context(c) IN
    IF o = 0 \/ objs[o].kind \in {"http", "task"} THEN 0 ELSE objs[o].hop

entrypoint(c) == LET o == current_handler_context(c) IN
                 IF o = 0 THEN None ELSE objs[o].kind
--------------------------------------------------------------------------------
(* Starting coroutines: each copies the context of the one that starts it. *)

\* A timer loop, the listening socket or the AMQP reader, started by Main.
Start(c) ==
    /\ pc[c] = "off"
    /\ pc' = [pc EXCEPT ![c] = "idle"]
    /\ ctx' = [ctx EXCEPT ![c] = ctx[Main]]
    /\ UNCHANGED <<objs, token, held, wire, owner, scopes>>

\* asyncio.create_task, gather or wait_for in user code.  A task that acts no
\* more stands for one that has ended.
Spawn(c, d) ==
    /\ pc[c] = "run" /\ pc[d] = "off"
    /\ pc' = [pc EXCEPT ![d] = "run"]
    /\ ctx' = [ctx EXCEPT ![d] = ctx[c]]
    /\ owner' = [owner EXCEPT ![d] = owner[c]]
    /\ UNCHANGED <<objs, token, held, wire, scopes>>
--------------------------------------------------------------------------------
(* Entering and leaving a handler.                                         *)

\* Mutant: the object of the enclosing context is filled in again.
set_handler_context_reused(c, kind, flow, hop) ==
    /\ token' = [token EXCEPT ![c] = ctx[c]]
    /\ IF ctx[c] = 0
       THEN /\ objs' = Append(objs, HandlerContext(kind, flow, hop))
            /\ ctx' = [ctx EXCEPT ![c] = Len(objs) + 1]
       ELSE objs' = [objs EXCEPT ![ctx[c]] = HandlerContext(kind, flow, hop)]
            /\ UNCHANGED ctx
set_handler_context(c, kind, flow, hop) ==
    /\ Len(objs) < MaxObjects
    /\ objs' = Append(objs, HandlerContext(kind, flow, hop))
    /\ ctx' = [ctx EXCEPT ![c] = Len(objs) + 1]
    /\ token' = [token EXCEPT ![c] = ctx[c]]

\* enter_handler_scope: an inbound flow is kept unless it is missing or empty.
Enter(c, cause, inbound_flow, inbound_hop) ==
    /\ pc[c] = "idle"
    /\ pc' = [pc EXCEPT ![c] = "run"]
    /\ \E generated \in Flows :
         LET flow == IF inbound_flow \in {None, Empty} THEN generated ELSE inbound_flow IN
         /\ set_handler_context(c, Kind[c], flow, inbound_hop)
         /\ scopes' = Append(scopes, [kind |-> Kind[c], cause |-> cause,
                                     flow |-> flow, obj |-> Len(objs) + 1])
    /\ owner' = [owner EXCEPT ![c] = Len(scopes) + 1]
    /\ UNCHANGED <<held, wire>>

\* An HTTP request or an iteration of a task: headers play no part.
EnterLoop(c) == Enter(c, 0, None, 0)

\* A delivery, the first or a repeated one: its headers may have no flow.
Deliver(c, m) == Enter(c, m, msgs[m].flow, msgs[m].hop)

\* Mutant: the ContextVar is not reset.
reset_handler_scope_forgotten(c) == UNCHANGED ctx
reset_handler_scope(c) == ctx' = [ctx EXCEPT ![c] = token[c]]

Leave(c) ==
    /\ pc' = [pc EXCEPT ![c] = "idle"]
    /\ reset_handler_scope(c)
    /\ owner' = [owner EXCEPT ![c] = 0]
    /\ held' = [held EXCEPT ![c] = None]
    /\ UNCHANGED <<objs, token, scopes>>

\* The handler returns, or is cancelled; an HTTP handler's value, a mapped
\* error and an HTTPException become a response with the flow of the moment.
Return(c) ==
    /\ pc[c] = "run"
    /\ \/ replies' = replies
       \/ /\ Kind[c] = "http"
          /\ replies' = replies \cup {[scope |-> owner[c], flow |-> current_flow_id(c), error |-> FALSE]}
    /\ Leave(c)
    /\ UNCHANGED <<msgs, records>>

\* The fields report_exception and add_context send (get_handler_ctx_fields).
Record(c, uncaught) ==
    [scope |-> owner[c], kind |-> entrypoint(c), hop |-> parent_hop(c),
     flow |-> IF current_handler_context(c) = 0 THEN None ELSE current_flow_id(c),
     uncaught |-> uncaught]

\* Reported, or not: reporting is disabled, registration is, or it fails.
Reported(c, uncaught) ==
    \/ records' = records
    \/ /\ Cardinality(records) < MaxRecords
       /\ records' = records \cup {Record(c, uncaught)}

\* An uncaught exception: flow_id is read and the report is stamped before
\* the await of its publication.
Raise(c) ==
    /\ pc[c] = "run"
    /\ pc' = [pc EXCEPT ![c] = "reporting"]
    /\ held' = [held EXCEPT ![c] = current_flow_id(c)]
    /\ Reported(c, TRUE)
    /\ UNCHANGED <<objs, ctx, token, msgs, replies, owner, scopes>>

\* Mutant: the flow of the 500 response is read after the report's await.
FailedReadsLate(c) ==
    /\ pc[c] = "reporting"
    /\ \/ replies' = replies
       \/ /\ Kind[c] = "http"
          /\ replies' = replies \cup {[scope |-> owner[c], flow |-> current_flow_id(c), error |-> TRUE]}
    /\ Leave(c)
    /\ UNCHANGED <<msgs, records>>
\* The report has ended, or the handler is cancelled in it.
Failed(c) ==
    /\ pc[c] = "reporting"
    /\ \/ replies' = replies
       \/ /\ Kind[c] = "http"
          /\ replies' = replies \cup {[scope |-> owner[c], flow |-> held[c], error |-> TRUE]}
    /\ Leave(c)
    /\ UNCHANGED <<msgs, records>>

\* add_context, or publish_exception of a caught exception, in user code.
Annotate(c) ==
    /\ pc[c] = "run"
    /\ Reported(c, FALSE)
    /\ UNCHANGED <<code, msgs, replies, owner, scopes>>
--------------------------------------------------------------------------------
(* Publishing and calling.                                                 *)

\* flow_id= first, then the context, then a new one (extra_headers cannot carry
\* a flow_id: validate_extra_headers refuses the name).
resolve_flow_id(c, flow_id, generated) ==
    CASE flow_id # None -> flow_id
      [] flow_id = None /\ current_flow_id(c) # None -> current_flow_id(c)
      [] OTHER -> generated

\* Mutant: a flow chosen in a handler stays in the coroutine that chose it.
set_flow_id_local(c, value) ==
    LET o == current_handler_context(c) IN
    /\ objs' = Append(objs, IF o = 0 THEN HandlerContext(None, value, 0)
                            ELSE [objs[o] EXCEPT !.flow = value])
    /\ ctx' = [ctx EXCEPT ![c] = Len(objs) + 1]
\* Without a context one of no kind is made; a context is changed in place,
\* for every coroutine that refers to it.
set_flow_id(c, value) ==
    IF ctx[c] = 0
    THEN /\ Len(objs) < MaxObjects
         /\ objs' = Append(objs, HandlerContext(None, value, 0))
         /\ ctx' = [ctx EXCEPT ![c] = Len(objs) + 1]
    ELSE /\ objs' = [objs EXCEPT ![ctx[c]].flow = value]
         /\ UNCHANGED ctx

\* Messenger.publish or call, with or without flow_id=: the headers are made in
\* one step; what follows may fail, and the context stays changed.
Send(c, flow_id) ==
    /\ pc[c] = "run"
    /\ \E generated \in Flows :
         LET value == resolve_flow_id(c, flow_id, generated) IN
         /\ set_flow_id(c, value)
         /\ \/ msgs' = msgs
            \/ /\ Len(msgs) < MaxMessages
               /\ msgs' = Append(msgs,
                    [flow |-> value, hop |-> Len(msgs) + 1, parent |-> parent_hop(c),
                     kind |-> entrypoint(c), scope |-> owner[c]])
    /\ scopes' = IF owner[c] = 0 \/ flow_id = None THEN scopes
                 ELSE [scopes EXCEPT ![owner[c]].flow = flow_id]
    /\ UNCHANGED <<token, pc, held, records, replies, owner>>

\* A message of a client that is not Kontiki's: no flow, no hop.
Foreign ==
    /\ Len(msgs) < MaxMessages
    /\ msgs' = Append(msgs, [flow |-> None, hop |-> 0, parent |-> 0, kind |-> None, scope |-> 0])
    /\ UNCHANGED <<code, records, replies, owner, scopes>>
--------------------------------------------------------------------------------
Next ==
    \/ Foreign
    \/ \E c \in Handlers : Start(c) \/ Return(c) \/ Raise(c) \/ Failed(c)
    \/ \E c \in Loops : EnterLoop(c)
    \/ \E c \in Workers, m \in 1..Len(msgs) : Deliver(c, m)
    \/ \E c \in Coroutines, d \in Children : Spawn(c, d)
    \/ \E c \in Coroutines : Annotate(c)
    \/ \E c \in Coroutines, f \in Choices \cup {None} : Send(c, f)

Spec == Init /\ [][Next]_vars
--------------------------------------------------------------------------------
Objects == [kind : Kinds \cup {None}, flow : Values, hop : Nat]
Messages == [flow : Values \cup {None}, hop : Nat, parent : Nat,
             kind : Kinds \cup {None}, scope : Nat]
Scopes == [kind : Kinds, cause : Nat, flow : Values, obj : Nat]

TypeOK ==
    /\ objs \in Seq(Objects) /\ msgs \in Seq(Messages) /\ scopes \in Seq(Scopes)
    /\ ctx \in [Coroutines -> 0..Len(objs)] /\ token \in [Coroutines -> 0..Len(objs)]
    /\ pc \in [Coroutines -> {"off", "idle", "run", "reporting"}]
    /\ held \in [Coroutines -> Values \cup {None}]
    /\ records \subseteq [scope : Nat, kind : Kinds \cup {None}, hop : Nat,
                          flow : Values \cup {None}, uncaught : BOOLEAN]
    /\ replies \subseteq [scope : Nat, flow : Values \cup {None}, error : BOOLEAN]
    /\ owner \in [Coroutines -> 0..Len(scopes)]

\* The hop and entrypoint that work done for a scope must name.
Cause(s) == IF s = 0 \/ scopes[s].cause = 0 THEN 0 ELSE msgs[scopes[s].cause].hop
KindOf(s) == IF s = 0 THEN None ELSE scopes[s].kind

\* Every message and record names the message whose handling it is part of,
\* and the kind of that handler, whatever coroutine sent it and however late,
\* and nothing when no handler is behind it (parent_hop_id, entrypoint).
LineageIsCausal ==
    /\ \A i \in 1..Len(msgs) : msgs[i].parent = Cause(msgs[i].scope)
                               /\ msgs[i].kind = KindOf(msgs[i].scope)
    /\ \A r \in records : r.hop = Cause(r.scope) /\ r.kind = KindOf(r.scope)

\* A handler starts with the flow of the message that caused it, if that has
\* one, and all that is sent for it carries the flow decided last in it: a
\* handler's flow neither leaks into another handler nor gets lost.
FlowStep ==
    /\ \A s \in 1..Len(scopes') \ 1..Len(scopes) :
         scopes'[s].cause # 0 =>
             msgs[scopes'[s].cause].flow \in {None, Empty, scopes'[s].flow}
    /\ \A i \in 1..Len(msgs') \ 1..Len(msgs) :
         msgs'[i].scope # 0 => msgs'[i].flow = scopes'[msgs'[i].scope].flow
    /\ \A r \in records' \ records : r.scope # 0 => r.flow = scopes'[r.scope].flow
    /\ \A r \in replies' \ replies : r.error \/ r.flow = scopes'[r.scope].flow
FlowIsKept == [][FlowStep]_vars

\* Outside a handler no handler context is current: the next request of a
\* connection, a timer loop between iterations and the AMQP reader do not
\* work in the name of the handler before (reset_handler_scope).
OutsideIsOutside ==
    \A c \in Coroutines : owner[c] = 0 => current_handler_context(c) = 0

\* The flow_id header of a 500 response is the flow of the exception record
\* the registry got, though a task of the handler changes the flow while the
\* record is being published (web.py reads it before the await).
ErrorsAgree ==
    \A r \in replies, e \in records :
        r.error /\ e.uncaught /\ e.scope = r.scope => e.flow = r.flow
================================================================================
