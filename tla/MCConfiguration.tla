---------------------------- MODULE MCConfiguration ----------------------------
(* Deployments of one to three files and service classes with entrypoints   *)
(* of every type, some of them named by configuration keys.                  *)
EXTENDS Configuration

K(t) == [kontiki |-> t]
App(t) == [app |-> t]
T == Leaf("true")
F == Leaf("false")

Documents1 == {
    EmptyDict,
    App([events |-> Leaf("[a,b]"), every |-> Leaf("5")]),
    App([path |-> Leaf("a"), every |-> Leaf("5")]),
    App([path |-> Leaf("0"), every |-> Leaf("every minute")]),
    K([amqp |-> [disable |-> T]]),
    K([amqp |-> [disable |-> Leaf("1"), required |-> F]]),
    K([amqp |-> [required |-> T, max_attempts |-> Leaf("1")]]),
    K([amqp |-> [required |-> F, rpc |-> [timeout |-> Leaf("0.5")], tls |-> [ca_cert |-> Leaf("b")]]]),
    K([amqp |-> [max_attempts |-> Leaf("0")]]),
    K([amqp |-> [max_attempts |-> T, tls |-> EmptyDict]]),
    K([amqp |-> [tls |-> [enabled |-> T]]]),
    K([amqp |-> [tls |-> [ca_cert |-> Leaf("a")]]]),
    K([amqp |-> [tls |-> [ca_cert |-> Leaf("a"), client_cert |-> Leaf("b"), client_key |-> Leaf("a")]]]),
    K([amqp |-> Null]),
    K([registration |-> [disable |-> F, group |-> Leaf("blank")]]),
    K([registration |-> [disable |-> T, delay |-> Leaf("0")],
       amqp |-> [max_pending_messages |-> Leaf("70000")],
       peers |-> [k \in {"other", "a.b"} |-> Leaf("b")]]),
    K([service_name |-> Leaf("a"), http |-> [disable |-> T, port |-> Leaf("0")]]),
    K([service_name |-> Leaf("b"), http |-> [port |-> Leaf("70000"), documentation |-> [enabled |-> F]]]),
    K([service_name |-> Leaf("empty"), peers |-> [other |-> Leaf("empty")]]),
    K([heartbeat |-> [interval |-> Leaf("a")], shutdown |-> [grace_seconds |-> Leaf("0")]])}

Static(v) == [key |-> <<>>, value |-> Leaf(v)]
Key(k) == [key |-> <<"app", k>>, value |-> Null]
On(type, mode, attempts) == [type |-> type, mode |-> mode, attempts |-> attempts]

Services1 == {
    [event |-> <<On(Key("events"), "competing", Null), On(Static("b"), "broadcast", Leaf("0"))>>,
     rpc |-> {"ping"}, http |-> [page |-> Static("a")],
     task |-> [poll |-> [cron |-> FALSE, at |-> Key("every")]]],
    [event |-> <<On(Static("a"), "competing", Leaf("5")), On(Static("a"), "in_session", Null),
                 On(Static("b"), "competing", Null)>>,
     rpc |-> {}, http |-> [page |-> Key("path")], task |-> <<>>],
    [event |-> <<On(Static("[a,b]"), "competing", Leaf("1")), On(Static("b"), "competing", Null)>>,
     rpc |-> {}, http |-> <<>>,
     task |-> [poll |-> [cron |-> TRUE, at |-> Static("every minute")]]],
    [event |-> <<On(Static("a"), "competing", Leaf("0"))>>, rpc |-> {}, http |-> <<>>, task |-> <<>>],
    [event |-> <<>>, rpc |-> {}, http |-> [page |-> Static("a")],
     task |-> [poll |-> [cron |-> TRUE, at |-> Key("every")]]]}
================================================================================
