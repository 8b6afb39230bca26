-------------------------- MODULE MessengerProofs --------------------------
(***************************************************************************)
(* Theorems about Messenger, for every set of calls and publishes, in      *)
(* every mode and for every number of connections.                         *)
(***************************************************************************)
EXTENDS Messenger, TLAPS

\* What the proofs need to know of connection numbers.
LEMMA LinkFacts ==
    /\ None \in Links
    /\ Gens \subseteq Links
    /\ \A g \in Links : g < MaxGen => g + 1 \in Gens
  BY GenAssumption DEF None, Links, Gens

\* What they need to know of program counters and outcomes.
LEMMA ControlFacts ==
    /\ PublishStages \cup ReconnectStages \cup {"idle", "done", "waiting",
          "expired", "up", "stopping", "stopped"} \subseteq Stages
    /\ SetupStages \subseteq ReconnectStages
    /\ {"publishing", "retrying"} \subseteq PublishStages
    /\ {"closing", "connecting", "opening", "event_exchange", "rpc_exchange",
        "queueing", "consuming"} \subseteq ReconnectStages
    /\ Results \cup SendErrors \subseteq Outcomes
    /\ {"none", "published", "timeout", "bad_reply", "cancelled"}
          \subseteq Outcomes
    /\ {"result", "client_error", "server_error", "model_error"}
          \subseteq Outcomes
    /\ {"AmqpDisconnectedError", "ChannelInvalidStateError", "AttributeError",
        "ConnectionError", "bad_instance_id", "bad_arguments"}
          \subseteq Outcomes
    /\ NoAttempt \in Attempts
  BY LinkFacts DEF Stages, SetupStages, ReconnectStages, PublishStages, Results,
     SendErrors, Outcomes, NoAttempt, Attempts

\* The end of an operation keeps the control variables in their types.
LEMMA FinishTyped ==
    ASSUME TypeControl, NEW o \in Procs, NEW what \in Outcomes, Finish(o, what)
    PROVE  TypeControl'
  BY LinkFacts, ControlFacts DEF TypeControl, Finish

\* So does the start of a publish, whether it reaches its await or raises.
LEMMA StartAttemptTyped ==
    ASSUME TypeLinks, TypeControl, NEW o \in Procs, NEW stage \in PublishStages,
           StartAttempt(o, stage)
    PROVE  TypeControl'
<1>1. CASE o \in Calls /\ callback_queue = None
  BY <1>1, FinishTyped, ControlFacts DEF StartAttempt
<1>2. CASE ~(o \in Calls /\ callback_queue = None)
  <2>1. /\ (IF o \in Calls THEN rpc_exchange ELSE event_exchange) \in Links
        /\ (IF o \in Calls THEN callback_queue ELSE None) \in Links
    BY LinkFacts DEF TypeLinks
  <2>2. [via |-> IF o \in Calls THEN rpc_exchange ELSE event_exchange,
         replyTo |-> IF o \in Calls THEN callback_queue ELSE None,
         sent |-> FALSE] \in Attempts
    BY <2>1 DEF Attempts
  <2>3. /\ pc' \in [Procs -> Stages] /\ mine' \in [Procs -> Links]
        /\ returnTo' \in [Procs -> {"ensure", "retry", "main"}]
        /\ outcome' \in [Ops -> Outcomes]
    BY <1>2, LinkFacts, ControlFacts DEF StartAttempt, TypeControl
  <2>4. attempt' \in [Ops -> Attempts]
    BY <1>2, <2>2 DEF StartAttempt, TypeControl
  <2> QED
    BY <2>3, <2>4 DEF TypeControl
<1> QED
  BY <1>1, <1>2

\* A messenger as __init__ leaves it, with no operation begun, is well typed.
LEMMA InitTypeOK == Init => TypeOK
<1> USE LinkFacts, ControlFacts
<1>1. Init => TypeLinks
  BY DEF Init, TypeLinks
<1>2. Init => TypeTables
  BY DEF Init, TypeTables
<1>3. Init => TypeControl
  BY DEF Init, TypeControl
<1>4. Init => TypeBroker
  BY DEF Init, TypeBroker, None
<1> QED
  BY <1>1, <1>2, <1>3, <1>4 DEF TypeOK

\* No step gives the connection, its channel, exchanges or queue a value that is
\* not a connection number.
LEMMA NextTypeLinks == TypeOK /\ [Next]_vars => TypeLinks'
<1> SUFFICES ASSUME TypeOK, [Next]_vars PROVE TypeLinks'
    OBVIOUS
<1> USE LinkFacts DEF TypeOK, Ops, Procs, links, flags, tables, control, broker
<1>1. ASSUME NEW o \in Ops, Enter(o) PROVE TypeLinks'
  BY <1>1 DEF TypeLinks, TypeControl, TypeBroker, Enter, MayReconnect, Body, StartAttempt,
     Finish, BeginReconnect, CloseConnection, ForgetConnection
<1>2. ASSUME NEW o \in Ops, BrokerAccept(o) PROVE TypeLinks'
  BY <1>2 DEF TypeLinks, TypeControl, TypeBroker, BrokerAccept
<1>3. ASSUME NEW o \in Ops, Confirmed(o) PROVE TypeLinks'
  BY <1>3 DEF TypeLinks, TypeControl, TypeBroker, Confirmed, Finish
<1>4. ASSUME NEW o \in Ops, FirstPublishFails(o) PROVE TypeLinks'
  BY <1>4 DEF TypeLinks, TypeControl, TypeBroker, FirstPublishFails,
     StartAttempt, Finish, BeginReconnect, CloseConnection, ForgetConnection
<1>5. ASSUME NEW o \in Ops, RetryFails(o) PROVE TypeLinks'
  BY <1>5 DEF TypeLinks, TypeControl, TypeBroker, RetryFails, Finish
<1>6. ASSUME NEW o \in Ops, Closed(o) PROVE TypeLinks'
  BY <1>6 DEF TypeLinks, TypeControl, TypeBroker, Closed, ForgetConnection
<1>7. ASSUME NEW p \in Procs, SetupConnect(p) PROVE TypeLinks'
  BY <1>7 DEF TypeLinks, TypeControl, TypeBroker, SetupConnect
<1>8. ASSUME NEW p \in Procs, SetupDeclare(p) PROVE TypeLinks'
  BY <1>8 DEF TypeLinks, TypeControl, TypeBroker, SetupDeclare, SetupChannel,
     SetupEventExchange, SetupRpcExchange, SetupQueue, NextOnChannel,
     SetupRaises, ReleaseReconnecting, Finish
<1>9. ASSUME NEW p \in Procs, SetupDone(p) PROVE TypeLinks'
  BY <1>9 DEF TypeLinks, TypeControl, TypeBroker, SetupDone, Body,
     StartAttempt, Finish, ReleaseReconnecting
<1>10. ASSUME NEW p \in Procs, SetupFails(p) PROVE TypeLinks'
  BY <1>10 DEF TypeLinks, TypeControl, TypeBroker, SetupFails, SetupRaises,
     ReleaseReconnecting, Finish
<1>11. ASSUME NEW o \in Ops, Cancel(o) PROVE TypeLinks'
  BY <1>11 DEF TypeLinks, TypeControl, TypeBroker, Cancel, Finish,
     ReleaseReconnecting, CancelFuture
<1>12. ASSUME NEW c \in Calls, WaitStep(c) PROVE TypeLinks'
  BY <1>12 DEF TypeLinks, TypeControl, TypeBroker, WaitStep, Answered,
     TimerFires, TimedOut, Timed, CancelFuture, ForgetCall, Finish
<1>13. ASSUME NEW r \in requests, NEW b \in Replies, ServerReply(r, b) PROVE
   TypeLinks'
  BY <1>13, RepliesAssumption DEF TypeLinks, TypeControl, TypeBroker,
     ServerReply
<1>14. ASSUME NEW r \in replies, OnResponse(r) PROVE TypeLinks'
  BY <1>14 DEF TypeLinks, TypeControl, TypeBroker, OnResponse, Settle
<1>15. ASSUME BeginShutdown \/ StopBegin \/ StopEnd PROVE TypeLinks'
  BY <1>15 DEF TypeLinks, TypeControl, TypeBroker, BeginShutdown, StopBegin,
     StopEnd, ResetOnStop, CloseConnection
<1>16. ASSUME NEW g \in Gens, ChannelLost(g) \/ ChannelRestored(g) PROVE
   TypeLinks'
  BY <1>16 DEF TypeLinks, TypeControl, TypeBroker, ChannelLost,
     ChannelRestored
<1>17. ASSUME UNCHANGED vars PROVE TypeLinks'
  BY <1>17 DEF TypeLinks, TypeControl, TypeBroker, vars
<1> QED
  BY <1>1, <1>2, <1>3, <1>4, <1>5, <1>6, <1>7, <1>8, <1>9, <1>10, <1>11,
     <1>12, <1>13, <1>14, <1>15, <1>16, <1>17 DEF Next, SendStep, SetupStep

\* No step puts anything but calls into the tables of futures and models, nor gives
\* a future a state it cannot have.
LEMMA NextTypeTables == TypeOK /\ [Next]_vars => TypeTables'
<1> SUFFICES ASSUME TypeOK, [Next]_vars PROVE TypeTables'
    OBVIOUS
<1> USE LinkFacts DEF TypeOK, Ops, Procs, links, flags, tables, control, broker
<1>1. ASSUME NEW o \in Ops, Enter(o) PROVE TypeTables'
  BY <1>1 DEF TypeTables, TypeBroker, Bodies, Enter, MayReconnect, Body, StartAttempt,
     Finish, BeginReconnect, CloseConnection, ForgetConnection
<1>2. ASSUME NEW o \in Ops, BrokerAccept(o) PROVE TypeTables'
  BY <1>2 DEF TypeTables, TypeBroker, Bodies, BrokerAccept
<1>3. ASSUME NEW o \in Ops, Confirmed(o) PROVE TypeTables'
  BY <1>3 DEF TypeTables, TypeBroker, Bodies, Confirmed, Finish
<1>4. ASSUME NEW o \in Ops, FirstPublishFails(o) PROVE TypeTables'
  BY <1>4 DEF TypeTables, TypeBroker, Bodies, FirstPublishFails, StartAttempt,
     Finish, BeginReconnect, CloseConnection, ForgetConnection
<1>5. ASSUME NEW o \in Ops, RetryFails(o) PROVE TypeTables'
  BY <1>5 DEF TypeTables, TypeBroker, Bodies, RetryFails, Finish
<1>6. ASSUME NEW o \in Ops, Closed(o) PROVE TypeTables'
  BY <1>6 DEF TypeTables, TypeBroker, Bodies, Closed, ForgetConnection
<1>7. ASSUME NEW p \in Procs, SetupConnect(p) PROVE TypeTables'
  BY <1>7 DEF TypeTables, TypeBroker, Bodies, SetupConnect
<1>8. ASSUME NEW p \in Procs, SetupDeclare(p) PROVE TypeTables'
  BY <1>8 DEF TypeTables, TypeBroker, Bodies, SetupDeclare, SetupChannel,
     SetupEventExchange, SetupRpcExchange, SetupQueue, NextOnChannel,
     SetupRaises, ReleaseReconnecting, Finish
<1>9. ASSUME NEW p \in Procs, SetupDone(p) PROVE TypeTables'
  BY <1>9 DEF TypeTables, TypeBroker, Bodies, SetupDone, Body, StartAttempt,
     Finish, ReleaseReconnecting
<1>10. ASSUME NEW p \in Procs, SetupFails(p) PROVE TypeTables'
  BY <1>10 DEF TypeTables, TypeBroker, Bodies, SetupFails, SetupRaises,
     ReleaseReconnecting, Finish
<1>11. ASSUME NEW o \in Ops, Cancel(o) PROVE TypeTables'
  BY <1>11 DEF TypeTables, TypeBroker, Bodies, Cancel, Finish,
     ReleaseReconnecting, CancelFuture
<1>12. ASSUME NEW c \in Calls, WaitStep(c) PROVE TypeTables'
  BY <1>12 DEF TypeTables, TypeBroker, Bodies, WaitStep, Answered, TimerFires,
     TimedOut, Timed, CancelFuture, ForgetCall, Finish
<1>13. ASSUME NEW r \in requests, NEW b \in Replies, ServerReply(r, b) PROVE
   TypeTables'
  BY <1>13, RepliesAssumption DEF TypeTables, TypeBroker, Bodies, ServerReply
<1>14. ASSUME NEW r \in replies, OnResponse(r) PROVE TypeTables'
  BY <1>14 DEF TypeTables, TypeBroker, Bodies, OnResponse, Settle
<1>15. ASSUME BeginShutdown \/ StopBegin \/ StopEnd PROVE TypeTables'
  BY <1>15 DEF TypeTables, TypeBroker, Bodies, BeginShutdown, StopBegin,
     StopEnd, ResetOnStop, CloseConnection
<1>16. ASSUME NEW g \in Gens, ChannelLost(g) \/ ChannelRestored(g) PROVE
   TypeTables'
  BY <1>16 DEF TypeTables, TypeBroker, Bodies, ChannelLost, ChannelRestored
<1>17. ASSUME UNCHANGED vars PROVE TypeTables'
  BY <1>17 DEF TypeTables, TypeBroker, Bodies, vars
<1> QED
  BY <1>1, <1>2, <1>3, <1>4, <1>5, <1>6, <1>7, <1>8, <1>9, <1>10, <1>11,
     <1>12, <1>13, <1>14, <1>15, <1>16, <1>17 DEF Next, SendStep, SetupStep

\* Every coroutine stays at one of its awaits, or ends with one of its outcomes.
LEMMA NextTypeControl == TypeOK /\ [Next]_vars => TypeControl'
<1> SUFFICES ASSUME TypeOK, [Next]_vars PROVE TypeControl'
    OBVIOUS
<1> USE LinkFacts DEF TypeOK, Ops, Procs, links, flags, tables, control, broker
<1> USE ControlFacts, FinishTyped, StartAttemptTyped
<1>1. ASSUME NEW o \in Ops, Enter(o) PROVE TypeControl'
  BY <1>1 DEF TypeControl, TypeBroker, Enter, MayReconnect, Body, BeginReconnect
<1>2. ASSUME NEW o \in Ops, BrokerAccept(o) PROVE TypeControl'
  BY <1>2 DEF TypeControl, TypeBroker, Attempts, BrokerAccept
<1>3. ASSUME NEW o \in Ops, Confirmed(o) PROVE TypeControl'
  BY <1>3 DEF TypeControl, TypeBroker, Confirmed
<1>4. ASSUME NEW o \in Ops, FirstPublishFails(o) PROVE TypeControl'
  BY <1>4 DEF TypeControl, TypeBroker, FirstPublishFails, BeginReconnect
<1>5. ASSUME NEW o \in Ops, RetryFails(o) PROVE TypeControl'
  BY <1>5 DEF TypeControl, TypeBroker, RetryFails
<1>6. ASSUME NEW o \in Ops, Closed(o) PROVE TypeControl'
  BY <1>6 DEF TypeControl, TypeBroker, Closed
<1>7. ASSUME NEW p \in Procs, SetupConnect(p) PROVE TypeControl'
  BY <1>7 DEF TypeControl, TypeBroker, SetupStages, SetupConnect
<1>8. ASSUME NEW p \in Procs, SetupDeclare(p) PROVE TypeControl'
  BY <1>8 DEF TypeControl, TypeBroker, SetupStages, SetupDeclare,
     SetupChannel, SetupEventExchange, SetupRpcExchange, SetupQueue,
     NextOnChannel, SetupRaises
<1>9. ASSUME NEW p \in Procs, SetupDone(p) PROVE TypeControl'
  BY <1>9 DEF TypeControl, TypeBroker, SetupStages, SetupDone, Body
<1>10. ASSUME NEW p \in Procs, SetupFails(p) PROVE TypeControl'
  BY <1>10 DEF TypeControl, TypeBroker, SetupStages, SetupFails, SetupRaises
<1>11. ASSUME NEW o \in Ops, Cancel(o) PROVE TypeControl'
  BY <1>11 DEF TypeControl, TypeBroker, SetupStages, Cancel
<1>12. ASSUME NEW c \in Calls, WaitStep(c) PROVE TypeControl'
  BY <1>12 DEF TypeControl, TypeBroker, WaitStep, Answered, TimerFires,
     TimedOut, Timed
<1>13. ASSUME NEW r \in requests, NEW b \in Replies, ServerReply(r, b) PROVE
   TypeControl'
  BY <1>13, RepliesAssumption DEF TypeControl, TypeBroker, ServerReply
<1>14. ASSUME NEW r \in replies, OnResponse(r) PROVE TypeControl'
  BY <1>14 DEF TypeControl, TypeBroker, OnResponse
<1>15. ASSUME BeginShutdown \/ StopBegin \/ StopEnd PROVE TypeControl'
  BY <1>15 DEF TypeControl, TypeBroker, BeginShutdown, StopBegin, StopEnd,
     ResetOnStop
<1>16. ASSUME NEW g \in Gens, ChannelLost(g) \/ ChannelRestored(g) PROVE
   TypeControl'
  BY <1>16 DEF TypeControl, TypeBroker, ChannelLost, ChannelRestored
<1>17. ASSUME UNCHANGED vars PROVE TypeControl'
  BY <1>17 DEF TypeControl, TypeBroker, vars
<1> QED
  BY <1>1, <1>2, <1>3, <1>4, <1>5, <1>6, <1>7, <1>8, <1>9, <1>10, <1>11,
     <1>12, <1>13, <1>14, <1>15, <1>16, <1>17 DEF Next, SendStep, SetupStep

\* Requests and replies name calls and connections that exist.
LEMMA NextTypeBroker == TypeOK /\ [Next]_vars => TypeBroker'
<1> SUFFICES ASSUME TypeOK, [Next]_vars PROVE TypeBroker'
    OBVIOUS
<1> USE LinkFacts DEF TypeOK, Ops, Procs, links, flags, tables, control, broker
<1>1. ASSUME NEW o \in Ops, Enter(o) PROVE TypeBroker'
  BY <1>1 DEF TypeBroker, TypeControl, Enter, MayReconnect, Body, StartAttempt, Finish,
     BeginReconnect, CloseConnection, ForgetConnection
<1>2. ASSUME NEW o \in Ops, BrokerAccept(o) PROVE TypeBroker'
  BY <1>2 DEF TypeBroker, TypeControl, Attempts, BrokerAccept
<1>3. ASSUME NEW o \in Ops, Confirmed(o) PROVE TypeBroker'
  BY <1>3 DEF TypeBroker, TypeControl, Confirmed, Finish
<1>4. ASSUME NEW o \in Ops, FirstPublishFails(o) PROVE TypeBroker'
  BY <1>4 DEF TypeBroker, TypeControl, FirstPublishFails, StartAttempt,
     Finish, BeginReconnect, CloseConnection, ForgetConnection
<1>5. ASSUME NEW o \in Ops, RetryFails(o) PROVE TypeBroker'
  BY <1>5 DEF TypeBroker, TypeControl, RetryFails, Finish
<1>6. ASSUME NEW o \in Ops, Closed(o) PROVE TypeBroker'
  BY <1>6 DEF TypeBroker, TypeControl, Closed, ForgetConnection
<1>7. ASSUME NEW p \in Procs, SetupConnect(p) PROVE TypeBroker'
  BY <1>7 DEF TypeBroker, TypeControl, SetupConnect
<1>8. ASSUME NEW p \in Procs, SetupDeclare(p) PROVE TypeBroker'
  BY <1>8 DEF TypeBroker, TypeControl, SetupDeclare, SetupChannel,
     SetupEventExchange, SetupRpcExchange, SetupQueue, NextOnChannel,
     SetupRaises, ReleaseReconnecting, Finish
<1>9. ASSUME NEW p \in Procs, SetupDone(p) PROVE TypeBroker'
  BY <1>9 DEF TypeBroker, TypeControl, SetupDone, Body, StartAttempt, Finish,
     ReleaseReconnecting
<1>10. ASSUME NEW p \in Procs, SetupFails(p) PROVE TypeBroker'
  BY <1>10 DEF TypeBroker, TypeControl, SetupFails, SetupRaises,
     ReleaseReconnecting, Finish
<1>11. ASSUME NEW o \in Ops, Cancel(o) PROVE TypeBroker'
  BY <1>11 DEF TypeBroker, TypeControl, Cancel, Finish, ReleaseReconnecting,
     CancelFuture
<1>12. ASSUME NEW c \in Calls, WaitStep(c) PROVE TypeBroker'
  BY <1>12 DEF TypeBroker, TypeControl, WaitStep, Answered, TimerFires,
     TimedOut, Timed, CancelFuture, ForgetCall, Finish
<1>13. ASSUME NEW r \in requests, NEW b \in Replies, ServerReply(r, b) PROVE
   TypeBroker'
  BY <1>13, RepliesAssumption DEF TypeBroker, TypeControl, Bodies, ServerReply
<1>14. ASSUME NEW r \in replies, OnResponse(r) PROVE TypeBroker'
  BY <1>14 DEF TypeBroker, TypeControl, OnResponse, Settle
<1>15. ASSUME BeginShutdown \/ StopBegin \/ StopEnd PROVE TypeBroker'
  BY <1>15 DEF TypeBroker, TypeControl, BeginShutdown, StopBegin, StopEnd,
     ResetOnStop, CloseConnection
<1>16. ASSUME NEW g \in Gens, ChannelLost(g) \/ ChannelRestored(g) PROVE
   TypeBroker'
  BY <1>16 DEF TypeBroker, TypeControl, ChannelLost, ChannelRestored
<1>17. ASSUME UNCHANGED vars PROVE TypeBroker'
  BY <1>17 DEF TypeBroker, TypeControl, vars
<1> QED
  BY <1>1, <1>2, <1>3, <1>4, <1>5, <1>6, <1>7, <1>8, <1>9, <1>10, <1>11,
     <1>12, <1>13, <1>14, <1>15, <1>16, <1>17 DEF Next, SendStep, SetupStep

\* Type correctness: every attribute of the messenger, every table and every
\* coroutine stays in the set of values the code gives it.
THEOREM TypeCorrect == Spec => []TypeOK
<1>1. TypeOK /\ [Next]_vars => TypeOK'
  BY NextTypeLinks, NextTypeTables, NextTypeControl, NextTypeBroker DEF TypeOK
<1> QED
  BY InitTypeOK, <1>1, PTL DEF Spec

-----------------------------------------------------------------------------
(* Reconnection.                                                           *)

\* The inductive invariant behind ReconnectExclusive.  While the owner's setup()
\* runs the messenger is neither started nor marked for reconnection, so every
\* operation has been turned away at _ensure_amqp(); afterwards only the
\* operations reconnect, one at a time behind the flag.
SetupFirst ==
    /\ pc[Main] \in SetupStages \cup {"up", "stopping", "stopped"}
    /\ returnTo[Main] = "main"
    /\ \A o \in Ops : returnTo[o] # "main"
    /\ pc[Main] \in SetupStages =>
          /\ ~started /\ ~needs_reconnect
          /\ \A o \in Ops : pc[o] \in {"idle", "done"}

ReconnectInv == SetupFirst /\ ReconnectExclusive

\* The stages of a suspended coroutine do not overlap.
LEMMA StageFacts ==
    /\ "connecting" \in SetupStages /\ "closing" \notin SetupStages
    /\ ReconnectStages = SetupStages \cup {"closing"}
    /\ (PublishStages \cup {"idle", "done", "waiting", "expired", "up", "stopping",
        "stopped"}) \cap ReconnectStages = {}
    /\ {"opening", "event_exchange", "rpc_exchange", "queueing", "consuming"}
          \subseteq SetupStages
    /\ PublishStages = {"publishing", "retrying"}
  BY DEF SetupStages, ReconnectStages, PublishStages

\* Every step keeps the flag and the connecting coroutine together: only reconnect()
\* raises the flag, and only its finally clause lowers it.
LEMMA NextReconnectInv == TypeOK /\ ReconnectInv /\ [Next]_vars => ReconnectInv'
<1> SUFFICES ASSUME TypeOK, ReconnectInv, [Next]_vars PROVE ReconnectInv'
    OBVIOUS
<1> USE StageFacts, ProcsAssumption
    DEF TypeOK, TypeControl, Ops, Procs, links, flags, tables, control, broker
<1>1. ASSUME NEW o \in Ops, Enter(o) PROVE ReconnectInv'
  BY <1>1 DEF ReconnectInv, SetupFirst, ReconnectExclusive, Enter, MayReconnect, Body,
     StartAttempt, Finish, BeginReconnect, ForgetConnection
<1>2. ASSUME NEW o \in Ops, BrokerAccept(o) PROVE ReconnectInv'
  BY <1>2 DEF ReconnectInv, SetupFirst, ReconnectExclusive, BrokerAccept
<1>3. ASSUME NEW o \in Ops, Confirmed(o) PROVE ReconnectInv'
  BY <1>3 DEF ReconnectInv, SetupFirst, ReconnectExclusive, Confirmed, Finish
<1>4. ASSUME NEW o \in Ops, FirstPublishFails(o) PROVE ReconnectInv'
  BY <1>4 DEF ReconnectInv, SetupFirst, ReconnectExclusive, FirstPublishFails,
     StartAttempt, Finish, BeginReconnect, ForgetConnection
<1>5. ASSUME NEW o \in Ops, RetryFails(o) PROVE ReconnectInv'
  BY <1>5 DEF ReconnectInv, SetupFirst, ReconnectExclusive, RetryFails, Finish
<1>6. ASSUME NEW o \in Ops, Closed(o) PROVE ReconnectInv'
  BY <1>6 DEF ReconnectInv, SetupFirst, ReconnectExclusive, Closed,
     ForgetConnection
<1>7. ASSUME NEW p \in Procs, SetupConnect(p) PROVE ReconnectInv'
  BY <1>7 DEF ReconnectInv, SetupFirst, ReconnectExclusive, SetupConnect
<1>8. ASSUME NEW p \in Procs, SetupDeclare(p) PROVE ReconnectInv'
  BY <1>8 DEF ReconnectInv, SetupFirst, ReconnectExclusive, SetupDeclare,
     SetupChannel, SetupEventExchange, SetupRpcExchange, SetupQueue,
     NextOnChannel, SetupRaises, ReleaseReconnecting, Finish
<1>9. ASSUME NEW p \in Procs, SetupDone(p) PROVE ReconnectInv'
  BY <1>9 DEF ReconnectInv, SetupFirst, ReconnectExclusive, SetupDone, Body,
     StartAttempt, Finish, ReleaseReconnecting
<1>10. ASSUME NEW p \in Procs, SetupFails(p) PROVE ReconnectInv'
  BY <1>10 DEF ReconnectInv, SetupFirst, ReconnectExclusive, SetupFails,
     SetupRaises, ReleaseReconnecting, Finish
<1>11. ASSUME NEW o \in Ops, Cancel(o) PROVE ReconnectInv'
  BY <1>11 DEF ReconnectInv, SetupFirst, ReconnectExclusive, Cancel, Finish,
     ReleaseReconnecting
<1>12. ASSUME NEW c \in Calls, WaitStep(c) PROVE ReconnectInv'
  BY <1>12 DEF ReconnectInv, SetupFirst, ReconnectExclusive, WaitStep,
     Answered, TimerFires, TimedOut, Timed, Finish
<1>13. ASSUME NEW r \in requests, NEW b \in Replies, ServerReply(r, b) PROVE
   ReconnectInv'
  BY <1>13 DEF ReconnectInv, SetupFirst, ReconnectExclusive, ServerReply
<1>14. ASSUME NEW r \in replies, OnResponse(r) PROVE ReconnectInv'
  BY <1>14 DEF ReconnectInv, SetupFirst, ReconnectExclusive, OnResponse
<1>15. ASSUME BeginShutdown \/ StopBegin \/ StopEnd PROVE ReconnectInv'
  BY <1>15 DEF ReconnectInv, SetupFirst, ReconnectExclusive, BeginShutdown,
     StopBegin, StopEnd, ResetOnStop
<1>16. ASSUME NEW g \in Gens, ChannelLost(g) \/ ChannelRestored(g) PROVE
   ReconnectInv'
  BY <1>16 DEF ReconnectInv, SetupFirst, ReconnectExclusive, ChannelLost,
     ChannelRestored
<1>17. ASSUME UNCHANGED vars PROVE ReconnectInv'
  BY <1>17 DEF ReconnectInv, SetupFirst, ReconnectExclusive, vars
<1> QED
  BY <1>1, <1>2, <1>3, <1>4, <1>5, <1>6, <1>7, <1>8, <1>9, <1>10, <1>11,
     <1>12, <1>13, <1>14, <1>15, <1>16, <1>17 DEF Next, SendStep, SetupStep

\* At most one coroutine connects at a time and the _reconnecting flag is up
\* exactly while an operation reconnects, for any number of operations.
THEOREM ReconnectIsExclusive == Spec => []ReconnectExclusive
<1>1. Init => ReconnectInv
  BY StageFacts, ProcsAssumption DEF Init, ReconnectInv, SetupFirst,
     ReconnectExclusive, Ops, Procs
<1>2. ReconnectInv => ReconnectExclusive
  BY DEF ReconnectInv
<1> QED
  BY <1>1, <1>2, NextReconnectInv, TypeCorrect, PTL DEF Spec

-----------------------------------------------------------------------------
(* The tables of pending calls.                                            *)

\* The inductive invariant behind TablesClean, WaitingCallIsKnown and
\* SettledFutureIsFinal, which ties a call's place in its code to the state of
\* its future and to the two tables.
CallInv(c) ==
    /\ outcome[c] # "none" <=> pc[c] = "done"
    /\ pc[c] = "idle" \/ (pc[c] \in ReconnectStages /\ returnTo[c] = "ensure") =>
          future[c] = "none"
    /\ future[c] \in Bodies => c \notin futures
    /\ future[c] = "pending" /\ pc[Main] # "stopped" => c \in futures
    /\ pc[c] = "expired" => future[c] # "pending"
    /\ outcome[c] \in Results \cup {"timeout"} =>
          c \notin futures \cup response_models
    /\ outcome[c] = "bad_reply" => c \notin futures

TablesInv == \A c \in Calls : CallInv(c)

\* The kinds of reply are apart from the absence of one.
LEMMA BodyFacts ==
    /\ {"none", "pending", "cancelled"} \cap Bodies = {}
    /\ {"success", "client_error", "server_error", "garbage"} = Bodies
    /\ Results = {"result", "client_error", "server_error", "model_error"}
  BY DEF Bodies, Results

\* Every step keeps a call in the tables exactly while it can still be answered.
LEMMA NextTablesInv ==
    TypeOK /\ SetupFirst /\ TablesInv /\ [Next]_vars => TablesInv'
<1> SUFFICES ASSUME TypeOK, SetupFirst, TablesInv, [Next]_vars PROVE TablesInv'
    OBVIOUS
<1> USE StageFacts, BodyFacts, ProcsAssumption
    DEF TypeOK, TypeControl, TypeTables, Ops, Procs, links, flags, tables, control,
        broker
<1>1. ASSUME NEW o \in Ops, Enter(o) PROVE TablesInv'
  BY <1>1 DEF TablesInv, CallInv, Enter, MayReconnect, Body, StartAttempt, Finish,
     BeginReconnect
<1>2. ASSUME NEW o \in Ops, BrokerAccept(o) PROVE TablesInv'
  BY <1>2 DEF TablesInv, CallInv, BrokerAccept
<1>3. ASSUME NEW o \in Ops, Confirmed(o) PROVE TablesInv'
  BY <1>3 DEF TablesInv, CallInv, Confirmed, Finish
<1>4. ASSUME NEW o \in Ops, FirstPublishFails(o) PROVE TablesInv'
  BY <1>4 DEF TablesInv, CallInv, FirstPublishFails, StartAttempt, Finish,
     BeginReconnect
<1>5. ASSUME NEW o \in Ops, RetryFails(o) PROVE TablesInv'
  BY <1>5 DEF TablesInv, CallInv, RetryFails, Finish
<1>6. ASSUME NEW o \in Ops, Closed(o) PROVE TablesInv'
  BY <1>6 DEF TablesInv, CallInv, Closed
<1>7. ASSUME NEW p \in Procs, SetupConnect(p) PROVE TablesInv'
  BY <1>7 DEF TablesInv, CallInv, SetupFirst, SetupConnect
<1>8. ASSUME NEW p \in Procs, SetupDeclare(p) PROVE TablesInv'
  BY <1>8 DEF TablesInv, CallInv, SetupFirst, SetupDeclare, SetupChannel,
     SetupEventExchange, SetupRpcExchange, SetupQueue, NextOnChannel,
     SetupRaises, Finish
<1>9. ASSUME NEW p \in Procs, SetupDone(p) PROVE TablesInv'
  BY <1>9 DEF TablesInv, CallInv, SetupFirst, SetupDone, Body, StartAttempt,
     Finish
<1>10. ASSUME NEW p \in Procs, SetupFails(p) PROVE TablesInv'
  BY <1>10 DEF TablesInv, CallInv, SetupFirst, SetupFails, SetupRaises, Finish
<1>11. ASSUME NEW o \in Ops, Cancel(o) PROVE TablesInv'
  BY <1>11 DEF TablesInv, CallInv, Cancel, Finish, CancelFuture
<1>12. ASSUME NEW c \in Calls, WaitStep(c) PROVE TablesInv'
  BY <1>12 DEF TablesInv, CallInv, WaitStep, Answered, TimerFires, TimedOut,
     Timed, CancelFuture, ForgetCall, Finish
<1>13. ASSUME NEW r \in requests, NEW b \in Replies, ServerReply(r, b) PROVE
   TablesInv'
  BY <1>13 DEF TablesInv, CallInv, ServerReply
<1>14. ASSUME NEW r \in replies, OnResponse(r) PROVE TablesInv'
  BY <1>14 DEF TablesInv, CallInv, TypeBroker, OnResponse, Settle
<1>15. ASSUME BeginShutdown \/ StopBegin \/ StopEnd PROVE TablesInv'
  BY <1>15 DEF TablesInv, CallInv, BeginShutdown, StopBegin, StopEnd,
     ResetOnStop
<1>16. ASSUME NEW g \in Gens, ChannelLost(g) \/ ChannelRestored(g) PROVE
   TablesInv'
  BY <1>16 DEF TablesInv, CallInv, ChannelLost, ChannelRestored
<1>17. ASSUME UNCHANGED vars PROVE TablesInv'
  BY <1>17 DEF TablesInv, CallInv, vars
<1> QED
  BY <1>1, <1>2, <1>3, <1>4, <1>5, <1>6, <1>7, <1>8, <1>9, <1>10, <1>11,
     <1>12, <1>13, <1>14, <1>15, <1>16, <1>17 DEF Next, SendStep, SetupStep

\* A call that ended with an answer or a timeout has left both tables, and one that
\* waits for an answer is in the table replies are looked up in, for any number of
\* calls, reconnects and replies.
THEOREM TablesAreClean == Spec => [](TablesClean /\ WaitingCallIsKnown)
<1>1. Init => ReconnectInv /\ TablesInv
  BY StageFacts, BodyFacts, ProcsAssumption DEF Init, ReconnectInv, SetupFirst,
     ReconnectExclusive, TablesInv, CallInv, Ops, Procs
<1>2. TypeOK /\ TablesInv => TablesClean /\ WaitingCallIsKnown
  BY DEF TablesInv, CallInv, TablesClean, WaitingCallIsKnown
<1>3. ReconnectInv => SetupFirst
  BY DEF ReconnectInv
<1> QED
  BY <1>1, <1>2, <1>3, NextReconnectInv, NextTablesInv, TypeCorrect, PTL DEF Spec

\* Until stop(), the reply of a call that waits is never taken for an unknown one.
THEOREM WaitingIsKnown == Spec => []WaitingCallIsKnown
BY TablesAreClean, PTL

\* A future that a reply, the timer or a cancellation has settled stays as it is.
THEOREM FuturesAreFinal == Spec => SettledFutureIsFinal
<1> DEFINE Final == \A c \in Calls :
        future[c] \notin {"none", "pending"} => future'[c] = future[c]
<1>1. TypeOK /\ TablesInv /\ [Next]_vars => [Final]_vars
  <2> SUFFICES ASSUME TypeOK, TablesInv, Next PROVE Final
      BY DEF vars, tables
  <2> USE StageFacts, BodyFacts, ProcsAssumption
      DEF TypeOK, TypeControl, TypeTables, TablesInv, CallInv, Ops, Procs, tables
  <2>1. ASSUME NEW o \in Ops, Enter(o) PROVE Final
    BY <2>1 DEF Enter, MayReconnect, Body, BeginReconnect
  <2>2. ASSUME NEW o \in Ops, BrokerAccept(o) PROVE Final
    BY <2>2 DEF BrokerAccept
  <2>3. ASSUME NEW o \in Ops, Confirmed(o) PROVE Final
    BY <2>3 DEF Confirmed
  <2>4. ASSUME NEW o \in Ops, FirstPublishFails(o) PROVE Final
    BY <2>4 DEF FirstPublishFails, BeginReconnect
  <2>5. ASSUME NEW o \in Ops, RetryFails(o) PROVE Final
    BY <2>5 DEF RetryFails
  <2>6. ASSUME NEW o \in Ops, Closed(o) PROVE Final
    BY <2>6 DEF Closed
  <2>7. ASSUME NEW p \in Procs, SetupConnect(p) PROVE Final
    BY <2>7 DEF SetupConnect
  <2>8. ASSUME NEW p \in Procs, SetupDeclare(p) PROVE Final
    BY <2>8 DEF SetupDeclare, SetupChannel, SetupEventExchange,
       SetupRpcExchange, SetupQueue, NextOnChannel, SetupRaises
  <2>9. ASSUME NEW p \in Procs, SetupDone(p) PROVE Final
    BY <2>9 DEF SetupDone, Body
  <2>10. ASSUME NEW p \in Procs, SetupFails(p) PROVE Final
    BY <2>10 DEF SetupFails, SetupRaises
  <2>11. ASSUME NEW o \in Ops, Cancel(o) PROVE Final
    BY <2>11 DEF Cancel, CancelFuture
  <2>12. ASSUME NEW c \in Calls, WaitStep(c) PROVE Final
    BY <2>12 DEF WaitStep, Answered, TimerFires, TimedOut, Timed, CancelFuture
  <2>13. ASSUME NEW r \in requests, NEW b \in Replies, ServerReply(r, b) PROVE
     Final
    BY <2>13 DEF ServerReply
  <2>14. ASSUME NEW r \in replies, OnResponse(r) PROVE Final
    BY <2>14 DEF TypeBroker, OnResponse, Settle
  <2>15. ASSUME BeginShutdown \/ StopBegin \/ StopEnd PROVE Final
    BY <2>15 DEF BeginShutdown, StopBegin, StopEnd, ResetOnStop
  <2>16. ASSUME NEW g \in Gens, ChannelLost(g) \/ ChannelRestored(g) PROVE
     Final
    BY <2>16 DEF ChannelLost, ChannelRestored
  <2> QED
    BY <2>1, <2>2, <2>3, <2>4, <2>5, <2>6, <2>7, <2>8, <2>9, <2>10, <2>11,
       <2>12, <2>13, <2>14, <2>15, <2>16 DEF Next, SendStep, SetupStep
<1>2. Init => ReconnectInv /\ TablesInv
  BY StageFacts, BodyFacts, ProcsAssumption DEF Init, ReconnectInv, SetupFirst,
     ReconnectExclusive, TablesInv, CallInv, Ops, Procs
<1>3. ReconnectInv => SetupFirst
  BY DEF ReconnectInv
<1> QED
  BY <1>1, <1>2, <1>3, NextReconnectInv, NextTablesInv, TypeCorrect, PTL
     DEF Spec, SettledFutureIsFinal

\* Until stop(), a messenger that is started or marked for reconnection stays so,
\* whatever fails.
THEOREM MessengerStaysRecoverable == Spec => StaysRecoverable
<1> DEFINE Stays == started \/ needs_reconnect =>
        started' \/ needs_reconnect' \/ pc'[Main] = "stopped"
<1>1. TypeOK /\ [Next]_vars => [Stays]_vars
  <2> SUFFICES ASSUME TypeOK, Next PROVE Stays
      BY DEF vars, flags
  <2> USE ProcsAssumption DEF TypeOK, TypeControl, Ops, Procs, links, flags
  <2>1. ASSUME NEW o \in Ops, Enter(o) PROVE Stays
    BY <2>1 DEF Enter, MayReconnect, BeginReconnect, ForgetConnection
  <2>2. ASSUME NEW o \in Ops, BrokerAccept(o) PROVE Stays
    BY <2>2 DEF BrokerAccept
  <2>3. ASSUME NEW o \in Ops, Confirmed(o) PROVE Stays
    BY <2>3 DEF Confirmed
  <2>4. ASSUME NEW o \in Ops, FirstPublishFails(o) PROVE Stays
    BY <2>4 DEF FirstPublishFails, BeginReconnect, ForgetConnection
  <2>5. ASSUME NEW o \in Ops, RetryFails(o) PROVE Stays
    BY <2>5 DEF RetryFails
  <2>6. ASSUME NEW o \in Ops, Closed(o) PROVE Stays
    BY <2>6 DEF Closed, ForgetConnection
  <2>7. ASSUME NEW p \in Procs, SetupConnect(p) PROVE Stays
    BY <2>7 DEF SetupConnect
  <2>8. ASSUME NEW p \in Procs, SetupDeclare(p) PROVE Stays
    BY <2>8 DEF SetupDeclare, SetupChannel, SetupEventExchange,
       SetupRpcExchange, SetupQueue, NextOnChannel, SetupRaises
  <2>9. ASSUME NEW p \in Procs, SetupDone(p) PROVE Stays
    BY <2>9 DEF SetupDone
  <2>10. ASSUME NEW p \in Procs, SetupFails(p) PROVE Stays
    BY <2>10 DEF SetupFails, SetupRaises
  <2>11. ASSUME NEW o \in Ops, Cancel(o) PROVE Stays
    BY <2>11 DEF Cancel
  <2>12. ASSUME NEW c \in Calls, WaitStep(c) PROVE Stays
    BY <2>12 DEF WaitStep, Answered, TimerFires, TimedOut, Timed
  <2>13. ASSUME NEW r \in requests, NEW b \in Replies, ServerReply(r, b) PROVE
     Stays
    BY <2>13 DEF ServerReply
  <2>14. ASSUME NEW r \in replies, OnResponse(r) PROVE Stays
    BY <2>14 DEF TypeBroker, OnResponse
  <2>15. ASSUME BeginShutdown \/ StopBegin \/ StopEnd PROVE Stays
    BY <2>15 DEF BeginShutdown, StopBegin, StopEnd, ResetOnStop
  <2>16. ASSUME NEW g \in Gens, ChannelLost(g) \/ ChannelRestored(g) PROVE
     Stays
    BY <2>16 DEF ChannelLost, ChannelRestored
  <2> QED
    BY <2>1, <2>2, <2>3, <2>4, <2>5, <2>6, <2>7, <2>8, <2>9, <2>10, <2>11,
       <2>12, <2>13, <2>14, <2>15, <2>16 DEF Next, SendStep, SetupStep
<1> QED
  BY <1>1, TypeCorrect, PTL DEF Spec, StaysRecoverable

\* A messenger that is down is never brought up again: neither an operation that
\* begins, nor one that retries or waits, nor a channel that comes back does it.
THEOREM DownStaysDown == Spec => DownIsFinal
<1> DEFINE Final == Down => Down' /\ gen' = gen
<1>1. TypeOK /\ [Next]_vars => [Final]_vars
  <2> SUFFICES ASSUME TypeOK, Next, Down PROVE Down' /\ gen' = gen
      OBVIOUS
  <2> USE ProcsAssumption DEF TypeOK, TypeControl, Ops, Procs, Down
  <2> USE DEF ReconnectStages, SetupStages, PublishStages
  <2>1. ASSUME NEW o \in Ops, Enter(o) PROVE Down' /\ gen' = gen
    BY <2>1 DEF Enter, MayReconnect, Finish, flags, broker
  <2>2. ASSUME NEW o \in Ops, BrokerAccept(o) PROVE Down' /\ gen' = gen
    BY <2>2 DEF BrokerAccept, flags
  <2>3. ASSUME NEW o \in Ops, Confirmed(o) PROVE Down' /\ gen' = gen
    BY <2>3 DEF Confirmed, Finish, flags, broker
  <2>4. ASSUME NEW o \in Ops, FirstPublishFails(o) PROVE Down' /\ gen' = gen
    BY <2>4 DEF FirstPublishFails, StartAttempt, Finish, flags, broker
  <2>5. ASSUME NEW o \in Ops, RetryFails(o) PROVE Down' /\ gen' = gen
    BY <2>5 DEF RetryFails, Finish, flags, broker
  <2>6. ASSUME NEW p \in Procs, Closed(p) \/ SetupStep(p) PROVE FALSE
    BY <2>6 DEF Closed, SetupStep, SetupConnect, SetupDeclare, SetupChannel,
       SetupEventExchange, SetupRpcExchange, SetupQueue, SetupDone, SetupFails
  <2>7. ASSUME NEW o \in Ops, Cancel(o) PROVE Down' /\ gen' = gen
    BY <2>7 DEF Cancel, Finish, broker
  <2>8. ASSUME NEW c \in Calls, WaitStep(c) PROVE Down' /\ gen' = gen
    BY <2>8 DEF WaitStep, Answered, TimerFires, TimedOut, Timed, Finish, flags,
       broker
  <2>9. ASSUME NEW r \in requests, NEW b \in Replies, ServerReply(r, b)
        PROVE  Down' /\ gen' = gen
    BY <2>9 DEF ServerReply, flags, control
  <2>10. ASSUME NEW r \in replies, OnResponse(r) PROVE Down' /\ gen' = gen
    BY <2>10 DEF OnResponse, flags, control
  <2>11. ASSUME BeginShutdown \/ StopBegin \/ StopEnd
         PROVE  Down' /\ gen' = gen
    BY <2>11 DEF BeginShutdown, StopBegin, StopEnd, ResetOnStop,
       CloseConnection, flags, broker
  <2>12. ASSUME NEW g \in Gens, ChannelLost(g) \/ ChannelRestored(g)
         PROVE  Down' /\ gen' = gen
    BY <2>12 DEF ChannelLost, ChannelRestored, flags, control
  <2> QED
    BY <2>1, <2>2, <2>3, <2>4, <2>5, <2>6, <2>7, <2>8, <2>9, <2>10, <2>11,
       <2>12 DEF Next, SendStep
<1> QED
  BY <1>1, TypeCorrect, PTL DEF Spec, DownIsFinal

-----------------------------------------------------------------------------
(* Connections and reply queues.                                           *)

\* Before stop() an open connection is self.connection, and a coroutine that is
\* about to connect has closed the one before.
LeakInv ==
    pc[Main] \notin {"stopping", "stopped"} =>
        /\ open \subseteq {connection}
        /\ \A p \in Procs : pc[p] \in {"closing", "connecting"} => open = {}

\* Between connection.close() and declare_queue() there is no callback queue; when
\* there is one it was made on the connection of the RPC exchange.
QueueInv ==
    /\ \A p \in Procs :
          /\ pc[p] \in SetupStages \ {"consuming"} => callback_queue = None
          /\ pc[p] = "queueing" => rpc_exchange = mine[p]
    /\ callback_queue # None => callback_queue = rpc_exchange
    /\ \A c \in Calls : attempt[c].replyTo = attempt[c].via
    /\ ReplyQueueIsOwn

\* reconnect() up to its first await closes the connection there is.
LEMMA BeginReconnectLeak ==
    ASSUME TypeOK, LeakInv, NEW o \in Ops, NEW ret \in {"ensure", "retry"},
           BeginReconnect(o, ret)
    PROVE  LeakInv'
<1> USE ProcsAssumption DEF Ops, Procs
<1>1. /\ \E s \in {"closing", "connecting"} : pc' = [pc EXCEPT ![o] = s]
      /\ pc'[Main] = pc[Main]
  BY DEF TypeOK, TypeControl, BeginReconnect
<1>2. ASSUME pc[Main] \notin {"stopping", "stopped"} PROVE open' = {}
  <2>1. open \subseteq {connection} /\ None \notin open
    BY <1>2 DEF LeakInv, TypeOK, TypeBroker, Gens, None
  <2>2. CASE connection # None
    BY <2>1, <2>2 DEF BeginReconnect, CloseConnection
  <2>3. CASE connection = None
    <3>1. open' = open
      BY <2>3 DEF BeginReconnect, broker
    <3>. QED  BY <2>1, <2>3, <3>1
  <2>. QED  BY <2>2, <2>3
<1>. QED  BY <1>1, <1>2 DEF LeakInv

\* Every step keeps it: only setup() opens a connection, and reconnect() closes the
\* old one first, alone behind its flag.
LEMMA NextLeakInv ==
    TypeOK /\ ReconnectInv /\ LeakInv /\ [Next]_vars => LeakInv'
<1> SUFFICES ASSUME TypeOK, ReconnectInv, LeakInv, [Next]_vars PROVE LeakInv'
    OBVIOUS
<1> USE StageFacts, ProcsAssumption, LinkFacts
    DEF TypeOK, TypeControl, TypeBroker, ReconnectInv, ReconnectExclusive, SetupFirst,
        Ops, Procs, Gens, None, links, flags, tables, control, broker
<1>1. ASSUME NEW o \in Ops, Enter(o) PROVE LeakInv'
  <2>1. CASE \E ret \in {"ensure", "retry"} : BeginReconnect(o, ret)
    BY <2>1, BeginReconnectLeak
  <2>2. CASE ~\E ret \in {"ensure", "retry"} : BeginReconnect(o, ret)
    <3>1. /\ UNCHANGED <<connection, open>>
          /\ \E s \in PublishStages \cup {"done"} : pc' = [pc EXCEPT ![o] = s]
      BY <1>1, <2>2 DEF Enter, MayReconnect, Body, StartAttempt, Finish
    <3> QED
      BY <3>1 DEF LeakInv
  <2> QED
    BY <2>1, <2>2
<1>2. ASSUME NEW o \in Ops, BrokerAccept(o) PROVE LeakInv'
  BY <1>2 DEF LeakInv, BrokerAccept
<1>3. ASSUME NEW o \in Ops, Confirmed(o) PROVE LeakInv'
  BY <1>3 DEF LeakInv, Confirmed, Finish
<1>4. ASSUME NEW o \in Ops, FirstPublishFails(o) PROVE LeakInv'
  <2>1. CASE \E ret \in {"ensure", "retry"} : BeginReconnect(o, ret)
    BY <2>1, BeginReconnectLeak
  <2>2. CASE ~\E ret \in {"ensure", "retry"} : BeginReconnect(o, ret)
    <3>1. /\ UNCHANGED <<connection, open>>
          /\ \E s \in PublishStages \cup {"done"} : pc' = [pc EXCEPT ![o] = s]
      BY <1>4, <2>2 DEF FirstPublishFails, StartAttempt, Finish
    <3> QED
      BY <3>1 DEF LeakInv
  <2> QED
    BY <2>1, <2>2
<1>5. ASSUME NEW o \in Ops, RetryFails(o) PROVE LeakInv'
  BY <1>5 DEF LeakInv, RetryFails, Finish
<1>6. ASSUME NEW o \in Ops, Closed(o) PROVE LeakInv'
  BY <1>6 DEF LeakInv, Closed, ForgetConnection
<1>7. ASSUME NEW p \in Procs, SetupConnect(p) PROVE LeakInv'
  <2>1. \A q \in Procs : pc'[q] = IF q = p THEN "opening" ELSE pc[q]
    BY <1>7 DEF SetupConnect
  <2>2. \A q \in Procs : q # p => pc[q] \notin {"closing", "connecting"}
    BY <1>7 DEF SetupConnect
  <2>3. /\ pc[Main] \notin {"stopping", "stopped"} => open = {}
        /\ open' = open \cup {connection'}
    BY <1>7 DEF LeakInv, SetupConnect
  <2>4. pc'[Main] \notin {"stopping", "stopped"} => pc[Main] \notin {"stopping", "stopped"}
    BY <1>7, <2>1 DEF SetupConnect
  <2> QED
    BY <2>1, <2>2, <2>3, <2>4 DEF LeakInv
<1>8. ASSUME NEW p \in Procs, SetupDeclare(p) PROVE LeakInv'
  BY <1>8 DEF LeakInv, SetupDeclare, SetupChannel, SetupEventExchange,
     SetupRpcExchange, SetupQueue, NextOnChannel, SetupRaises, Finish
<1>9. ASSUME NEW p \in Procs, SetupDone(p) PROVE LeakInv'
  BY <1>9 DEF LeakInv, SetupDone, Body, StartAttempt, Finish
<1>10. ASSUME NEW p \in Procs, SetupFails(p) PROVE LeakInv'
  BY <1>10 DEF LeakInv, SetupFails, SetupRaises, Finish
<1>11. ASSUME NEW o \in Ops, Cancel(o) PROVE LeakInv'
  BY <1>11 DEF LeakInv, Cancel, Finish
<1>12. ASSUME NEW c \in Calls, WaitStep(c) PROVE LeakInv'
  BY <1>12 DEF LeakInv, WaitStep, Answered, TimerFires, TimedOut, Timed,
     Finish
<1>13. ASSUME NEW r \in requests, NEW b \in Replies, ServerReply(r, b) PROVE LeakInv'
  BY <1>13 DEF LeakInv, ServerReply
<1>14. ASSUME NEW r \in replies, OnResponse(r) PROVE LeakInv'
  BY <1>14 DEF LeakInv, OnResponse
<1>15. ASSUME BeginShutdown \/ StopBegin \/ StopEnd PROVE LeakInv'
  BY <1>15 DEF LeakInv, BeginShutdown, StopBegin, StopEnd, ResetOnStop,
     CloseConnection
<1>16. ASSUME NEW g \in Gens, ChannelLost(g) \/ ChannelRestored(g) PROVE LeakInv'
  BY <1>16 DEF LeakInv, ChannelLost, ChannelRestored
<1>17. ASSUME UNCHANGED vars PROVE LeakInv'
  BY <1>17 DEF LeakInv, vars
<1> QED
  BY <1>1, <1>2, <1>3, <1>4, <1>5, <1>6, <1>7, <1>8, <1>9, <1>10, <1>11,
     <1>12, <1>13, <1>14, <1>15, <1>16, <1>17 DEF Next, SendStep, SetupStep

\* Every step keeps it: reconnect() drops the queue before the exchange is replaced,
\* and setup() makes the queue after it.
LEMMA NextQueueInv ==
    TypeOK /\ ReconnectInv /\ QueueInv /\ [Next]_vars => QueueInv'
<1> SUFFICES ASSUME TypeOK, ReconnectInv, QueueInv, [Next]_vars PROVE QueueInv'
    OBVIOUS
<1> USE StageFacts, ProcsAssumption, LinkFacts
    DEF TypeOK, TypeControl, TypeBroker, ReconnectInv, ReconnectExclusive, SetupFirst,
        Ops, Procs, None, NoAttempt, Attempts, links, flags, tables, control, broker
<1>1. ASSUME NEW o \in Ops, Enter(o) PROVE QueueInv'
  BY <1>1 DEF QueueInv, ReplyQueueIsOwn, Enter, MayReconnect, Body, StartAttempt, Finish,
     BeginReconnect, CloseConnection, ForgetConnection
<1>2. ASSUME NEW o \in Ops, BrokerAccept(o) PROVE QueueInv'
  BY <1>2 DEF QueueInv, ReplyQueueIsOwn, BrokerAccept
<1>3. ASSUME NEW o \in Ops, Confirmed(o) PROVE QueueInv'
  BY <1>3 DEF QueueInv, ReplyQueueIsOwn, Confirmed, Finish
<1>4. ASSUME NEW o \in Ops, FirstPublishFails(o) PROVE QueueInv'
  BY <1>4 DEF QueueInv, ReplyQueueIsOwn, FirstPublishFails, StartAttempt,
     Finish, BeginReconnect, CloseConnection, ForgetConnection
<1>5. ASSUME NEW o \in Ops, RetryFails(o) PROVE QueueInv'
  BY <1>5 DEF QueueInv, ReplyQueueIsOwn, RetryFails, Finish
<1>6. ASSUME NEW o \in Ops, Closed(o) PROVE QueueInv'
  BY <1>6 DEF QueueInv, ReplyQueueIsOwn, Closed, ForgetConnection
<1>7. ASSUME NEW p \in Procs, SetupConnect(p) PROVE QueueInv'
  BY <1>7 DEF QueueInv, ReplyQueueIsOwn, SetupConnect
<1>8. ASSUME NEW p \in Procs, SetupDeclare(p) PROVE QueueInv'
  BY <1>8 DEF QueueInv, ReplyQueueIsOwn, SetupDeclare, SetupChannel,
     SetupEventExchange, SetupRpcExchange, SetupQueue, NextOnChannel,
     SetupRaises, Finish
<1>9. ASSUME NEW p \in Procs, SetupDone(p) PROVE QueueInv'
  BY <1>9 DEF QueueInv, ReplyQueueIsOwn, SetupDone, Body, StartAttempt, Finish
<1>10. ASSUME NEW p \in Procs, SetupFails(p) PROVE QueueInv'
  BY <1>10 DEF QueueInv, ReplyQueueIsOwn, SetupFails, SetupRaises, Finish
<1>11. ASSUME NEW o \in Ops, Cancel(o) PROVE QueueInv'
  BY <1>11 DEF QueueInv, ReplyQueueIsOwn, Cancel, Finish
<1>12. ASSUME NEW c \in Calls, WaitStep(c) PROVE QueueInv'
  BY <1>12 DEF QueueInv, ReplyQueueIsOwn, WaitStep, Answered, TimerFires,
     TimedOut, Timed, Finish
<1>13. ASSUME NEW r \in requests, NEW b \in Replies, ServerReply(r, b) PROVE QueueInv'
  BY <1>13 DEF QueueInv, ReplyQueueIsOwn, ServerReply
<1>14. ASSUME NEW r \in replies, OnResponse(r) PROVE QueueInv'
  BY <1>14 DEF QueueInv, ReplyQueueIsOwn, OnResponse
<1>15. ASSUME BeginShutdown \/ StopBegin \/ StopEnd PROVE QueueInv'
  BY <1>15 DEF QueueInv, ReplyQueueIsOwn, BeginShutdown, StopBegin, StopEnd,
     ResetOnStop, CloseConnection
<1>16. ASSUME NEW g \in Gens, ChannelLost(g) \/ ChannelRestored(g) PROVE QueueInv'
  BY <1>16 DEF QueueInv, ReplyQueueIsOwn, ChannelLost, ChannelRestored
<1>17. ASSUME UNCHANGED vars PROVE QueueInv'
  BY <1>17 DEF QueueInv, ReplyQueueIsOwn, vars
<1> QED
  BY <1>1, <1>2, <1>3, <1>4, <1>5, <1>6, <1>7, <1>8, <1>9, <1>10, <1>11,
     <1>12, <1>13, <1>14, <1>15, <1>16, <1>17 DEF Next, SendStep, SetupStep

\* Until stop(), every open connection is the one the messenger holds, for any number
\* of operations, connections and failures.
THEOREM NoLeak == Spec => []NoConnectionLeak
<1>1. Init => ReconnectInv /\ LeakInv
  BY StageFacts, ProcsAssumption DEF Init, ReconnectInv, SetupFirst, ReconnectExclusive,
     LeakInv, Ops, Procs
<1>2. LeakInv => NoConnectionLeak
  BY DEF LeakInv, NoConnectionLeak
<1> QED
  BY <1>1, <1>2, NextReconnectInv, NextLeakInv, TypeCorrect, PTL DEF Spec

\* The reply queue of every request belongs to the connection the request went out
\* on, however calls and reconnects interleave.
THEOREM QueueIsOwn == Spec => []ReplyQueueIsOwn
<1>1. Init => ReconnectInv /\ QueueInv
  BY StageFacts, ProcsAssumption DEF Init, ReconnectInv, SetupFirst, ReconnectExclusive,
     QueueInv, ReplyQueueIsOwn, NoAttempt, None, Ops, Procs
<1>2. QueueInv => ReplyQueueIsOwn
  BY DEF QueueInv
<1> QED
  BY <1>1, <1>2, NextReconnectInv, NextQueueInv, TypeCorrect, PTL DEF Spec
=============================================================================
