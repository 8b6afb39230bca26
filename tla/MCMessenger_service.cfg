CONSTANTS
    Calls = {c1, c2}
    Publishes = {}
    Main = main
    FailFast = TRUE
    Attached = TRUE
    Replies = {"success"}
    MaxGen = 2
SPECIFICATION FairSpec
INVARIANTS ReconnectExclusive NoConnectionLeak ReplyQueueIsOwn TablesClean WaitingCallIsKnown
PROPERTIES StaysRecoverable SettledFutureIsFinal OperationsEnd
CHECK_DEADLOCK FALSE
