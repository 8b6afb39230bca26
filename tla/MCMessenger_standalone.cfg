CONSTANTS
    Calls = {c1}
    Publishes = {p1}
    Main = main
    FailFast = TRUE
    Attached = FALSE
    Replies = {"success", "client_error", "server_error", "garbage"}
    MaxGen = 3
SPECIFICATION Spec
PROPERTIES DownIsFinal
CHECK_DEADLOCK FALSE
