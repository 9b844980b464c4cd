\* Three clients compete for two slots; END at any moment, SIGINT to a client and to the
\* server, and a client that dies. Two messages fill the public queue.
SPECIFICATION MCFairSpec
CONSTANTS
    a = a
    b = b
    d = d
    Clients = {a, b, d}
    NoClient = NoClient
    MaxClients = 2
    MaxQueued = 2
    Lines = {"ASK", "END"}
    MaxLines <- MCMaxLines
    SigInt = {a, "server"}
    Mortal = {b}
INVARIANTS
    AnswerIsMine
    SlotsFitClients
PROPERTIES
    TurnedAwayOnlyIfFull
    StopMeansStop
    P_Answered
CHECK_DEADLOCK FALSE
