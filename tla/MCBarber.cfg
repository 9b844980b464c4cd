\* Three clients, two seats, one or two shaves each; the barber and one client may get SIGINT.
SPECIFICATION FairSpec
CONSTANTS
    a = a
    b = b
    c = c
    Clients = {a, b, c}
    Barber = Barber
    Nobody = Nobody
    Seats = 2
    Shaves <- MCShaves
    MaxQueued = 5
    MayStop = {a, Barber}
INVARIANTS
    NoInterruptedWait
    NoStaleMessage
    ShavesAreReal
    WaitingIsQueueLength
PROPERTIES
    ImplementsBarberShop
    EveryoneLeaves
CHECK_DEADLOCK FALSE
