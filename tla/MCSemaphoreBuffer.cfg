CONSTANTS
    Producers = {p1, p2}
    Consumers = {c1, c2}
    BUFSIZE = 2
    Rounds = 3
SPECIFICATION Spec
INVARIANTS TypeOK SlotsConserved TotalsAtExit
PROPERTIES ImplementsQueue Termination
