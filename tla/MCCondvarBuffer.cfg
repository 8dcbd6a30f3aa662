CONSTANTS
    Producer = p
    Consumers = {c1, c2, c3}
    BUFSIZE = 2
    NItems = 5
SPECIFICATION Spec
INVARIANTS TypeOK ConsumedInOrder EndOfStream NoLostWakeup
PROPERTIES ImplementsQueue Termination
