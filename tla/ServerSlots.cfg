CONSTANTS
    a = a
    b = b
    drip = drip
    sweep = sweep
    nobody = nobody
    Conns = {a, b, drip}
    Drippers = {b, drip}
    Slots = 2
    Sweeper = sweep
    NoOne = nobody
SPECIFICATION Spec
INVARIANTS
    TypeOK
    SlotsConserved
PROPERTIES
    EveryReadEnds
    SlotsComeBack
    DeadlineOnlyWhileReading
    OneAtATime
