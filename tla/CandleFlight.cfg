SPECIFICATION FlightFairSpec
CONSTANTS
    Requests = {q1, q2, q3}
    Flights = {f1, f2, f3}
    CandleAttempts = 3
    MaxOrphans = 2
    None = None
INVARIANTS
    SingleFlight
    NobodyStranded
PROPERTIES
    Answered
