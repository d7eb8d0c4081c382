SPECIFICATION Spec
CONSTANTS
    Readers = {r1, r2}
    Candles = {r2}
    Mutators = {m1, m2}
    ReadConcurrency = 1
    ReadAttempts = 2
    MaxSyncAttempts = 2
    Nobody = Nobody
PROPERTY
    OneReconnectPerDisconnect
