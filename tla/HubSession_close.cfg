\* A read under the wait_for of the engine, and a change.
CONSTANTS
    r1 = r1
    w = w
    boot = boot
    Reads = {r1}
    Changes = {w}
    Impatient = {r1}
    Connector = boot
    Attempts = 2
    MaxSockets = 3
    MaxStops = 1
    MaxConnects = 2
SPECIFICATION Spec
PROPERTY NoReattachAfterClose
CHECK_DEADLOCK FALSE
