\* Two processes on one socket path, started three times, with a connection and a fault.
SPECIFICATION ControlSpec
CONSTANTS
    i1 = i1  i2 = i2  c1 = c1  c2 = c2
    Instances = {i1, i2}  Clients = {c1}
    QueueCapacity = 1  MaxStarts = 3  MaxFaults = 1
INVARIANTS ControlTypeOK ServerIsReachable
PROPERTIES StopTakesEffect ShutdownCompletes
CHECK_DEADLOCK FALSE
