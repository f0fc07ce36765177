SPECIFICATION LiveSpec
CHECK_DEADLOCK FALSE
CONSTANTS
    t1 = t1
    t2 = t2
    t3 = t3
    Thread <- MCThread
    Bits = 2
    Factor = 3
INVARIANT OneSeed
PROPERTY CallsReturn
