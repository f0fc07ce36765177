SPECIFICATION LiveSpec
CONSTANTS
    d1 = d1
    d2 = d2
    a1 = a1
    null = null
    s1 = s1
    s2 = s2
    Dict <- MCDict
    Arr <- MCArr
    Static <- MCStatic
    Slot <- MCSlot
    NoVal = NoVal
    MaxOwn = 2
INVARIANTS TypeOK RefCountExact NoDangling DeletedOnce NoLeak
PROPERTY CallsReturn
