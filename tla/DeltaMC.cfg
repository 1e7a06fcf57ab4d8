SPECIFICATION Spec
CONSTANTS
    fuel = fuel
    gear = gear
    Names = {fuel, gear}
    Values = {0, 1, 2, 4}
    Threshold <- MCThreshold
    None = None
    MaxQueue = 2
INVARIANTS
    TypeOK
    Faithful
    InStep
