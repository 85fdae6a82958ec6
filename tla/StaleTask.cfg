SPECIFICATION Spec
CONSTANTS
    Name = {"idle", "app"}
    StateNames <- MCStateNames
    Value = {0, 1, 2}
    None = None
    DeviceStates <- MCDeviceStates
INVARIANTS
    OneOnlyInCurrentState
