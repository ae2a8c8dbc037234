CONSTANTS
    Launchers = {l1, l2}
    Pythons <- MCPythons
    MaxFaults = 2
    MaxKills = 2
    MaxSignals = 2
SPECIFICATION Spec
CHECK_DEADLOCK FALSE
INVARIANTS ServerHasItsRuntime CacheIsRepaired ServerHasLauncher
PROPERTIES SignalEndsLauncher
