CONSTANTS
    Services = {s1, s2}
    Commands <- MCCommands
    Configs <- MCConfigs
    Nobody = Nobody
    Nameless = Nameless
SPECIFICATION Spec
INVARIANTS
    AllOrNothing
    ModesAgree
    HealthReachesService
CHECK_DEADLOCK FALSE
