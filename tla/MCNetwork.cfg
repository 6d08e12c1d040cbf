CONSTANTS
    Peers = {"a", "b", "c"}
    Ip <- MCIp
    Port <- MCPort
    Nobody = Nobody
    Junk <- MCJunk
    MaxJunk = 1
    Asks <- MCThree
    Quitters = {"b"}
    MaxRegisters = 1
    MaxCrashes = 1
SPECIFICATION Spec
INVARIANTS TypeOK PortsValid NoDuplicates JoinedKnowEachOther
PROPERTIES TablesGrow RegisterReturns
CHECK_DEADLOCK FALSE
