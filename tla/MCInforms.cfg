CONSTANTS
    Peers = {"a", "b", "c"}
    Ip <- MCIp
    Port <- MCPort
    Nobody = Nobody
    Junk <- MCJunk
    MaxJunk = 1
    Asks <- MCOnto
    Quitters = {"b"}
    MaxRegisters = 1
    MaxCrashes = 0
SPECIFICATION Spec
PROPERTIES InformsTakenUp
CHECK_DEADLOCK FALSE
