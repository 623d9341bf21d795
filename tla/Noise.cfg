SPECIFICATION NoiseSpec
CONSTANTS
    Defaults <- MCDefaults
    Devices <- MCDevices
    GateErrors <- MCGateErrors
    ReadoutErrors <- MCReadoutErrors
    Connections <- MCConnections
    Qubits = {0}
    Eigensystems <- MCEigensystems
    Taken <- MCTaken
    MaxCalls = 2
CHECK_DEADLOCK FALSE
INVARIANTS
    ChannelsArePhysical
    PlacementNeverAborts
    SameChannel
PROPERTIES
    FilesMeanTheModel
    RoundTrip
