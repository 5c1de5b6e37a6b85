SPECIFICATION LineSpec
CONSTANTS
    Byte = {0, 1, 2, 3}
    SYNC = 3
    CTRL_ACK = 2
    CTRL_NAK = 1
    NOTIFY = 0
    HeaderLen = 2
    LengthAt = 2
    MaxPayload = 1
    Xor <- MC_Xor
    HostCommands <- MC_HostCommands
INVARIANTS EchoIsTheFrame WholeFrameIsHeard
PROPERTY StalledFrameIsDropped
