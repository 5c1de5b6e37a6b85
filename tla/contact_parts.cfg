SPECIFICATION PartsSpec
CONSTANTS
    Digits = {"d1", "d2"}
    MinLens = {1}
    MaxLens = {2}
    Timeouts = {0, 1}
    TicksPerSecond = 2
    TickMod = 5
    MaxPass = 2
    UserLens = {1}
    AdminLens = {1}
    ApduRoom = 1
    Boards = {"uart", "bitbang"}
    NegotiateSpeed = FALSE
    ReinitThreshold = 3
    Room = 4
    GetResponseMax = 2
    MaxWaits = 1
    Bits = {"b5", "b6", "b7"}
    PpsMaxLen = 6
    CycleMod = 16
    CyclesPerMs = 3
    MaxGap = 6
    WatchdogTimeout = 7
    MaxCycles = 60
    Protocols = {0, 1}
    MaxLevels = 3
    Missing = {0, 1, 2, 4}
    Nibbles = {0, 7, 9}
    MaxAts = 4
    Numbers = {0, 1, 2, 3}
    Digit9 = {"d1", "d2"}
    BufferSize = 3
    AskedLens = {2, 4}
    CharBits = 2
    Etu = 4
    Late = {0, 1}
    Pauses = {45, 300, 5000}
    MaxStream = 3
    AtrMax = 2
    ResponseMax = 2
    DiagSize = 12
INVARIANTS PinAsConfirmed SessionsAgree WireIsTrue TimesAreTrue HostAndCardAreRead
PROPERTIES CardIsHealed
CHECK_DEADLOCK FALSE
