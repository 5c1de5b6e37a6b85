SPECIFICATION PlatformSpec
CONSTANTS
    Kinds = {"mfrc522", "pn532", "unavailable"}
    Coils = {"c1", "c2"}
    FrameWaits = {0, 4, 13, 14}
    ReinitThreshold = 3
    CardAbsentThreshold = 3
    InitAttempts = 5
    LadderAttempts = 5
    MaxClocks = 32
    HeldClocks = {0, 32, 33}
    MaxMisses = 2
    Firmware = {"old", "good", "dud", "torn"}
    Serving = {"old", "good"}
    Corrupt = {"torn"}
    ImageSize = 2
    PartitionSize = 3
    Sizes = {0, 1, 2, 3, 4}
    BuildToken = "token"
    MaxUpdates = 3
    MaxResets = 3
    CollectRounds = 6
    MaxFragments = 3
    MaxSegments = 3
    Capacity = 3
    MaxExchanges = 2
    MaxChurn = 1
    GrantFirst = TRUE
    Commands = {"select", "update", "data", "plain", "bare"}
    Payloads = {0, 20, 255}
    MaxData = 253
    CreditPolls = 2
    RxCapacity = 2
    MaxPieces = 3
    MaxCommands = 2
    MaxVisits = 2
    NtfSlots = 4
    WaitTicks = 2
    MaxFrames = 6
    MaxOps = 4
    WbufSize = 4
    WriteSizes = {1, 3, 5}
    Addresses = {40, 41}
    SeqValues = 2
    MaxExtensions = 2
    BoardExtends = 1
    PowerOffShim = FALSE
    MaxCalls = 2
    MaxConns = 3
    Centrals = {"a", "b"}
    QueueCapacity = 1
    LineLen = 40
    Mtus = {247}
    MaxLines = 2
    MaxLinks = 2
    MaxEvents = 1
    MaxRefused = 1
INVARIANTS
    RadioIsSound
    EndsAreSound
PROPERTIES
    PartsRecover
    SafeButForEarlyProof
    StashIsQueue
CHECK_DEADLOCK FALSE
