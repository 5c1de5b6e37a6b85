SPECIFICATION ServeSpec
CONSTANTS
    Modulus = 14
    WindowOf <- MC_Window
    HostWindow <- MC_HostWindow
    PollInterval = 2
    HostClasses = {"GetSlotStatus", "XfrBlock", "Snapshot", "Baud"}
    MaxWork = 5
    MaxStalls = 1
    MaxRx = 2
    AgeCap = 5
    ReadTimeout = 1
    IdleClose = 2
INVARIANTS PanicForOwnCommand PresenceIsPolled WireOrder
PROPERTIES AnswersAreAwaited RateFollowsAck
VIEW Essential
CHECK_DEADLOCK FALSE
