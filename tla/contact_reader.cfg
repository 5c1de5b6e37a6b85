SPECIFICATION ContactSpec
CONSTANTS
    Cards = {c1}
    NoCard = NoCard
    PinPads = {TRUE, FALSE}
    SeqMod = 2
    RxPackets = 2
    MaxFaults = 1
INVARIANT AnswersAreWhole
PROPERTIES HostIsAnswered
CHECK_DEADLOCK FALSE
