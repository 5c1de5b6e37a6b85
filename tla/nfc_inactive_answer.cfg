SPECIFICATION NfcSpec
CONSTANTS
    Contact = FALSE
    PinPad = FALSE
    cardA = cardA
    cardB = cardB
    Cards <- MC_Cards
    CardProtocol <- MC_CardProtocol
    NoCard = NoCard
    Seqs = {1}
    HostSets = {hostSet}
    Default = Default
    NoParams = NoParams
    Unsettled = Unsettled
    MaxCount = 0
    DefaultIfs = 1
    MaxIfs = 2
    MaxRelay = 2
    HostIfsd <- MC_HostIfsd
    AnswerSizes = {2}
    HostBlocks <- MC_HostBlocks
    BaudEscape = TRUE
    Bauds = {fast}
    NoBaud = NoBaud
    Reader = Reader
PROPERTIES AnswersNeedActiveCard
