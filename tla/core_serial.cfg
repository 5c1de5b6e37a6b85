SPECIFICATION Spec
CONSTANTS
    Contact = FALSE
    PinPad = FALSE
    cardT0 = cardT0
    cardT1 = cardT1
    Cards <- MC_Cards
    CardProtocol <- MC_CardProtocol
    NoCard = NoCard
    Seqs = {1}
    HostSets = {hostSet}
    Default = Default
    NoParams = NoParams
    Unsettled = Unsettled
    MaxCount = 1
INVARIANTS TypeOK HandlerIsConsistent
PROPERTIES RemovalIsTold StaleSessionNoticed
