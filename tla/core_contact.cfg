SPECIFICATION Spec
CONSTANTS
    Contact = TRUE
    PinPad = TRUE
    cardT0 = cardT0
    cardT1 = cardT1
    Cards <- MC_Cards
    CardProtocol <- MC_CardProtocol
    NoCard = NoCard
    Seqs = {1}
    HostSets = {hostSet}
    Default = Default
    NoParams = NoParams
    Unsettled = Unsettled
    MaxCount = 1
INVARIANTS ContactIsConsistent
PROPERTIES RemovalIsFinal
