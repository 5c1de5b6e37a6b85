SPECIFICATION LinkSpec
CONSTANTS
    DefaultIfs = 1
    MaxIfs = 2
    MaxRelay = 4
    PieceSize = 1
    Apdus <- MC_Apdus
    Responses <- MC_Responses
    MaxApdu = 3
    MaxResponse = 3
    MaxLossy = 1
    IfsValues = {1, 2}
    MaxLosses = 2
INVARIANTS BlocksAgree
PROPERTIES ImplementsExchange
