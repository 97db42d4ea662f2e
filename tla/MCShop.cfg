SPECIFICATION ShopSpec
CONSTANTS
    Hunters = {h1, h2}
    UsdTokens = {usd1}
    Funds = 2
    KeyPrices <- PriceLists
    StonePrices = {1}
    PriceModes = {"MATIC", "USD"}
    PauseStates = {FALSE}
    StoneStates = {TRUE, FALSE}
    KeyRanks = {0, 1}
    MaxKeys = 2
    MaxBatch = 2
    MaxStones = 1
SYMMETRY HunterSymmetry
PROPERTIES
    KeysSoldAtListPrice
