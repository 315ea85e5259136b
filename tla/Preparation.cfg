SPECIFICATION Spec
CONSTANTS
    None = None
    NotObject = NotObject
    Malformed = "malformed"
    Blank = "blank"
    BadUrl = "bad"
    DefaultDir = "home"
    DefaultAuthUrl = "auth"
    Relative = {"relative"}
    Scale <- MCScale
    MaxAmount = 60
    MaxUnits = 400
    MaxProduct = 8388607
    PriceDigits = 2
    MsatsPerBtc = 1000
    CentsPerUsd = 10
    Days = 3
    Bars = 4
    MsatsPerUnit <- MCMsatsPerUnit
    MaxMsats = 200000
    Commands <- MCCommands
    Listings <- MCListings
    WalletListings <- MCWalletListings
    Currencies = {"btc", "usd", None}
INVARIANTS
    ScopeIsRight
    RequestIsRight
    
