SPECIFICATION Spec
CONSTANTS
    Scale = 10
    Prices = {7, 20}
    Costs = {7, 13}
    MaxSpent = 21
    Primaries <- MCPrimaries
    Pool <- MCPool
    MaxFetched = 2
    HexAddresses = {"0x1", "0x2", "0x3"}
    Base58Addresses = {"b1"}
    Supports <- MCSupports
    Pinned = "any"
    OmitsChargeAmount = TRUE
INVARIANT
    AmountIsDecimal
\* A settled payment is the end.
CHECK_DEADLOCK FALSE
