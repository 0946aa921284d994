SPECIFICATION GenSpec
CONSTANTS
    BadKey = BadKey
    Site <- MCSite
    SecretKey = {k1, k2, k3}
    MaxOctet = 2
    Sizes = {3}
INVARIANTS
    GeneratedIsUsable
