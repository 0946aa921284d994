SPECIFICATION GenSpec
CONSTANTS
    BadKey = BadKey
    Site <- MCSite
    SecretKey = {k1, k2, k3, k4, k5, k6}
    MaxOctet = 3
    Sizes = {1, 2, 3}
SYMMETRY KeySymmetry
INVARIANTS
    ReadyIsMesh
    KeysFirst
