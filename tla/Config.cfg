SPECIFICATION ConfigSpec
CONSTANTS
    i1 = i1
    k1 = k1
    k2 = k2
    k3 = k3
    k4 = k4
    BadKey = BadKey
    Site = {i1}
    SecretKey = {k1, k2, k3, k4}
    Text <- MCText
    MaxOctet = 3
SYMMETRY KeySymmetry
INVARIANTS
    ConfigTypeOK
    RunsWithSavedKey
    OneIdentity
PROPERTIES
    KeyKept
