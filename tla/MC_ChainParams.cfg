CONSTANTS
    MAIN = MAIN
    TESTNET = TESTNET
    REGTEST = REGTEST
    UNITTEST = UNITTEST
    MAX_NETWORK_TYPES = MAX_NETWORK_TYPES
    NoParams = NoParams
    Halvings <- MCHalvings
    Majorities <- MCMajorities
SPECIFICATION Spec
INVARIANTS
    TypeOK
    NetworksSeparated
