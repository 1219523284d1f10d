----------------------------- MODULE ChainParams -----------------------------
(***************************************************************************)
(* The chain parameters (src/src/chainparams.cpp): one static object per   *)
(* network, built by a constructor that derives from another network's     *)
(* (CTestNetParams from CMainParams, CRegTestParams from CTestNetParams,    *)
(* CUnitTestParams from CMainParams), the pointer pCurrentParams that      *)
(* SelectParams sets, and the setters that ModifiableParams publishes for  *)
(* unit tests.  A constructor is its base's record with the fields it      *)
(* assigns replaced.  Hashes and keys are kept as their first eight hex    *)
(* digits: the genesis hash is the value each constructor asserts.         *)
(***************************************************************************)
EXTENDS Integers, TLC

CONSTANTS
    MAIN, TESTNET, REGTEST, UNITTEST,  \* CBaseChainParams::Network
    MAX_NETWORK_TYPES,                 \* NetworkIdFromCommandLine's "none"
    NoParams,                          \* pCurrentParams == 0
    Halvings,     \* arguments of setSubsidyHalvingInterval
    Majorities    \* arguments of the three majority setters

VARIABLES
    pCurrentParams,  \* the network whose object Params() returns
    params,          \* the static objects, by network
    result           \* what the last SelectParamsFromCommandLine returned

vars == <<pCurrentParams, params, result>>

Networks == {MAIN, TESTNET, REGTEST, UNITTEST}

\* mapCheckpoints / data (chainparams.cpp 72-90).
data ==
    [mapCheckpoints |->
        (10 :> "2b49c328" @@ 20 :> "ae0e6fbe" @@ 40 :> "a8f22114" @@
         80 :> "003d25bf" @@ 160 :> "47d16141" @@ 320 :> "11254a91" @@
         640 :> "033010a0" @@ 1280 :> "1052a2e9" @@ 2560 :> "0b988529" @@
         5120 :> "18ce8599"),
     nTimeLastCheckpoint |-> 1479008915,
     nTransactionsLastCheckpoint |-> 5120,
     fTransactionsPerDay |-> 100]

\* dataTestnet: uint256("0x") at height 0; the other members are
\* value-initialised (92-101).
dataTestnet ==
    [mapCheckpoints |-> (0 :> "00000000"), nTimeLastCheckpoint |-> 0,
     nTransactionsLastCheckpoint |-> 0, fTransactionsPerDay |-> 0]

\* dataRegtest (103-112).
dataRegtest ==
    [dataTestnet EXCEPT !.mapCheckpoints = (0 :> "00233f3b")]

\* CMainParams() and CMainParams::Checkpoints (114-226).
CMainParams ==
    [networkID |-> MAIN, strNetworkID |-> "main",
     pchMessageStart |-> <<\h5c, \h5f, \h30, \h3c>>, vAlertPubKey |-> "044e15b3",
     nDefaultPort |-> 20811, bnProofOfWorkLimitShift |-> 16,
     nSubsidyHalvingInterval |-> 84000,
     nEnforceBlockUpgradeMajority |-> 750,
     nRejectBlockOutdatedMajority |-> 950,
     nToCheckBlockUpgradeMajority |-> 1000,
     nMinerThreads |-> 0, nTargetTimespan |-> 3600, nTargetSpacing |-> 60,
     nMaxTipAge |-> 86400,
     genesis |-> [nTime |-> 0, nBits |-> \h1e5c303c, nNonce |-> 525359],
     hashGenesisBlock |-> "1761527f",
     vSeeds |-> {"www.xn--ss8hl1f.tk"},
     base58Prefixes |-> [PUBKEY_ADDRESS |-> <<12>>, SCRIPT_ADDRESS |-> <<5>>,
                         SECRET_KEY |-> <<175>>,
                         EXT_PUBLIC_KEY |-> <<\h44, \h13, \h82, \h40>>,
                         EXT_SECRET_KEY |-> <<\h44, \h13, \h17, \h45>>],
     fRequireRPCPassword |-> TRUE, fMiningRequiresPeers |-> FALSE,
     fAllowMinDifficultyBlocks |-> FALSE, fDefaultConsistencyChecks |-> FALSE,
     fRequireStandard |-> TRUE, fMineBlocksOnDemand |-> FALSE,
     fSkipProofOfWorkCheck |-> FALSE, fTestnetToBeDeprecatedFieldRPC |-> FALSE,
     nEnforceV2AfterHeight |-> 710000,
     checkpoints |-> data]

\* CTestNetParams() and its Checkpoints (232-323).
CTestNetParams ==
    [CMainParams EXCEPT
        !.networkID = TESTNET, !.strNetworkID = "test",
        !.pchMessageStart = <<\h5d, \h60, \h31, \h3d>>, !.vAlertPubKey = "04826bbc",
        !.nDefaultPort = 20911,
        !.nEnforceBlockUpgradeMajority = 51,
        !.nRejectBlockOutdatedMajority = 75,
        !.nToCheckBlockUpgradeMajority = 100,
        !.nMaxTipAge = \h7fffffff,
        !.genesis.nTime = 1476932364, !.genesis.nNonce = 61323,
        !.hashGenesisBlock = "14f3eadd", !.vSeeds = {},
        !.base58Prefixes = [PUBKEY_ADDRESS |-> <<21>>, SCRIPT_ADDRESS |-> <<39>>,
                            SECRET_KEY |-> <<52>>,
                            EXT_PUBLIC_KEY |-> <<\h33, \h27, \h74, \h05>>,
                            EXT_SECRET_KEY |-> <<\h33, \h10, \h94, \h50>>],
        !.fMiningRequiresPeers = TRUE, !.fAllowMinDifficultyBlocks = TRUE,
        !.fRequireStandard = FALSE, !.fTestnetToBeDeprecatedFieldRPC = TRUE,
        !.nEnforceV2AfterHeight = 400000,
        !.checkpoints = dataTestnet]

\* CRegTestParams without its pchMessageStart assignment.
CRegTestParams_NoMagic ==
    [CTestNetParams EXCEPT
        !.networkID = REGTEST, !.strNetworkID = "regtest",
        !.nDefaultPort = 21011]

\* CRegTestParams() and its Checkpoints (330-400).
CRegTestParams ==
    [CTestNetParams EXCEPT
        !.networkID = REGTEST, !.strNetworkID = "regtest",
        !.pchMessageStart = <<\h5b, \h5d, \h2a, \h3b>>,
        !.nSubsidyHalvingInterval = 150,
        !.nEnforceBlockUpgradeMajority = 750,
        !.nRejectBlockOutdatedMajority = 950,
        !.nToCheckBlockUpgradeMajority = 1000,
        !.nMinerThreads = 1, !.nTargetTimespan = 302400,
        !.nTargetSpacing = 150, !.bnProofOfWorkLimitShift = 1,
        !.nMaxTipAge = 86400,
        !.genesis.nTime = 1476933599, !.genesis.nBits = \h1f5f303d,
        !.genesis.nNonce = 150,
        !.hashGenesisBlock = "0aaae371", !.nDefaultPort = 21011,
        !.fRequireRPCPassword = FALSE, !.fMiningRequiresPeers = FALSE,
        !.fDefaultConsistencyChecks = TRUE, !.fMineBlocksOnDemand = TRUE,
        !.fTestnetToBeDeprecatedFieldRPC = FALSE,
        !.nEnforceV2AfterHeight = -1,
        !.checkpoints = dataRegtest]

\* CUnitTestParams(): MAIN's values, MAIN's checkpoints (406-430).
CUnitTestParams ==
    [CMainParams EXCEPT
        !.networkID = UNITTEST, !.strNetworkID = "unittest",
        !.nDefaultPort = 21111, !.vSeeds = {},
        !.fRequireRPCPassword = FALSE, !.fMiningRequiresPeers = FALSE,
        !.fDefaultConsistencyChecks = TRUE,
        !.fAllowMinDifficultyBlocks = FALSE, !.fMineBlocksOnDemand = TRUE,
        !.nEnforceV2AfterHeight = -1]

\* The static objects as the program's static initialisation leaves them.
Constructed ==
    (MAIN :> CMainParams @@ TESTNET :> CTestNetParams @@
     REGTEST :> CRegTestParams @@ UNITTEST :> CUnitTestParams)

\* Params(network): the switch over the networks; its default case is
\* assert(false), which no caller here reaches.
ParamsOf(network) == params[network]

\* Params(): assert(pCurrentParams), then *pCurrentParams.
Params == ParamsOf(pCurrentParams)

\* ModifiableParams(): the object its setters write, or NoParams when one
\* of its two asserts fails and the program aborts.
ModifiableParams ==
    IF pCurrentParams # NoParams /\ pCurrentParams = UNITTEST
    THEN UNITTEST ELSE NoParams

Init ==
    /\ pCurrentParams = NoParams
    /\ params = Constructed
    /\ result = NoParams

\* SelectParams(network): SelectBaseParams (not in the repository, it
\* keeps the base parameters in step), then pCurrentParams = &Params(network).
SelectParams(network) ==
    /\ pCurrentParams' = network
    /\ UNCHANGED <<params, result>>

\* SelectParamsFromCommandLine without the MAX_NETWORK_TYPES check.
SelectParamsFromCommandLine_NoMaxCheck ==
    \E network \in {MAIN, TESTNET, REGTEST, MAX_NETWORK_TYPES} :
        /\ pCurrentParams' = network
        /\ result' = TRUE
        /\ UNCHANGED params

\* SelectParamsFromCommandLine: NetworkIdFromCommandLine gives MAIN,
\* TESTNET, REGTEST, or MAX_NETWORK_TYPES for -testnet with -regtest; the
\* latter returns false and selects nothing.
SelectParamsFromCommandLine ==
    \E network \in {MAIN, TESTNET, REGTEST, MAX_NETWORK_TYPES} :
        IF network = MAX_NETWORK_TYPES
        THEN /\ result' = FALSE
             /\ UNCHANGED <<pCurrentParams, params>>
        ELSE /\ pCurrentParams' = network
             /\ result' = TRUE
             /\ UNCHANGED params

\* ModifiableParams()->setX(v): the setter assigns field of the object
\* ModifiableParams returns.
Set(field, v) ==
    /\ ModifiableParams # NoParams
    /\ params' = [params EXCEPT ![ModifiableParams][field] = v]
    /\ UNCHANGED <<pCurrentParams, result>>

setSubsidyHalvingInterval(v) == Set("nSubsidyHalvingInterval", v)
setEnforceBlockUpgradeMajority(v) == Set("nEnforceBlockUpgradeMajority", v)
setRejectBlockOutdatedMajority(v) == Set("nRejectBlockOutdatedMajority", v)
setToCheckBlockUpgradeMajority(v) == Set("nToCheckBlockUpgradeMajority", v)
setDefaultConsistencyChecks(b) == Set("fDefaultConsistencyChecks", b)
setAllowMinDifficultyBlocks(b) == Set("fAllowMinDifficultyBlocks", b)
setSkipProofOfWorkCheck(b) == Set("fSkipProofOfWorkCheck", b)

Next ==
    \/ \E n \in Networks : SelectParams(n)
    \/ SelectParamsFromCommandLine
    \/ \E v \in Halvings : setSubsidyHalvingInterval(v)
    \/ \E v \in Majorities :
          \/ setEnforceBlockUpgradeMajority(v)
          \/ setRejectBlockOutdatedMajority(v)
          \/ setToCheckBlockUpgradeMajority(v)
    \/ \E b \in BOOLEAN :
          \/ setDefaultConsistencyChecks(b)
          \/ setAllowMinDifficultyBlocks(b)
          \/ setSkipProofOfWorkCheck(b)

Spec == Init /\ [][Next]_vars

TypeOK ==
    /\ pCurrentParams \in Networks \cup {NoParams}
    /\ result \in BOOLEAN \cup {NoParams}
    /\ DOMAIN params = Networks
    /\ \A n \in Networks : params[n].networkID = n

\* Nodes of different networks do not accept each other's messages or
\* share a default port (pchMessageStart, nDefaultPort), and a main-net
\* address or key is never read as a test one (base58Prefixes); regtest
\* shares testnet's prefixes by design.
NetworksSeparated ==
    /\ \A m, n \in {MAIN, TESTNET, REGTEST} : m # n =>
          /\ ParamsOf(m).pchMessageStart # ParamsOf(n).pchMessageStart
          /\ ParamsOf(m).nDefaultPort # ParamsOf(n).nDefaultPort
    /\ \A n \in {TESTNET, REGTEST} :
          \A k \in DOMAIN ParamsOf(n).base58Prefixes :
              ParamsOf(n).base58Prefixes[k] # ParamsOf(MAIN).base58Prefixes[k]
================================================================================
