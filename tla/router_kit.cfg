SPECIFICATION Spec
CONSTANTS
    k1 = k1
    k2 = k2
    c1 = c1
    c2 = c2
    Kits <- MCKits
    Calls <- MCCalls
    DefaultRouter = r1
    InputsAsked <- MCInputs
    r1 = r1
    r2 = r2
    alice = alice
    bob = bob
    usdc = usdc
    dai = dai
    none = none
    Routers <- MCRouters
    Accounts <- MCAccounts
    Tokens <- MCTokens
    PERMIT_SIG_DEADLINE = 1
    PERMIT_EXPIRATION = 2
    MaxUint160 = 2
    Granted <- MCGranted
    MaxTime = 2
SYMMETRY Alike
INVARIANTS
    TypeOK
    OneRouter
    FundsArrive
    GoodForADay
PROPERTIES
    AgentsKept
\* every call is made once, and time is bounded
CHECK_DEADLOCK FALSE
