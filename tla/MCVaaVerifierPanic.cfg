CONSTANTS
    payer = payer
    gsAcc = gsAcc
    sigsA = sigsA
    sigsB = sigsB
    shim = shim
    other = other
    ByteBase = 2
    Keys <- MCKeys
    SHIM_ID = shim
    VaaVersion = 1
    VaaHeaderLen = 1
    BodyMinLen = 1
    GuardianSetAccount = gsAcc
    GuardianSetBump = 1
    Posted <- MCPosted
    AccountLists <- MCAccountLists
    MaxDataLen = 8
    Vaas <- MCVaas

SPECIFICATION Spec
INVARIANT MalformedRejected
CHECK_DEADLOCK FALSE
