CONSTANTS
    pPayerPh = pPayerPh
    pGuardianSetPh = pGuardianSetPh
    pShimPh = pShimPh
    pPayer = pPayer
    pGuardianSet = pGuardianSet
    pA = pA
    pB = pB
    Keys <- MCKeys
    PAYER_PH = pPayerPh
    GUARDIAN_SET_PH = pGuardianSetPh
    SHIM_VAA_SIGS_PH = pShimPh
    Payer = pPayer
    GuardianSet = pGuardianSet
    MaxIterationsBound = 4
    TxAccountLimit = 4
    Programs <- MCPrograms
    Faults <- MCFaults

SPECIFICATION Spec
INVARIANT TypeOK
INVARIANT AccumulatedIsRequestedPrefix
INVARIANT ResolutionOutcome
PROPERTY ImplementsAbstract
CHECK_DEADLOCK FALSE
