CONSTANTS
    seed1 = seed1
    seed2 = seed2
    body1 = body1
    body2 = body2
    defaultKey = defaultKey
    hexKey = hexKey
    OtherSecrets = {hexKey}
    MaxNew = 2
    IndexBase = 4
    Seeds = {seed1, seed2}
    Bodies = {body1, body2}
    DefaultSecret = defaultKey
    MaxCount = 5
    MaxRequest = 3

SPECIFICATION Spec
INVARIANT SignaturesAttributable
