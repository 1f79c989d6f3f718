CONSTANTS
    k1 = k1
    k2 = k2
    r1 = r1
    r2 = r2
    t1 = t1
    t2 = t2
    Forged = Forged
    NoCookie = NoCookie
    Key <- MCKey
    Req <- MCReq
    SessionToken <- MCSessionToken
    BaseDelay = 1
    MaxDelay = 2
    FloatExponents = 2
    TokenMode = TRUE
SYMMETRY GateSymmetry
SPECIFICATION GateSpec
INVARIANTS GateTypeOK ExpiredCookieIsDead
PROPERTIES AccessNeedsProof OneLinePerRefusal AttemptsAreCounted WaitHoldsGuesses
