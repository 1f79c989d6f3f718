CONSTANTS
    Unset = Unset
    NotUtf8 = NotUtf8
    Forger = Forger
    ann = ann
    bob = bob
    s1 = s1
    k1 = k1
    k2 = k2
    c1 = c1
    padded = padded
    blank = blank
    accent = accent
    wide = wide
    bytes = bytes
    g1 = g1
    g2 = g2
    g3 = g3
    Name = {ann, bob}
    Scope = {s1}
    Chosen = {c1, padded, blank, accent, wide, bytes}
    Generated = {g1, g2, g3}
    Trim <- MCTrim
    OutOfLatin1 = {wide, bytes}
    OutOfUtf8 = {bytes}
    Environments <- Usual
    FirstFiles = {Unset, NotUtf8}
    Consoles <- MCConsoles
    ConsoleBreaks = TRUE
    Kid = {k1, k2}
    Leeway = 1
    MaxLife = 4
    AccessTokens <- MCAccessTokens
    IdTokens <- MCIdTokens
    KeySets <- MCKeySets
    ReadTime = 1
SPECIFICATION AdmissionSpec
INVARIANTS AdmissionTypeOK OnlyUnusableValuesOpen OnlyTheNamedGetIn NamedGetIn AccessIsForUs IdTokenIsNoAccessToken
PROPERTY CredentialKept
