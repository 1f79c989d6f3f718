CONSTANTS
    Unset = Unset
    NotUtf8 = NotUtf8
    Forger = Forger
    ann = ann
    bob = bob
    s1 = s1
    k1 = k1
    k2 = k2
    c1 = c1
    padded = padded
    blank = blank
    accent = accent
    wide = wide
    bytes = bytes
    g1 = g1
    g2 = g2
    g3 = g3
    Name = {ann, bob}
    Scope = {s1}
    Chosen = {c1}
    Generated = {g1, g2, g3}
    Trim <- MCTrim
    OutOfLatin1 = {}
    OutOfUtf8 = {}
    Environments <- Usual
    FirstFiles = {Unset}
    Consoles = {{}}
    ConsoleBreaks = FALSE
    Kid = {k1, k2}
    Leeway = 1
    MaxLife = 4
    AccessTokens = {}
    IdTokens = {}
    KeySets = {}
    ReadTime = 1
SPECIFICATION AdmissionSpec
INVARIANT GateIsOn
