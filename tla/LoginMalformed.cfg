CONSTANTS
    k1 = k1
    k2 = k2
    r1 = r1
    r2 = r2
    s1 = s1
    s2 = s2
    s3 = s3
    in = in
    out = out
    home = home
    away = away
    t1 = t1
    t2 = t2
    NoLogin = NoLogin
    Nobody = Nobody
    Elsewhere = Elsewhere
    Key <- OneKey
    Req <- TwoReq
    Login <- TwoLogins
    SessionToken <- MCToken
    Person = {in, out}
    Allowed = {in}
    Uri = {home}
    DefaultUri = home
    MaxSize = 2
    Faults = {"malformed"}
    BaseDelay = 1
    MaxDelay = 2
    FloatExponents = 2
SPECIFICATION LoginSpec
PROPERTY RefusedCallbackIs401
