CONSTANTS
    safe = safe
    plain = plain
    Tab = {safe, plain}
    Scheme <- MixedSchemes
    Lanes <- MCLanes
    MaxLogins = 2
SPECIFICATION BrowserSpec
INVARIANTS BrowserTypeOK RejectedCookieIsGone HttpsCookieStaysOnHttps
PROPERTIES LiveCookieIsKept LoginsAreStored LostTabLeaves
