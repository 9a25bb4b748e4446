SPECIFICATION Spec
CONSTANTS
    Lower <- MCLower
    Calls = {c1, c2}
    Urls <- MCUrls
    NoUrl = NoUrl
    ProfileNames <- MCProfileNames
    Hints <- MCHints
    Setups <- MCSetups
    AppCookies <- MCAppCookies
    Responses <- MCResponses
    MaxRedirects = 1
    MaxStamp = 2
SYMMETRY MCSymmetry
INVARIANTS
    TypeOK
    HopCarriesCookies
    SuppliedWins
PROPERTIES
    JarIsAStore
