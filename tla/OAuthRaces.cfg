CONSTANTS
    User = {u1, u2}
    Provider = {google, yandex}
    Account = {a1}
    Identity = {i1, i2}
    Request = {r1, r2}
    Cached = TRUE
    NoIdentity = NoIdentity
    NoUser = NoUser
    NoProvider = NoProvider
    NoAccount = NoAccount
SYMMETRY Symmetry
CONSTRAINT OneCached
SPECIFICATION Spec
INVARIANTS
    TypeOK
    OneOwnerUnlessMishap
    LastMethodUnlessMishap
    WelcomedOnce
PROPERTY
    LaterLinkSurvives
