CONSTANTS
    User = {u1}
    Token = {t1, t2, t3}
    Request = {r1, r2}
    MaxRole = 1
    MaxExpired = 0
    NoToken = NoToken
    NoJwt = NoJwt
    NoUser = NoUser
SYMMETRY Symmetry
SPECIFICATION Spec
INVARIANTS
    TypeOK
    SuccessorMeansRevoked
    OneLiveTokenPerLinearSession
    RoleLag
PROPERTIES
    BarredStaysOut
    BlockKeepsSessions
    RevokedStaysDead
    ImplementsLedger
