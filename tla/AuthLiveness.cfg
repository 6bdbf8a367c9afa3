CONSTANTS
    User = {u1}
    Token = {t1, t2}
    Request = {r1, r2}
    MaxRole = 0
    MaxExpired = 1
    NoToken = NoToken
    NoJwt = NoJwt
    NoUser = NoUser
SPECIFICATION FairSpec
PROPERTY
    BarringTakesEffect
