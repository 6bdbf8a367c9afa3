CONSTANTS
    Link = {l1}
    Visit = {v1}
    Email = {e1, e2}
    Origin = {o1, o2}
    NoLink = NoLink
    NoOrigin = NoOrigin
SYMMETRY Symmetry
SPECIFICATION Spec
INVARIANT
    ValidLinkGeneratesTokens
CHECK_DEADLOCK FALSE
