CONSTANTS
    Link = {l1, l2}
    Visit = {v1, v2, v3}
    Email = {e1, e2}
    Origin = {o1, o2}
    NoLink = NoLink
    NoOrigin = NoOrigin
SYMMETRY Symmetry
SPECIFICATION Spec
INVARIANTS
    TypeOK
    RefusalKeepsLink
    MailedLinkWorks
PROPERTY
    SpentForGood
CHECK_DEADLOCK FALSE
