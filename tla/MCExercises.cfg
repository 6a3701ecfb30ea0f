CONSTANTS
    d1 = d1
    d2 = d2
    l1 = l1
    l2 = l2
    a1 = a1
    u1 = u1
    u2 = u2
    Docs = {d1, d2}
    Links = {l1, l2}
    NoLink = NoLink
    Results = {a1}
    Users = {u1, u2}
    Scores = {1, 2}
    Times = {1, 2}
    MaxDocs = 1
    MaxLinks = 1
    MaxEdition = 2
    Requests = {r1, r2}
SPECIFICATION Spec
INVARIANT NothingLeft
PROPERTY RankNeverFalls
CONSTRAINT OneConcern
SYMMETRY Symmetry
CHECK_DEADLOCK FALSE
