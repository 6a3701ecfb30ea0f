CONSTANTS
    u1 = u1
    u2 = u2
    u3 = u3
    Users = {u1, u2, u3}
    Creator = u1
    Slugs = {s1, s2}
    NoSlug = NoSlug
    MaxEdition = 2
    MaxReviews = 3
    Requests = {r1, r2}
SPECIFICATION CardsSpec
INVARIANT NothingLearnedLeft
PROPERTY MembershipOwn
CONSTRAINT OneConcern
SYMMETRY Symmetry
CHECK_DEADLOCK FALSE
