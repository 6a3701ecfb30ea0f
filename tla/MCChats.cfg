CONSTANTS
    u1 = u1
    u2 = u2
    u3 = u3
    Users = {u1, u2, u3}
    Owner = u1
    Refusing = {u3}
    AdminLists <- MCAdminLists
    MaxMembers = 3
    MaxMessages = 2
    MaxEdits = 2
    Asks = {a1, a2}
    Requests = {r1, r2}
    Nobody = Nobody
    Unchanged = Unchanged
SPECIFICATION Spec
INVARIANTS AdminsAreMembers PreviewFollows DeletedNotQuoted ApprovedByCallCreator
PROPERTY EditsAuthorised
CONSTRAINT OneConcern
SYMMETRY Symmetry
CHECK_DEADLOCK FALSE
