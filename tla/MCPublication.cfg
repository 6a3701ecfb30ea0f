CONSTANTS
    Users = {u1, u2}
    Author = u1
    Comments = {c1, c2, c3}
    Images = {i1, i2}
    Requests = {r1, r2}
    CommentLimit = 2
    NoComment = NoComment
SPECIFICATION Spec
INVARIANTS EngagementCounted CommentsCounted LiveImagesKept
PROPERTY DeletedStaysDeleted
CHECK_DEADLOCK FALSE
CONSTRAINT OneConcern
SYMMETRY Symmetry
