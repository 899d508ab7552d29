CONSTANTS
    m1 = m1
    m2 = m2
    m3 = m3
    u1 = u1
    u2 = u2
    NoAuthor = NoAuthor
    Message = {m1, m2, m3}
    Author <- OtherLink
    Linked = {m1, m2}
    PageLimit = 2
    MaxLikes = 1
    MaxDislikes = 0
    MaxFaults = 1
SPECIFICATION Spec
INVARIANTS TypeOK RatingIsCurrent
PROPERTY FetchIsComplete
CHECK_DEADLOCK FALSE
