SPECIFICATION SchoolSpec
CONSTANTS
    Parts = {"substitutions", "membership"}
    Calls = {r1, r2}
    i1 = i1
    i2 = i2
    l1 = l1
    l2 = l2
    t1 = t1
    t2 = t2
    k1 = k1
    v1 = v1
    h1 = h1
    h2 = h2
    c1 = c1
    a1 = a1
    b1 = b1
    SubIds = {i1, i2}
    LeaveIds = {l1, l2}
    Users = {1, 2, 3, 4, 5}
    Departing = {1, 3}
    Schools <- All
    Teachers = {t1, t2}
    Students = {k1}
    Drivers = {v1}
    Principals = {h1, h2}
    Sections = {a1, b1}
    Classes = {c1}
    ClassOf <- OneClass
    Roles = {"class_teacher", "subject_teacher"}
    Groups <- FourGroups
    None = None
SYMMETRY Symmetry
CHECK_DEADLOCK FALSE
INVARIANTS
    TypesOK
    ChecksStayTrue
PROPERTIES
    AnswersStand
    ClosingTakesAll
    PlacesHold
