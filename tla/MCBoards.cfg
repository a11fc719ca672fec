SPECIFICATION SchoolSpec
CONSTANTS
    a1 = a1
    a2 = a2
    b1 = b1
    ca = ca
    cb = cb
    t1 = t1
    k1 = k1
    k2 = k2
    x1 = x1
    x2 = x2
    m1 = m1
    m2 = m2
    Calls = {r1, r2}
    Students = {k1, k2}
    Managers = {h1}
    Teachers = {t1}
    Drivers = {v1}
    Sections = {a1, a2, b1}
    Classes = {ca, cb}
    ClassOf <- SchoolClasses
    Teaches <- Assignments
    Files = {f1, f2, f3}
    MaxImages = 2
    MaxMoves = 1
    Topics = {"notice", "class_announcement", "homework", "worksheet", "document", "event", "announcement", "remark", "attendance", "lesson"}
    Pupils = {x1, x2}
    Subjects = {m1, m2}
    Whole = Whole
    Marks = {0, 2}
    Maxima = {1, 2}
    Groups <- ExamGroups
    AB = AB
    Graded = Graded
    None = None
SYMMETRY Symmetry
CHECK_DEADLOCK FALSE
INVARIANTS
    TypesOK
    BoardsHold
    FilesAreKept
PROPERTIES
    MarksHold
