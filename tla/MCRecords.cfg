SPECIFICATION Spec
CONSTANTS
    m1 = m1
    m2 = m2
    f1 = f1
    Journals = {j1, j2}
    JournalSizes = {1, 2}
    MaxRecords = 1
    Deadlines = {3}
    LastDay = 3
    Window = 1
    ConfigFields = {aims, rules}
    MaxVersion = 3
    MaxFeedback = 2
    Owners = {1, 2}
    Owner <- OwnerOf
    Manuscripts = {m1, m2}
    Attachments = {f1}
    FileSizes = {1, 2}
    AuthorLimit = 3
    TotalLimit = 4
    MaxPasswords = 3
    LastSecond = 2
    SessionSeconds = 1
    Callers = {c1, c2}
    MaxCalls = 3
    MaxCost = 2
    DayLimit = 2
    MonthLimit = 3
    DaysInMonth = 2
    LastBudgetDay = 3
    Venues = {v1, v2}
    Authors = {a1}
    ShortlistSize = 1
    MaxText = 2
    MaxTime = 2
    Uploads = {c1, c2}
    MaxBackups = 2
    MaxRestores = 1
    Requests = {c1, c2}
CHECK_DEADLOCK FALSE
SYMMETRY Symmetry
INVARIANTS
    TypeOK
    CheckedCallsAreFresh
    OneActiveConfig
    PassedByAtMostAFile
    UnderCeilings
    SemanticNotOlder
PROPERTIES
    NothingLostOfTheCatalogue
    ChangesLast
    NothingDestroyed
