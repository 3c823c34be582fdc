\* Two calls at a time over two days and a leave.
SPECIFICATION Spec
CONSTANTS
    p1 = p1
    p2 = p2
    l1 = l1
    None = None
    Invalid = Invalid
    Keep = Keep
    Ticks = 4
    Days = {1, 2}
    MonthEnds = {}
    Instants = {5, 6, 9}
    Shifts = {"day"}
    TimesOf <- Times1
    EmpShift = "day"
    Entries <- EntriesMixed
    BulkEntries <- BulkOnLeave
    Patches <- PatchesMixed
    Callers = {p1, p2}
    LeaveIds = {l1}
    WestOfUtc = FALSE
INVARIANTS AbsenceHasNoPunch LeaveIsKept
SYMMETRY Symmetry
