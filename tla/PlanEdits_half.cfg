\* One request at a time: a schedule that fails half way, and the undoing of it.
SPECIFICATION Spec
CONSTANTS
  dates = dates
  lesson = lesson
  t1 = t1
  t2 = t2
  schedule = schedule
  change = change
  note = note
  Content = {dates, lesson}
  Period = dates
  Placed = {lesson}
  Rows = {t1, t2}
  Edits = {schedule, change, note}
  Touches <- MC_Touches
  Schedules = {schedule}
  Note = note
  Typed = {typed}
  Origin = Origin
  Strands = {s1}
  MaxPlans = 2
  MaxCards = 2
  MaxRequests = 5
  MaxFaults = 1
  MaxCrashes = 0
  None = None
INVARIANT WholeOrNothing
CHECK_DEADLOCK FALSE
