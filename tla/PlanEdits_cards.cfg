\* One or two plans, two cards, two requests at a time.
SPECIFICATION Spec
CONSTANTS
  dates = dates
  lesson = lesson
  t1 = t1
  t2 = t2
  schedule = schedule
  change = change
  note = note
  Content = {dates, lesson}
  Period = dates
  Placed = {lesson}
  Rows = {t1, t2}
  Edits = {schedule, change, note}
  Touches <- MC_Touches
  Schedules = {schedule}
  Note = note
  Typed = {typed}
  Origin = Origin
  Strands = {s1, s2}
  MaxPlans = 2
  MaxCards = 2
  MaxRequests = 5
  MaxFaults = 1
  MaxCrashes = 1
  None = None
SYMMETRY Symmetry
INVARIANTS TypeOK CardActsOnce  UndecidedSeen
PROPERTIES NoSilentOverwrite
CHECK_DEADLOCK FALSE
