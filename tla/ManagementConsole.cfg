SPECIFICATION Spec
SYMMETRY Symmetry
CONSTANTS
  Request = {q1, q2}
  MaxEvents = 2
  MaxTools = 2
  MaxClicks = 2
  MaxActivity = 2
INVARIANTS StreamWhole  ShownTogether
PROPERTY RefreshShows
