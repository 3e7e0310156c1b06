\* Two pairs, overlapping ticks, the button and the watcher; the client waits when
\* the user has done all their acts and the timer is off.
SPECIFICATION Spec
CONSTANTS
  Pairs = {docs, photos}
  Callers = {tick, button}
  Button = button
  None = None
  Directions = {"download", "both"}
  MaxActs = 2
  MaxFaults = 1
INVARIANTS TypeOK Attended
PROPERTIES EventuallySynced CallsEnd
CHECK_DEADLOCK FALSE
