SPECIFICATION Spec
CONSTANTS
  Rule = {r1}
  Console = {c1}
  Editor = {e1}
  Alert = {a1, a2}
  None = None
  MaxFaults = 0
INVARIANT NewAlertsAreMailed
