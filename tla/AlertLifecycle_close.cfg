SPECIFICATION FairSpec
CONSTANTS
  Rule = {r1}
  Console = {c1}
  Editor = {}
  Alert = {a1}
  None = None
  MaxFaults = 0
PROPERTY RecoveredAlertCloses
