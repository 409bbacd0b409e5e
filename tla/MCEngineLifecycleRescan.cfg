SPECIFICATION Spec
CONSTANTS
  Clients = {c1}
  AutoStart = FALSE
  Rescans = {TRUE}
INVARIANT RescansWhileStarted
