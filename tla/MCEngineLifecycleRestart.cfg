SPECIFICATION Spec
CONSTANTS
  Clients = {c1}
  AutoStart = FALSE
  Rescans = {FALSE}
PROPERTY RestartWorks
