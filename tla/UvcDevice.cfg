SPECIFICATION Spec
CONSTANTS
  Devs = {d1, d2}
  NoDevice = NoDevice
  OwnContexts = {TRUE, FALSE}
  FaultyDevs = {d1}
  MaxHeld = 2
INVARIANTS RefsExact HandlerWhileOpen StatusQuiet DriversBack
PROPERTY CloseReturns
