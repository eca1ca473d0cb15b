SPECIFICATION Spec
CONSTANTS
  app = app
  lib = lib
  rt = rt
  f = f
  g = g
  h = h
  enter = enter
  exit = exit
  clock = clock
  NoUnit = NoUnit
  Units <- MCUnits
  Functions <- MCFunctions
  UnitOf <- MCUnitOf
  Named <- MCNamed
  Declarable <- MCDeclarable
  Sites <- MCSites
  Enter = enter
  Exit = exit
  MaxRuns = 3
  MaxDepth = 4
  MaxLost = 1
INVARIANTS TypeOK ProfiledOnce ProfilerIsNotReentered EventsMatchCalls
CHECK_DEADLOCK FALSE
