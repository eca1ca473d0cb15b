---------------------------- MODULE MCPProfiler ----------------------------
EXTENDS PProfiler

CONSTANTS app, lib, rt,        \* units: two of the program's, the runtime's
          f, g, h, enter, exit, clock

MCUnits == {app, lib, rt}
MCFunctions == {f, g, h, enter, exit, clock}
MCUnitOf == [x \in MCFunctions |-> CASE x \in {f, g} -> app
                                     [] x = h -> lib
                                     [] OTHER -> rt]
(* g stands for a function that has lost its name.                         *)
MCNamed == MCFunctions \ {g}
MCDeclarable == {enter, f}
MCSites == {1, 2}
=============================================================================
