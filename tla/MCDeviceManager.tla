--------------------------- MODULE MCDeviceManager ---------------------------
(* Small instances of DeviceManager: enclosures that agree in some parts of  *)
(* their identity, and the bounds of the runs.                               *)
EXTENDS DeviceManager

Enclosure(f, s, a) == [family |-> f, sas |-> s, adapter |-> a]

(* Every two of them agree in all but one part of their identity. *)
SomeEnclosures == {Enclosure("expander", 1, 1), Enclosure("expander", 1, 2), Enclosure("switch", 1, 1)}

Bounds(discover, call, move, fail, file) ==
    [discover |-> discover, call |-> call, move |-> move, fail |-> fail, file |-> file]

(* A scan that an enclosure's move or a failure disturbs; commands that use up
   their attempts; two discoveries, a call and a file of the application. *)
Scan     == Bounds(1, 0, 1, 1, 0)
Retry    == Bounds(1, 1, 0, 4, 0)
Again    == Bounds(2, 1, 0, 0, 1)
Replaced == Bounds(1, 1, 1, 0, 1)

SomeLimits == {Scan, Retry, Again, Replaced}
=============================================================================
