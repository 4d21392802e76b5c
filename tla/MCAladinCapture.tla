---------------------------- MODULE MCAladinCapture ----------------------------
(* Bounds of the runs of AladinCapture. *)
EXTENDS AladinCapture

Bound(calls, records, polls, faults, modules) ==
    [calls |-> calls, records |-> records, polls |-> polls, faults |-> faults, modules |-> modules]

(* Commands in a row; a command with an access that fails; a long capture; the
   configurations. *)
SmallLimits == {Bound(3, 3, 0, 0, {"phy"}), Bound(2, 3, 0, 1, {"tic"}), Bound(1, 4, 1, 1, {"sqm"}),
                Bound(1, 0, 0, 0, Named)}
=============================================================================
