---------------------------- MODULE MCLaneMargin ----------------------------
(* Lane margining with the requests of the test program, the lanes from 0 on,
   one more of them than the link is wide, and with a bitmap that leaves out a lane
   below another one. *)
EXTENDS LaneMargin

Bitmaps       == {{0}, {0, 1, 2}, {1}}
WithGaps      == {{1}}
SomeAbilities == [l \in 0..1 |-> IF l = 0 THEN {"leftRight"} ELSE {"voltage"}]
Unmargined    == {[aspm |-> 1, speed |-> 0, width |-> 0]}

=============================================================================
