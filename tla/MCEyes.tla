------------------------------- MODULE MCEyes -------------------------------
(* The two eye commands of the test program.  Either sets up the registers of a
   lane that it needs before it uses them, and what a command of one kind leaves
   there for one of the other is not modelled: a behaviour has commands of one kind. *)
EXTENDS SoftwareEye, HardwareEye

SoftwareEyes == command = 0 /\ Next /\ UNCHANGED hwEyeVars
HardwareEyes == left.calls = MaxCalls /\ HwEyeNext /\ UNCHANGED vars

EyesInit == Init /\ HwEyeInit
EyesNext == SoftwareEyes \/ HardwareEyes
EyesSpec == EyesInit /\ [][EyesNext]_<<vars, hwEyeVars>>

=============================================================================
