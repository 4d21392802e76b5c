----------------------------- MODULE MCLogCapture -----------------------------
(* An instance of LogCapture. *)
EXTENDS LogCapture

Device(family, handle) == [family |-> family, handle |-> handle]
ThreeDevices == <<Device("expander", "sg"), Device("switch", "sdb"), Device("expander", "sdb")>>
=============================================================================
