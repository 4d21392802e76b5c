---------------------------- MODULE DeviceManager ----------------------------
(***************************************************************************)
(* The life of the library and of its device list (libinternal.c,          *)
(* libdevmgr.c, scrutinylib.c) with the SCSI generic devices on it         *)
(* (sglinux.c): initialisation, discovery, product handles, pass-through   *)
(* commands, exit.                                                         *)
(*                                                                         *)
(* A scanned node is opened once to look at it.  Every pass-through opens  *)
(* it again, puts the new descriptor over the old one in the device record *)
(* and closes it.  Enclosures come and go behind the nodes, two nodes may  *)
(* lead to one enclosure, and a command may fail.  The several reads of a  *)
(* qualification stage (signatures, the halves of the address) are one     *)
(* pass-through, and the reads after it, which change nothing here, are    *)
(* left out.  The PCI scan and the SDB connection add one device at most.  *)
(***************************************************************************)
EXTENDS Integers, Sequences, FiniteSets

CONSTANTS Nodes,        \* /dev/sg nodes
          Enclosures,   \* what can be behind a node: [family, sas, adapter]
          MaxFd,        \* descriptor numbers 1..MaxFd
          Limits        \* the bounds of the model, one of which a behaviour has:
                        \* how many discoveries, calls, moves, failures and
                        \* files of the application there are

Limited == {"discover", "call", "move", "fail", "file"}

ASSUME ManagerAssumption ==
    /\ IsFiniteSet(Nodes) /\ MaxFd \in Nat \ {0}
    /\ Enclosures \subseteq [family : {"expander", "switch"}, sas : Nat \ {0}, adapter : Nat]
    /\ \A limit \in Limits : limit \in [Limited -> Nat]

VARIABLES
    lib,        \* gPtrScrutinyDeviceManager: "null" or "ready"
    list,       \* PtrDeviceList, DeviceCount long
    params,     \* PtrDiscoveryParams: "null" or "port"
    filter,     \* the filter of the last discovery
    app,        \* where the application thread is
    toScan,     \* directory entries not yet read
    record,     \* the device record being qualified
    handle,     \* handle of sgLinuxCheckDevice
    io,         \* the pass-through in progress
    held,       \* what ScrutinyGetDeviceInfo last told the application
    fdTable,    \* what each descriptor number refers to
    behind,     \* the enclosure behind each node, or None
    added,      \* history: SCSI devices ever added to the list
    clean,      \* history: an in-band scan is not disturbed by anything
    left        \* what is left of the bounds

libVars  == <<lib, list, params, filter>>
scanVars == <<toScan, record, handle>>
vars     == <<libVars, app, scanVars, io, held, fdTable, behind, added, clean, left>>

Invalid == -1
None    == [family |-> "none", sas |-> 0, adapter |-> 0]
NoNode  == "none"

Free     == [kind |-> "free", node |-> NoNode]
Sg(n)    == [kind |-> "sg", node |-> n]
Driver   == [kind |-> "driver", node |-> NoNode]
AppFile  == [kind |-> "file", node |-> NoNode]

Fds     == 1..MaxFd
FreeFds == {f \in Fds : fdTable[f] = Free}
Lowest  == CHOOSE f \in FreeFds : \A g \in FreeFds : f <= g
Closed(S) == [f \in Fds |-> IF f \in S THEN Free ELSE fdTable[f]]

(* A device: how it is reached, its descriptor, the identity the library
   found for it, and the enclosure it really is. *)
Device(kind, n, fd, id, e) ==
    [kind |-> kind, node |-> n, fd |-> fd, id |-> id, enclosure |-> e]
NoRecord == Device("none", NoNode, Invalid, None, None)
NotHeld  == [handle |-> 0, node |-> NoNode, discovery |-> 0]
NoIo     == [target |-> 0, stage |-> "none", retryCount |-> 0, status |-> "none"]

Spend(what) == left[what] > 0 /\ left' = [left EXCEPT ![what] = @ - 1]
Discovery   == left["discover"]     \* tells one discovery from the next

Init ==
    /\ lib = "null" /\ list = <<>> /\ params = "null" /\ filter = "null"
    /\ app = "idle" /\ toScan = {} /\ record = NoRecord /\ handle = Invalid
    /\ io = NoIo /\ held = NotHeld
    /\ fdTable = [f \in Fds |-> Free]
    /\ behind \in [Nodes -> Enclosures \cup {None}]
    /\ added = 0 /\ clean = FALSE
    /\ left \in Limits

-----------------------------------------------------------------------------
(* Initialisation and exit *)

(* ScrutinyInitialize; it refuses when the library is ready. *)
Initialize ==
    /\ app = "idle" /\ lib = "null"
    /\ lib' = "ready" /\ list' = <<>> /\ params' = "null"
    /\ UNCHANGED <<filter, app, scanVars, io, held, fdTable, behind, added, clean, left>>

(* ldmiFreeDevices closes what the devices of the list hold; when the list is
   empty it returns before it comes to the discovery parameters. *)
FreeDevices ==
    /\ list' = <<>>
    /\ fdTable' = Closed({list[i].fd : i \in 1..Len(list)})
KeptParams == IF list = <<>> THEN params ELSE "null"

(* ScrutinyExit; with no manager it follows the null pointer. *)
Exit ==
    /\ app = "idle"
    /\ \/ lib = "ready" /\ FreeDevices /\ lib' = "null" /\ params' = "null" /\ UNCHANGED app
       \/ lib = "null" /\ app' = "wild" /\ UNCHANGED <<lib, list, params, fdTable>>
    /\ clean' = FALSE
    /\ UNCHANGED <<filter, scanVars, io, held, behind, added, left>>

-----------------------------------------------------------------------------
(* Discovery *)

(* ScrutinyDiscoverDevices up to the scan, in-band or over the serial debug
   port; sdbiSerialConnectionEstablish reads the parameters unchecked. *)
Discover(serial, f) ==
    /\ app = "idle" /\ lib = "ready"
    /\ Spend("discover")
    /\ FreeDevices
    /\ filter' = f
    /\ params' = IF f # "null" THEN f ELSE KeptParams
    /\ app' = IF ~serial THEN "pci" ELSE IF params' = "null" THEN "wild" ELSE "sdb"
    /\ clean' = ~serial
    /\ UNCHANGED <<lib, scanVars, io, held, behind, added>>

(* sdbiConnectSdb: the console becomes the one device, or is not there. *)
ConnectSdb ==
    /\ app = "sdb"
    /\ list' \in {<<>>, <<Device("sdb", NoNode, Invalid, None, None)>>}
    /\ app' = "idle"
    /\ UNCHANGED <<lib, params, filter, scanVars, io, held, fdTable, behind, added, clean, left>>

(* hliFindLSIDevices opens the driver's node again at each discovery; then the
   directory of the sg nodes is read, in any order. *)
ScanPci ==
    /\ app = "pci"
    /\ \/ /\ FreeFds # {}
          /\ fdTable' = [fdTable EXCEPT ![Lowest] = Driver]
          /\ list' \in {<<>>, <<Device("pci", NoNode, Invalid, None, None)>>}
       \/ UNCHANGED <<list, fdTable>>
    /\ toScan' = Nodes
    /\ app' = "scan"
    /\ UNCHANGED <<lib, params, filter, record, handle, io, held, behind, added, clean, left>>

Begin(target, stage) ==
    /\ io' = [target |-> target, stage |-> stage, retryCount |-> 3, status |-> "none"]
    /\ app' = "open"

(* sgLinuxCheckDevice opens the node and asks what it is; sgAddExpanderDevice
   fills a record with this descriptor and the adapter's address, and
   bsdiQualifyBroadcomScsiDevice tries the expanders first. *)
CheckNode(n) ==
    /\ app = "scan" /\ n \in toScan
    /\ toScan' = toScan \ {n}
    /\ IF FreeFds # {} /\ behind[n] # None
       THEN /\ fdTable' = [fdTable EXCEPT ![Lowest] = Sg(n)]
            /\ handle' = Lowest
            /\ record' = Device("sg", n, Lowest, [None EXCEPT !.adapter = behind[n].adapter], None)
            /\ Begin(0, "expander")
            /\ UNCHANGED clean
       ELSE /\ clean' = (clean /\ behind[n] = None)
            /\ UNCHANGED <<fdTable, handle, record, io, app>>
    /\ UNCHANGED <<libVars, held, behind, added, left>>

ScanDone ==
    /\ app = "scan" /\ toScan = {}
    /\ app' = "idle"
    /\ UNCHANGED <<libVars, scanVars, io, held, fdTable, behind, added, clean, left>>

Target == IF io.target = 0 THEN record ELSE list[io.target]

(* Mutant: the new descriptor is not put into the record. *)
KeepFd(fd) == UNCHANGED <<record, list>>

(* Handle.ScsiHandle.SgDeviceHandle of the device is assigned. *)
SetFd(fd) ==
    IF io.target = 0
    THEN record' = [record EXCEPT !.fd = fd] /\ UNCHANGED list
    ELSE list' = [list EXCEPT ![io.target].fd = fd] /\ UNCHANGED record

-----------------------------------------------------------------------------
(* sgiPerformScsiPassthrough *)

Finish(status) == io' = [io EXCEPT !.status = status] /\ app' = "done"

(* sgOpenDevice *)
OpenNode ==
    /\ app = "open"
    /\ IF FreeFds # {} /\ behind[Target.node] # None
       THEN /\ fdTable' = [fdTable EXCEPT ![Lowest] = Sg(Target.node)]
            /\ SetFd(Lowest)
            /\ app' = "attempt"
            /\ UNCHANGED <<io, clean>>
       ELSE /\ Finish("failed")
            /\ clean' = FALSE
            /\ UNCHANGED <<fdTable, record, list>>
    /\ UNCHANGED <<lib, params, filter, toScan, handle, held, behind, added, left>>

(* while (retryCount-- > 0) *)
TriesLeft(count) == count > 0

(* SG_IO: done, a unit attention that is worth another of three attempts, or
   an error. *)
Attempt ==
    /\ app = "attempt"
    /\ \/ /\ behind[Target.node] # None
          /\ io' = [io EXCEPT !.status = "success"] /\ app' = "close"
          /\ UNCHANGED <<clean, left>>
       \/ /\ Spend("fail")
          /\ io' = [io EXCEPT !.retryCount = @ - 1, !.status = "retry"]
          /\ app' = IF TriesLeft(io'.retryCount) THEN "attempt" ELSE "close"
          /\ clean' = (clean /\ io'.retryCount > 0)
       \/ /\ behind[Target.node] = None \/ left["fail"] > 0
          /\ left' = IF behind[Target.node] = None THEN left ELSE [left EXCEPT !["fail"] = @ - 1]
          /\ io' = [io EXCEPT !.status = "failed"] /\ app' = "close"
          /\ clean' = FALSE
    /\ UNCHANGED <<libVars, scanVars, held, fdTable, behind, added>>

(* Mutant: the record keeps the number of the descriptor it closed. *)
CloseButRemember ==
    /\ app = "close"
    /\ fdTable' = Closed({Target.fd})
    /\ app' = "done"
    /\ UNCHANGED <<libVars, scanVars, io, held, behind, added, clean, left>>

(* sgiCloseDevice *)
CloseDevice ==
    /\ app = "close"
    /\ fdTable' = Closed({Target.fd})
    /\ SetFd(Invalid)
    /\ app' = "done"
    /\ UNCHANGED <<lib, params, filter, toScan, handle, io, held, behind, added, clean, left>>

-----------------------------------------------------------------------------
(* What the caller of the pass-through does with its outcome *)

Succeeded == app = "done" /\ io.status = "success"

(* The registers tell the family; the SAS address is asked for next. *)
Recognised ==
    /\ Succeeded /\ io.stage \in {"expander", "switch"}
    /\ behind[record.node].family = io.stage
    /\ record' = [record EXCEPT !.id.family = io.stage, !.enclosure = behind[record.node]]
    /\ Begin(0, "sas")
    /\ UNCHANGED <<libVars, toScan, handle, held, fdTable, behind, added, clean, left>>

(* Not an expander: bsdiQualifyBroadcomScsiDevice tries the switches. *)
TrySwitch ==
    /\ app = "done" /\ io.stage = "expander"
    /\ io.status = "success" => behind[record.node].family # "expander"
    /\ Begin(0, "switch")
    /\ UNCHANGED <<libVars, scanVars, held, fdTable, behind, added, clean, left>>

Forget == record' = NoRecord /\ handle' = Invalid /\ io' = NoIo

(* Mutant: the node stays open. *)
LeaveNode == UNCHANGED fdTable

(* close (handle) of sgLinuxCheckDevice *)
CloseNode == fdTable' = Closed({handle})

(* Neither: the record is freed and the node closed. *)
Reject ==
    /\ app = "done" /\ io.stage = "switch"
    /\ io.status = "success" => behind[record.node].family # "switch"
    /\ CloseNode
    /\ Forget
    /\ app' = "scan"
    /\ UNCHANGED <<libVars, toScan, held, behind, added, clean, left>>

(* Mutant: the address alone makes a duplicate. *)
SameAddress(d) == \E i \in 1..Len(list) : list[i].kind = "sg" /\ list[i].id.sas = d.id.sas

(* ldmHasDuplicateScsiDevice: family, SAS address and adapter are the same. *)
Duplicate(d) == \E i \in 1..Len(list) : list[i].kind = "sg" /\ list[i].id = d.id

(* The SAS address is assigned if it was read; whether it was is not asked.
   ldmiAddScrutinyDevice then refuses a duplicate, whose node is closed, or
   appends the device, and the first descriptor is forgotten. *)
Add ==
    /\ app = "done" /\ io.stage = "sas"
    /\ LET sas == IF io.status = "success" THEN behind[record.node].sas ELSE 0
           d   == [record EXCEPT !.id.sas = sas]
       IN  IF Duplicate(d)
           THEN CloseNode /\ UNCHANGED <<list, added>>
           ELSE list' = Append(list, d) /\ added' = added + 1 /\ UNCHANGED fdTable
    /\ Forget
    /\ app' = "scan"
    /\ UNCHANGED <<lib, params, filter, toScan, held, behind, clean, left>>

(* Mutant: product handles count from zero. *)
ZeroBasedHandle(i) == i

(* ProductHandle of the device at an index of the list, counted from 0. *)
ProductHandle(i) == i + 1

(* ScrutinyGetDeviceInfo; the index one past the end is let through. *)
GetDeviceInfo(i) ==
    /\ app = "idle" /\ lib = "ready"
    /\ IF i = Len(list)
       THEN app' = "beyond" /\ UNCHANGED held
       ELSE /\ held' = [handle |-> ProductHandle(i), node |-> list[i + 1].node, discovery |-> Discovery]
            /\ UNCHANGED app
    /\ UNCHANGED <<libVars, scanVars, io, fdTable, behind, added, clean, left>>

(* A pass-through of the application: slibiProductHandleToScrutinyDevice
   refuses what is beyond the list. *)
PassThrough ==
    /\ app = "idle" /\ lib = "ready"
    /\ held.handle \in 1..Len(list) /\ list[held.handle].kind = "sg"
    /\ Spend("call")
    /\ Begin(held.handle, "call")
    /\ UNCHANGED <<libVars, scanVars, held, fdTable, behind, added, clean>>

Return ==
    /\ app = "done" /\ io.stage = "call"
    /\ io' = NoIo /\ app' = "idle"
    /\ UNCHANGED <<libVars, scanVars, held, fdTable, behind, added, clean, left>>

LibStep ==
    \/ ConnectSdb \/ ScanPci \/ (\E n \in Nodes : CheckNode(n)) \/ ScanDone
    \/ OpenNode \/ Attempt \/ CloseDevice
    \/ Recognised \/ TrySwitch \/ Reject \/ Add \/ Return

-----------------------------------------------------------------------------
(* The environment *)

(* An enclosure is unplugged, plugged or replaced. *)
Move(n, e) ==
    /\ Spend("move")
    /\ behind[n] # e
    /\ behind' = [behind EXCEPT ![n] = e]
    /\ clean' = FALSE
    /\ UNCHANGED <<libVars, app, scanVars, io, held, fdTable, added>>

(* The application opens and closes files of its own between calls. *)
OtherFile ==
    /\ app = "idle"
    /\ \/ FreeFds # {} /\ Spend("file") /\ fdTable' = [fdTable EXCEPT ![Lowest] = AppFile]
       \/ \E f \in Fds : fdTable[f] = AppFile /\ fdTable' = Closed({f}) /\ UNCHANGED left
    /\ UNCHANGED <<libVars, app, scanVars, io, held, behind, added, clean>>

Next ==
    \/ Initialize \/ Exit
    \/ \E serial \in BOOLEAN, f \in {"null", "port"} : Discover(serial, f)
    \/ \E i \in 0..Len(list) : GetDeviceInfo(i)
    \/ PassThrough
    \/ LibStep
    \/ \E n \in Nodes, e \in Enclosures \cup {None} : Move(n, e)
    \/ OtherFile

Spec == Init /\ [][Next]_vars

-----------------------------------------------------------------------------
(* Properties *)

(* The library closes descriptors of sg nodes only, although the numbers its
   records once held are given to other files of the process in between. *)
FilesOfOthersSurvive ==
    [][app # "idle" \/ list' # list =>
         \A f \in Fds : fdTable[f].kind \in {"file", "driver"} => fdTable'[f] = fdTable[f]]_vars

(* A command goes out on a descriptor of the device's own node. *)
CommandsReachTheirNode ==
    app = "attempt" => Target.fd \in Fds /\ fdTable[Target.fd] = Sg(Target.node)

(* Between calls, the descriptors open on sg nodes are exactly the first ones
   of the devices that were ever added: no path through a rejection, a
   duplicate, a failed command or a retry leaves another one open. *)
DescriptorsAccountedFor ==
    app = "idle" => Cardinality({f \in Fds : fdTable[f].kind = "sg"}) = added

(* An in-band discovery that nothing disturbed lists every enclosure once,
   whatever the nodes' order and however many nodes lead to it. *)
EveryEnclosureOnce ==
    app = "idle" /\ clean =>
        \A e \in Enclosures :
            Cardinality({i \in 1..Len(list) : list[i].enclosure = e})
              = IF \E n \in Nodes : behind[n] = e THEN 1 ELSE 0

(* Within a discovery the handle the application was told leads to the device
   it was told of. *)
HandleNamesItsDevice ==
    io.stage = "call" /\ held.discovery = Discovery => Target.node = held.node

=============================================================================
