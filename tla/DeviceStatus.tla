---------------------------- MODULE DeviceStatus ----------------------------
(***************************************************************************)
(* Status that takes several accesses to read: the equalizers of a port's  *)
(* receiver and the coefficients of its transmitter, which stand behind a  *)
(* register that selects them, and the temperature of an enclosure, which  *)
(* is found by one SCSI page in another.                                   *)
(*                                                                         *)
(* Each is a plan of accesses.  What is read is told by what was selected. *)
(***************************************************************************)
EXTENDS PortPerformance

CONSTANT
    Enclosures      \* of a device, by its configuration page: the type of each group of
                    \* elements and the reading of each element of the group

Call(api, at, n) == [api |-> api, at |-> at, n |-> n]

-----------------------------------------------------------------------------
(***************************************************************************)
(* The registers that select: the LTSSM probe and the coefficient register *)
(* are those of a station, the equalizer register is that of a lane.       *)
(***************************************************************************)
ssiGetCfgSpaceStationLevelRegBaseOffset(p) == <<"coeff", StationOf(p)>>
ssiGetSerdesPortRegBaseOffset(p) == <<"eq", p>>
LaneInStation(p) == p % PerStation

Selectors == ({"probe", "coeff"} \X Stations) \union ({"eq"} \X Ports)

\* What they hold before any command: a value that no command sets.
Unselected ==
    [r \in Selectors |->
        CASE r[1] = "probe" -> PerStation [] r[1] = "coeff" -> <<PerStation, 0>> [] OTHER -> 1]

\* The chip id tells the number of ports.
InChip(start, n) == start < ChipPorts /\ start + n <= ChipPorts
EachPort(start, n, onePort) ==
    IF InChip(start, n) THEN FlattenSeq([i \in 1 .. n |-> onePort[start + i - 1]]) ELSE <<>>

(***************************************************************************)
(* Receiver: VGA and AEQ, the skew, the taps 2 to 9, tap 1 with both signs.*)
(***************************************************************************)
Select(r, value) == Call("select", r, value)
Sample(r) == Call("sample", r, 0)
Item(r, item) == << Select(r, item), Sample(r) >>
Items(r, items) == FlattenSeq([i \in DOMAIN items |-> Item(r, items[i])])

VgaAndAeq == <<48, 49>>
DfeTaps2To9 == <<34, 35, 36, 37, 38, 39, 40, 41>>
DfeTap1 == <<50, 51>>

ssiRxEqStatusOnePort(p) ==
    LET r == ssiGetSerdesPortRegBaseOffset(p)
    IN Items(r, VgaAndAeq) \o << Call("skew", p, 0) >>
       \o Items(r, DfeTaps2To9) \o Items(r, DfeTap1) \o << Select(r, 0) >>

ssiRxEqStatus(start, n) ==
    << Call("rxeq", start, n) >> \o EachPort(start, n, [p \in Ports |-> ssiRxEqStatusOnePort(p)])

(***************************************************************************)
(* Transmitter: the coefficients of the near and of the far end.           *)
(***************************************************************************)
Near == 0
Far == 1
ssiTxCoeffOnePort(p) ==
    LET r == ssiGetCfgSpaceStationLevelRegBaseOffset(p)
        lane == LaneInStation(p)
    IN << Call("save", r, 0) >> \o Item(r, <<lane, Near>>) \o Item(r, <<lane, Far>>)
       \o << Call("restore", r, 0) >>

ssiTxCoeff(start, n) ==
    << Call("txcoeff", start, n) >> \o EachPort(start, n, [p \in Ports |-> ssiTxCoeffOnePort(p)])

-----------------------------------------------------------------------------
(***************************************************************************)
(* Temperature.  In the status page each group begins with one element for *)
(* the whole group; which of its elements is the first sensor is counted   *)
(* out over the groups of the configuration page.                          *)
(***************************************************************************)
TemperatureSensor == 4
WholeGroup == 0                     \* the reading of the element for the whole group

SensorGroups(d) == {i \in DOMAIN Enclosures[d] : Enclosures[d][i].type = TemperatureSensor}

bsdScsiGetTemperatureElementIndex(d) ==
    FoldLeft(LAMBDA n, i : n + Len(Enclosures[d][i].readings) + 1, 0,
             [i \in 1 .. Min(SensorGroups(d)) - 1 |-> i]) + 1

StatusPage(d) ==
    FlattenSeq([i \in DOMAIN Enclosures[d] |-> <<WholeGroup>> \o Enclosures[d][i].readings])

bsdScsiGetEnclosureStatusDiagnosticsPageSegment(d, index) == StatusPage(d)[index + 1]

HasSensorGroup(d) == SensorGroups(d) # {}
bsdScsiGetTemperatureValue(d) ==
    bsdScsiGetEnclosureStatusDiagnosticsPageSegment(d, bsdScsiGetTemperatureElementIndex(d)) - 20

=============================================================================
