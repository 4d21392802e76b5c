------------------------- MODULE DeviceManager_proofs -------------------------
(***************************************************************************)
(* Proofs about DeviceManager, for every set of nodes and enclosures, every*)
(* number of descriptors and every bound: commands reach the node of their *)
(* device, every descriptor is accounted for, the files of the application *)
(* survive, product handles name what the application was told, and a scan *)
(* that nothing disturbs lists every enclosure once.                       *)
(***************************************************************************)
EXTENDS DeviceManager, SequenceTheorems, FiniteSetTheorems, TLAPS

Families == {"none", "expander", "switch"}
Identities == [family : Families, sas : Nat, adapter : Nat]
Places == Nodes \cup {NoNode}
Descriptors == Fds \cup {Invalid}
Devices == [kind : {"none", "sdb", "pci", "sg"}, node : Places, fd : Descriptors,
            id : Identities, enclosure : Enclosures \cup {None}]
Uses == {Free, Driver, AppFile} \cup {Sg(n) : n \in Nodes}
Looks == {"expander", "switch", "sas"}
Calls == [target : Nat, stage : Looks \cup {"none", "call"}, retryCount : Int,
          status : {"none", "success", "retry", "failed"}]
Passing == {"open", "attempt", "close", "done"}

Types ==
    /\ lib \in {"null", "ready"} /\ params \in {"null", "port"} /\ clean \in BOOLEAN
    /\ app \in {"idle", "wild", "beyond", "pci", "sdb", "scan"} \cup Passing
    /\ list \in Seq(Devices) /\ record \in Devices
    /\ toScan \subseteq Nodes /\ handle \in Descriptors
    /\ io \in Calls
    /\ held \in [handle : Nat, node : Places, discovery : Nat]
    /\ fdTable \in [Fds -> Uses]
    /\ behind \in [Nodes -> Enclosures \cup {None}]
    /\ added \in Nat /\ left \in [Limited -> Nat]

(* A node is being looked at, with its first descriptor in handle, or a device
   of the list is being talked to, or neither. *)
Looking == io.stage \in Looks
Course ==
    /\ app \in Passing <=> io.stage # "none"
    /\ app # "scan" /\ ~Looking => toScan = {}
    /\ Looking => /\ io.target = 0 /\ record.kind = "sg" /\ record.node \in Nodes
                  /\ handle \in Fds /\ fdTable[handle] = Sg(record.node)
    /\ ~Looking => handle = Invalid
    /\ io.stage = "call" => /\ io.target \in 1..Len(list) /\ io.target = held.handle
                            /\ list[io.target].kind = "sg"
    /\ \A i \in 1..Len(list) : list[i].kind = "sg" => list[i].node \in Nodes

(* The second descriptor of a pass-through, which the record has while it is
   open and forgets when it is closed. *)
Talking == app \in {"attempt", "close"}
Second ==
    /\ \A i \in 1..Len(list) : list[i].fd # Invalid => Talking /\ io.stage = "call" /\ i = io.target
    /\ Talking => /\ Target.fd \in Fds /\ fdTable[Target.fd] = Sg(Target.node)
                  /\ Target.fd # handle
    /\ Looking /\ ~Talking => record.fd \in {Invalid, handle}
    /\ Looking /\ ~Talking /\ (io.stage = "sas" \/ io.status = "success") => record.fd = Invalid

One(b) == IF b THEN 1 ELSE 0
SgFds == {f \in Fds : fdTable[f].kind = "sg"}
Count == Cardinality(SgFds) = added + One(Looking) + One(Talking)

(* What the application was told holds until the next discovery. *)
Scanning == app \in {"pci", "sdb", "scan"} \/ Looking
Told ==
    held.handle # 0 =>
        /\ held.discovery >= Discovery
        /\ Scanning => held.discovery # Discovery
        /\ held.discovery = Discovery /\ held.handle <= Len(list)
             => list[held.handle].node = held.node

(* The scan nothing has disturbed: what is listed is what is there, and every
   node that was looked at is listed. *)
Listed(e) == \E i \in 1..Len(list) : list[i].kind = "sg" /\ list[i].enclosure = e
Genuine ==
    \A i \in 1..Len(list) :
        IF list[i].kind = "sg"
        THEN /\ list[i].id = list[i].enclosure
             /\ list[i].enclosure \in Enclosures
             /\ behind[list[i].node] = list[i].enclosure
        ELSE list[i].enclosure = None
Different ==
    \A i, j \in 1..Len(list) :
        i # j /\ list[i].kind = "sg" /\ list[j].kind = "sg" => list[i].id # list[j].id
Found ==
    app # "pci" =>
        \A n \in Nodes : \/ n \in toScan \/ (Looking /\ n = record.node)
                         \/ behind[n] = None \/ Listed(behind[n])
Recorded ==
    Looking => /\ behind[record.node] \in Enclosures
               /\ record.id.adapter = behind[record.node].adapter
               /\ io.stage = "switch" => behind[record.node].family # "expander"
               /\ io.stage = "sas" => /\ record.enclosure = behind[record.node]
                                      /\ record.id.family = behind[record.node].family
Undisturbed ==
    /\ lib = "ready" /\ app \notin {"wild", "sdb"}
    /\ app = "pci" => list = <<>>
    /\ app \in {"close", "done"} => io.status = "success"
    /\ Genuine /\ Different /\ Found /\ Recorded

IInv == Types /\ Course /\ Second /\ Count /\ Told /\ (clean => Undisturbed)

-----------------------------------------------------------------------------
(* Descriptors *)

LEMMA LeastExists ==
    ASSUME NEW S, S \subseteq Nat, S # {}
    PROVE  \E x \in S : \A y \in S : x <= y
<1>1. PICK x \in S : \A y \in S : ~(<<y, x>> \in OpToRel(<, Nat))
  BY WFMin, NatLessThanWellFounded, Zenon
<1>2. \A y \in S : ~(y < x)
  BY <1>1 DEF OpToRel
<1> QED
  BY <1>2

(* The kernel's choice of a descriptor is one that is free. *)
LEMMA LowestFree ==
    ASSUME FreeFds # {}
    PROVE  Lowest \in Fds /\ fdTable[Lowest] = Free
<1>1. FreeFds \subseteq Nat
  BY ManagerAssumption DEF FreeFds, Fds
<1>2. \E f \in FreeFds : \A g \in FreeFds : f <= g
  BY <1>1, LeastExists
<1>3. Lowest \in FreeFds
  BY <1>2, Zenon DEF Lowest
<1> QED
  BY <1>3 DEF FreeFds

LEMMA UsesDiffer ==
    /\ Free \in Uses /\ Driver \in Uses /\ AppFile \in Uses
    /\ \A n \in Nodes : Sg(n) \in Uses /\ Sg(n).kind = "sg" /\ Sg(n).node = n
    /\ Free.kind = "free" /\ Driver.kind = "driver" /\ AppFile.kind = "file"
    /\ \A u \in Uses : u.kind = "sg" => \E n \in Nodes : u = Sg(n)
<1>1. Free \in Uses /\ Driver \in Uses /\ AppFile \in Uses /\ \A n \in Nodes : Sg(n) \in Uses
  BY Zenon DEF Uses
<1>2. /\ \A n \in Nodes : Sg(n).kind = "sg" /\ Sg(n).node = n
      /\ Free.kind = "free" /\ Driver.kind = "driver" /\ AppFile.kind = "file"
  BY DEF Free, Driver, AppFile, Sg
<1>3. \A u \in Uses : u = Free \/ u = Driver \/ u = AppFile \/ \E n \in Nodes : u = Sg(n)
  BY Zenon DEF Uses
<1> QED
  BY <1>1, <1>2, <1>3

LEMMA Fd == Fds \subseteq Nat \ {0} /\ Invalid \notin Fds /\ IsFiniteSet(Fds)
<1>1. IsFiniteSet(1..MaxFd)
  BY ManagerAssumption, FS_Interval
<1> QED
  BY <1>1, ManagerAssumption DEF Fds, Invalid

LEMMA SgFdsFinite == IsFiniteSet(SgFds) /\ Cardinality(SgFds) \in Nat
<1>1. SgFds \in SUBSET Fds
  BY DEF SgFds
<1> QED
  BY <1>1, Fd, FS_Subset, FS_CardinalityType

(* Opening a node for itself, and closing it. *)
LEMMA OpenedSg ==
    ASSUME fdTable \in [Fds -> Uses], NEW f \in Fds, fdTable[f] = Free, NEW n \in Nodes,
           fdTable' = [fdTable EXCEPT ![f] = Sg(n)]
    PROVE  /\ fdTable' \in [Fds -> Uses] /\ fdTable'[f] = Sg(n)
           /\ \A g \in Fds : g # f => fdTable'[g] = fdTable[g]
           /\ Cardinality(SgFds') = Cardinality(SgFds) + 1
<1>1. /\ fdTable' \in [Fds -> Uses] /\ fdTable'[f] = Sg(n)
      /\ \A g \in Fds : g # f => fdTable'[g] = fdTable[g]
  BY UsesDiffer
<1>2. f \notin SgFds /\ SgFds' = SgFds \cup {f}
  BY <1>1, UsesDiffer DEF SgFds
<1> QED
  BY <1>1, <1>2, SgFdsFinite, FS_AddElement

LEMMA OpenedOther ==
    ASSUME fdTable \in [Fds -> Uses], NEW f \in Fds, fdTable[f] = Free, NEW u \in {Driver, AppFile},
           fdTable' = [fdTable EXCEPT ![f] = u]
    PROVE  /\ fdTable' \in [Fds -> Uses]
           /\ \A g \in Fds : g # f => fdTable'[g] = fdTable[g]
           /\ SgFds' = SgFds
<1>1. /\ fdTable' \in [Fds -> Uses] /\ fdTable'[f] = u
      /\ \A g \in Fds : g # f => fdTable'[g] = fdTable[g]
  BY UsesDiffer
<1>2. u.kind # "sg" /\ fdTable[f].kind # "sg"
  BY UsesDiffer
<1> QED
  BY <1>1, <1>2 DEF SgFds

LEMMA ClosedOne ==
    ASSUME fdTable \in [Fds -> Uses], NEW f \in Fds, fdTable' = Closed({f})
    PROVE  /\ fdTable' \in [Fds -> Uses] /\ fdTable'[f] = Free
           /\ \A g \in Fds : g # f => fdTable'[g] = fdTable[g]
           /\ Cardinality(SgFds')
                = IF fdTable[f].kind = "sg" THEN Cardinality(SgFds) - 1 ELSE Cardinality(SgFds)
<1>1. /\ fdTable' \in [Fds -> Uses] /\ fdTable'[f] = Free
      /\ \A g \in Fds : g # f => fdTable'[g] = fdTable[g]
  BY UsesDiffer DEF Closed
<1>2. SgFds' = SgFds \ {f} /\ (f \in SgFds <=> fdTable[f].kind = "sg")
  BY <1>1, UsesDiffer DEF SgFds
<1> QED
  BY <1>1, <1>2, SgFdsFinite, FS_RemoveElement

(* Closing what the devices of the list hold, when they hold nothing. *)
LEMMA ClosedNone ==
    ASSUME fdTable \in [Fds -> Uses], NEW S, S \subseteq {Invalid}, fdTable' = Closed(S)
    PROVE  fdTable' = fdTable
BY Fd DEF Closed

-----------------------------------------------------------------------------
(* Devices and enclosures *)

LEMMA Nothing ==
    /\ None \in Identities /\ None \notin Enclosures /\ Enclosures \subseteq Identities
    /\ None.family = "none" /\ None.sas = 0 /\ None.adapter = 0
<1>1. None \in Identities /\ None.family = "none" /\ None.sas = 0 /\ None.adapter = 0
  BY DEF None, Identities, Families
<1>2. \A e \in Enclosures : e \in Identities /\ e.family # "none"
  BY ManagerAssumption DEF Identities, Families
<1> QED
  BY <1>1, <1>2

LEMMA DeviceFields ==
    ASSUME NEW kind \in {"none", "sdb", "pci", "sg"}, NEW n \in Places, NEW fd \in Descriptors,
           NEW id \in Identities, NEW e \in Enclosures \cup {None}
    PROVE  /\ Device(kind, n, fd, id, e) \in Devices
           /\ Device(kind, n, fd, id, e).kind = kind /\ Device(kind, n, fd, id, e).node = n
           /\ Device(kind, n, fd, id, e).fd = fd /\ Device(kind, n, fd, id, e).id = id
           /\ Device(kind, n, fd, id, e).enclosure = e
BY DEF Device, Devices

LEMMA NoRecordIsDevice == NoRecord \in Devices /\ NoRecord.fd = Invalid
<1>1. NoNode \in Places /\ Invalid \in Descriptors /\ None \in Identities
  BY Nothing DEF Places, Descriptors
<1> QED
  BY <1>1 DEF NoRecord, Device, Devices

LEMMA ListIsFunction ==
    ASSUME Types
    PROVE  Len(list) \in Nat /\ \A i \in 1..Len(list) : list[i] \in Devices
BY LenProperties, ElementOfSeq DEF Types

(* Between calls nothing is looked at or talked to, and no device of the list
   has a descriptor. *)
LEMMA AtRest ==
    ASSUME IInv, app \notin Passing
    PROVE  /\ io.stage = "none" /\ ~Looking /\ ~Talking /\ handle = Invalid
           /\ \A i \in 1..Len(list) : list[i].fd = Invalid
           /\ app # "scan" => toScan = {}
<1>1. io.stage = "none" /\ ~Looking /\ ~Talking
  BY DEF IInv, Course, Looking, Looks, Talking, Passing
<1> QED
  BY <1>1 DEF IInv, Course, Second

LEMMA FreesNothing ==
    ASSUME IInv, app = "idle", FreeDevices
    PROVE  list' = <<>> /\ fdTable' = fdTable
<1>1. \A i \in 1..Len(list) : list[i].fd = Invalid
  BY AtRest DEF Passing
<1>2. {list[i].fd : i \in 1..Len(list)} \subseteq {Invalid}
  BY <1>1
<1>3. fdTable' = Closed({list[i].fd : i \in 1..Len(list)})
  BY DEF FreeDevices
<1> QED
  BY <1>2, <1>3, ClosedNone DEF FreeDevices, IInv, Types

(* The list of a library that was just made ready, or of a discovery that has
   just begun. *)
LEMMA EmptyList ==
    ASSUME list' = <<>>
    PROVE  list' \in Seq(Devices) /\ Len(list') = 0 /\ 1..Len(list') = {}
BY EmptySeq

LEMMA SameBounds ==
    ASSUME Types, NEW what \in Limited, Spend(what)
    PROVE  /\ left' \in [Limited -> Nat] /\ left'[what] = left[what] - 1
           /\ \A other \in Limited : other # what => left'[other] = left[other]
BY DEF Types, Spend

LEMMA SameCount ==
    ASSUME Count, SgFds' = SgFds, added' = added, Looking' <=> Looking, Talking' <=> Talking
    PROVE  Count'
<1>1. One(Looking)' = One(Looking) /\ One(Talking)' = One(Talking)
  BY DEF One
<1>2. Cardinality(SgFds') = Cardinality(SgFds)
  OBVIOUS
<1> QED
  BY <1>1, <1>2, Zenon DEF Count

-----------------------------------------------------------------------------
(* Initialisation, exit and discovery *)

LEMMA Initially == Init => IInv
<1> SUFFICES ASSUME Init PROVE IInv
  OBVIOUS
<1> USE DEF Init
<1>1. Types
  <2>1. list \in Seq(Devices) /\ record \in Devices /\ handle \in Descriptors
    BY NoRecordIsDevice, EmptySeq DEF Descriptors
  <2>2. fdTable \in [Fds -> Uses]
    BY UsesDiffer
  <2>3. left \in [Limited -> Nat]
    BY ManagerAssumption
  <2>4. io \in Calls
    BY DEF Calls, NoIo
  <2>5. held \in [handle : Nat, node : Places, discovery : Nat]
    BY DEF NotHeld, Places
  <2> QED
    BY <2>1, <2>2, <2>3, <2>4, <2>5 DEF Types
<1>2. io.stage = "none" /\ held.handle = 0 /\ Len(list) = 0
  BY EmptySeq DEF NoIo, NotHeld
<1>3. Course /\ Second /\ Told
  BY <1>2 DEF Course, Second, Told, Looking, Looks, Talking, Passing
<1>4. Count
  <2>1. SgFds = {}
    BY UsesDiffer DEF SgFds
  <2>2. Cardinality(SgFds) = 0
    BY <2>1, FS_EmptySet
  <2> QED
    BY <1>2, <2>2 DEF Count, One, Looking, Looks, Talking
<1> QED
  BY <1>1, <1>3, <1>4 DEF IInv

LEMMA InitializeKeeps == IInv /\ Initialize => IInv'
<1> SUFFICES ASSUME IInv, Initialize PROVE IInv'
  OBVIOUS
<1> USE DEF IInv
<1>0. /\ app = "idle" /\ list' = <<>> /\ lib = "null" /\ lib' = "ready" /\ params' = "null"
      /\ UNCHANGED <<app, toScan, record, handle, io, held, fdTable, behind, added, clean, left>>
  BY DEF Initialize, scanVars
<1>1. list' \in Seq(Devices) /\ Len(list') = 0 /\ 1..Len(list') = {}
  BY <1>0, EmptyList
<1>2. io.stage = "none" /\ ~Looking /\ ~Talking /\ handle = Invalid
  BY <1>0, AtRest DEF Passing
<1>3. Looking' = Looking /\ Talking' = Talking
  BY <1>0 DEF Looking, Talking
<1>4. Types'
  BY <1>0, <1>1 DEF Types
<1>5. Course' /\ Second'
  BY <1>0, <1>1, <1>2, <1>3 DEF Course, Second
<1>6. Count'
  BY <1>0, <1>3, SameCount DEF SgFds
<1>7. Told'
  BY <1>0, <1>1, <1>2, <1>3 DEF Told, Scanning, Discovery, Types
<1>8. ~clean'
  BY <1>0 DEF Undisturbed
<1> QED
  BY <1>4, <1>5, <1>6, <1>7, <1>8

LEMMA ExitKeeps == IInv /\ Exit => IInv'
<1> SUFFICES ASSUME IInv, Exit PROVE IInv'
  OBVIOUS
<1> USE DEF IInv
<1>0. /\ app = "idle" /\ ~clean' /\ clean' = FALSE /\ app' \in {"idle", "wild"}
      /\ UNCHANGED <<toScan, record, handle, io, held, behind, added, left>>
  BY DEF Exit, scanVars
<1>1. /\ list' = list \/ list' = <<>>
      /\ fdTable' = fdTable /\ lib' \in {"null", "ready"} /\ params' \in {"null", "port"}
  BY FreesNothing DEF Exit, Types
<1>2. io.stage = "none" /\ ~Looking /\ ~Talking /\ handle = Invalid /\ toScan = {}
  BY <1>0, AtRest DEF Passing
<1>3. ~Looking' /\ ~Talking'
  BY <1>0, <1>2 DEF Looking, Talking
<1>4. CASE list' = list
  <2>1. Types'
    BY <1>0, <1>1, <1>4 DEF Types
  <2>2. Course' /\ Second'
    BY <1>0, <1>1, <1>2, <1>3, <1>4 DEF Course, Second, Passing
  <2>3. Count'
    BY <1>0, <1>1, <1>2, <1>3, SameCount DEF SgFds
  <2>4. Told'
    BY <1>0, <1>1, <1>2, <1>3, <1>4 DEF Told, Scanning, Discovery
  <2> QED
    BY <1>0, <2>1, <2>2, <2>3, <2>4
<1>5. CASE list' = <<>>
  <2>0. list' \in Seq(Devices) /\ Len(list') = 0 /\ 1..Len(list') = {}
    BY <1>5, EmptyList
  <2>1. Types'
    BY <1>0, <1>1, <2>0 DEF Types
  <2>2. Course' /\ Second'
    BY <1>0, <1>1, <1>2, <1>3, <2>0 DEF Course, Second, Passing
  <2>3. Count'
    BY <1>0, <1>1, <1>2, <1>3, SameCount DEF SgFds
  <2>4. Told'
    BY <1>0, <1>1, <1>2, <1>3, <2>0 DEF Told, Scanning, Discovery, Types
  <2> QED
    BY <1>0, <2>1, <2>2, <2>3, <2>4
<1> QED
  BY <1>1, <1>4, <1>5

LEMMA DiscoverKeeps ==
    ASSUME NEW serial \in BOOLEAN, NEW f \in {"null", "port"}
    PROVE  IInv /\ Discover(serial, f) => IInv'
<1> SUFFICES ASSUME IInv, Discover(serial, f) PROVE IInv'
  OBVIOUS
<1> USE DEF IInv
<1>0. /\ app = "idle" /\ lib = "ready" /\ lib' = lib /\ app' \in {"pci", "wild", "sdb"}
      /\ Spend("discover") /\ clean' = ~serial /\ (clean' => app' = "pci")
      /\ UNCHANGED <<toScan, record, handle, io, held, behind, added>>
  BY DEF Discover, scanVars
<1>1. list' = <<>> /\ fdTable' = fdTable /\ params' \in {"null", "port"}
  BY FreesNothing DEF Discover, KeptParams, Types
<1>2. list' \in Seq(Devices) /\ Len(list') = 0 /\ 1..Len(list') = {}
  BY <1>1, EmptyList
<1>3. io.stage = "none" /\ ~Looking /\ ~Talking /\ handle = Invalid /\ toScan = {}
  BY <1>0, AtRest DEF Passing
<1>4. ~Looking' /\ ~Talking'
  BY <1>0, <1>3 DEF Looking, Talking
<1>5. left' \in [Limited -> Nat] /\ Discovery' = Discovery - 1 /\ Discovery \in Nat
  BY <1>0, SameBounds DEF Limited, Discovery, Types
<1>6. Types'
  BY <1>0, <1>1, <1>2, <1>5 DEF Types
<1>7. Course' /\ Second'
  BY <1>0, <1>1, <1>2, <1>3, <1>4 DEF Course, Second, Passing
<1>8. Count'
  BY <1>0, <1>1, <1>3, <1>4, SameCount DEF SgFds
<1>9. Told'
  BY <1>0, <1>2, <1>4, <1>5 DEF Told, Types
<1>10. clean' => Undisturbed'
  BY <1>0, <1>1, <1>2, <1>4 DEF Undisturbed, Genuine, Different, Found, Recorded
<1> QED
  BY <1>6, <1>7, <1>8, <1>9, <1>10

(* The one device that the SDB connection or the PCI scan may add. *)
LEMMA OneDevice ==
    ASSUME NEW kind \in {"sdb", "pci"},
           list' \in {<<>>, <<Device(kind, NoNode, Invalid, None, None)>>}
    PROVE  /\ list' \in Seq(Devices) /\ Len(list') \in {0, 1}
           /\ \A i \in 1..Len(list') : /\ list'[i].kind = kind /\ list'[i].fd = Invalid
                                       /\ list'[i].enclosure = None
<1> DEFINE d == Device(kind, NoNode, Invalid, None, None)
<1>1. NoNode \in Places /\ Invalid \in Descriptors /\ None \in Identities
  BY Nothing DEF Places, Descriptors
<1>2. d \in Devices /\ d.kind = kind /\ d.fd = Invalid /\ d.enclosure = None
  BY <1>1, DeviceFields
<1> HIDE DEF d
<1>3. CASE list' = <<>>
  BY <1>3, EmptyList
<1>4. CASE list' = <<d>>
  BY <1>2, <1>4
<1> QED
  BY <1>3, <1>4 DEF d

LEMMA ConnectSdbKeeps == IInv /\ ConnectSdb => IInv'
<1> SUFFICES ASSUME IInv, ConnectSdb PROVE IInv'
  OBVIOUS
<1> USE DEF IInv
<1>0. /\ app = "sdb" /\ app' = "idle"
      /\ list' \in {<<>>, <<Device("sdb", NoNode, Invalid, None, None)>>}
      /\ UNCHANGED <<lib, params, toScan, record, handle, io, held, fdTable, behind, added, clean, left>>
  BY DEF ConnectSdb, scanVars
<1>1. /\ list' \in Seq(Devices) /\ Len(list') \in {0, 1}
      /\ \A i \in 1..Len(list') : list'[i].kind = "sdb" /\ list'[i].fd = Invalid
  BY <1>0, OneDevice
<1>2. io.stage = "none" /\ ~Looking /\ ~Talking /\ handle = Invalid /\ toScan = {}
  BY <1>0, AtRest DEF Passing
<1>3. ~Looking' /\ ~Talking'
  BY <1>0, <1>2 DEF Looking, Talking
<1>4. Types'
  BY <1>0, <1>1 DEF Types
<1>5. Course' /\ Second'
  BY <1>0, <1>1, <1>2, <1>3 DEF Course, Second, Passing
<1>6. Count'
  BY <1>0, <1>2, <1>3, SameCount DEF SgFds
<1>7. Told'
  BY <1>0, <1>3 DEF Told, Scanning, Discovery
<1>8. ~clean'
  BY <1>0 DEF Undisturbed, Types
<1> QED
  BY <1>4, <1>5, <1>6, <1>7, <1>8

LEMMA ScanPciKeeps == IInv /\ ScanPci => IInv'
<1> SUFFICES ASSUME IInv, ScanPci PROVE IInv'
  OBVIOUS
<1> USE DEF IInv
<1>0. /\ app = "pci" /\ app' = "scan" /\ toScan' = Nodes
      /\ UNCHANGED <<lib, params, record, handle, io, held, behind, added, clean, left>>
  BY DEF ScanPci
<1>2. /\ io.stage = "none" /\ ~Looking /\ ~Talking /\ handle = Invalid
      /\ \A i \in 1..Len(list) : list[i].fd = Invalid
  BY <1>0, AtRest DEF Passing
<1>3. ~Looking' /\ ~Talking' /\ io' = io /\ handle' = handle
  BY <1>0, <1>2 DEF Looking, Talking
<1>4. fdTable' \in [Fds -> Uses] /\ SgFds' = SgFds
  <2>1. CASE UNCHANGED fdTable
    BY <2>1 DEF Types, SgFds
  <2>2. CASE FreeFds # {} /\ fdTable' = [fdTable EXCEPT ![Lowest] = Driver]
    BY <2>2, LowestFree, OpenedOther DEF Types
  <2> QED
    BY <2>1, <2>2 DEF ScanPci
<1>5. Count'
  BY <1>0, <1>2, <1>3, <1>4, SameCount
<1>6. CASE UNCHANGED list
  <2>1. Types'
    BY <1>0, <1>4, <1>6 DEF Types
  <2>2. Course' /\ Second'
    BY <1>0, <1>2, <1>3, <1>6 DEF Course, Second, Passing
  <2>3. Told'
    BY <1>0, <1>3, <1>6 DEF Told, Scanning, Discovery
  <2>4. clean' => Undisturbed'
    <3>1. SUFFICES ASSUME clean PROVE Undisturbed'
      BY <1>0
    <3>2. list = <<>> /\ lib = "ready"
      BY <1>0, <3>1 DEF Undisturbed
    <3>3. Len(list) = 0
      BY <3>2
    <3> QED
      BY <1>0, <1>3, <1>6, <3>2, <3>3 DEF Undisturbed, Genuine, Different, Found, Recorded
  <2> QED
    BY <1>5, <2>1, <2>2, <2>3, <2>4
<1>7. CASE list' \in {<<>>, <<Device("pci", NoNode, Invalid, None, None)>>}
  <2>0. /\ list' \in Seq(Devices) /\ Len(list') \in {0, 1}
        /\ \A i \in 1..Len(list') : /\ list'[i].kind = "pci" /\ list'[i].fd = Invalid
                                    /\ list'[i].enclosure = None
    BY <1>7, OneDevice
  <2>1. Types'
    BY <1>0, <1>4, <2>0 DEF Types
  <2>2. Course' /\ Second'
    BY <1>0, <1>2, <1>3, <2>0 DEF Course, Second, Passing
  <2>3. Told'
    BY <1>0, <1>3 DEF Told, Scanning, Discovery
  <2>4. clean' => Undisturbed'
    BY <1>0, <1>3, <2>0 DEF Undisturbed, Genuine, Different, Found, Recorded
  <2> QED
    BY <1>5, <2>1, <2>2, <2>3, <2>4
<1> QED
  BY <1>6, <1>7 DEF ScanPci

LEMMA ScanDoneKeeps == IInv /\ ScanDone => IInv'
<1> SUFFICES ASSUME IInv, ScanDone PROVE IInv'
  OBVIOUS
<1> USE DEF IInv
<1>0. /\ app = "scan" /\ app' = "idle" /\ toScan = {}
      /\ UNCHANGED <<lib, list, params, toScan, record, handle, io, held, fdTable, behind, added, clean, left>>
  BY DEF ScanDone, libVars, scanVars
<1>2. /\ io.stage = "none" /\ ~Looking /\ ~Talking /\ handle = Invalid
      /\ \A i \in 1..Len(list) : list[i].fd = Invalid
  BY <1>0, AtRest DEF Passing
<1>3. ~Looking' /\ ~Talking'
  BY <1>0, <1>2 DEF Looking, Talking
<1>4. Types'
  BY <1>0 DEF Types
<1>5. Course' /\ Second'
  BY <1>0, <1>2, <1>3 DEF Course, Second, Passing
<1>6. Count'
  BY <1>0, <1>2, <1>3, SameCount DEF SgFds
<1>7. Told'
  BY <1>0, <1>3 DEF Told, Scanning, Discovery
<1>8. clean' => Undisturbed'
  BY <1>0, <1>2, <1>3 DEF Undisturbed, Genuine, Different, Found, Recorded, Listed
<1> QED
  BY <1>4, <1>5, <1>6, <1>7, <1>8

-----------------------------------------------------------------------------
(* The application *)

LEMMA GetDeviceInfoKeeps ==
    ASSUME NEW i \in 0..Len(list)
    PROVE  IInv /\ GetDeviceInfo(i) => IInv'
<1> SUFFICES ASSUME IInv, GetDeviceInfo(i) PROVE IInv'
  OBVIOUS
<1> USE DEF IInv
<1>0. /\ app = "idle" /\ lib = "ready" /\ app' \in {"idle", "beyond"}
      /\ UNCHANGED <<lib, list, params, toScan, record, handle, io, fdTable, behind, added, clean, left>>
  BY DEF GetDeviceInfo, libVars, scanVars
<1>1. \/ held' = held
      \/ /\ i + 1 \in 1..Len(list)
         /\ held' = [handle |-> i + 1, node |-> list[i + 1].node, discovery |-> Discovery]
  BY ListIsFunction DEF GetDeviceInfo, ProductHandle
<1>2. /\ io.stage = "none" /\ ~Looking /\ ~Talking /\ handle = Invalid /\ toScan = {}
      /\ \A j \in 1..Len(list) : list[j].fd = Invalid
  BY <1>0, AtRest DEF Passing
<1>3. ~Looking' /\ ~Talking'
  BY <1>0, <1>2 DEF Looking, Talking
<1>4. held' \in [handle : Nat, node : Places, discovery : Nat]
  <2>1. Discovery \in Nat
    BY DEF Discovery, Types, Limited
  <2>2. \A j \in 1..Len(list) : list[j].node \in Places
    BY ListIsFunction DEF Devices
  <2> QED
    BY <1>1, <2>1, <2>2 DEF Types
<1>5. Types'
  BY <1>0, <1>4 DEF Types
<1>6. Course' /\ Second'
  BY <1>0, <1>2, <1>3 DEF Course, Second, Passing
<1>7. Count'
  BY <1>0, <1>2, <1>3, SameCount DEF SgFds
<1>8. Told'
  <2>1. Discovery' = Discovery /\ Discovery \in Nat
    BY <1>0 DEF Discovery, Types, Limited
  <2>2. ~Scanning'
    BY <1>0, <1>3 DEF Scanning
  <2>3. CASE held' = held
    BY <1>0, <2>1, <2>2, <2>3 DEF Told
  <2>4. CASE held' = [handle |-> i + 1, node |-> list[i + 1].node, discovery |-> Discovery]
    BY <1>0, <2>1, <2>2, <2>4 DEF Told
  <2> QED
    BY <1>1, <2>3, <2>4
<1>9. clean' => Undisturbed'
  BY <1>0, <1>2, <1>3 DEF Undisturbed, Genuine, Different, Found, Recorded, Listed
<1> QED
  BY <1>5, <1>6, <1>7, <1>8, <1>9

LEMMA PassThroughKeeps == IInv /\ PassThrough => IInv'
<1> SUFFICES ASSUME IInv, PassThrough PROVE IInv'
  OBVIOUS
<1> USE DEF IInv
<1>0. /\ app = "idle" /\ app' = "open" /\ Spend("call")
      /\ held.handle \in 1..Len(list) /\ list[held.handle].kind = "sg"
      /\ UNCHANGED <<lib, list, params, toScan, record, handle, held, fdTable, behind, added, clean>>
  BY DEF PassThrough, Begin, libVars, scanVars
<1>1. io' = [target |-> held.handle, stage |-> "call", retryCount |-> 3, status |-> "none"]
  BY DEF PassThrough, Begin
<1>2. /\ io.stage = "none" /\ ~Looking /\ ~Talking /\ handle = Invalid /\ toScan = {}
      /\ \A i \in 1..Len(list) : list[i].fd = Invalid
  BY <1>0, AtRest DEF Passing
<1>3. ~Looking' /\ ~Talking' /\ io'.stage = "call" /\ io'.target = held.handle
  BY <1>0, <1>1 DEF Looking, Looks, Talking
<1>4. left' \in [Limited -> Nat] /\ Discovery' = Discovery
  BY <1>0, SameBounds DEF Limited, Discovery
<1>5. Types'
  BY <1>0, <1>1, <1>4 DEF Types, Calls, Passing
<1>6. Course' /\ Second'
  BY <1>0, <1>2, <1>3 DEF Course, Second, Passing
<1>7. Count'
  BY <1>0, <1>2, <1>3, SameCount DEF SgFds
<1>8. Told'
  BY <1>0, <1>3, <1>4 DEF Told, Scanning
<1>9. clean' => Undisturbed'
  BY <1>0, <1>2, <1>3 DEF Undisturbed, Genuine, Different, Found, Recorded, Listed
<1> QED
  BY <1>5, <1>6, <1>7, <1>8, <1>9

LEMMA ReturnKeeps == IInv /\ Return => IInv'
<1> SUFFICES ASSUME IInv, Return PROVE IInv'
  OBVIOUS
<1> USE DEF IInv
<1>0. /\ app = "done" /\ io.stage = "call" /\ io' = NoIo /\ app' = "idle"
      /\ UNCHANGED <<lib, list, params, toScan, record, handle, held, fdTable, behind, added, clean, left>>
  BY DEF Return, libVars, scanVars
<1>1. NoIo.stage = "none" /\ NoIo \in Calls
  BY DEF Calls, NoIo
<1>2. /\ ~Looking /\ ~Talking /\ handle = Invalid /\ toScan = {}
      /\ \A i \in 1..Len(list) : list[i].fd = Invalid
  BY <1>0 DEF Course, Second, Looking, Looks, Talking
<1>3. ~Looking' /\ ~Talking'
  BY <1>0, <1>1 DEF Looking, Looks, Talking
<1>4. Types'
  BY <1>0, <1>1 DEF Types
<1>5. Course' /\ Second'
  BY <1>0, <1>1, <1>2, <1>3 DEF Course, Second, Passing
<1>6. Count'
  BY <1>0, <1>2, <1>3, SameCount DEF SgFds
<1>7. Told'
  BY <1>0, <1>3 DEF Told, Scanning, Discovery
<1>8. clean' => Undisturbed'
  BY <1>0, <1>2, <1>3 DEF Undisturbed, Genuine, Different, Found, Recorded, Listed
<1> QED
  BY <1>4, <1>5, <1>6, <1>7, <1>8

-----------------------------------------------------------------------------
(* The environment *)

LEMMA MoveKeeps ==
    ASSUME NEW n \in Nodes, NEW e \in Enclosures \cup {None}
    PROVE  IInv /\ Move(n, e) => IInv'
<1> SUFFICES ASSUME IInv, Move(n, e) PROVE IInv'
  OBVIOUS
<1> USE DEF IInv
<1>0. /\ Spend("move") /\ behind' = [behind EXCEPT ![n] = e] /\ clean' = FALSE
      /\ UNCHANGED <<lib, list, params, app, toScan, record, handle, io, held, fdTable, added>>
  BY DEF Move, libVars, scanVars
<1>1. left' \in [Limited -> Nat] /\ Discovery' = Discovery
  BY <1>0, SameBounds DEF Limited, Discovery
<1>2. behind' \in [Nodes -> Enclosures \cup {None}]
  BY <1>0 DEF Types
<1>3. Looking' = Looking /\ Talking' = Talking /\ Target' = Target
  BY <1>0 DEF Looking, Talking, Target
<1>4. Types'
  BY <1>0, <1>1, <1>2 DEF Types
<1>5. Course'
  BY <1>0, <1>3 DEF Course
<1>6. Second'
  BY <1>0, <1>3 DEF Second
<1>7. Count'
  BY <1>0, <1>3, SameCount DEF SgFds
<1>8. Told'
  BY <1>0, <1>1, <1>3 DEF Told, Scanning
<1> QED
  BY <1>0, <1>4, <1>5, <1>6, <1>7, <1>8

LEMMA OtherFileKeeps == IInv /\ OtherFile => IInv'
<1> SUFFICES ASSUME IInv, OtherFile PROVE IInv'
  OBVIOUS
<1> USE DEF IInv
<1>0. /\ app = "idle"
      /\ UNCHANGED <<lib, list, params, app, toScan, record, handle, io, held, behind, added, clean>>
  BY DEF OtherFile, libVars, scanVars
<1>1. fdTable' \in [Fds -> Uses] /\ Cardinality(SgFds') = Cardinality(SgFds)
  <2>1. CASE FreeFds # {} /\ fdTable' = [fdTable EXCEPT ![Lowest] = AppFile]
    BY <2>1, LowestFree, OpenedOther DEF Types
  <2>2. CASE \E f \in Fds : fdTable[f] = AppFile /\ fdTable' = Closed({f})
    BY <2>2, ClosedOne, UsesDiffer DEF Types
  <2> QED
    BY <2>1, <2>2 DEF OtherFile
<1>2. left' \in [Limited -> Nat] /\ Discovery' = Discovery
  <2>1. CASE Spend("file")
    BY <2>1, SameBounds DEF Limited, Discovery
  <2>2. CASE UNCHANGED left
    BY <2>2 DEF Types, Discovery
  <2> QED
    BY <2>1, <2>2 DEF OtherFile
<1>3. /\ io.stage = "none" /\ ~Looking /\ ~Talking /\ handle = Invalid /\ toScan = {}
      /\ \A i \in 1..Len(list) : list[i].fd = Invalid
  BY <1>0, AtRest DEF Passing
<1>4. ~Looking' /\ ~Talking'
  BY <1>0, <1>3 DEF Looking, Talking
<1>5. Types'
  BY <1>0, <1>1, <1>2 DEF Types
<1>6. Course' /\ Second'
  BY <1>0, <1>3, <1>4 DEF Course, Second, Passing
<1>7. Count'
  <2>1. One(Looking)' = One(Looking) /\ One(Talking)' = One(Talking)
    BY <1>3, <1>4 DEF One
  <2> QED
    BY <1>0, <1>1, <2>1, Zenon DEF Count
<1>8. Told'
  BY <1>0, <1>2, <1>4 DEF Told, Scanning
<1>9. clean' => Undisturbed'
  BY <1>0, <1>3, <1>4 DEF Undisturbed, Genuine, Different, Found, Recorded, Listed
<1> QED
  BY <1>5, <1>6, <1>7, <1>8, <1>9

-----------------------------------------------------------------------------
(* The pass-through *)

(* The device a pass-through is for: the record that is being qualified, or one
   of the list. *)
LEMMA TargetIs ==
    ASSUME IInv, app \in Passing
    PROVE  /\ Target \in Devices /\ Target.kind = "sg" /\ Target.node \in Nodes
           /\ io.target = 0 => Target = record /\ Looking
           /\ io.target # 0 => /\ io.target \in 1..Len(list) /\ Target = list[io.target]
                               /\ ~Looking /\ io.stage = "call" /\ toScan = {}
<1> USE DEF IInv
<1>1. io.stage # "none" /\ io.stage \in Looks \cup {"none", "call"}
  BY DEF Course, Types, Calls
<1>2. CASE Looking
  <2>1. io.target = 0 /\ Target = record
    BY <1>2 DEF Course, Target
  <2> QED
    BY <1>2, <2>1 DEF Course, Types
<1>3. CASE io.stage = "call"
  <2>1. ~Looking /\ io.target \in 1..Len(list) /\ io.target # 0
    BY <1>3, ListIsFunction DEF Course, Looking, Looks
  <2>2. Target = list[io.target] /\ Target \in Devices
    BY <2>1, ListIsFunction DEF Target
  <2>3. toScan = {}
    BY <2>1 DEF Course, Passing
  <2> QED
    BY <1>3, <2>1, <2>2, <2>3 DEF Course
<1> QED
  BY <1>1, <1>2, <1>3 DEF Looking

(* SetFd changes the descriptor of that device and nothing else. *)
LEMMA SetsFd ==
    ASSUME IInv, app \in Passing, NEW fd \in Descriptors, SetFd(fd)
    PROVE  /\ list' \in Seq(Devices) /\ Len(list') = Len(list) /\ record' \in Devices
           /\ \A i \in 1..Len(list) :
                /\ list'[i].kind = list[i].kind /\ list'[i].node = list[i].node
                /\ list'[i].id = list[i].id /\ list'[i].enclosure = list[i].enclosure
                /\ list'[i].fd = IF i = io.target THEN fd ELSE list[i].fd
           /\ record'.kind = record.kind /\ record'.node = record.node
           /\ record'.id = record.id /\ record'.enclosure = record.enclosure
           /\ record'.fd = IF io.target = 0 THEN fd ELSE record.fd
<1>1. record \in Devices /\ list \in Seq(Devices) /\ Len(list) \in Nat
  BY LenProperties DEF IInv, Types
<1>2. CASE io.target = 0
  <2>1. record' = [record EXCEPT !.fd = fd] /\ list' = list
    BY <1>2 DEF SetFd
  <2> QED
    BY <1>1, <1>2, <2>1 DEF Devices
<1>3. CASE io.target # 0
  <2>0. io.target \in 1..Len(list)
    BY <1>3, TargetIs
  <2> DEFINE d == [list[io.target] EXCEPT !.fd = fd]
  <2>1. list' = [list EXCEPT ![io.target] = d] /\ record' = record
    BY <1>3 DEF SetFd
  <2>2. list[io.target] \in Devices
    BY <2>0, ListIsFunction DEF IInv
  <2>3. /\ d \in Devices /\ d.kind = list[io.target].kind /\ d.node = list[io.target].node
        /\ d.id = list[io.target].id /\ d.enclosure = list[io.target].enclosure /\ d.fd = fd
    BY <2>2 DEF Devices
  <2> HIDE DEF d
  <2>4. /\ list' \in Seq(Devices) /\ Len(list') = Len(list)
        /\ \A i \in 1..Len(list) : list'[i] = IF i = io.target THEN d ELSE list[i]
    BY <1>1, <2>0, <2>1, <2>3, ExceptSeq
  <2> QED
    BY <1>1, <1>3, <2>1, <2>3, <2>4
<1> QED
  BY <1>2, <1>3

(* What a scan has found does not depend on the descriptors of the devices. *)
LEMMA SameScan ==
    ASSUME Len(list') = Len(list), Len(list) \in Nat,
           \A i \in 1..Len(list) :
                /\ list'[i].kind = list[i].kind /\ list'[i].node = list[i].node
                /\ list'[i].id = list[i].id /\ list'[i].enclosure = list[i].enclosure,
           record'.node = record.node, record'.id = record.id,
           record'.enclosure = record.enclosure,
           toScan' = toScan, behind' = behind, io'.stage = io.stage, app # "pci",
           Genuine, Different, Found, Recorded
    PROVE  Genuine' /\ Different' /\ Found' /\ Recorded'
<1>1. Looking' = Looking
  BY DEF Looking
<1>2. Genuine'
  BY DEF Genuine
<1>3. Different'
  BY DEF Different
<1>4. \A e : Listed(e) => \E i \in 1..Len(list') : list'[i].kind = "sg" /\ list'[i].enclosure = e
  BY DEF Listed
<1>5. Found'
  BY <1>1, <1>4 DEF Found, Listed
<1>6. Recorded'
  BY <1>1 DEF Recorded
<1> QED
  BY <1>2, <1>3, <1>5, <1>6

LEMMA OpenNodeKeeps == IInv /\ OpenNode => IInv'
<1> SUFFICES ASSUME IInv, OpenNode PROVE IInv'
  OBVIOUS
<1> USE DEF IInv
<1>0. /\ app = "open"
      /\ UNCHANGED <<lib, params, toScan, handle, held, behind, added, left>>
  BY DEF OpenNode
<1>1. app \in Passing /\ ~Talking
  BY <1>0 DEF Passing, Talking
<1>2. CASE /\ FreeFds # {} /\ fdTable' = [fdTable EXCEPT ![Lowest] = Sg(Target.node)]
           /\ SetFd(Lowest) /\ app' = "attempt" /\ UNCHANGED <<io, clean>>
  <2>1. Lowest \in Fds /\ fdTable[Lowest] = Free /\ Lowest \in Descriptors
    BY <1>2, LowestFree DEF Descriptors
  <2>2. /\ list' \in Seq(Devices) /\ Len(list') = Len(list) /\ record' \in Devices
        /\ \A i \in 1..Len(list) :
             /\ list'[i].kind = list[i].kind /\ list'[i].node = list[i].node
             /\ list'[i].id = list[i].id /\ list'[i].enclosure = list[i].enclosure
             /\ list'[i].fd = IF i = io.target THEN Lowest ELSE list[i].fd
        /\ record'.kind = record.kind /\ record'.node = record.node
        /\ record'.id = record.id /\ record'.enclosure = record.enclosure
        /\ record'.fd = IF io.target = 0 THEN Lowest ELSE record.fd
    BY <1>1, <1>2, <2>1, SetsFd
  <2>3. /\ fdTable' \in [Fds -> Uses] /\ fdTable'[Lowest] = Sg(Target.node)
        /\ \A g \in Fds : g # Lowest => fdTable'[g] = fdTable[g]
        /\ Cardinality(SgFds') = Cardinality(SgFds) + 1
    BY <1>1, <1>2, <2>1, OpenedSg, TargetIs DEF Types
  <2>4. Looking' = Looking /\ Talking' /\ io' = io
    BY <1>2 DEF Looking, Talking
  <2>5. Types'
    BY <1>0, <1>2, <2>2, <2>3 DEF Types, Passing
  <2>6. Looking => handle \in Fds /\ handle # Lowest /\ fdTable'[handle] = fdTable[handle]
    BY <2>1, <2>3, UsesDiffer DEF Course
  <2>7. Course'
    BY <1>0, <1>1, <1>2, <2>2, <2>3, <2>4, <2>6 DEF Course, Passing
  <2>8. Target'.fd = Lowest /\ Target'.node = Target.node
    <3>1. CASE io.target = 0
      BY <2>2, <2>4, <3>1 DEF Target
    <3>2. CASE io.target # 0
      BY <1>1, <2>2, <2>4, <3>2, TargetIs DEF Target
    <3> QED
      BY <3>1, <3>2
  <2>9. Lowest # handle
    BY <2>1, <2>6, Fd DEF Course
  <2>10. Second'
    <3>1. \A i \in 1..Len(list') : list'[i].fd # Invalid => Talking' /\ io'.stage = "call" /\ i = io'.target
      BY <1>1, <2>2, <2>4, TargetIs, ListIsFunction DEF Second
    <3>2. Target'.fd \in Fds /\ fdTable'[Target'.fd] = Sg(Target'.node) /\ Target'.fd # handle'
      BY <1>0, <2>1, <2>3, <2>8, <2>9
    <3>3. Sg(Target'.node) = Sg(Target.node)'
      BY DEF Sg
    <3> QED
      BY <2>4, <3>1, <3>2, <3>3 DEF Second
  <2>11. Count'
    <3>1. One(Looking)' = One(Looking) /\ One(Talking) = 0 /\ One(Talking)' = 1
      BY <1>1, <2>4 DEF One
    <3>2. One(Looking) \in Nat
      BY DEF One
    <3> QED
      BY <1>0, <2>3, <3>1, <3>2, SgFdsFinite DEF Count, Types
  <2>12. Told'
    <3>1. Discovery' = Discovery /\ (Scanning' => Scanning) /\ held' = held
      BY <1>0, <1>2, <2>4 DEF Discovery, Scanning
    <3>2. held.handle \in Nat
      BY DEF Types
    <3> QED
      BY <2>2, <3>1, <3>2, ListIsFunction DEF Told
  <2>13. clean' => Undisturbed'
    <3>1. SUFFICES ASSUME clean PROVE Undisturbed'
      BY <1>2
    <3>2. Undisturbed /\ Len(list) \in Nat /\ app # "pci"
      BY <1>0, <3>1, ListIsFunction
    <3>3. Genuine' /\ Different' /\ Found' /\ Recorded'
      BY <1>0, <2>2, <2>4, <3>2, SameScan DEF Undisturbed
    <3> QED
      BY <1>0, <1>2, <3>2, <3>3 DEF Undisturbed
  <2> QED
    BY <2>5, <2>7, <2>10, <2>11, <2>12, <2>13
<1>3. CASE Finish("failed") /\ clean' = FALSE /\ UNCHANGED <<fdTable, record, list>>
  <2>1. io' = [io EXCEPT !.status = "failed"] /\ app' = "done"
    BY <1>3 DEF Finish
  <2>2. /\ io'.stage = io.stage /\ io'.target = io.target /\ io'.status = "failed"
        /\ io' \in Calls
    BY <2>1 DEF Calls, Types
  <2>3. Looking' = Looking /\ ~Talking'
    BY <2>1, <2>2 DEF Looking, Talking
  <2>4. Types'
    BY <1>0, <1>3, <2>1, <2>2 DEF Types, Passing
  <2>5. Course'
    BY <1>0, <1>1, <1>3, <2>1, <2>2, <2>3 DEF Course, Passing
  <2>6. Second'
    BY <1>0, <1>1, <1>3, <2>2, <2>3 DEF Second
  <2>7. Count'
    BY <1>0, <1>1, <1>3, <2>3, SameCount DEF SgFds
  <2>8. Told'
    BY <1>0, <1>3, <2>1, <2>3 DEF Told, Scanning, Discovery
  <2> QED
    BY <1>3, <2>4, <2>5, <2>6, <2>7, <2>8
<1> QED
  BY <1>2, <1>3 DEF OpenNode

LEMMA AttemptKeeps == IInv /\ Attempt => IInv'
<1> SUFFICES ASSUME IInv, Attempt PROVE IInv'
  OBVIOUS
<1> USE DEF IInv
<1>0. /\ app = "attempt" /\ app' \in {"attempt", "close"}
      /\ UNCHANGED <<lib, list, params, toScan, record, handle, held, fdTable, behind, added>>
  BY DEF Attempt, libVars, scanVars
<1>1. app \in Passing /\ Talking /\ Talking' /\ app' \in Passing
  BY <1>0 DEF Passing, Talking
<1>2. /\ io'.stage = io.stage /\ io'.target = io.target
      /\ io' \in Calls
      /\ clean' \in BOOLEAN /\ (clean' => clean)
      /\ clean' /\ app' = "close" => io'.status = "success"
  <2>1. CASE io' = [io EXCEPT !.status = "success"] /\ app' = "close" /\ UNCHANGED clean
    BY <2>1 DEF Calls, Types
  <2>2. CASE /\ io' = [io EXCEPT !.retryCount = @ - 1, !.status = "retry"]
             /\ app' = IF TriesLeft(io'.retryCount) THEN "attempt" ELSE "close"
             /\ clean' = (clean /\ io'.retryCount > 0)
    <3>1. /\ io'.stage = io.stage /\ io'.target = io.target
          /\ io' \in Calls
      <4>1. io.retryCount - 1 \in Int
        BY DEF Calls, Types
      <4>2. \A r \in Int : LET o == [io EXCEPT !.retryCount = r, !.status = "retry"]
                          IN  /\ o.stage = io.stage /\ o.target = io.target
                              /\ o \in Calls
        BY DEF Calls, Types
      <4>3. io' = [io EXCEPT !.retryCount = io.retryCount - 1, !.status = "retry"]
        BY <2>2
      <4> QED
        BY <4>1, <4>2, <4>3
    <3>2. app' = "close" => ~(io'.retryCount > 0)
      BY <2>2 DEF TriesLeft
    <3> QED
      BY <2>2, <3>1, <3>2
  <2>3. CASE io' = [io EXCEPT !.status = "failed"] /\ clean' = FALSE
    BY <2>3 DEF Calls, Types
  <2> QED
    BY <2>1, <2>2, <2>3 DEF Attempt
<1>3. left' \in [Limited -> Nat] /\ Discovery' = Discovery
  <2>1. CASE UNCHANGED left
    BY <2>1 DEF Types, Discovery
  <2>2. CASE Spend("fail")
    BY <2>2, SameBounds DEF Limited, Discovery
  <2>3. CASE left["fail"] > 0 /\ left' = [left EXCEPT !["fail"] = @ - 1]
    BY <2>3, SameBounds DEF Spend, Limited, Discovery
  <2> QED
    BY <2>1, <2>2, <2>3 DEF Attempt
<1>4. Looking' = Looking /\ Target' = Target
  BY <1>0, <1>2 DEF Looking, Target
<1>5. Types'
  BY <1>0, <1>1, <1>2, <1>3 DEF Types
<1>6. Course'
  BY <1>0, <1>1, <1>2, <1>4 DEF Course
<1>7. Second'
  BY <1>0, <1>1, <1>2, <1>4 DEF Second
<1>8. Count'
  BY <1>0, <1>1, <1>4, SameCount DEF SgFds
<1>9. Told'
  BY <1>0, <1>3, <1>4 DEF Told, Scanning
<1>10. clean' => Undisturbed'
  <2>1. SUFFICES ASSUME clean' PROVE Undisturbed'
    OBVIOUS
  <2>2. Undisturbed /\ (app' = "close" => io'.status = "success") /\ Len(list) \in Nat
    BY <1>2, <2>1, ListIsFunction
  <2>3. Genuine' /\ Different' /\ Found' /\ Recorded'
    BY <1>0, <1>2, <2>2, SameScan DEF Undisturbed
  <2> QED
    BY <1>0, <2>2, <2>3 DEF Undisturbed
<1> QED
  BY <1>5, <1>6, <1>7, <1>8, <1>9, <1>10

LEMMA CloseDeviceKeeps == IInv /\ CloseDevice => IInv'
<1> SUFFICES ASSUME IInv, CloseDevice PROVE IInv'
  OBVIOUS
<1> USE DEF IInv
<1>0. /\ app = "close" /\ app' = "done" /\ fdTable' = Closed({Target.fd}) /\ SetFd(Invalid)
      /\ UNCHANGED <<lib, params, toScan, handle, io, held, behind, added, clean, left>>
  BY DEF CloseDevice
<1>1. app \in Passing /\ Talking /\ ~Talking' /\ Looking' = Looking /\ Invalid \in Descriptors
  BY <1>0 DEF Passing, Talking, Looking, Descriptors
<1>2. Target.fd \in Fds /\ fdTable[Target.fd] = Sg(Target.node) /\ Target.fd # handle
  BY <1>1 DEF Second
<1>3. /\ list' \in Seq(Devices) /\ Len(list') = Len(list) /\ record' \in Devices
      /\ \A i \in 1..Len(list) :
           /\ list'[i].kind = list[i].kind /\ list'[i].node = list[i].node
           /\ list'[i].id = list[i].id /\ list'[i].enclosure = list[i].enclosure
           /\ list'[i].fd = IF i = io.target THEN Invalid ELSE list[i].fd
      /\ record'.kind = record.kind /\ record'.node = record.node
      /\ record'.id = record.id /\ record'.enclosure = record.enclosure
      /\ record'.fd = IF io.target = 0 THEN Invalid ELSE record.fd
  BY <1>0, <1>1, SetsFd
<1>4. /\ fdTable' \in [Fds -> Uses]
      /\ \A g \in Fds : g # Target.fd => fdTable'[g] = fdTable[g]
      /\ Cardinality(SgFds') = Cardinality(SgFds) - 1
  <2>1. Sg(Target.node).kind = "sg"
    BY DEF Sg
  <2> QED
    BY <1>0, <1>2, <2>1, ClosedOne DEF Types
<1>5. Types'
  BY <1>0, <1>3, <1>4 DEF Types, Passing
<1>6. Course'
  BY <1>0, <1>1, <1>2, <1>3, <1>4 DEF Course, Passing
<1>7. Second'
  BY <1>0, <1>1, <1>3 DEF Second, Course
<1>8. Count'
  <2>1. One(Looking)' = One(Looking) /\ One(Talking) = 1 /\ One(Talking)' = 0
    BY <1>1 DEF One
  <2>2. One(Looking) \in Nat
    BY DEF One
  <2> QED
    BY <1>0, <1>4, <2>1, <2>2, SgFdsFinite DEF Count, Types
<1>9. Told'
  <2>1. Discovery' = Discovery /\ (Scanning' => Scanning) /\ held' = held
    BY <1>0, <1>1 DEF Discovery, Scanning
  <2>2. held.handle \in Nat
    BY DEF Types
  <2> QED
    BY <1>3, <2>1, <2>2, ListIsFunction DEF Told
<1>10. clean' => Undisturbed'
  <2>1. SUFFICES ASSUME clean PROVE Undisturbed'
    BY <1>0
  <2>2. Undisturbed /\ Len(list) \in Nat /\ app # "pci"
    BY <1>0, <2>1, ListIsFunction
  <2>3. Genuine' /\ Different' /\ Found' /\ Recorded'
    BY <1>0, <1>3, <2>2, SameScan DEF Undisturbed
  <2> QED
    BY <1>0, <2>2, <2>3 DEF Undisturbed
<1> QED
  BY <1>5, <1>6, <1>7, <1>8, <1>9, <1>10

-----------------------------------------------------------------------------
(* Looking at a node *)

(* A node is about to be tried as something: no second descriptor is open. *)
LEMMA Begun ==
    ASSUME NEW stage \in Looks \cup {"call"}, Begin(0, stage)
    PROVE  /\ app' = "open" /\ io'.target = 0 /\ io'.stage = stage /\ io'.status = "none"
           /\ io' \in Calls
           /\ (stage \in Looks => Looking') /\ ~Talking'
BY DEF Calls, Begin, Looking, Talking

LEMMA Forgotten ==
    ASSUME Forget, app' = "scan"
    PROVE  /\ record' \in Devices /\ handle' = Invalid /\ handle' \in Descriptors
           /\ io'.stage = "none" /\ ~Looking' /\ ~Talking'
           /\ io' \in Calls
BY NoRecordIsDevice DEF Calls, Forget, NoIo, Looking, Looks, Talking, Descriptors

LEMMA CheckNodeKeeps ==
    ASSUME NEW n \in Nodes
    PROVE  IInv /\ CheckNode(n) => IInv'
<1> SUFFICES ASSUME IInv, CheckNode(n) PROVE IInv'
  OBVIOUS
<1> USE DEF IInv
<1>0. /\ app = "scan" /\ toScan' = toScan \ {n} /\ toScan' \subseteq Nodes
      /\ UNCHANGED <<lib, list, params, held, behind, added, left>>
  BY DEF CheckNode, libVars, Types
<1>1. /\ io.stage = "none" /\ ~Looking /\ ~Talking /\ handle = Invalid
      /\ \A i \in 1..Len(list) : list[i].fd = Invalid
  BY <1>0, AtRest DEF Passing
<1>2. CASE /\ behind[n] # None /\ FreeFds # {}
           /\ fdTable' = [fdTable EXCEPT ![Lowest] = Sg(n)]
           /\ handle' = Lowest
           /\ record' = Device("sg", n, Lowest, [None EXCEPT !.adapter = behind[n].adapter], None)
           /\ Begin(0, "expander") /\ UNCHANGED clean
  <2>1. Lowest \in Fds /\ fdTable[Lowest] = Free /\ Lowest \in Descriptors
    BY <1>2, LowestFree DEF Descriptors
  <2>2. /\ app' = "open" /\ io'.target = 0 /\ io'.stage = "expander" /\ io'.status = "none"
        /\ io' \in Calls
        /\ Looking' /\ ~Talking'
    BY <1>2, Begun DEF Looks
  <2>3. behind[n] \in Enclosures /\ behind[n].adapter \in Nat
    BY <1>2, Nothing DEF Types, Identities
  <2> DEFINE id == [None EXCEPT !.adapter = behind[n].adapter]
  <2>4. id \in Identities /\ id.adapter = behind[n].adapter
    BY <2>3, Nothing DEF Identities
  <2>5. record' = Device("sg", n, Lowest, id, None) /\ n \in Places
    BY <1>2 DEF Places
  <2> HIDE DEF id
  <2>6. /\ record' \in Devices /\ record'.kind = "sg" /\ record'.node = n
        /\ record'.fd = Lowest /\ record'.id = id
    BY <2>1, <2>4, <2>5, DeviceFields
  <2>7. /\ fdTable' \in [Fds -> Uses] /\ fdTable'[Lowest] = Sg(n)
        /\ Cardinality(SgFds') = Cardinality(SgFds) + 1
    BY <1>2, <2>1, OpenedSg DEF Types
  <2>8. Types'
    BY <1>0, <1>2, <2>1, <2>2, <2>6, <2>7 DEF Types, Passing
  <2>9. Course'
    BY <1>0, <1>2, <2>1, <2>2, <2>6, <2>7 DEF Course, Passing, Looking, Looks
  <2>10. Second'
    BY <1>0, <1>1, <1>2, <2>2, <2>6 DEF Second
  <2>11. Count'
    <3>1. One(Looking) = 0 /\ One(Looking)' = 1 /\ One(Talking) = 0 /\ One(Talking)' = 0
      BY <1>1, <2>2 DEF One
    <3> QED
      BY <1>0, <2>7, <3>1, SgFdsFinite DEF Count, Types
  <2>12. Told'
    BY <1>0 DEF Told, Scanning, Discovery
  <2>13. clean' => Undisturbed'
    <3>1. SUFFICES ASSUME clean PROVE Undisturbed'
      BY <1>2
    <3>2. Undisturbed
      BY <3>1
    <3>3. Genuine' /\ Different'
      BY <1>0, <3>2 DEF Undisturbed, Genuine, Different
    <3>4. \A m \in Nodes : m \in toScan \/ behind[m] = None \/ Listed(behind[m])
      BY <1>0, <1>1, <3>2 DEF Undisturbed, Found
    <3>5. Found'
      BY <1>0, <2>2, <2>6, <3>4 DEF Found, Listed
    <3>6. Recorded'
      BY <1>0, <2>2, <2>3, <2>4, <2>6 DEF Recorded
    <3> QED
      BY <1>0, <2>2, <3>2, <3>3, <3>5, <3>6 DEF Undisturbed
  <2> QED
    BY <2>8, <2>9, <2>10, <2>11, <2>12, <2>13
<1>3. CASE clean' = (clean /\ behind[n] = None) /\ UNCHANGED <<fdTable, handle, record, io, app>>
  <2>1. ~Looking' /\ ~Talking'
    BY <1>1, <1>3 DEF Looking, Talking
  <2>2. Types'
    BY <1>0, <1>3 DEF Types
  <2>3. Course' /\ Second'
    BY <1>0, <1>1, <1>3, <2>1 DEF Course, Second, Passing
  <2>4. Count'
    BY <1>0, <1>1, <1>3, <2>1, SameCount DEF SgFds
  <2>5. Told'
    BY <1>0, <1>3, <2>1 DEF Told, Scanning, Discovery
  <2>6. clean' => Undisturbed'
    <3>1. SUFFICES ASSUME clean' PROVE Undisturbed'
      OBVIOUS
    <3>2. Undisturbed /\ behind[n] = None
      BY <1>3, <3>1
    <3>3. Genuine' /\ Different' /\ Recorded'
      BY <1>0, <2>1, <3>2 DEF Undisturbed, Genuine, Different, Recorded
    <3>4. \A m \in Nodes : m \in toScan \/ behind[m] = None \/ Listed(behind[m])
      BY <1>0, <1>1, <3>2 DEF Undisturbed, Found
    <3>5. Found'
      BY <1>0, <3>2, <3>4 DEF Found, Listed
    <3> QED
      BY <1>0, <1>3, <3>2, <3>3, <3>5 DEF Undisturbed
  <2> QED
    BY <2>2, <2>3, <2>4, <2>5, <2>6
<1> QED
  BY <1>2, <1>3, Zenon DEF CheckNode

LEMMA RecognisedKeeps == IInv /\ Recognised => IInv'
<1> SUFFICES ASSUME IInv, Recognised PROVE IInv'
  OBVIOUS
<1> USE DEF IInv
<1>0. /\ app = "done" /\ io.status = "success" /\ io.stage \in {"expander", "switch"}
      /\ behind[record.node].family = io.stage /\ Begin(0, "sas")
      /\ record' = [record EXCEPT !.id.family = io.stage, !.enclosure = behind[record.node]]
      /\ UNCHANGED <<lib, list, params, toScan, handle, held, fdTable, behind, added, clean, left>>
  BY DEF Recognised, Succeeded, libVars
<1>1. Looking /\ ~Talking /\ app \in Passing
  BY <1>0 DEF Looking, Looks, Talking, Passing
<1>2. /\ app' = "open" /\ io'.target = 0 /\ io'.stage = "sas" /\ Looking' /\ ~Talking'
      /\ io' \in Calls
  BY <1>0, Begun DEF Looks
<1>3. /\ record' \in Devices /\ record'.kind = record.kind /\ record'.node = record.node
      /\ record'.fd = record.fd /\ record'.enclosure = behind[record.node]
      /\ record'.id.family = io.stage /\ record'.id.adapter = record.id.adapter
  <2>1. record \in Devices /\ record.id \in Identities /\ io.stage \in Families
    BY <1>0 DEF Types, Devices, Families
  <2>2. behind[record.node] \in Enclosures \cup {None}
    BY <1>1 DEF Types, Course
  <2> DEFINE id == [record.id EXCEPT !.family = io.stage]
  <2>3. id \in Identities /\ id.family = io.stage /\ id.adapter = record.id.adapter
    BY <2>1 DEF Identities
  <2>4. record' = [record EXCEPT !.id = id, !.enclosure = behind[record.node]]
    BY <1>0
  <2> HIDE DEF id
  <2> QED
    BY <2>1, <2>2, <2>3, <2>4 DEF Devices
<1>4. Types'
  BY <1>0, <1>2, <1>3 DEF Types, Passing
<1>5. Course'
  BY <1>0, <1>1, <1>2, <1>3 DEF Course, Passing
<1>6. Second'
  BY <1>0, <1>1, <1>2, <1>3 DEF Second
<1>7. Count'
  BY <1>0, <1>1, <1>2, SameCount DEF SgFds
<1>8. Told'
  BY <1>0, <1>1 DEF Told, Scanning, Discovery
<1>9. clean' => Undisturbed'
  <2>1. SUFFICES ASSUME clean PROVE Undisturbed'
    BY <1>0
  <2>2. Undisturbed
    BY <2>1
  <2>3. Genuine' /\ Different'
    BY <1>0, <2>2 DEF Undisturbed, Genuine, Different
  <2>4. Found'
    BY <1>0, <1>1, <1>2, <1>3, <2>2 DEF Undisturbed, Found, Listed
  <2>5. Recorded'
    BY <1>0, <1>1, <1>2, <1>3, <2>2 DEF Undisturbed, Recorded
  <2> QED
    BY <1>0, <1>2, <2>2, <2>3, <2>4, <2>5 DEF Undisturbed
<1> QED
  BY <1>4, <1>5, <1>6, <1>7, <1>8, <1>9

LEMMA TrySwitchKeeps == IInv /\ TrySwitch => IInv'
<1> SUFFICES ASSUME IInv, TrySwitch PROVE IInv'
  OBVIOUS
<1> USE DEF IInv
<1>0. /\ app = "done" /\ io.stage = "expander" /\ Begin(0, "switch")
      /\ io.status = "success" => behind[record.node].family # "expander"
      /\ UNCHANGED <<lib, list, params, toScan, record, handle, held, fdTable, behind, added, clean, left>>
  BY DEF TrySwitch, libVars, scanVars
<1>1. Looking /\ ~Talking /\ app \in Passing
  BY <1>0 DEF Looking, Looks, Talking, Passing
<1>2. /\ app' = "open" /\ io'.target = 0 /\ io'.stage = "switch" /\ io'.status = "none"
      /\ Looking' /\ ~Talking'
      /\ io' \in Calls
  BY <1>0, Begun DEF Looks
<1>4. Types'
  BY <1>0, <1>2 DEF Types, Passing
<1>5. Course'
  BY <1>0, <1>1, <1>2 DEF Course, Passing
<1>6. Second'
  BY <1>0, <1>1, <1>2 DEF Second
<1>7. Count'
  BY <1>0, <1>1, <1>2, SameCount DEF SgFds
<1>8. Told'
  BY <1>0, <1>1 DEF Told, Scanning, Discovery
<1>9. clean' => Undisturbed'
  <2>1. SUFFICES ASSUME clean PROVE Undisturbed'
    BY <1>0
  <2>2. Undisturbed
    BY <2>1
  <2>3. Genuine' /\ Different'
    BY <1>0, <2>2 DEF Undisturbed, Genuine, Different
  <2>4. Found'
    BY <1>0, <1>1, <1>2, <2>2 DEF Undisturbed, Found, Listed
  <2>5. Recorded'
    BY <1>0, <1>1, <1>2, <2>2 DEF Undisturbed, Recorded
  <2> QED
    BY <1>0, <1>2, <2>2, <2>3, <2>4, <2>5 DEF Undisturbed
<1> QED
  BY <1>4, <1>5, <1>6, <1>7, <1>8, <1>9

(* The first descriptor of a node that is given up is closed. *)
LEMMA NodeClosed ==
    ASSUME IInv, Looking, CloseNode
    PROVE  /\ fdTable' \in [Fds -> Uses] /\ Cardinality(SgFds') = Cardinality(SgFds) - 1
           /\ handle \in Fds /\ fdTable[handle].kind = "sg"
           /\ \A g \in Fds : g # handle => fdTable'[g] = fdTable[g]
<1>1. handle \in Fds /\ fdTable[handle].kind = "sg"
  BY UsesDiffer DEF IInv, Course
<1> QED
  BY <1>1, ClosedOne DEF CloseNode, IInv, Types

LEMMA RejectKeeps == IInv /\ Reject => IInv'
<1> SUFFICES ASSUME IInv, Reject PROVE IInv'
  OBVIOUS
<1> USE DEF IInv
<1>0. /\ app = "done" /\ app' = "scan" /\ io.stage = "switch" /\ CloseNode /\ Forget
      /\ io.status = "success" => behind[record.node].family # "switch"
      /\ UNCHANGED <<lib, list, params, toScan, held, behind, added, clean, left>>
  BY DEF Reject, libVars
<1>1. Looking /\ ~Talking /\ app \in Passing
  BY <1>0 DEF Looking, Looks, Talking, Passing
<1>2. /\ record' \in Devices /\ handle' = Invalid /\ handle' \in Descriptors
      /\ io'.stage = "none" /\ ~Looking' /\ ~Talking'
      /\ io' \in Calls
  BY <1>0, Forgotten
<1>3. fdTable' \in [Fds -> Uses] /\ Cardinality(SgFds') = Cardinality(SgFds) - 1
  BY <1>0, <1>1, NodeClosed
<1>4. Types'
  BY <1>0, <1>2, <1>3 DEF Types
<1>5. Course' /\ Second'
  BY <1>0, <1>1, <1>2 DEF Course, Second, Passing
<1>6. Count'
  <2>1. One(Looking) = 1 /\ One(Looking)' = 0 /\ One(Talking) = 0 /\ One(Talking)' = 0
    BY <1>1, <1>2 DEF One
  <2> QED
    BY <1>0, <1>3, <2>1, SgFdsFinite DEF Count, Types
<1>7. Told'
  BY <1>0, <1>1 DEF Told, Scanning, Discovery
<1>8. ~clean
  <2>1. SUFFICES ASSUME clean PROVE FALSE
    OBVIOUS
  <2>2. /\ io.status = "success" /\ behind[record.node] \in Enclosures
        /\ behind[record.node].family # "expander"
    BY <1>0, <1>1, <2>1 DEF Undisturbed, Recorded
  <2>3. behind[record.node].family \in {"expander", "switch"}
    BY <2>2, ManagerAssumption
  <2> QED
    BY <1>0, <2>2, <2>3
<1> QED
  BY <1>0, <1>4, <1>5, <1>6, <1>7, <1>8

LEMMA AddKeeps == IInv /\ Add => IInv'
<1> SUFFICES ASSUME IInv, Add PROVE IInv'
  OBVIOUS
<1> USE DEF IInv
<1> DEFINE sas == IF io.status = "success" THEN behind[record.node].sas ELSE 0
           d   == [record EXCEPT !.id.sas = sas]
<1>0. /\ app = "done" /\ app' = "scan" /\ io.stage = "sas" /\ Forget
      /\ UNCHANGED <<lib, params, toScan, held, behind, clean, left>>
  BY DEF Add
<1>1. Looking /\ ~Talking /\ app \in Passing
  BY <1>0 DEF Looking, Looks, Talking, Passing
<1>2. /\ record' \in Devices /\ handle' = Invalid /\ handle' \in Descriptors
      /\ io'.stage = "none" /\ ~Looking' /\ ~Talking'
      /\ io' \in Calls
  BY <1>0, Forgotten
<1>3. /\ d \in Devices /\ d.kind = "sg" /\ d.node = record.node /\ d.node \in Nodes
      /\ d.fd = Invalid /\ d.enclosure = record.enclosure /\ d.id \in Identities
      /\ d.id.family = record.id.family /\ d.id.adapter = record.id.adapter /\ d.id.sas = sas
  <2>1. record \in Devices /\ record.id \in Identities
    BY DEF Types, Devices
  <2>2. behind[record.node] \in Identities
    BY <1>1, Nothing DEF Types, Course
  <2>3. sas \in Nat
    BY <2>2 DEF Identities
  <2> HIDE DEF sas
  <2> DEFINE id == [record.id EXCEPT !.sas = sas]
  <2>4. /\ id \in Identities /\ id.family = record.id.family
        /\ id.adapter = record.id.adapter /\ id.sas = sas
    BY <2>1, <2>3 DEF Identities
  <2>5. d = [record EXCEPT !.id = id]
    OBVIOUS
  <2>6. record.kind = "sg" /\ record.node \in Nodes /\ record.fd = Invalid
    BY <1>0, <1>1 DEF Course, Second
  <2> HIDE DEF id, d
  <2> QED
    BY <2>1, <2>4, <2>5, <2>6 DEF Devices
<1>4. clean => /\ behind[record.node] \in Enclosures /\ d.id = behind[record.node]
               /\ d.enclosure = behind[record.node]
  <2>1. SUFFICES ASSUME clean
                 PROVE  /\ behind[record.node] \in Enclosures /\ d.id = behind[record.node]
                        /\ d.enclosure = behind[record.node]
    OBVIOUS
  <2>2. /\ behind[record.node] \in Enclosures /\ io.status = "success"
        /\ record.id.adapter = behind[record.node].adapter
        /\ record.id.family = behind[record.node].family
        /\ record.enclosure = behind[record.node]
    BY <1>0, <1>1, <2>1 DEF Undisturbed, Recorded
  <2>3. behind[record.node] \in Identities /\ sas = behind[record.node].sas
    BY <2>2, Nothing
  <2> HIDE DEF sas, d
  <2>4. d.id = behind[record.node]
    BY <1>3, <2>2, <2>3 DEF Identities
  <2> QED
    BY <1>3, <2>2, <2>4
<1>5. \/ Duplicate(d) /\ CloseNode /\ UNCHANGED <<list, added>>
      \/ ~Duplicate(d) /\ list' = Append(list, d) /\ added' = added + 1 /\ UNCHANGED fdTable
  BY DEF Add
<1> HIDE DEF sas, d
<1>6. \A i \in 1..Len(list) : list[i].fd = Invalid
  BY <1>1 DEF Second
<1>7. One(Looking) = 1 /\ One(Looking)' = 0 /\ One(Talking) = 0 /\ One(Talking)' = 0
  BY <1>1, <1>2 DEF One
<1>8. CASE Duplicate(d) /\ CloseNode /\ UNCHANGED <<list, added>>
  <2>1. fdTable' \in [Fds -> Uses] /\ Cardinality(SgFds') = Cardinality(SgFds) - 1
    BY <1>1, <1>8, NodeClosed
  <2>2. Types'
    BY <1>0, <1>2, <1>8, <2>1 DEF Types
  <2>3. Course' /\ Second'
    BY <1>0, <1>2, <1>6, <1>8 DEF Course, Second, Passing
  <2>4. Count'
    BY <1>7, <1>8, <2>1, SgFdsFinite DEF Count, Types
  <2>5. Told'
    BY <1>0, <1>1, <1>8 DEF Told, Scanning, Discovery
  <2>6. clean' => Undisturbed'
    <3>1. SUFFICES ASSUME clean PROVE Undisturbed'
      BY <1>0
    <3>2. Undisturbed
      BY <3>1
    <3>3. Genuine' /\ Different'
      BY <1>0, <1>8, <3>2 DEF Undisturbed, Genuine, Different
    <3>4. Listed(behind[record.node])
      BY <1>4, <1>8, <3>1, <3>2 DEF Duplicate, Listed, Undisturbed, Genuine
    <3>5. Found'
      BY <1>0, <1>1, <1>2, <1>8, <3>2, <3>4 DEF Undisturbed, Found, Listed
    <3>6. Recorded'
      BY <1>2 DEF Recorded
    <3> QED
      BY <1>0, <1>8, <3>2, <3>3, <3>5, <3>6 DEF Undisturbed
  <2> QED
    BY <2>2, <2>3, <2>4, <2>5, <2>6
<1>9. CASE ~Duplicate(d) /\ list' = Append(list, d) /\ added' = added + 1 /\ UNCHANGED fdTable
  <2>0. list \in Seq(Devices) /\ Len(list) \in Nat
    BY LenProperties DEF Types
  <2>1. /\ list' \in Seq(Devices) /\ Len(list') = Len(list) + 1
        /\ \A i \in 1..Len(list) : list'[i] = list[i]
        /\ list'[Len(list) + 1] = d
    BY <1>3, <1>9, <2>0, AppendProperties
  <2>2. \A i \in 1..Len(list') : i \in 1..Len(list) \/ i = Len(list) + 1
    BY <2>0, <2>1
  <2>3. Types'
    BY <1>0, <1>2, <1>9, <2>1 DEF Types
  <2>4. Course' /\ Second'
    BY <1>0, <1>2, <1>3, <1>6, <2>1, <2>2 DEF Course, Second, Passing
  <2>5. Count'
    <3>1. SgFds' = SgFds
      BY <1>9 DEF SgFds
    <3>2. Cardinality(SgFds') = Cardinality(SgFds)
      BY <3>1
    <3> QED
      BY <1>7, <1>9, <3>2, SgFdsFinite DEF Count, Types
  <2>6. Told'
    BY <1>0, <1>1 DEF Told, Scanning, Discovery
  <2>7. clean' => Undisturbed'
    <3>1. SUFFICES ASSUME clean PROVE Undisturbed'
      BY <1>0
    <3>2. Undisturbed
      BY <3>1
    <3>3. Genuine'
      BY <1>0, <1>3, <1>4, <2>1, <2>2, <3>1, <3>2 DEF Undisturbed, Genuine
    <3>4. \A i \in 1..Len(list) : list[i].kind = "sg" => list[i].id # d.id
      BY <1>9 DEF Duplicate
    <3>5. Different'
      BY <2>1, <2>2, <3>2, <3>4 DEF Undisturbed, Different
    <3>6. \A e : Listed(e) => Listed(e)'
      <4>1. 1..Len(list) \subseteq 1..Len(list')
        BY <2>0, <2>1
      <4> QED
        BY <2>1, <4>1 DEF Listed
    <3>7. Found'
      <4>0. Len(list) + 1 \in 1..Len(list')
        BY <2>0, <2>1
      <4>1. \E i \in 1..Len(list') : list'[i].kind = "sg" /\ list'[i].enclosure = behind[record.node]
        BY <1>3, <1>4, <2>1, <3>1, <4>0
      <4>2. \A n \in Nodes : \/ n \in toScan \/ n = record.node
                             \/ behind[n] = None \/ Listed(behind[n])
        BY <1>0, <3>2 DEF Undisturbed, Found
      <4>3. \A n \in Nodes : Listed(behind[n])
              => \E i \in 1..Len(list') : list'[i].kind = "sg" /\ list'[i].enclosure = behind[n]
        BY <3>6 DEF Listed
      <4> QED
        BY <1>0, <4>1, <4>2, <4>3 DEF Found, Listed
    <3>8. Recorded'
      BY <1>2 DEF Recorded
    <3> QED
      BY <1>0, <3>2, <3>3, <3>5, <3>7, <3>8 DEF Undisturbed
  <2> QED
    BY <2>3, <2>4, <2>5, <2>6, <2>7
<1> QED
  BY <1>5, <1>8, <1>9

-----------------------------------------------------------------------------
(* The invariant and what follows from it *)

THEOREM Invariance == Spec => []IInv
<1>1. Init => IInv
  BY Initially
<1>2. IInv /\ [Next]_vars => IInv'
  <2> SUFFICES ASSUME IInv, [Next]_vars PROVE IInv'
    OBVIOUS
  <2>1. CASE Initialize \/ Exit
    BY <2>1, InitializeKeeps, ExitKeeps
  <2>2. CASE \E serial \in BOOLEAN, f \in {"null", "port"} : Discover(serial, f)
    BY <2>2, DiscoverKeeps
  <2>3. CASE \E i \in 0..Len(list) : GetDeviceInfo(i)
    BY <2>3, GetDeviceInfoKeeps
  <2>4. CASE PassThrough
    BY <2>4, PassThroughKeeps
  <2>5. CASE LibStep
    BY <2>5, ConnectSdbKeeps, ScanPciKeeps, CheckNodeKeeps, ScanDoneKeeps, OpenNodeKeeps, AttemptKeeps,
       CloseDeviceKeeps, RecognisedKeeps, TrySwitchKeeps, RejectKeeps, AddKeeps, ReturnKeeps
       DEF LibStep
  <2>6. CASE \E n \in Nodes, e \in Enclosures \cup {None} : Move(n, e)
    BY <2>6, MoveKeeps
  <2>7. CASE OtherFile
    BY <2>7, OtherFileKeeps
  <2>8. CASE UNCHANGED vars
    <3>0. UNCHANGED <<lib, list, params, app, toScan, record, handle, io, held, fdTable, behind,
                      added, clean, left>>
      BY <2>8 DEF vars, libVars, scanVars
    <3>1. Looking' = Looking /\ Talking' = Talking /\ Target' = Target /\ SgFds' = SgFds
      BY <3>0 DEF Looking, Talking, Target, SgFds
    <3>2. Types' /\ Course' /\ Second'
      BY <3>0, <3>1 DEF IInv, Types, Course, Second
    <3>3. Count' /\ Told'
      BY <3>0, <3>1, SameCount DEF IInv, Told, Scanning, Discovery
    <3>4. Undisturbed => Undisturbed'
      BY <3>0, <3>1 DEF Undisturbed, Genuine, Different, Found, Recorded, Listed
    <3> QED
      BY <3>0, <3>2, <3>3, <3>4 DEF IInv
  <2> QED
    BY <2>1, <2>2, <2>3, <2>4, <2>5, <2>6, <2>7, <2>8 DEF Next
<1> QED
  BY <1>1, <1>2, PTL DEF Spec

(* A command goes out on a descriptor of the device's own node, although the
   record lost the descriptor it was found with and numbers are given again
   (sgOpenDevice and sgiPerformScsiPassthrough). *)
THEOREM CommandsReach == Spec => []CommandsReachTheirNode
<1>1. IInv => CommandsReachTheirNode
  BY DEF IInv, Second, Talking, CommandsReachTheirNode
<1> QED
  BY <1>1, Invariance, PTL

(* Between calls the only descriptors open on sg nodes are the ones that
   sgLinuxCheckDevice opened for devices that were added: one for each, ever. *)
THEOREM DescriptorsCounted == Spec => []DescriptorsAccountedFor
<1>1. IInv => DescriptorsAccountedFor
  <2> SUFFICES ASSUME IInv, app = "idle" PROVE Cardinality(SgFds) = added
    BY DEF DescriptorsAccountedFor, SgFds
  <2>1. One(Looking) = 0 /\ One(Talking) = 0
    BY AtRest DEF One, Passing
  <2> QED
    BY <2>1 DEF IInv, Count, Types
<1> QED
  BY <1>1, Invariance, PTL

(* A product handle leads to the device that ScrutinyGetDeviceInfo told the
   application of, until the next discovery. *)
THEOREM HandlesNameTheirDevice == Spec => []HandleNamesItsDevice
<1>1. IInv => HandleNamesItsDevice
  <2> SUFFICES ASSUME IInv, io.stage = "call", held.discovery = Discovery
               PROVE  Target.node = held.node
    BY DEF HandleNamesItsDevice
  <2>1. io.target \in 1..Len(list) /\ io.target = held.handle
    BY DEF IInv, Course
  <2>2. held.handle # 0 /\ held.handle <= Len(list) /\ Target = list[held.handle]
    BY <2>1, ListIsFunction DEF IInv, Target
  <2> QED
    BY <2>2 DEF IInv, Told
<1> QED
  BY <1>1, Invariance, PTL

(* An in-band discovery during which nothing moved and nothing failed lists every
   enclosure behind a node once, and no other, for every number of nodes and
   enclosures and every order of the directory (ldmHasDuplicateScsiDevice). *)
THEOREM EnclosuresListed == Spec => []EveryEnclosureOnce
<1>1. IInv => EveryEnclosureOnce
  <2> SUFFICES ASSUME IInv, app = "idle", clean, NEW e \in Enclosures
               PROVE  Cardinality({i \in 1..Len(list) : list[i].enclosure = e})
                        = IF \E n \in Nodes : behind[n] = e THEN 1 ELSE 0
    BY DEF EveryEnclosureOnce
  <2> DEFINE S == {i \in 1..Len(list) : list[i].enclosure = e}
  <2>1. Genuine /\ Different /\ Found /\ ~Looking /\ toScan = {} /\ e # None
    BY AtRest, Nothing DEF IInv, Undisturbed, Passing
  <2>2. \A i \in S : list[i].kind = "sg" /\ list[i].id = e /\ behind[list[i].node] = e /\ list[i].node \in Nodes
    BY <2>1 DEF Genuine, IInv, Course
  <2>3. CASE \E n \in Nodes : behind[n] = e
    <3>1. PICK i \in 1..Len(list) : list[i].enclosure = e
      BY <2>1, <2>3 DEF Found, Listed
    <3>2. \A j \in S : j = i
      BY <2>1, <2>2, <3>1 DEF Different
    <3>3. S = {i}
      BY <3>1, <3>2
    <3>4. Cardinality(S) = 1
      BY <3>3, FS_Singleton
    <3> QED
      BY <2>3, <3>4
  <2>4. CASE ~\E n \in Nodes : behind[n] = e
    <3>1. S = {}
      BY <2>2, <2>4
    <3>2. Cardinality(S) = 0
      BY <3>1, FS_EmptySet
    <3> QED
      BY <2>4, <3>2
  <2> QED
    BY <2>3, <2>4
<1> QED
  BY <1>1, Invariance, PTL

(* Whatever the library opens and closes, no descriptor of the application's own
   files and none of the driver is closed or reused (sgiCloseDevice, the close of
   sgLinuxCheckDevice, ldmiFreeDevices). *)
THEOREM FilesSurvive == Spec => FilesOfOthersSurvive
<1> DEFINE Step == app # "idle" \/ list' # list =>
                     \A f \in Fds : fdTable[f].kind \in {"file", "driver"} => fdTable'[f] = fdTable[f]
<1>1. IInv /\ [Next]_vars => [Step]_vars
  <2> SUFFICES ASSUME IInv, Next, app # "idle" \/ list' # list,
                      NEW f \in Fds, fdTable[f].kind \in {"file", "driver"}
               PROVE  fdTable'[f] = fdTable[f]
    OBVIOUS
  <2> USE DEF IInv
  <2>1. CASE UNCHANGED fdTable
    BY <2>1
  <2>2. CASE \E n \in Nodes : FreeFds # {} /\ fdTable' = [fdTable EXCEPT ![Lowest] = Sg(n)]
    BY <2>2, LowestFree, OpenedSg, UsesDiffer DEF Types
  <2>3. CASE FreeFds # {} /\ fdTable' = [fdTable EXCEPT ![Lowest] = Driver]
    BY <2>3, LowestFree, OpenedOther, UsesDiffer DEF Types
  <2>4. CASE \E g \in Fds : fdTable[g].kind = "sg" /\ fdTable' = Closed({g})
    BY <2>4, ClosedOne DEF Types
  <2>5. CASE Initialize \/ ConnectSdb \/ ScanDone \/ Attempt \/ Recognised \/ TrySwitch \/ Return \/ PassThrough
    BY <2>1, <2>5 DEF Initialize, ConnectSdb, ScanDone, Attempt, Recognised, TrySwitch, Return, PassThrough
  <2>6. CASE Exit \/ \E serial \in BOOLEAN, g \in {"null", "port"} : Discover(serial, g)
    <3>1. app = "idle" /\ (FreeDevices \/ UNCHANGED fdTable)
      BY <2>6 DEF Exit, Discover
    <3> QED
      BY <2>1, <3>1, FreesNothing
  <2>7. CASE (\E i \in 0..Len(list) : GetDeviceInfo(i)) \/ \E n \in Nodes, e \in Enclosures \cup {None} : Move(n, e)
    BY <2>1, <2>7 DEF GetDeviceInfo, Move
  <2>8. CASE ScanPci \/ \E n \in Nodes : CheckNode(n)
    BY <2>1, <2>2, <2>3, <2>8 DEF ScanPci, CheckNode
  <2>9. CASE OpenNode
    <3>1. Target.node \in Nodes
      BY <2>9, TargetIs DEF OpenNode, Passing
    <3> QED
      BY <2>1, <2>2, <2>9, <3>1 DEF OpenNode
  <2>10. CASE CloseDevice
    <3>1. Target.fd \in Fds /\ fdTable[Target.fd] = Sg(Target.node)
      BY <2>10 DEF CloseDevice, Second, Talking
    <3>2. fdTable[Target.fd].kind = "sg"
      BY <3>1 DEF Sg
    <3> QED
      BY <2>4, <2>10, <3>1, <3>2 DEF CloseDevice
  <2>11. CASE Reject \/ Add
    <3>1. Looking /\ (CloseNode \/ UNCHANGED fdTable)
      BY <2>11 DEF Reject, Add, Looking, Looks
    <3> QED
      BY <2>1, <2>4, <3>1, NodeClosed DEF CloseNode
  <2>12. CASE OtherFile
    BY <2>12 DEF OtherFile, libVars
  <2> QED
    BY <2>5, <2>6, <2>7, <2>8, <2>9, <2>10, <2>11, <2>12 DEF Next, LibStep
<1> QED
  BY <1>1, Invariance, PTL DEF Spec, FilesOfOthersSurvive

===============================================================================
