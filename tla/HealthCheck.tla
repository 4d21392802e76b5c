---- MODULE HealthCheck ----
(***************************************************************************)
(* The health checks of switches and expanders.  A check reads its limits  *)
(* from an ini file into a static reference, reads the device, may append  *)
(* what it read to a file, and reports which limits are exceeded.  A check *)
(* of a switch without ini file writes one: a baseline for later checks.   *)
(*                                                                         *)
(* Items of one kind of comparison stand for each other: "count" for all   *)
(* error counters of a port, "max" for the items that must be equal,       *)
(* "negotiated" for those that must be equal while the link is up.  Masks  *)
(* are sets of bits.                                                       *)
(***************************************************************************)
EXTENDS Naturals, SequencesExt, FiniteSetsExt

CONSTANTS
    Devices,        \* the devices checked, of "ssw", "bsw" and "exp"
    MaxPorts,       \* ATLAS_PMG_MAX_PHYS, EXP_MAX_PHYS: the size of the arrays
    ChipPorts,      \* the number of ports the chip id tells
    PortWidth,      \* the lanes of the port that starts at a number
    X1Ports,        \* the management ports beyond the stations, in order
    EnabledPorts,   \* the ports with a clock
    TotalPhys,      \* the phys of the expander
    VirtualPhys,    \* those at the end that are virtual (3)
    Bits,           \* the bits of a mask
    UncBits,        \* those of 0x007FF030
    GlobalValues,   \* what a device may tell of itself
    ErrorValues,    \* what a port may tell of its errors
    LinkValues,     \* what a port may tell of its link
    StackValues,    \* what the stack of an expander's check may hold: bits, and items of a phy
    UserFiles,      \* the ini files a user writes
    MaxChecks,      \* bound: checks of one process
    MaxFailures     \* bound: failing accesses

ASSUME HealthAssumption ==
    /\ Devices \subseteq {"ssw", "bsw", "exp"}
    /\ ChipPorts < MaxPorts /\ TotalPhys <= MaxPorts /\ VirtualPhys < TotalPhys
    /\ \A i \in DOMAIN X1Ports : X1Ports[i] \in ChipPorts .. MaxPorts - 1
    /\ UncBits \subseteq Bits

VARIABLES
    pc,         \* where the call is
    dev,        \* the device it checks
    dump,       \* DumpToFile
    status,     \* the status of the last call
    errors,     \* the bits of ErrorDwords
    ini,        \* the ini file of each family
    ref,        \* gSwhHealthConfigData and gExpHealthConfigData
    baseline,   \* ptrOutFileName is the ini file
    got,        \* what the device told in this call
    idx,        \* the next port
    listed,     \* PortConfigurations, by number
    dumped,     \* the last text written
    checks, failures

healthVars == << pc, dev, dump, status, errors, ini, ref, baseline, got, idx, listed,
                 dumped, checks, failures >>

Families == {"switch", "expander"}
Family(d) == IF d = "exp" THEN "expander" ELSE "switch"
Ports == 0 .. MaxPorts - 1

Missing == << [line |-> "missing"] >>
Directory == << [line |-> "directory"] >>

(***************************************************************************)
(* The items, and the readings that stand for them.                        *)
(***************************************************************************)
SwhGlobalItems == <<"temperature", "enclosure", "identity", "total">>
ExpGlobalItems == <<"temperature", "enclosure", "identity", "total", "sce">>
SwhPortItems == <<"up", "max", "negotiated", "count", "uncorrectable">>
ExpPortItems == <<"up", "max", "negotiated", "count">>

MaskItems == {"enclosure", "sce", "uncorrectable"}
Zero(items) == [i \in ToSet(items) |-> IF i \in MaskItems THEN {} ELSE 0]
ZeroGlobal(fam) == Zero(IF fam = "switch" THEN SwhGlobalItems ELSE ExpGlobalItems)
ZeroPort(fam) == Zero(IF fam = "switch" THEN SwhPortItems ELSE ExpPortItems)

ZeroData(fam) ==
    [global |-> ZeroGlobal(fam), ports |-> [p \in Ports |-> ZeroPort(fam)], valid |-> {}]

(***************************************************************************)
(* An ini file is a sequence of lines.  A segment is Global, Other or a    *)
(* range <<a, b>> of ports.                                                *)
(***************************************************************************)
Header(seg) == [line |-> "header", seg |-> seg]
Entry(key, value) == [line |-> "entry", key |-> key, value |-> value]
Remark == [line |-> "remark"]
BrokenHeader == [line |-> "broken"]     \* a header with a blank after its bracket
Unprintable == [line |-> "unprintable"] \* or longer than the buffer

Global == <<"global">>
Other == <<"other">>
IsRange(seg) == Len(seg) = 2

\* A header opens a page; the failure of one that is broken is dropped, and its entries go on with the page before.
LcpParserProcessLine(pages, l) ==
    CASE l.line = "header" -> Append(pages, [seg |-> l.seg, entries |-> <<>>])
      [] l.line = "entry" -> [pages EXCEPT ![Len(pages)].entries = Append(@, l)]
      [] OTHER -> pages

\* The pages of a file; the first has no name.
LcpParserParseIniContent(lines) ==
    FoldLeft(LcpParserProcessLine, << [seg |-> Other, entries |-> <<>>] >>, lines)

\* A file that is no file, is empty, or has an unprintable character is refused.
LcpiParserProcessINIFile(file) ==
    /\ file \notin {Missing, Directory, <<>>}
    /\ \A i \in DOMAIN file : file[i].line # "unprintable"

LcpiHasAnyValidEntries(pages) == \E i \in DOMAIN pages : pages[i].entries # <<>>

(***************************************************************************)
(* Loading the reference.  A load is [ok, data].                           *)
(***************************************************************************)
\* The listed values over the ones given; strict: an unknown key ends it.
SetItems(given, strict, entries) ==
    [ok   |-> strict => \A i \in DOMAIN entries : entries[i].key \in DOMAIN given,
     data |-> FoldLeft(LAMBDA g, e : IF e.key \in DOMAIN g THEN [g EXCEPT ![e.key] = e.value] ELSE g,
                       given, entries)]

\* The table is searched to its end, which is compared with the size of the expander's: no key is unknown.
ShmiEnumerateSwhGlobalSegment(load, page) ==
    [load EXCEPT !.data.global = SetItems(load.data.global, FALSE, page.entries).data]

EhmiEnumerateExpGlobalSegment(load, page) ==
    LET set == SetItems(load.data.global, TRUE, page.entries)
    IN [ok |-> set.ok, data |-> [load.data EXCEPT !.global = set.data]]

\* The settings of a port segment replace those of its ports; what it does not list becomes zero.
SetPorts(load, range, settings) ==
    LET covered == range[1] .. range[2] IN
    IF range[1] > range[2] \/ ~settings.ok
    THEN [load EXCEPT !.ok = FALSE]
    ELSE [load EXCEPT !.data.ports = [p \in Ports |-> IF p \in covered THEN settings.data ELSE @[p]],
                      !.data.valid = @ \union covered]

ShmiEnumeratePortSegment(load, page) ==
    SetPorts(load, page.seg, SetItems(ZeroPort("switch"), FALSE, page.entries))

EhmiEnumeratePhySegment(load, page) ==
    SetPorts(load, page.seg, SetItems(ZeroPort("expander"), TRUE, page.entries))

(* Mutant: the reference of the check before is not cleared. *)
ShmiEnumerateOverOldReference(pages) ==
    FoldLeft(LAMBDA load, page :
                CASE ~load.ok \/ page.entries = <<>> -> load
                  [] page.seg = Global -> ShmiEnumerateSwhGlobalSegment(load, page)
                  [] IsRange(page.seg) -> ShmiEnumeratePortSegment(load, page)
                  [] OTHER -> load,
             [ok |-> TRUE, data |-> ref["switch"]], pages)

\* Pages without entries are skipped; the first failure ends the walk.
ShmiEnumerateConfigDictionaries(pages) ==
    FoldLeft(LAMBDA load, page :
                CASE ~load.ok \/ page.entries = <<>> -> load
                  [] page.seg = Global -> ShmiEnumerateSwhGlobalSegment(load, page)
                  [] IsRange(page.seg) -> ShmiEnumeratePortSegment(load, page)
                  [] OTHER -> load,
             [ok |-> TRUE, data |-> ZeroData("switch")], pages)

EhmiEnumerateConfigDictionaries(pages) ==
    FoldLeft(LAMBDA load, page :
                CASE ~load.ok \/ page.entries = <<>> -> load
                  [] page.seg = Global -> EhmiEnumerateExpGlobalSegment(load, page)
                  [] IsRange(page.seg) -> EhmiEnumeratePhySegment(load, page)
                  [] OTHER -> load,
             [ok |-> TRUE, data |-> ZeroData("expander")], pages)

\* What loading a file ends with: a status, the reference, and the file itself.
Loaded(s, data, file) == [status |-> s, data |-> data, file |-> file]

(* Mutant: every file that cannot be read is taken for a missing one. *)
ShmiInitializeOrBaseline ==
    LET file == ini["switch"]
        pages == LcpParserParseIniContent(file)
        load == ShmiEnumerateConfigDictionaries(pages)
    IN IF LcpiParserProcessINIFile(file) /\ LcpiHasAnyValidEntries(pages)
       THEN Loaded(IF load.ok THEN "SUCCESS" ELSE "FAILED", load.data, file)
       ELSE Loaded("FILE_OPEN_FAILED", ZeroData("switch"), file)

\* A switch without ini file keeps the reference of zeros and says so.
ShmiInitializeHealthConfigurations ==
    LET file == ini["switch"]
        pages == LcpParserParseIniContent(file)
        load == ShmiEnumerateConfigDictionaries(pages)
    IN CASE file = Missing -> Loaded("FILE_OPEN_FAILED", ZeroData("switch"), file)
         [] file # Missing /\ ~LcpiParserProcessINIFile(file) -> Loaded("FAILED", ZeroData("switch"), file)
         [] OTHER -> IF LcpiHasAnyValidEntries(pages)
                     THEN Loaded(IF load.ok THEN "SUCCESS" ELSE "FAILED", load.data, file)
                     ELSE Loaded("FAILED", ZeroData("switch"), file)

\* An expander makes a directory of the name of its missing ini file, and then cannot read it.
EhmiInitializeHealthConfigurations ==
    LET file == IF ini["expander"] = Missing THEN Directory ELSE ini["expander"]
        pages == LcpParserParseIniContent(file)
        load == EhmiEnumerateConfigDictionaries(pages)
    IN IF LcpiParserProcessINIFile(file)
       THEN IF LcpiHasAnyValidEntries(pages)
            THEN Loaded(IF load.ok THEN "SUCCESS" ELSE "FAILED", load.data, file)
            ELSE Loaded("FAILED", ZeroData("expander"), file)
       ELSE Loaded("FAILED", ZeroData("expander"), file)

(***************************************************************************)
(* What a call reads back, in the form of the reference.                   *)
(***************************************************************************)
\* The ports before the first one whose number is beyond the total.
Filled(total) ==
    {listed[i] : i \in {j \in DOMAIN listed : \A k \in 1 .. j : listed[k] <= total}}

PortReading(p) == got.link[p] @@ got.errors[p]

SwhGlobalReading == [i \in ToSet(SwhGlobalItems) |-> got.global[i]]

ShmiFillReadBackData ==
    [global |-> SwhGlobalReading,
     ports  |-> [p \in Ports |-> IF p \in Filled(got.global.total) THEN PortReading(p) ELSE ZeroPort("switch")],
     valid  |-> ref["switch"].valid]

\* The bits of the self-configuration errors are added to what was on the stack.
ExpGlobalReading(garbage) ==
    [i \in ToSet(ExpGlobalItems) |->
        CASE i = "total" -> TotalPhys - VirtualPhys
          [] i = "sce" -> got.global.sce \union garbage
          [] OTHER -> got.global[i]]

\* The phys the expander does not have stay what the stack held.
ExpPortReading(p, garbage) ==
    [i \in ToSet(ExpPortItems) |-> IF p < TotalPhys THEN PortReading(p)[i] ELSE garbage[i]]

EhmiFillReadBackData(bits, phy) ==
    [global |-> ExpGlobalReading(bits),
     ports  |-> [p \in Ports |-> ExpPortReading(p, phy)],
     valid  |-> ref["expander"].valid]

(***************************************************************************)
(* Writing a reading as an ini file: neighbours that are equal share a     *)
(* section.  A number is written in hexadecimal with its prefix, which the *)
(* reader takes as the same number.                                        *)
(***************************************************************************)
Lines(table, values) == [i \in DOMAIN table |-> Entry(table[i], values[table[i]])]

(* Mutant: the comparison stops before the error counters. *)
SameLink(data, p, q) ==
    /\ \A i \in {"up", "max", "negotiated"} : data.ports[p][i] = data.ports[q][i]
    /\ p \in data.valid <=> q \in data.valid

SamePort(data, p, q) == data.ports[p] = data.ports[q] /\ (p \in data.valid <=> q \in data.valid)

\* The last port of the run that starts at p.
RunEnd(data, p) ==
    CHOOSE q \in p .. MaxPorts - 1 :
        /\ \A r \in p .. q : SamePort(data, p, r)
        /\ q + 1 \in Ports => ~SamePort(data, p, q + 1)

RunStarts(data, among) ==
    SelectSeq([i \in 1 .. MaxPorts |-> i - 1],
              LAMBDA p : p \in among /\ (p = 0 \/ ~SamePort(data, p - 1, p)))

Section(data, table, p) == <<Header(<<p, RunEnd(data, p)>>)>> \o Lines(table, data.ports[p])

Sections(data, table, starts) ==
    FoldLeft(LAMBDA text, p : text \o Section(data, table, p), <<>>, starts)

\* All ports are written, whether the reference names them or not.
ShmiDump(data) ==
    <<Header(Global)>> \o Lines(SwhGlobalItems, data.global)
        \o Sections(data, SwhPortItems, RunStarts(data, Ports))

\* Only the phys the reference names are written.
EhmiDump(data) ==
    <<Header(Global)>> \o Lines(ExpGlobalItems, data.global)
        \o Sections(data, ExpPortItems, RunStarts(data, data.valid))

(***************************************************************************)
(* The comparison: the items of a reading that exceed their limits.        *)
(***************************************************************************)
SwhGlobalErrors(limit, read) ==
    {i \in ToSet(SwhGlobalItems) :
        CASE i = "temperature" -> read[i] >= limit[i]
          [] i = "enclosure" -> read[i] \intersect limit[i] # {}
          [] OTHER -> read[i] # limit[i]}

SwhPortErrors(limit, read) ==
    {i \in ToSet(SwhPortItems) :
        CASE i = "up" -> limit.up # 0 /\ read.up = 0
          [] i = "max" -> read.max # limit.max
          [] i = "negotiated" -> read.up # 0 /\ read.negotiated # limit.negotiated
          [] i = "count" -> read.count >= limit.count
          [] i = "uncorrectable" ->
                read[i] \intersect UncBits \intersect (IF limit[i] = {} THEN Bits ELSE limit[i]) # {}}

ExpGlobalErrors(limit, read) ==
    {i \in ToSet(ExpGlobalItems) :
        CASE i = "temperature" -> read[i] > limit[i]
          [] i = "enclosure" -> read[i] \intersect limit[i] # {}
          [] i = "sce" -> read.sce \intersect (IF limit.sce = {} THEN Bits ELSE limit.sce) # {}
          [] OTHER -> read[i] # limit[i]}

ExpPortErrors(limit, read) ==
    {i \in ToSet(ExpPortItems) :
        CASE i = "up" -> limit.up # 0 /\ read.up = 0
          [] i = "max" -> read.max # limit.max
          [] i = "negotiated" -> read.up # 0 /\ read.negotiated # limit.negotiated
          [] i = "count" -> read.count >= limit.count}

\* The ports that are compared: below the total that was read, and named by the reference.
Compared(read) == {p \in ref[Family(dev)].valid : p < read.global.total}

ShmiCompareHealthData(read) ==
    SwhGlobalErrors(ref["switch"].global, read.global)
        \union UNION {SwhPortErrors(ref["switch"].ports[p], read.ports[p]) : p \in Compared(read)}

EhmiCompareHealthData(read) ==
    ExpGlobalErrors(ref["expander"].global, read.global)
        \union UNION {ExpPortErrors(ref["expander"].ports[p], read.ports[p]) : p \in Compared(read)}

(***************************************************************************)
(* The call.                                                               *)
(***************************************************************************)
NoReading ==
    [global |-> [temperature |-> 0, enclosure |-> {}, identity |-> 0, total |-> 0, sce |-> {}],
     errors |-> [p \in Ports |-> [count |-> 0, uncorrectable |-> {}]],
     link   |-> [p \in Ports |-> [up |-> 0, max |-> 0, negotiated |-> 0]]]

HealthInit ==
    /\ pc = "idle" /\ dev \in Devices /\ dump = FALSE
    /\ status = "SUCCESS" /\ errors = {}
    /\ ini = [f \in Families |-> Missing]
    /\ ref = [f \in Families |-> ZeroData(f)]
    /\ baseline = FALSE /\ got = NoReading /\ idx = 0 /\ listed = <<>>
    /\ dumped = <<>>
    /\ checks = 0 /\ failures = 0

\* A call ends with a status; what it has read is gone with its stack.
EndsWith(s) ==
    /\ pc' = "idle" /\ status' = s
    /\ got' = NoReading /\ idx' = 0 /\ listed' = <<>>

\* An access fails, and the call ends with its status.
AccessFails ==
    /\ failures < MaxFailures
    /\ failures' = failures + 1
    /\ EndsWith("FAILED")
    /\ UNCHANGED << dev, dump, errors, ini, ref, baseline, dumped, checks >>

\* The beginning of both checks: the reference is loaded.  Only a switch goes on without an ini file, and will make one.
StartCheck(d, toFile) ==
    LET fam == Family(d)
        load == IF fam = "switch" THEN ShmiInitializeHealthConfigurations
                                  ELSE EhmiInitializeHealthConfigurations
    IN /\ pc = "idle" /\ checks < MaxChecks
       /\ checks' = checks + 1
       /\ dev' = d /\ dump' = toFile
       /\ ini' = [ini EXCEPT ![fam] = load.file]
       /\ ref' = [ref EXCEPT ![fam] = load.data]
       /\ baseline' = (load.status = "FILE_OPEN_FAILED")
       /\ IF load.status \in {"SUCCESS", "FILE_OPEN_FAILED"}
          THEN pc' = "global" /\ UNCHANGED << status, got, idx, listed >>
          ELSE EndsWith(load.status)
       /\ dumped' = <<>> /\ errors' = {}
       /\ UNCHANGED failures

\* Temperature, enclosure state and, of an expander, the number of phys.
ReadGlobal ==
    /\ pc = "global"
    /\ \/ /\ \E g \in GlobalValues : got' = [got EXCEPT !.global = g @@ @]
          /\ pc' = "ports"
          /\ UNCHANGED << dev, dump, status, errors, ini, ref, baseline, idx, listed, dumped, checks, failures >>
       \/ AccessFails

\* spcIsPortEnabled: a read that fails counts as a port without a clock.
SpcIsPortDisabled ==
    \/ /\ idx \notin EnabledPorts
       /\ UNCHANGED failures
    \/ /\ idx \in EnabledPorts /\ failures < MaxFailures
       /\ failures' = failures + 1

\* The counters of a port; those of a station share a register that selects the port.
ReadsErrors(e) == [count |-> e.count]

\* The uncorrectable errors of its AER capability.
ReadsAer(e) == [uncorrectable |-> e.uncorrectable]

\* The error registers of the next port of a switch; a port without a clock is left at zero.
ShmiGetHealthData ==
    /\ pc = "ports" /\ Family(dev) = "switch" /\ idx < MaxPorts
    /\ \/ /\ SpcIsPortDisabled
          /\ idx' = idx + 1
          /\ UNCHANGED << pc, dev, dump, status, errors, ini, ref, baseline, got, listed, dumped, checks >>
       \/ /\ idx \in EnabledPorts
          /\ \E e \in ErrorValues : got' = [got EXCEPT !.errors[idx] = ReadsErrors(e) @@ ReadsAer(e)]
          /\ idx' = idx + 1
          /\ UNCHANGED << pc, dev, dump, status, errors, ini, ref, baseline, listed, dumped, checks, failures >>
       \/ idx \in EnabledPorts /\ AccessFails

\* What the discover, the error log and the zone of a phy tell of it.
ReadsLink(p, e, l) == [got EXCEPT !.errors[p] = e, !.link[p] = l]

\* The error counters and the link of the next phy of an expander.
EhmiGetHealthData ==
    /\ pc = "ports" /\ Family(dev) = "expander" /\ idx < TotalPhys
    /\ \/ /\ \E e \in ErrorValues, l \in LinkValues :
                got' = ReadsLink(idx, e, l)
          /\ idx' = idx + 1
          /\ UNCHANGED << pc, dev, dump, status, errors, ini, ref, baseline, listed, dumped, checks, failures >>
       \/ AccessFails

\* The self-configuration errors end the readings of an expander; a switch goes on with its port properties.
ReadingsDone ==
    /\ pc = "ports"
    /\ idx = IF Family(dev) = "switch" THEN MaxPorts ELSE TotalPhys
    /\ \/ /\ pc' = IF Family(dev) = "switch" THEN "mode" ELSE "verdict"
          /\ UNCHANGED << dev, dump, status, errors, ini, ref, baseline, got, idx, listed, dumped, checks, failures >>
       \/ Family(dev) = "expander" /\ AccessFails

(***************************************************************************)
(* The port properties of a switch.                                        *)
(***************************************************************************)
\* In base mode the number of ports is used but never stored.
StoredTotal == IF dev = "ssw" THEN ChipPorts ELSE 0

\* The mode and the chip id.
SppGetPciePortProperties ==
    /\ pc = "mode"
    /\ \/ /\ got' = [got EXCEPT !.global.total = StoredTotal]
          /\ pc' = "properties" /\ idx' = 0 /\ listed' = <<>>
          /\ UNCHANGED << dev, dump, status, errors, ini, ref, baseline, dumped, checks, failures >>
       \/ AccessFails

\* The next port of the loops over the stations and over the x1 ports.
NextPort ==
    IF idx < ChipPorts THEN idx ELSE X1Ports[idx - ChipPorts + 1]

\* The link of a port, from its PCI Express capability.
PortLink(p, l) == [got EXCEPT !.link[p] = l]

\* The walk over the capabilities or a register of the port fails.
PortFails == failures < MaxFailures /\ failures' = failures + 1

\* One port is read; its width leads to the next.  When the read fails the same port is tried again.
SppGetPcieOnePortProperties ==
    /\ pc = "properties" /\ idx < ChipPorts + Len(X1Ports)
    /\ \/ /\ \E l \in LinkValues : got' = PortLink(NextPort, l)
          /\ listed' = Append(listed, NextPort)
          /\ idx' = idx + PortWidth[NextPort]
          /\ UNCHANGED << pc, dev, dump, status, errors, ini, ref, baseline, dumped, checks, failures >>
       \/ PortFails /\ UNCHANGED << pc, dev, dump, status, errors, ini, ref, baseline, got, idx, listed, dumped, checks >>

PropertiesEnd ==
    \/ /\ pc' = "verdict"
       /\ UNCHANGED << dev, dump, status, errors, ini, ref, baseline, got, idx, listed, dumped, checks, failures >>
    \/ AccessFails

\* The rest: the switch id, the counts of port types and the configuration pages, each of which may refuse.
SswPropertiesDone ==
    pc = "properties" /\ idx = ChipPorts + Len(X1Ports) /\ dev = "ssw" /\ PropertiesEnd

\* In base mode there are no pages; exactly one port must be upstream.
BswPropertiesDone ==
    pc = "properties" /\ idx = ChipPorts + Len(X1Ports) /\ dev = "bsw" /\ PropertiesEnd

(***************************************************************************)
(* The end: what was read is written if asked for, and compared.           *)
(***************************************************************************)
ShmiSwitchHealthCheck ==
    LET read == ShmiFillReadBackData
        text == IF dump THEN ShmiDump(read) ELSE <<>>
    IN /\ pc = "verdict" /\ Family(dev) = "switch"
       /\ dumped' = text
       /\ ini' = IF dump /\ baseline
                 THEN [ini EXCEPT !["switch"] = (IF @ = Missing THEN <<>> ELSE @) \o text] ELSE ini
       /\ errors' = ShmiCompareHealthData(read)
       /\ EndsWith("SUCCESS")
       /\ UNCHANGED << dev, dump, ref, baseline, checks, failures >>

EhmiExpanderHealthCheck ==
    /\ pc = "verdict" /\ Family(dev) = "expander"
    /\ \E stack \in StackValues :
         LET read == EhmiFillReadBackData(stack.bits, stack.phy)
         IN /\ dumped' = IF dump THEN EhmiDump(read) ELSE <<>>
            /\ errors' = EhmiCompareHealthData(read)
    /\ EndsWith("SUCCESS")
    /\ UNCHANGED << dev, dump, ini, ref, baseline, checks, failures >>

\* The user, between two checks, writes or removes an ini file; the results of the last check have been seen.
UserWrites ==
    /\ pc = "idle" /\ checks < MaxChecks
    /\ \E fam \in {Family(d) : d \in Devices}, file \in UserFiles \union {Missing} :
         /\ file = Missing \/ ini[fam] # Directory
         /\ file # ini[fam]
         /\ ini' = [ini EXCEPT ![fam] = file]
    /\ errors' = {} /\ dumped' = <<>>
    /\ UNCHANGED << pc, dev, dump, status, ref, baseline, got, idx, listed, checks, failures >>

HealthNext ==
    \/ \E d \in Devices, toFile \in BOOLEAN : StartCheck(d, toFile)
    \/ ReadGlobal \/ ShmiGetHealthData \/ EhmiGetHealthData \/ ReadingsDone
    \/ SppGetPciePortProperties \/ SppGetPcieOnePortProperties \/ SswPropertiesDone \/ BswPropertiesDone
    \/ ShmiSwitchHealthCheck \/ EhmiExpanderHealthCheck
    \/ UserWrites

HealthSpec == HealthInit /\ [][HealthNext]_healthVars

----------------------------------------------------------------------------
(***************************************************************************)
(* What an ini file says, by the places of its lines.                      *)
(***************************************************************************)
HeadersOf(file) == {i \in DOMAIN file : file[i].line = "header"}

\* The entries below a header, up to the next one.
EntriesBelow(file, h) ==
    LET next == Min({k \in HeadersOf(file) : h < k} \union {Len(file) + 1})
    IN {i \in h + 1 .. next - 1 : file[i].line = "entry"}

\* The value of the last entry of a key below some headers; zero when there is none.
LastValue(file, headers, key) ==
    LET places == {i \in UNION {EntriesBelow(file, h) : h \in headers} : file[i].key = key}
    IN IF places = {} THEN Zero(<<key>>)[key] ELSE file[Max(places)].value

GlobalSays(file, table) ==
    LET segments == {h \in HeadersOf(file) : file[h].seg = Global}
    IN [i \in ToSet(table) |-> LastValue(file, segments, i)]

\* The sections that name a port; the last of them says everything of it.
SectionsOn(file, p) ==
    {h \in HeadersOf(file) :
        /\ IsRange(file[h].seg) /\ EntriesBelow(file, h) # {}
        /\ file[h].seg[1] <= p /\ p <= file[h].seg[2]}

PortSays(file, table, p) ==
    LET last == Max(SectionsOn(file, p))
    IN [i \in ToSet(table) |-> LastValue(file, {last}, i)]

\* The file a check goes by: a missing one says nothing.
Limits(fam) == IF ini[fam] = Missing THEN <<>> ELSE ini[fam]

\* What the device told of a port: nothing of the lanes inside a wider port.
Told(p) == IF Family(dev) = "expander" \/ p \in ToSet(listed) THEN PortReading(p) ELSE ZeroPort("switch")

\* The ports a check answers for: none of a switch in base mode, whose number of ports is never stored.
AnsweredFor ==
    {p \in Ports : SectionsOn(Limits(Family(dev)), p) # {}
        /\ p < CASE dev = "ssw" -> ChipPorts [] dev = "bsw" -> 0 [] OTHER -> TotalPhys - VirtualPhys}

Verdict == pc = "verdict" /\ pc' = "idle"

SwhVerdict ==
    LET file == Limits("switch") IN
    SwhGlobalErrors(GlobalSays(file, SwhGlobalItems), SwhGlobalReading)
        \union UNION {SwhPortErrors(PortSays(file, SwhPortItems, p), Told(p)) : p \in AnsweredFor}

ExpVerdict ==
    LET file == Limits("expander") IN
    ExpGlobalErrors(GlobalSays(file, ExpGlobalItems), ExpGlobalReading({}))
        \union UNION {ExpPortErrors(PortSays(file, ExpPortItems, p), Told(p)) : p \in AnsweredFor}

----------------------------------------------------------------------------
(***************************************************************************)
(* The properties.                                                         *)
(***************************************************************************)
\* The types of the state.
TypeInv ==
    /\ pc \in {"idle", "global", "ports", "mode", "properties", "verdict"}
    /\ dev \in Devices /\ dump \in BOOLEAN /\ baseline \in BOOLEAN
    /\ status \in {"SUCCESS", "FAILED"}
    /\ idx \in 0 .. MaxPorts + 1 /\ checks \in 0 .. MaxChecks /\ failures \in 0 .. MaxFailures

\* The bits of a check are exactly the limits that its file, read line by line, sets for what the device
\* told in this call: nothing of an earlier check, of another device or of another section is left in the
\* reference.  Self-configuration bits of an expander may come on top of the real ones.
VerdictMatchesFile ==
    [][Verdict => IF Family(dev) = "switch" THEN errors' = SwhVerdict
                  ELSE errors' \ {"sce"} = ExpVerdict \ {"sce"} /\ ExpVerdict \subseteq errors']_healthVars

\* What a check writes, read as an ini file, says what the device told of itself and of each port or phy the
\* dump comes to.  Of a switch these are the listed ports up to the number of its ports: the dump stops at the
\* management ports, which lie beyond it, and in base mode, where that number is never stored, behind port 0.
\* Of an expander these are the phys its ini file names; bits of self-configuration errors may come on top.
\* A baseline is what its check wrote, and nothing else.
DumpReadsBack ==
    [][Verdict /\ dump =>
        IF Family(dev) = "switch"
        THEN /\ GlobalSays(dumped', SwhGlobalItems) = SwhGlobalReading
             /\ \A p \in ToSet(listed) :
                    p <= got.global.total => PortSays(dumped', SwhPortItems, p) = PortReading(p)
             /\ baseline => ini'["switch"] = dumped'
        ELSE /\ \A i \in ToSet(ExpGlobalItems) \ {"sce"} :
                    GlobalSays(dumped', ExpGlobalItems)[i] = ExpGlobalReading({})[i]
             /\ \A p \in 0 .. TotalPhys - 1 :
                    SectionsOn(Limits("expander"), p) # {} =>
                        PortSays(dumped', ExpPortItems, p) = [i \in ToSet(ExpPortItems) |-> PortReading(p)[i]]]_healthVars

\* Only the user changes an ini file that is there: no check writes its readings into the limits.
UserFileKept ==
    [][\A fam \in Families : ini[fam] # Missing => ini'[fam] = ini[fam] \/ UserWrites]_healthVars

====
