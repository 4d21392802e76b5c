---------------------------- MODULE TestProgram ----------------------------
(***************************************************************************)
(* The test program: a command for one of the discovered devices, given as *)
(* a line of words or chosen from a menu, becomes a request and the        *)
(* request a plan of library calls, each going on or giving up by what the *)
(* one before answered.                                                    *)
(*                                                                         *)
(* The calls that read and write device memory, those that read status by  *)
(* several accesses and those of the performance monitor are carried out   *)
(* here.  What the other calls do to a device is the matter of the modules *)
(* on them; here they succeed, fail, find the buffer too small or see what *)
(* was polled for.                                                         *)
(***************************************************************************)
EXTENDS DeviceStatus

CONSTANTS
    Inband,         \* the devices of the in-band discovery, in its order
    SerialDevice,   \* the device at the serial port
    Family, Via,    \* of each device: "switch" or "expander"; "scsi", "pci" or "sdb"
    Lines,          \* the command lines: [option, value, command, words]
    MenuChoices,    \* the commands chosen from the menu
    Typed,          \* what is typed when the program asks for an option
    StackValues,    \* what an uninitialised variable may hold
    HeapByte,       \* what memory that was never written holds
    NotGiven,       \* INVALID_PARAMETER
    DefaultTime,    \* 1000 ms
    MemorySize,     \* bytes of device memory
    CdbLimit,       \* 2^16: what the length in a READ BUFFER command can say
    PortCount,      \* 128: ports whose counters are asked for
    MaxCommands     \* bound: commands of one run of the program

VARIABLES
    pc,             \* shell, menu, given, refused, asking, calling, performing, returned, ended
    line,           \* the command line
    sel,            \* gSelectDeviceHandle
    command, request, bytes,
    plan, step,
    saved, shown,       \* the saved register; what was read
    memory, selector,   \* of each device: memory, and the registers that select
    before,         \* history: the devices when the command was given
    broken,         \* history: a call of the command did not succeed
    commands

deviceVars == << memory, selector >>
requestVars == << line, sel, command, request, bytes, before, commands >>
vars == << pc, requestVars, plan, step, saved, shown, deviceVars, broken, perfVars, failures >>

Devices == ToSet(Inband) \union {SerialDevice}
NoDevice == 255                     \* 0xFF

\* The words of a line: -w, or a number.
Opt(w) == [dash |-> TRUE, word |-> w, num |-> 0]
Val(n) == [dash |-> FALSE, word |-> "", num |-> n]

ASSUME ProgramAssumption ==
    /\ Devices \subseteq 0 .. 254
    /\ Switches = {d \in Devices : Family[d] = "switch"}
    /\ \E i \in DOMAIN Inband : Family[Inband[i]] = "switch"
    /\ MaxCommands > 0 /\ CdbLimit > 0

(***************************************************************************)
(* The options of a command.  Some commands look at the number of words    *)
(* before they take a value, some clear their variables first.             *)
(***************************************************************************)
Options ==
    [perflm |-> {"port", "lanes", "timesteps", "volsteps", "errlmt"},
     getlmcap |-> {"port", "lane"},
     rxeq |-> {"startport", "num"}, txcoeff |-> {"startport", "num"},
     hweye |-> {"startport", "num", "to"}, sweye |-> {"startport", "num"},
     memread |-> {"addr", "size"}, memwrite |-> {"addr", "size", "val"},
     getconfigpage |-> {"pagenum", "region"},
     ltssm |-> {"port", "interval", "count"},
     perf |-> {"loop", "delay", "statistic", "stattime"},
     ltssmtrace |-> {"port", "poll"}]
Variables(c) == Options[c] \ {"val"}
Cleared == {"perflm", "memread", "memwrite", "perf"}
Mandatory == [c \in {"memread", "memwrite"} |-> {"addr", "size"}]

(***************************************************************************)
(* The parsers.  A value must not begin with a dash; an option may come    *)
(* again and counts anew.  -val takes as many values as -size told before. *)
(***************************************************************************)
NothingParsed == [ok |-> TRUE, want |-> "", left |-> 0, set |-> <<>>, bytes |-> <<>>]
Refused == [NothingParsed EXCEPT !.ok = FALSE]
Given(p, option) == option \in DOMAIN p.set /\ p.set[option] # NotGiven

TakeOption(c, p, w) ==
    IF ~w.dash \/ w.word \notin Options[c] THEN Refused
    ELSE IF w.word # "val" THEN [p EXCEPT !.want = w.word]
    ELSE IF Given(p, "size")
         THEN [p EXCEPT !.want = IF p.set["size"] = 0 THEN "" ELSE "val", !.left = p.set["size"], !.bytes = <<>>]
    ELSE Refused

\* Mutant: the first value of an option stays.
RecordOnce(p, option, n) == [p EXCEPT !.set = @ @@ (option :> n)]
Record(p, option, n) == [p EXCEPT !.set = (option :> n) @@ @]

TakeByte(p, n) ==
    [p EXCEPT !.bytes = Append(@, n), !.left = @ - 1, !.want = IF p.left = 1 THEN "" ELSE "val"]

TakeValue(p, w) ==
    IF w.dash THEN Refused
    ELSE IF p.want = "val" THEN TakeByte(p, w.num)
    ELSE [Record(p, p.want, w.num) EXCEPT !.want = ""]

Take(c, p, w) ==
    IF ~p.ok THEN p ELSE IF p.want = "" THEN TakeOption(c, p, w) ELSE TakeValue(p, w)

\* An option without its value at the end of the line is refused or, where the number
\* of words is not looked at, stops the program.
ParsedOptions(c, words) ==
    LET p == FoldLeft(LAMBDA q, w : Take(c, q, w), NothingParsed, words)
    IN IF p.want # "" \/ (c \in DOMAIN Mandatory /\ \E o \in Mandatory[c] : ~Given(p, o))
       THEN Refused ELSE p

\* What the variables hold that no option set.
Unset(c, set) ==
    LET missing == Variables(c) \ DOMAIN set
    IN IF c \in Cleared
       THEN {[o \in missing |-> IF o = "stattime" THEN DefaultTime ELSE NotGiven]}
       ELSE [missing -> StackValues]

scrtnyGetHealthLogs(words) ==
    IF words # <<>> /\ ~words[1].dash /\ words[1].num # 0
    THEN {"type" :> words[1].num} ELSE {}
scrtnySwFwCli(words) ==
    IF words # <<>> /\ ~words[1].dash THEN {"text" :> words[1].num} ELSE {}

\* -cdblen n -rw d -cdb and n bytes that end the line; a length that begins with a dash is not taken.
MaxCdb == 32
scrtnyScsiPasshrough(words) ==
    LET lengths == IF words[2].dash THEN StackValues ELSE {words[2].num}
        fits(n) == /\ n < MaxCdb /\ Len(words) = 5 + n
                   /\ words[3] = Opt("rw") /\ ~words[4].dash /\ words[4].num \in 0 .. 3
                   /\ words[5] = Opt("cdb")
    IN IF Len(words) < 5 \/ words[1] # Opt("cdblen") THEN {}
       ELSE {("cdblen" :> n) @@ ("rw" :> words[4].num) : n \in {l \in lengths : fits(l)}}

\* The requests a line can become: none when it is refused; other commands look at no word.
Requests(c, words) ==
    CASE c \in DOMAIN Options ->
           LET p == ParsedOptions(c, words)
           IN IF p.ok THEN {p.set @@ rest : rest \in Unset(c, p.set)} ELSE {}
      [] c = "gethealthlogs" -> scrtnyGetHealthLogs(words)
      [] c = "cli" -> scrtnySwFwCli(words)
      [] c = "scsipassthru" -> scrtnyScsiPasshrough(words)
      [] OTHER -> {<<>>}

WrittenBytes(c, words) ==
    IF c = "memwrite" THEN ParsedOptions(c, words).bytes ELSE <<>>

\* Chosen from the menu, a command has nothing but what it asks for.
AskedInMenu ==
    [gethealthlogs |-> {"type"}, coredump |-> {"operation"}, cli |-> {"text"}, aladin |-> {"choice"}]
MenuRequest(c) ==
    CASE c \in DOMAIN AskedInMenu -> [o \in AskedInMenu[c] |-> NotGiven]
      [] c \in DOMAIN Options \ {"getconfigpage"} -> [o \in Variables(c) |-> NotGiven]
      [] OTHER -> <<>>

\* Without a word, or with a serial port alone, the program shows its menu.
InMenu == line.command = "" /\ line.option \in {"", "sdb"}

-----------------------------------------------------------------------------
(***************************************************************************)
(* Plans.  A step goes, by the outcome of its call, to a step; 0 ends.     *)
(***************************************************************************)
Outcomes == {"success", "failed", "refused", "small", "seen"}
To(call, i, others) == [call |-> call, to |-> i @@ [o \in Outcomes |-> others]]

\* Each call only after the one before succeeded, or all of them whatever they answer.
WhileSuccessful(calls) ==
    [i \in DOMAIN calls |-> To(calls[i], "success" :> (IF i = Len(calls) THEN 0 ELSE i + 1), 0)]
OneAfterTheOther(calls) ==
    [i \in DOMAIN calls |-> To(calls[i], <<>>, IF i = Len(calls) THEN 0 ELSE i + 1)]
Repeat(call, n) == [i \in 1 .. n |-> call]
Once(api) == WhileSuccessful(<<Call(api, 0, 0)>>)

\* A buffer that is too small is replaced by one of the size that was answered, once.
WithLargerBuffer(call) == << To(call, "small" :> 2, 0), To(call, <<>>, 0) >>

scrtnySwitchGetTrace == WithLargerBuffer(Call("trace", 0, 0))
scrtnySwitchHealthLogs(r) ==
    IF r["type"] \in 1 .. 3 \/ ~InMenu THEN WithLargerBuffer(Call("healthlogs", 0, r["type"])) ELSE <<>>
scrtnyCoreDump(operation) ==
    CASE operation = 1 -> WithLargerBuffer(Call("coredump", 0, 0))
      [] operation = 2 -> Once("erasecoredump")
      [] OTHER -> <<>>

scrtnySwitchFwCli(r) == << To(Call("cli", 0, r["text"]), <<>>, 0) >>
scrtnySwitchGetTemperature == << Call("temperature", 0, 0) >>
scrtnySwitchPortProperties == << Call("properties", 0, 0) >>
scrtnySwitchCCRStatus == << Call("ccr", 0, 0) >>
scrtnySwitchPowerOnSense == << Call("pos", 0, 0) >>
scrtnySwitchCounters == [p \in 1 .. PortCount |-> Call("counters", p - 1, 0)]
scrtnyGetSwitchLogs == << Call("getlogs", 0, 0) >>
scrtnyGetAllSwitchLogs ==
    scrtnyGetSwitchLogs \o scrtnySwitchCCRStatus \o scrtnySwitchPowerOnSense
        \o scrtnySwitchGetTemperature \o scrtnySwitchPortProperties \o scrtnySwitchCounters

scrtnySwitchPerformLaneMargin(r) ==
    IF r["lanes"] > 16 THEN <<>> ELSE WhileSuccessful(<<Call("performlm", r["port"], r["lanes"])>>)
scrtnySwitchGetLaneMarginCapacities(r) == WhileSuccessful(<<Call("lmcap", r["port"] % 256, r["lane"] % 65536)>>)
scrtnySwitchRxEqStatus(r) == WhileSuccessful(ssiRxEqStatus(r["startport"], r["num"]))
scrtnySwitchTxCoeff(r) == WhileSuccessful(ssiTxCoeff(r["startport"], r["num"]))
scrtnySwitchSoftEye(r) == WhileSuccessful(<<Call("sweye", r["startport"], r["num"])>>)

\* Polled as often as asked, then read if an eye was seen, and cleaned in any case.
scrtnySwitchHwEye(r) ==
    LET call(api) == Call(api, r["startport"], r["num"])
        get == r["to"] + 2
        poll(i) == To(call("eyepoll"), "seen" :> get, IF i + 1 = get THEN get + 1 ELSE i + 1)
    IN << To(call("eyestart"), <<>>, IF r["to"] = 0 THEN get + 1 ELSE 2) >>
       \o [i \in 1 .. r["to"] |-> poll(i + 1)]
       \o << To(call("eyeget"), <<>>, get + 1), To(call("eyeclean"), <<>>, 0) >>

\* Polled once more than asked; a poll that fails leaves the trace running.
scrtnySwitchGetLtssmTrace(r) ==
    LET call(api) == Call(api, r["port"], 0)
        last == r["poll"] + 3
    IN << To(call("ltssmsetup"), "success" :> 2, 0) >>
       \o [i \in 1 .. r["poll"] + 1 |->
              To(call("ltssmpoll"), ("seen" :> last) @@ ("success" :> i + 2), 0)]
       \o << To(call("ltssmstop"), <<>>, 0) >>

scrtnySwitchMemoryRead(r) == WhileSuccessful(<<Call("read", r["addr"], r["size"])>>)
scrtnySwitchMemoryWrite(r) == WhileSuccessful(<<Call("write", r["addr"], r["size"])>>)
scrtnyGetConfigPage(r) == WhileSuccessful(<<Call("configpage", r["pagenum"] % 65536, r["region"] % 256)>>)
scrtnySwitchGetConfigPage == WhileSuccessful(<<Call("configpage", 57346, 0)>>)   \* 0xE002

\* The probe register of the port's station is saved, set to the port, read and put back.
\* Mutant: it is not put back.
LtssmWithoutRestore(r) ==
    LET probe == <<"probe", StationOf(r["port"])>>
    IN WhileSuccessful(
          << Call("save", probe, 0), Select(probe, LaneInStation(r["port"])) >>
          \o Repeat(Sample(probe), r["count"]))
scrtnySwitchGetCurrentLtssm(r) ==
    LET probe == <<"probe", StationOf(r["port"])>>
    IN WhileSuccessful(
          << Call("save", probe, 0), Select(probe, LaneInStation(r["port"])) >>
          \o Repeat(Sample(probe), r["count"]) \o << Call("restore", probe, 0) >>)

scrtnySwitchPortPerf(r) ==
    WhileSuccessful(<< Call("start", 0, 0) >> \o Repeat(Call("perfread", 0, 0), r["loop"])
                        \o << Call("stop", 0, 0) >>)

\* The Aladin menu, one choice of it.
scrtnySwitchAladin(r) ==
    IF r["choice"] \in 1 .. 4 THEN Once("aladin") ELSE <<>>

Plan(c, r) ==
    CASE c = "gettrace" -> scrtnySwitchGetTrace
      [] c = "gethealthlogs" -> scrtnySwitchHealthLogs(r)
      [] c = "getcoredump" -> scrtnyCoreDump(1)
      [] c = "erasecoredump" -> scrtnyCoreDump(2)
      [] c = "coredump" -> scrtnyCoreDump(r["operation"])
      [] c = "cli" -> scrtnySwitchFwCli(r)
      [] c = "temperature" -> OneAfterTheOther(scrtnySwitchGetTemperature)
      [] c = "getportprop" -> OneAfterTheOther(scrtnySwitchPortProperties)
      [] c = "getccr" -> OneAfterTheOther(scrtnySwitchCCRStatus)
      [] c = "getpos" -> OneAfterTheOther(scrtnySwitchPowerOnSense)
      [] c = "geterrstat" -> OneAfterTheOther(scrtnySwitchCounters)
      [] c = "getlogs" -> OneAfterTheOther(scrtnyGetSwitchLogs)
      [] c = "alllogs" -> OneAfterTheOther(scrtnyGetAllSwitchLogs)
      [] c = "gethealth" -> Once("health")
      [] c = "healthcheck" -> Once("healthcheck")
      [] c = "reset" -> Once("reset")
      [] c = "scsipassthru" -> Once("passthrough")
      [] c = "perflm" -> scrtnySwitchPerformLaneMargin(r)
      [] c = "getlmcap" -> scrtnySwitchGetLaneMarginCapacities(r)
      [] c = "rxeq" -> scrtnySwitchRxEqStatus(r)
      [] c = "txcoeff" -> scrtnySwitchTxCoeff(r)
      [] c = "hweye" -> scrtnySwitchHwEye(r)
      [] c = "sweye" -> scrtnySwitchSoftEye(r)
      [] c = "ltssmtrace" -> scrtnySwitchGetLtssmTrace(r)
      [] c = "memread" -> scrtnySwitchMemoryRead(r)
      [] c = "memwrite" -> scrtnySwitchMemoryWrite(r)
      [] c = "getconfigpage" -> IF InMenu THEN scrtnySwitchGetConfigPage ELSE scrtnyGetConfigPage(r)
      [] c = "ltssm" -> scrtnySwitchGetCurrentLtssm(r)
      [] c = "perf" -> scrtnySwitchPortPerf(r)
      [] c = "aladin" -> scrtnySwitchAladin(r)
      [] OTHER -> <<>>        \* the SBR commands: they do nothing

-----------------------------------------------------------------------------
(***************************************************************************)
(* The library: what it lets through to a device, by its family and the    *)
(* way it is reached.                                                      *)
(***************************************************************************)
SwitchOnly(d) == Family[d] = "switch"
SignalCalls == {"properties", "healthcheck", "rxeq", "txcoeff"}
EyeCalls == {"eyestart", "eyepoll", "eyeget", "eyeclean", "sweye", "ltssmsetup", "ltssmpoll", "ltssmstop"}
StateCalls == {"pos", "ccr", "health", "start", "perfread", "stop"}
MarginCalls == {"lmcap", "performlm"}
AdmitsCounters(d) == SwitchOnly(d) /\ Via[d] \in {"scsi", "pci"}
AdmitsCli(d) == Via[d] = "scsi"
AdmitsTrace(d) == Via[d] = "scsi"
AdmitsPassthrough(api, d) == IF api = "passthrough" THEN Via[d] = "scsi" ELSE Via[d] \in {"scsi", "sdb"}
slibiResetDevice(d) == SwitchOnly(d)

Admits(api, d) ==
    CASE api \in SignalCalls \union EyeCalls \union StateCalls \union MarginCalls \union {"aladin"} -> SwitchOnly(d)
      [] api = "reset" -> slibiResetDevice(d)
      [] api = "counters" -> AdmitsCounters(d)
      [] api = "temperature" -> Via[d] = "scsi"
      [] api = "cli" -> AdmitsCli(d)
      [] api = "trace" -> AdmitsTrace(d)
      [] api = "healthlogs" -> Via[d] # "pci"
      [] api \in {"passthrough", "configpage"} -> AdmitsPassthrough(api, d)
      [] OTHER -> TRUE

This == plan[step].call
Calling(apis) == pc = "calling" /\ This.api \in apis /\ Admits(This.api, sel)
Fails == failures < MaxFailures /\ failures' = failures + 1

Answer(outcome) ==
    LET next == plan[step].to[outcome]
    IN /\ step' = next
       /\ pc' = IF next = 0 THEN "returned" ELSE "calling"
       /\ broken' = (broken \/ outcome \in {"failed", "refused"})

Refuse ==
    /\ pc = "calling" /\ ~Admits(This.api, sel)
    /\ Answer("refused")
    /\ UNCHANGED << requestVars, plan, saved, shown, deviceVars, perfVars, failures >>

StatusCalls == {"rxeq", "txcoeff", "skew", "save", "select", "sample", "restore", "temperature"}
MemoryCalls == {"read", "write", "reset"}
PerfOp == [start |-> "START", perfread |-> "READ", stop |-> "STOP"]

\* The calls that other modules are about.
AnswersOf(api) ==
    {"success", "failed"} \union
    (IF api \in {"trace", "healthlogs", "coredump"} THEN {"small"} ELSE {}) \union
    (IF api \in {"eyepoll", "ltssmpoll"} THEN {"seen"} ELSE {})

OtherCall ==
    /\ pc = "calling" /\ This.api \notin MemoryCalls \union StatusCalls \union DOMAIN PerfOp
    /\ Admits(This.api, sel)
    /\ \E outcome \in AnswersOf(This.api) : Answer(outcome)
    /\ UNCHANGED << requestVars, plan, saved, shown, deviceVars, perfVars, failures >>

\* A reset takes the registers back, not the memory.
Reset ==
    /\ Calling({"reset"})
    /\ \/ /\ Answer("success")
          /\ selector' = [selector EXCEPT ![sel] = Unselected] /\ monitor' = [monitor EXCEPT ![sel] = Off]
          /\ UNCHANGED failures
       \/ Fails /\ Answer("failed") /\ UNCHANGED << selector, monitor >>
    /\ UNCHANGED << requestVars, plan, saved, shown, memory,
                    pm, pointer, count, carried, temp, data, mark, tlps >>

(***************************************************************************)
(* Memory is accessed in units of four, two or one bytes, as the size can  *)
(* be divided; only the serial console has the smaller ones, and its reads *)
(* of two bytes never succeed.  A SCSI device is read in one command; any  *)
(* other access to no bytes at all fails.                                  *)
(***************************************************************************)
Unit(n) == IF n % 4 = 0 THEN 4 ELSE IF n % 2 = 0 THEN 2 ELSE 1
CanRead8(d) == Via[d] = "sdb"
CanRead16(d) == FALSE
CanRead(d, n) ==
    /\ n > 0 \/ Via[d] = "scsi"
    /\ Unit(n) = 4 \/ (Unit(n) = 2 /\ CanRead16(d)) \/ (Unit(n) = 1 /\ CanRead8(d))
CanWrite8(d) == Via[d] = "sdb"
CanWrite16(d) == Via[d] = "sdb"
CanWrite(d, n) == n > 0 /\ (Unit(n) = 4 \/ (Unit(n) = 2 /\ CanWrite16(d)) \/ (Unit(n) = 1 /\ CanWrite8(d)))

\* The command's length field holds less than the size that is copied.
bsdScsiMemoryRead32(d, at, n) ==
    [i \in 1 .. n |-> IF i <= n % CdbLimit THEN memory[d][at + i - 1] ELSE HeapByte]
bsdiMemoryRead32(d, at, n) ==
    IF Via[d] = "scsi" THEN bsdScsiMemoryRead32(d, at, n) ELSE [i \in 1 .. n |-> memory[d][at + i - 1]]

ReadMemory ==
    /\ Calling({"read"})
    /\ \/ /\ CanRead(sel, This.n)
          /\ shown' = bsdiMemoryRead32(sel, This.at, This.n)
          /\ Answer("success") /\ UNCHANGED failures
       \/ CanRead(sel, This.n) /\ Fails /\ Answer("failed") /\ UNCHANGED shown
       \/ ~CanRead(sel, This.n) /\ Answer("failed") /\ UNCHANGED << shown, failures >>
    /\ UNCHANGED << requestVars, plan, saved, deviceVars, perfVars >>

\* The first k units of a buffer written from an address on.
Written(old, at, buffer, k, n) ==
    LET end == at + k * Unit(n)
    IN [a \in DOMAIN old |->
           IF a \notin at .. end - 1 THEN old[a]
           ELSE IF a - at < Len(buffer) THEN buffer[a - at + 1] ELSE HeapByte]

\* Unit after unit; the first that fails is the last.  A buffer that is missing or too short may stop the program.
WriteMemory ==
    /\ Calling({"write"})
    /\ LET units == This.n \div Unit(This.n)
           put(k) == memory' = [memory EXCEPT ![sel] = Written(@, This.at, bytes, k, This.n)]
       IN \/ CanWrite(sel, This.n) /\ put(units) /\ Answer("success") /\ UNCHANGED failures
          \/ CanWrite(sel, This.n) /\ Fails /\ Answer("failed") /\ \E k \in 0 .. units - 1 : put(k)
          \/ ~CanWrite(sel, This.n) /\ Answer("failed") /\ UNCHANGED << memory, failures >>
          \/ /\ Len(bytes) < This.n /\ pc' = "ended"
             /\ UNCHANGED << memory, failures, step, broken >>
    /\ UNCHANGED << requestVars, plan, saved, shown, selector, perfVars >>

\* The number of ports bounds the ports asked for; then register after register, until one fails.
Selector ==
    /\ Calling({"rxeq", "txcoeff", "skew", "save", "select", "sample", "restore"})
    /\ LET r == This.at
           bounded == This.api \in {"rxeq", "txcoeff"} => InChip(This.at, This.n)
           held == selector[sel][r]
       IN \/ /\ bounded /\ Answer("success") /\ UNCHANGED failures
             /\ saved' = IF This.api = "save" THEN held ELSE saved
             /\ shown' = IF This.api = "sample" THEN Append(shown, <<r, held>>) ELSE shown
             /\ selector' = CASE This.api = "select" -> [selector EXCEPT ![sel][r] = This.n]
                              [] This.api = "restore" -> [selector EXCEPT ![sel][r] = saved]
                              [] OTHER -> selector
          \/ Fails /\ Answer("failed") /\ UNCHANGED << saved, shown, selector >>
          \/ ~bounded /\ Answer("failed") /\ UNCHANGED << saved, shown, selector, failures >>
    /\ UNCHANGED << requestVars, plan, memory, perfVars >>

\* Without a group of sensors there is no temperature.
GetTemperature ==
    /\ Calling({"temperature"})
    /\ \/ /\ HasSensorGroup(sel) /\ Answer("success")
          /\ shown' = << bsdScsiGetTemperatureValue(sel) >> /\ UNCHANGED failures
       \/ Fails /\ Answer("failed") /\ UNCHANGED shown
       \/ ~HasSensorGroup(sel) /\ Answer("failed") /\ UNCHANGED << shown, failures >>
    /\ UNCHANGED << requestVars, plan, saved, deviceVars, perfVars >>

BeginPerformance ==
    /\ Calling(DOMAIN PerfOp)
    /\ LET counts == This.api = "perfread" /\ request["statistic"] # 0
       IN SppGetPciePortPerformance(PerfOp[This.api], sel, counts, IF counts THEN request["stattime"] ELSE 0)
    /\ pc' = "performing"
    /\ UNCHANGED << requestVars, plan, step, saved, shown, deviceVars, broken >>
Perform ==
    /\ pc = "performing" /\ PerfNext
    /\ UNCHANGED << pc, requestVars, plan, step, saved, shown, deviceVars, broken >>
EndPerformance ==
    /\ pc = "performing" /\ pm.pc = "done"
    /\ Answer(IF pm.status = "success" THEN "success" ELSE "failed")
    /\ pm' = NoCall
    /\ UNCHANGED << requestVars, plan, saved, shown, deviceVars,
                    monitor, pointer, count, carried, temp, data, mark, tlps, failures >>

-----------------------------------------------------------------------------
(***************************************************************************)
(* The program.                                                            *)
(***************************************************************************)
Init ==
    /\ pc = "shell" /\ line = [option |-> "", value |-> Val(0), command |-> "", words |-> <<>>]
    /\ sel = NoDevice /\ command = "" /\ request = <<>> /\ bytes = <<>>
    /\ plan = <<>> /\ step = 0 /\ saved = PerStation /\ shown = <<>>
    /\ memory = [d \in Devices |-> [a \in 0 .. MemorySize - 1 |-> 0]]
    /\ selector = [d \in Devices |-> Unselected]
    /\ PerfInit /\ failures = 0
    /\ before = [memory |-> memory, selector |-> selector, monitor |-> monitor]
    /\ broken = FALSE /\ commands = 0

\* The devices a line can select; a menu asks until a switch is chosen.
scrtnySelectDevice(value) ==
    IF ~value.dash /\ value.num < Len(Inband) THEN {Inband[value.num + 1]} ELSE {}
scrtnySdb(value) == IF value.dash THEN {} ELSE {SerialDevice}
selectDevice(found) == {d \in found : Family[d] = "switch"}
Selects(l) ==
    CASE l.option = "i" -> scrtnySelectDevice(l.value)
      [] l.option = "sdb" -> IF l.command = "" THEN selectDevice(scrtnySdb(l.value)) ELSE scrtnySdb(l.value)
      [] l.option = "" -> selectDevice(ToSet(Inband))
      [] OTHER -> {}    \* -list, or nothing the program knows

\* The discovery may fail; then, and when nothing is selected, the program is over.
Start ==
    /\ pc = "shell"
    /\ \E l \in Lines :
          /\ line' = l
          /\ \/ \E d \in Selects(l) :
                   /\ sel' = d
                   /\ pc' = IF InMenu' THEN "menu" ELSE "given"
             \/ sel' = NoDevice /\ pc' = "ended"
    /\ UNCHANGED << command, request, bytes, before, commands,
                    plan, step, saved, shown, deviceVars, broken, perfVars, failures >>

LineCommands ==
    {"temperature", "getcoredump", "erasecoredump", "gettrace", "gethealthlogs", "scsipassthru",
     "getconfigpage", "geterrstat", "getportprop", "getccr", "getpos", "rxeq", "txcoeff", "sweye",
     "hweye", "cli", "gethealth", "getlogs", "getlmcap", "perflm", "healthcheck", "memread",
     "memwrite", "reset", "alllogs", "ltssm", "perf", "ltssmtrace"}

Remember == before' = [memory |-> memory, selector |-> selector, monitor |-> monitor]

\* Only one command of a line is looked at.
ParseLine ==
    /\ pc = "given" /\ Remember
    /\ command' = line.command
    /\ IF line.command \in LineCommands /\ Requests(line.command, line.words) # {}
       THEN /\ request' \in Requests(line.command, line.words)
            /\ bytes' = WrittenBytes(line.command, line.words)
            /\ pc' = "asking"
       ELSE pc' = "refused" /\ UNCHANGED << request, bytes >>
    /\ UNCHANGED << line, sel, commands, plan, step, saved, shown, deviceVars, broken, perfVars, failures >>

MenuCommands ==
    (LineCommands \ {"getcoredump", "erasecoredump", "alllogs"}) \union {"coredump", "aladin", "sbr"}

ChooseCommand ==
    /\ pc = "menu"
    /\ \/ /\ commands < MaxCommands
          /\ \E c \in MenuChoices \intersect MenuCommands :
                command' = c /\ request' = MenuRequest(c)
          /\ pc' = "asking" /\ Remember
       \/ pc' = "ended" /\ UNCHANGED << command, request, before >>
    /\ bytes' = <<>>
    /\ UNCHANGED << line, sel, commands, plan, step, saved, shown, deviceVars, broken, perfVars, failures >>

\* What is missing is asked for, and the bytes of a memory write in the menu.
Missing == IF command = "getconfigpage" THEN {} ELSE {o \in DOMAIN request : request[o] = NotGiven}
Ask ==
    /\ pc = "asking"
    /\ \E typed \in [Missing -> UNION {Typed[o] : o \in Missing}] :
          /\ \A o \in Missing : typed[o] \in Typed[o]
          /\ request' = typed @@ request
    /\ bytes' \in IF InMenu /\ command = "memwrite" THEN [1 .. request'["size"] -> Typed["val"]] ELSE {bytes}
    /\ plan' = Plan(command, request')
    /\ IF plan' = <<>> THEN step' = 0 /\ pc' = "returned" ELSE step' = 1 /\ pc' = "calling"
    /\ broken' = FALSE
    /\ UNCHANGED << line, sel, command, before, commands, saved, shown, deviceVars, perfVars, failures >>

\* The buffers of the command are gone; a menu comes back.  The counters start anew with the
\* next START and a station is rewound before it is read.
Leave ==
    /\ pc \in {"returned", "refused"}
    /\ pc' = IF InMenu THEN "menu" ELSE "ended"
    /\ commands' = commands + 1
    /\ command' = "" /\ request' = <<>> /\ bytes' = <<>> /\ plan' = <<>> /\ step' = 0
    /\ saved' = PerStation /\ shown' = <<>> /\ broken' = FALSE
    /\ pointer' = [s \in Stations |-> 0] /\ count' = Nothing /\ carried' = NoPackets
    /\ data' = NoData /\ mark' = NoMark /\ tlps' = 0
    /\ UNCHANGED << line, sel, before, deviceVars, pm, monitor, temp, failures >>

Next ==
    \/ Start \/ ParseLine \/ ChooseCommand \/ Ask \/ Leave
    \/ Refuse \/ OtherCall \/ Reset
    \/ ReadMemory \/ WriteMemory \/ Selector \/ GetTemperature
    \/ BeginPerformance \/ Perform \/ EndPerformance

Spec == Init /\ [][Next]_vars

-----------------------------------------------------------------------------
(***************************************************************************)
(* Properties.                                                             *)
(***************************************************************************)
\* How many values follow the word at i, and how many must.
Run(words, i) ==
    Min({j \in i + 1 .. Len(words) + 1 : j = Len(words) + 1 \/ words[j].dash}) - i - 1
Places(words, o, n) == {i \in 1 .. n : words[i] = Opt(o)}
LastGiven(words, o, n) == words[Max(Places(words, o, n)) + 1].num
Told(words, o, n) == Places(words, o, n) # {} /\ LastGiven(words, o, n) # NotGiven
Arity(words, i) == IF words[i].word = "val" THEN LastGiven(words, "size", i) ELSE 1

WellFormed(c, words) ==
    /\ words # <<>> => words[1].dash
    /\ \A i \in DOMAIN words : words[i].dash =>
          /\ words[i].word \in Options[c]
          /\ words[i].word = "val" => Told(words, "size", i)
          /\ Run(words, i) = Arity(words, i)
    /\ c \in DOMAIN Mandatory => \A o \in Mandatory[c] : Told(words, o, Len(words))

HasOptions == ~InMenu /\ command \in DOMAIN Options
GivenValue(o) == LastGiven(line.words, o, Len(line.words))
WasGiven(o) == Places(line.words, o, Len(line.words)) # {}
At(o) == IF WasGiven(o) THEN GivenValue(o) ELSE request[o]
GivenBytes ==
    LET at == Max(Places(line.words, "val", Len(line.words)))
    IN [i \in 1 .. Arity(line.words, at) |-> line.words[at + i].num]

(* A line becomes a request exactly if each of its options is one of the command's
   and followed by as many values as it takes, and the request holds the last value
   given for each option and the bytes given last. *)
RequestAsGiven ==
    /\ pc = "refused" /\ HasOptions => ~WellFormed(command, line.words)
    /\ pc \in {"asking", "calling", "performing", "returned"} /\ HasOptions =>
          /\ WellFormed(command, line.words)
          /\ \A o \in Variables(command) :
                WasGiven(o) => request[o] = GivenValue(o)
          /\ bytes = IF WasGiven("val") THEN GivenBytes ELSE <<>>

AsWritten(k) == Written(before.memory[sel], At("addr"), bytes, k, At("size"))
Untouched(d) ==
    /\ memory[d] = before.memory[d] /\ selector[d] = before.selector[d]
    /\ d \in Switches => monitor[d] = before.monitor[d]
OthersUntouched == \A d \in Devices \ {sel} : Untouched(d)
Idle(m) == m.tic = {} /\ m.running = {} /\ m.egress = {}

\* The equalizer register of a lane that was asked for selects nothing; the other
\* registers select what they did before.
SelectorsAfter ==
    [r \in Selectors |->
        IF command = "rxeq" /\ r[1] = "eq" /\ r[2] \in At("startport") .. At("startport") + At("num") - 1
        THEN 0 ELSE before.selector[sel][r]]

ReadOut(r, values) == [i \in DOMAIN values |-> <<r, values[i]>>]
EachOf(ReadOutOf(_)) == FlattenSeq([i \in 1 .. At("num") |-> ReadOutOf(At("startport") + i - 1)])
FirstSensor(d) == Head(Enclosures[d][Min(SensorGroups(d))].readings)

\* What a command that succeeded must show.
Asked ==
    CASE command = "memread" -> [i \in 1 .. At("size") |-> memory[sel][At("addr") + i - 1]]
      [] command = "ltssm" ->
           [i \in 1 .. At("count") |-> << <<"probe", StationOf(At("port"))>>, At("port") % PerStation >>]
      [] command = "rxeq" ->
           EachOf(LAMBDA p : ReadOut(<<"eq", p>>, <<48, 49, 34, 35, 36, 37, 38, 39, 40, 41, 50, 51>>))
      [] command = "txcoeff" ->
           EachOf(LAMBDA p : ReadOut(<<"coeff", p \div PerStation>>,
                                     << <<p % PerStation, Near>>, <<p % PerStation, Far>> >>))
      [] command = "temperature" -> << FirstSensor(sel) - 20 >>
      [] OTHER -> shown

(* When a command is over, no other device has changed.  The memory of its own has only
   where bytes were to be written, from the first on and in whole units if the write
   failed.  The registers that select do so as before, but for the equalizer registers
   of the lanes asked for, which select nothing; the monitor is not left running.  A
   command that succeeded has shown what was asked for: the memory, the samples of the
   ports and items named and no others, the first temperature sensor.  The code does not
   see to the registers and the monitor after a failure, shows too much of a SCSI read
   longer than the command can say, and takes a group of sensors to have one. *)
DeviceChangesAsAsked ==
    pc = "returned" =>
        /\ OthersUntouched
        /\ LET units == At("size") \div Unit(At("size"))
           IN IF command # "memwrite" THEN memory[sel] = before.memory[sel]
              ELSE IF ~broken THEN memory[sel] = AsWritten(units)
              ELSE \E k \in {0} \union 1 .. units - 1 : memory[sel] = AsWritten(k)
        /\ command # "reset" /\ (command \in {"ltssm", "rxeq", "txcoeff"} => ~broken)
              => selector[sel] = SelectorsAfter
        /\ CASE sel \notin Switches \/ command = "reset" -> TRUE
             [] command = "perf" -> ~broken => Idle(monitor[sel])
             [] OTHER -> monitor[sel] = before.monitor[sel]
        /\ /\ ~broken /\ (command = "memread" /\ Via[sel] = "scsi" => At("size") < CdbLimit)
           /\ command = "temperature" => Enclosures[sel][Min(SensorGroups(sel))].readings # <<>>
           => shown = Asked

=============================================================================
