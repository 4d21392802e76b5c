------------------------------ MODULE LogCapture ------------------------------
(***************************************************************************)
(* The logs of the devices: ScrutinyOneTimeCaptureLogs, which saves the    *)
(* logs of every device of the list in files, ScrutinyGetTraceBuffer,      *)
(* ScrutinyGetHealthLogs and ScrutinyGetCoreDump, which put one log in a   *)
(* buffer of the caller and name the room it needs when the buffer is too  *)
(* small, and ScrutinyEraseCoreDump.  What a device keeps of a log is a    *)
(* sequence of pieces (statements, entries, sections, lines); it reaches   *)
(* the library in chunks, through the region of the log, through the       *)
(* memory or through the command line of the firmware.                     *)
(***************************************************************************)
EXTENDS Integers, Sequences, FiniteSets, SequencesExt

CONSTANTS Devices,   \* the device list: a sequence of [family, handle]
          Slots,     \* pieces that a region has room for
          Chunk,     \* pieces that one transfer brings
          Extra,     \* SCRUTINY_LIB_EXTRA_BUFFER_SIZE, in pieces
          MaxCalls, MaxFaults    \* bounds of the model

(* The text of an entry of the health log is at most 648 characters long, and
   SCRUTINY_LIB_EXTRA_BUFFER_SIZE is 1024: Extra is at least one piece. *)
ASSUME LogAssumption ==
    /\ Devices \in Seq([family : {"expander", "switch"}, handle : {"sg", "sdb", "pci"}])
    /\ {Slots, Chunk, Extra} \subseteq Nat \ {0} /\ {MaxCalls, MaxFaults} \subseteq Nat

VARIABLES
    store,      \* what the devices keep of each log
    pc,         \* "idle", or the next step of a call: "device", "log", "step", "retry"
    call,       \* the call that runs or ran last
    result,     \* the status of ScrutinyOneTimeCaptureLogs
    dev, todo,  \* in a capture: the device and the logs still to be taken from it
    steps,      \* what is left of the function that fetches one log
    buf, total, \* the buffer of an upload and the announced size
    saved,      \* the file, or the buffer of the caller, of each log
    outcome,    \* the status each log ended with
    needed,     \* the size that a buffer too small was answered with
    grown,      \* pieces the trace grew by since that answer
    folders,    \* the folders that are there: 0 of the capture, d of device d
    hit,        \* logs an access of which failed in this call
    lost,       \* logs of which a write was lost in this call
    calls, faults

local == <<dev, todo, steps, buf, total>>
report == <<outcome, hit, lost>>
vars == <<store, pc, call, result, local, saved, report, needed, grown, folders, calls, faults>>

Index   == DOMAIN Devices
Logs    == {"trace", "decoded", "raw", "memread", "dump", "rawdump", "cli"}
None    == <<"none">>
Blank   == <<"blank">>
Erased  == <<"erased">>
Header  == <<"header">>
Beyond  == <<"beyond">>
SG(d)   == Devices[d].handle = "sg"
Region(log) == CASE log \in {"raw", "memread"} -> "health" [] log \in {"dump", "rawdump"} -> "dump" [] OTHER -> log
Regions == {Region(log) : log \in Logs}
Piece(d, r, i) == <<d, r, i>>
Smaller(a, b) == IF a < b THEN a ELSE b

(* n pieces of every log; a dump of no pieces is a region without a signature,
   the entries of the health log are followed by blank ones. *)
Kept(d, r, n) == LET s == [i \in 1..n |-> Piece(d, r, i)]
                 IN  IF r \in {"health", "dump"} THEN s \o [i \in 1..(Slots - n) |-> Blank] ELSE s

AllOf(x) == [d \in Index |-> [log \in Logs |-> x]]

Init ==
    /\ \E n \in 0..Slots : store = [d \in Index |-> [r \in Regions |-> Kept(d, r, n)]]
    /\ pc = "idle" /\ call = [kind |-> "none"] /\ result = "none"
    /\ dev = 0 /\ todo = <<>> /\ steps = <<>> /\ buf = <<>> /\ total = 0
    /\ saved = AllOf(None) /\ outcome = AllOf("untried")
    /\ needed = 0 /\ grown = 0 /\ folders = {} /\ hit = {} /\ lost = {}
    /\ calls = MaxCalls /\ faults = MaxFaults

Fault == faults > 0 /\ faults' = faults - 1
NoFault == UNCHANGED faults

-----------------------------------------------------------------------------
(* The raw health log is read from the memory over the console, and when the
   caller asks for it; the memory has the header of the flash region before it. *)
FromMemory(d, log) == log = "memread" \/ (log = "raw" /\ ~SG(d))
Source(d, log) == (IF FromMemory(d, log) THEN <<Header>> ELSE <<>>) \o store[d][Region(log)]

(* What each function does, in its order.  In a capture the text goes to a file;
   otherwise it is copied.  There is no decoded health log over the console. *)
Recipe(kind, d, log) ==
    LET Either(file, buffer) == IF kind = "capture" THEN file ELSE buffer
    IN  CASE log \in {"dump", "rawdump"} -> Either(<<"table", "upload", "validate", "open", "write">>,
                                                  <<"table", "upload", "validate", "copy">>)
          [] log = "cli" -> Either(<<"send", "open", "stream">>, <<"send", "stream">>)
          [] log = "decoded" /\ ~SG(d) -> Either(<<"open", "refuse">>, <<"refuse">>)
          [] FromMemory(d, log) -> Either(<<"open", "table", "upload", "write">>, <<"table", "upload", "copy">>)
          [] OTHER -> Either(<<"open", "size", "upload", "write">>, <<"size", "upload", "copy">>)

(* The log that the call is at. *)
Log == IF call.kind = "capture" THEN todo[1] ELSE call.log

(* Unsupported before anything is done, or after the file was opened. *)
Supported(d, log) ==
    CASE log \in {"trace", "cli"} -> SG(d)
      [] log \in {"decoded", "raw", "memread"} -> Devices[d].handle # "pci"
      [] OTHER -> TRUE

(* slibiExpanderGetLogs and slibiSwitchGetLogs: in their order, the logs that
   the flags name. *)
LogsOf(d, flags) ==
    LET If(flag, log) == IF flag \in flags THEN <<log>> ELSE <<>>
    IN  IF Devices[d].family = "expander"
        THEN If("trace", "trace") \o If("health", "decoded") \o If("dump", "dump") \o If("cli", "cli")
        ELSE If("trace", "trace") \o If("dump", "dump") \o If("health", "raw")

(* A function returns its status; a capture goes on with the next log whatever it
   is. *)
(* Mutant: a log that fails ends the device. *)
RestIfWell(status) == IF status = "failed" THEN <<>> ELSE Tail(todo)
Rest(status) == Tail(todo)
End(status) ==
    /\ outcome' = [outcome EXCEPT ![dev][Log] = status]
    /\ steps' = <<>> /\ buf' = <<>> /\ total' = 0 /\ UNCHANGED dev
    /\ IF call.kind = "capture"
       THEN pc' = "log" /\ todo' = Rest(status)
       ELSE pc' = (IF status = "toosmall" /\ ~call.again THEN "retry" ELSE "idle") /\ UNCHANGED todo

(* An access that fails ends the function. *)
Breaks ==
    /\ Fault /\ hit' = hit \cup {<<dev, Log>>} /\ End("failed")
    /\ UNCHANGED <<store, call, result, saved, lost, needed, grown, folders, calls>>

(* No dump has a signature when its first piece is gone. *)
Unsigned(dump) == dump[1] \in {Blank, Erased}

Entries(s) == SubSeq(s, 1, Cardinality({i \in DOMAIN s : \A j \in 1..i : s[j] # Blank}))

(* What is left of a sequence when some pieces are taken out. *)
Without(s, out) ==
    LET kept == {i \in DOMAIN s : s[i] \notin out}
    IN  [n \in 1..Cardinality(kept) |->
            s[CHOOSE i \in kept : Cardinality({j \in kept : j <= i}) = n]]

(* What is made of the buffer: entries up to the first blank one.  The entries read
   from the memory are counted with the header that was skipped, so one more is
   looked at than there is in the buffer: what lies there may look like an entry. *)
Texts(log, b) ==
    CASE log = "raw" -> {Entries(b)}
      [] log = "memread" -> {Entries(Tail(b) \o <<x>>) : x \in {Beyond, Blank}}
      [] log = "dump" -> {Without(b, {Blank})}
      [] OTHER -> {b}

Onward == steps' = Tail(steps)
Doing(step) == pc = "step" /\ steps[1] = step

(* The single steps. *)

(* sosiMkDir reports no failure on Linux: that a folder is not there shows when
   the file in it is opened.  Each function tries to make the folder of the device
   again.  The file is empty from here on. *)
Open ==
    /\ Doing("open") /\ NoFault
    /\ \/ /\ dev \in folders \/ 0 \in folders
          /\ folders' = folders \cup {dev}
          /\ saved' = [saved EXCEPT ![dev][Log] = <<>>]
          /\ Onward /\ UNCHANGED <<pc, dev, todo, buf, total, report>>
       \/ /\ dev \notin folders
          /\ hit' = hit \cup {<<dev, Log>>} /\ End("failed")
          /\ UNCHANGED <<lost, saved, folders>>
    /\ UNCHANGED <<store, call, result, needed, grown, calls>>

AskSize ==
    /\ Doing("size") /\ NoFault /\ Onward
    /\ total' = Len(Source(dev, Log))
    /\ UNCHANGED <<store, pc, call, result, dev, todo, buf, saved, report, needed, grown, folders, calls>>

(* The flash table; it may name no region for a dump. *)
ReadTable ==
    /\ Doing("table") /\ NoFault
    /\ \/ /\ Onward /\ total' = Len(Source(dev, Log))
          /\ UNCHANGED <<pc, dev, todo, buf, report>>
       \/ /\ Region(Log) = "dump" /\ Unsigned(store[dev]["dump"])
          /\ End("nocoredump") /\ UNCHANGED <<hit, lost>>
    /\ UNCHANGED <<store, call, result, saved, needed, grown, folders, calls>>

(* One transfer; the last one brings the rest. *)
(* Mutant: the rest that does not fill a transfer is left. *)
PendingWhole(sent, n) == sent + Chunk <= n
Pending(sent, n) == sent < n
Transfer(sent, n) == Smaller(Chunk, n - sent)
Upload ==
    /\ Doing("upload") /\ NoFault
    /\ IF Pending(Len(buf), total)
       THEN /\ buf' = buf \o SubSeq(Source(dev, Log), Len(buf) + 1, Len(buf) + Transfer(Len(buf), total))
            /\ UNCHANGED steps
       ELSE Onward /\ UNCHANGED buf
    /\ UNCHANGED <<store, pc, call, result, dev, todo, total, saved, report, needed, grown, folders, calls>>

Validate ==
    /\ Doing("validate") /\ NoFault
    /\ IF Unsigned(buf)
       THEN End("nocoredump") /\ UNCHANGED <<hit, lost>>
       ELSE Onward /\ UNCHANGED <<pc, dev, todo, buf, total, report>>
    /\ UNCHANGED <<store, call, result, saved, needed, grown, folders, calls>>

(* Unsupported, but by now the file is there. *)
Refuse ==
    /\ Doing("refuse") /\ NoFault /\ End("unsupported")
    /\ UNCHANGED <<store, call, result, saved, hit, lost, needed, grown, folders, calls>>

(* sosiFileWrite reports no failure on Linux: on a full disk the file ends
   somewhere and the status is that of a success. *)
Write ==
    /\ Doing("write")
    /\ \E text \in Texts(Log, buf) :
          \/ NoFault /\ saved' = [saved EXCEPT ![dev][Log] = @ \o text] /\ UNCHANGED lost
          \/ /\ Fault /\ lost' = lost \cup {<<dev, Log>>}
             /\ \E n \in 0..(Len(text) - 1) : saved' = [saved EXCEPT ![dev][Log] = @ \o SubSeq(text, 1, n)]
    /\ End("success")
    /\ UNCHANGED <<store, call, result, hit, needed, grown, folders, calls>>

(* A buffer too small is answered with the size that would do; a raw dump leaves
   the size as it was. *)
(* Mutant: nothing is added to the size. *)
NeedsBare(log, n) == IF log = "rawdump" THEN call.room ELSE n
Needs(log, n) == CASE log = "dump" -> n [] log = "rawdump" -> call.room [] OTHER -> n + Extra
Copy ==
    /\ Doing("copy") /\ NoFault
    /\ \E text \in Texts(Log, buf) :
          IF Len(text) <= call.room
          THEN saved' = [saved EXCEPT ![dev][Log] = text] /\ End("success") /\ UNCHANGED needed
          ELSE needed' = Needs(Log, Len(text)) /\ End("toosmall") /\ UNCHANGED saved
    /\ UNCHANGED <<store, call, result, hit, lost, grown, folders, calls>>

SendCommand ==
    /\ Doing("send") /\ NoFault /\ Onward
    /\ IF call.kind = "get" THEN saved' = [saved EXCEPT ![dev][Log] = <<>>] ELSE UNCHANGED saved
    /\ UNCHANGED <<store, pc, call, result, dev, todo, buf, total, report, needed, grown, folders, calls>>

(* A read of the output; the firmware marks the last one.  What does not fit the
   buffer is left out, and that the write of a file failed is not looked at. *)
Stream ==
    /\ Doing("stream")
    /\ LET output == store[dev]["cli"]
           end    == Smaller(total + Chunk, Len(output))
           part   == SubSeq(output, total + 1, end)
           full   == call.kind = "get" /\ end > call.room
       IN  /\ \/ /\ NoFault /\ UNCHANGED lost
                 /\ saved' = [saved EXCEPT ![dev][Log] =
                                 @ \o (IF full THEN SubSeq(part, 1, call.room - total) ELSE part)]
              \/ call.kind = "capture" /\ part # <<>> /\ Fault /\ lost' = lost \cup {<<dev, Log>>} /\ UNCHANGED saved
           /\ IF end = Len(output) \/ full
              THEN End("success")
              ELSE total' = end /\ UNCHANGED <<pc, dev, todo, steps, buf, outcome>>
    /\ UNCHANGED <<store, call, result, hit, needed, grown, folders, calls>>

(* bsdiDownloadRegion: ones from the start of the region to its end. *)
EraseChunk ==
    /\ Doing("erase") /\ NoFault
    /\ LET sent == Len(buf)
           next == sent + Transfer(sent, total)
       IN  IF ~Pending(sent, total)
           THEN End("success") /\ UNCHANGED store
           ELSE /\ store' = [store EXCEPT ![dev]["dump"] =
                              [i \in 1..Slots |-> IF i \in (sent + 1)..next /\ @[i] # Blank THEN Erased ELSE @[i]]]
                /\ buf' = [i \in 1..next |-> Blank]
                /\ UNCHANGED <<pc, dev, todo, steps, total, outcome>>
    /\ UNCHANGED <<call, result, saved, hit, lost, needed, grown, folders, calls>>

(* A step with an access may fail. *)
Break ==
    /\ pc = "step"
    /\ \/ steps[1] \in {"open", "size", "table", "send", "stream"}
       \/ steps[1] \in {"upload", "erase"} /\ Pending(Len(buf), total)
    /\ Breaks

-----------------------------------------------------------------------------
(* The calls. *)

Begin(c, d, p, recipe) ==
    /\ pc = "idle" /\ calls > 0 /\ calls' = calls - 1
    /\ call' = c /\ dev' = d /\ pc' = p /\ steps' = recipe
    /\ todo' = <<>> /\ buf' = <<>> /\ total' = 0
    /\ result' = "none" /\ saved' = AllOf(None) /\ outcome' = AllOf("untried")
    /\ hit' = {} /\ lost' = {} /\ needed' = 0 /\ grown' = 0
    /\ UNCHANGED store

(* ScrutinyOneTimeCaptureLogs: the folder of the capture, as far as it could be made. *)
CaptureLogs(flags) ==
    /\ Begin([kind |-> "capture", flags |-> flags], 0, "device", <<>>)
    /\ (NoFault /\ folders' = {0}) \/ (Fault /\ folders' = {})

(* The next device and its folder; after the last one the call is a success. *)
NextDevice ==
    /\ pc = "device" /\ dev' = dev + 1
    /\ IF dev' \in Index
       THEN /\ pc' = "log" /\ todo' = LogsOf(dev', call.flags) /\ UNCHANGED result
            /\ \/ NoFault /\ folders' = IF 0 \in folders THEN folders \cup {dev'} ELSE folders
               \/ Fault /\ 0 \in folders /\ UNCHANGED folders
       ELSE pc' = "idle" /\ result' = "success" /\ NoFault /\ UNCHANGED <<todo, folders>>
    /\ UNCHANGED <<store, call, steps, buf, total, saved, report, needed, grown, calls>>

(* The next log of the device; a log that its handle does not support is passed over. *)
NextLog ==
    /\ pc = "log" /\ NoFault
    /\ \/ /\ todo = <<>> /\ pc' = "device" /\ UNCHANGED <<local, report>>
       \/ /\ todo # <<>> /\ ~Supported(dev, Log) /\ End("unsupported") /\ UNCHANGED <<hit, lost>>
       \/ /\ todo # <<>> /\ Supported(dev, Log) /\ pc' = "step" /\ steps' = Recipe("capture", dev, Log)
          /\ UNCHANGED <<dev, todo, buf, total, report>>
    /\ UNCHANGED <<store, call, result, saved, needed, grown, folders, calls>>

(* One log to a buffer with room for some pieces. *)
GetLog(d, log, room) ==
    LET c == [kind |-> "get", log |-> log, room |-> room, again |-> FALSE]
    IN  /\ Supported(d, log)
        /\ Begin(c, d, "step", Recipe("get", d, log)) /\ NoFault /\ folders' = {}

(* The test program asks again with the size it was told (scrtnySwitchGetTrace,
   scrtnyCoreDump, scrtnySwitchHealthLogs). *)
AskAgain ==
    /\ pc = "retry" /\ NoFault
    /\ call' = [call EXCEPT !.room = needed, !.again = TRUE]
    /\ pc' = "step" /\ steps' = Recipe("get", dev, call.log)
    /\ UNCHANGED <<store, result, dev, todo, buf, total, saved, report, needed, grown, folders, calls>>

(* The device goes on tracing between the two calls. *)
Grow ==
    /\ pc = "retry" /\ call.log = "trace" /\ Len(store[dev]["trace"]) < Slots
    /\ store' = [store EXCEPT ![dev]["trace"] = Append(@, Piece(dev, "trace", Len(@) + 1))]
    /\ grown' = grown + 1
    /\ UNCHANGED <<pc, call, result, local, saved, report, needed, folders, calls, faults>>

EraseCoreDump(d) ==
    /\ Devices[d].handle # "sdb"
    /\ Begin([kind |-> "erase", log |-> "dump"], d, "step", <<"size", "erase">>)
    /\ NoFault /\ folders' = {}

Call == \/ \E flags \in SUBSET {"trace", "health", "dump", "cli"} : CaptureLogs(flags)
        \/ \E d \in Index, log \in Logs, room \in 0..Slots : GetLog(d, log, room)
        \/ \E d \in Index : EraseCoreDump(d)
Step == Open \/ AskSize \/ ReadTable \/ Upload \/ Validate \/ Refuse \/ Write \/ Copy \/ SendCommand
        \/ Stream \/ EraseChunk \/ Break
Go   == NextDevice \/ NextLog \/ Step \/ AskAgain

Next == Call \/ Go \/ Grow
Spec == Init /\ [][Next]_vars

-----------------------------------------------------------------------------
(* Properties. *)

(* A log is saved whole and in order, however the transfers divide it: when the
   functions of exptrace.c, exphealthlogs.c, expcoredump.c and expcli.c report a
   success and no write was lost, the file or the buffer has every piece the
   device keeps, save the end of a command line output that the buffer had no
   room for.  A dump is never given in part after an erase that broke off.  (The
   header and the entry past the end, which the code takes for entries, aside.) *)
Whole(d, log) ==
    LET kept == Without(store[d][Region(log)], {Blank})
        want == CASE log = "cli" /\ call.kind = "get" -> SubSeq(kept, 1, Smaller(call.room, Len(kept)))
                  [] log = "rawdump" -> store[d]["dump"]
                  [] OTHER -> kept
    IN  /\ Without(saved[d][log], {Header, Beyond}) = want
        /\ \A i \in DOMAIN want : want[i] # Erased
SavedWhole ==
    call.kind # "erase" =>
        \A d \in Index, log \in Logs :
            outcome[d][log] = "success" /\ <<d, log>> \notin lost => Whole(d, log)

(* A log, a device or a folder that fails keeps no other log from being saved:
   after slibiOneTimeCaptureLogs went over the devices every log that was asked
   for was tried, and one failed only if an access to it did or its folder was
   missing. *)
FailuresStayApart ==
    pc = "idle" /\ result = "success" =>
        \A d \in Index : \A log \in ToSet(LogsOf(d, call.flags)) :
            /\ outcome[d][log] # "untried"
            /\ outcome[d][log] = "failed" => <<d, log>> \in hit

(* The size that a call names is enough for the next one, unless the trace grew
   by more than the library adds to it.  (A raw dump is not told a size.) *)
SizeToldSuffices ==
    pc = "idle" /\ call.kind = "get" /\ outcome[dev][call.log] = "toosmall" /\ call.log # "rawdump"
        => call.log = "trace" /\ grown > Extra

=============================================================================
