---------------------------- MODULE AladinCapture ----------------------------
(***************************************************************************)
(* The capture recorders of a PCI switch (Aladin), one for each station of *)
(* ports, and the two parts of the library that share them: the trace of a *)
(* port's link training (switchltssm.c) and the general capture            *)
(* (switchaladin.c), with the commands of the test program that drive them *)
(* (scrutinyTest.c).                                                       *)
(*                                                                         *)
(* A recorder writes value records into its RAM, round and round, and      *)
(* continuation records that lengthen the value before; it goes on while   *)
(* the library looks at it, and may stop by itself once it has triggered.  *)
(* A value is the port it is from and a link state; what a line of the     *)
(* dump looks like is left out.  A register access may fail.               *)
(***************************************************************************)
EXTENDS Integers, Sequences, FiniteSets, SequencesExt

CONSTANTS Stations,     \* stations with a recorder
          PerStation,   \* ports of a station (ATLAS_PMG_MAX_STNPORT)
          Ports,        \* port numbers a caller may ask for
          Enabled,      \* those that exist and are enabled
          RamSize,      \* records the RAM of a recorder holds (2048)
          Full,         \* the time printed for a value whose counter was full
          Limits        \* the bounds of the model, one of which a behaviour has:
                        \* calls, records, polls of a trace, failed accesses
                        \* and the probe modules a configuration may name

(* The probe modules: behind the first, the middle or the last of the three test
   multiplexers.  A configuration may also name one that there is not. *)
Phydll  == [phy |-> 1, dll |-> 2, sops |-> 3]
Tic     == [accm |-> 1, tic |-> 2, inch |-> 3, ticHdr |-> 4]
Tec     == [sqm |-> 1, rdr |-> 2, sch |-> 3, reset |-> 4, dma |-> 5, tecHdr |-> 6]
Modules == DOMAIN Phydll \cup DOMAIN Tic \cup DOMAIN Tec
Named   == Modules \cup {"unknown"}

(* A counter of 32 bits counts further than there are records in the RAM. *)
ASSUME CaptureAssumption ==
    /\ Stations \subseteq Nat /\ PerStation \in Nat \ {0} /\ RamSize \in Nat \ {0}
    /\ Enabled \subseteq Ports /\ Ports \subseteq Nat
    /\ \A p \in Enabled : p \div PerStation \in Stations
    /\ Full \in Nat /\ RamSize <= Full
    /\ Limits \subseteq [calls : Nat, records : Nat, polls : Nat, faults : Nat, modules : SUBSET Named]

VARIABLES
    rec,        \* the recorder of each station
    log,        \* history: what each recorder wrote since it was started
    config,     \* gSwitchAladinConfigData.station
    call,       \* the call in progress
    file,       \* what the last read-out left behind
    left        \* what is left of the bounds

vars == <<rec, log, config, call, file, left>>

Nowhere == -1                       \* what 0xFFFFFFFF makes of a station
Cells   == 0..(RamSize - 1)
NextCell(cell) == (cell + 1) % RamSize
LinkStates == {"polling", "other"}  \* Polling.Active, the trigger; any other

(* A value lasts 1; a continuation adds 1 or says that the counter was full. *)
Value(p, s)        == [kind |-> "value", port |-> p, state |-> s]
Continuation(full) == [kind |-> IF full THEN "full" ELSE "more", port |-> -1, state |-> "none"]
Blank              == Value(-1, "blank")

Stopped(sel) == [running |-> FALSE, triggered |-> FALSE, sel |-> sel,
                 ram |-> [c \in Cells |-> Blank], ptr |-> 0, wrap |-> FALSE]

Idle == [pc |-> "idle", op |-> "none", at |-> Nowhere, port |-> -1, polls |-> 0, then |-> "idle",
         status |-> "success", triggered |-> FALSE, wrap |-> FALSE, cur |-> 0, depth |-> 0, n |-> 0,
         prev |-> Blank, entries |-> <<>>, clean |-> TRUE, modules |-> <<>>]
NoFile == [op |-> "none", port |-> -1, wrote |-> <<>>, lines |-> <<>>, mark |-> 0, clean |-> FALSE]

Init ==
    /\ rec = [s \in Stations |-> Stopped(s * PerStation)]
    /\ log = [s \in Stations |-> <<>>]
    /\ config = 0 /\ call = Idle /\ file = NoFile
    /\ left \in Limits

Spend(what) == left[what] > 0 /\ left' = [left EXCEPT ![what] = @ - 1]
Works == UNCHANGED left
Fails == Spend("faults")

-----------------------------------------------------------------------------
(* The recorder *)

(* A record goes into the cell of the pointer, which moves on. *)
With(q, r) == [q EXCEPT !.ram[q.ptr] = r, !.ptr = NextCell(q.ptr),
                        !.wrap = q.wrap \/ q.ptr = RamSize - 1,
                        !.triggered = q.triggered \/ r.state = "polling"]

Record(s, r) ==
    /\ rec[s].running /\ Spend("records")
    /\ rec' = [rec EXCEPT ![s] = With(rec[s], r)]
    /\ log' = [log EXCEPT ![s] = Append(@, r)]
    /\ UNCHANGED <<config, call, file>>

(* A value is continued until its counter is full. *)
Continue(s, full) ==
    /\ log[s] # <<>> /\ Last(log[s]).kind # "full"
    /\ Record(s, Continuation(full))

(* Some time after the trigger a recorder stops. *)
StopsItself(s) ==
    /\ rec[s].running /\ rec[s].triggered
    /\ rec' = [rec EXCEPT ![s].running = FALSE]
    /\ UNCHANGED <<log, config, call, file, left>>

Recorder == \E s \in Stations :
    \/ \E v \in LinkStates : Record(s, Value(rec[s].sel, v))
    \/ \E full \in BOOLEAN : Continue(s, full)
    \/ StopsItself(s)

(* Registers of no station hold anything. *)
InProgress(s) == IF s \in Stations THEN {rec[s].running} ELSE BOOLEAN
Triggered(s)  == IF s \in Stations THEN {rec[s].triggered} ELSE BOOLEAN
Wrapped(s)    == IF s \in Stations THEN {rec[s].wrap} ELSE BOOLEAN

(* Writes to CAP_CTL: stop; clear the trigger and start. *)
StopRecorder(s) ==
    rec' = IF s \in Stations THEN [rec EXCEPT ![s].running = FALSE] ELSE rec
StartRecorder(s) ==
    IF s \in Stations
    THEN /\ rec' = [rec EXCEPT ![s] = [Stopped(rec[s].sel) EXCEPT !.running = TRUE]]
         /\ log' = [log EXCEPT ![s] = <<>>]
    ELSE UNCHANGED <<rec, log>>

Goto(pc) == call' = [call EXCEPT !.pc = pc]
Return(status) == call' = [Idle EXCEPT !.status = status]

-----------------------------------------------------------------------------
(* -ltssmtrace: setup, polls, then the read-out *)

(* sltLtssmSetup refuses a port that is not there. *)
BeginTrace(p, polls) ==
    /\ call.pc = "idle" /\ Spend("calls")
    /\ call' = [Idle EXCEPT !.pc = IF p \in Enabled THEN "check" ELSE "idle", !.op = "trace",
                            !.at = p \div PerStation, !.port = p, !.polls = polls,
                            !.status = IF p \in Enabled THEN "success" ELSE "invalid port"]
    /\ UNCHANGED <<rec, log, config, file>>

(* Mutant: a running capture is not looked for. *)
CheckNothing ==
    /\ call.pc = "check"
    /\ Works /\ Goto("select")
    /\ UNCHANGED <<rec, log, config, file>>

(* A capture in progress is for the caller to wait for. *)
CheckProgress ==
    /\ call.pc = "check"
    /\ \/ Fails /\ Return("failed")
       \/ Works /\ IF rec[call.at].running THEN Return("retry") ELSE Goto("select")
    /\ UNCHANGED <<rec, log, config, file>>

(* The multiplexers of the station are turned to the port; if a write fails,
   the others and the start still follow. *)
SelectPort ==
    /\ call.pc = "select" /\ call.op = "trace"
    /\ \/ Works /\ rec' = [rec EXCEPT ![call.at].sel = call.port] /\ Goto("start")
       \/ Fails /\ UNCHANGED rec /\ call' = [call EXCEPT !.pc = "start", !.status = "failed"]
    /\ UNCHANGED <<log, config, file>>

StartCapture ==
    /\ call.pc = "start" /\ call.op = "trace"
    /\ \/ /\ Works /\ StartRecorder(call.at)
          /\ IF call.status = "success" THEN Goto("poll") ELSE Return("failed")
       \/ Fails /\ UNCHANGED <<rec, log>> /\ Return("failed")
    /\ UNCHANGED <<config, file>>

(* sltLtssmIsTriggerred, in a poll and once more for the read-out: a capture
   that has triggered and still runs is stopped. *)
IsTriggered(after) ==
    \/ Fails /\ Return("failed")
    \/ /\ Works
       /\ LET r == rec[call.at]
          IN  call' = [call EXCEPT !.triggered = r.triggered, !.then = after,
                                   !.pc = IF r.triggered /\ r.running THEN "stop" ELSE after]

Look ==
    /\ \/ call.pc = "poll" /\ IsTriggered("polled")
       \/ call.pc = "look" /\ IsTriggered("looked")
    /\ UNCHANGED <<rec, log, config, file>>

(* scrtnySwitchGetLtssmTrace counts its polls; the sleep is left out. *)
Polled ==
    /\ call.pc = "polled"
    /\ call' = [call EXCEPT !.pc = IF call.triggered \/ call.polls = 0 THEN "look" ELSE "poll",
                            !.polls = IF @ = 0 THEN 0 ELSE @ - 1]
    /\ UNCHANGED <<rec, log, config, file, left>>

(* Mutant: what has not triggered is not stopped. *)
LookedAway ==
    /\ call.pc = "looked" /\ Goto("open")
    /\ UNCHANGED <<rec, log, config, file, left>>

(* sltStopAndGetLtssm stops what has not triggered as well. *)
Looked ==
    /\ call.pc = "looked"
    /\ call' = [call EXCEPT !.then = "open", !.pc = IF call.triggered THEN "open" ELSE "stop"]
    /\ UNCHANGED <<rec, log, config, file, left>>

(* sltStopAladinTrace, satcStopAladinTrace: whether the write succeeds is not
   looked at. *)
Stop ==
    /\ call.pc = "stop"
    /\ \E ok \in BOOLEAN :
         /\ IF ok THEN Works /\ StopRecorder(call.at) ELSE Fails /\ UNCHANGED rec
         /\ IF call.op = "stop" THEN Return("success")
            ELSE call' = [call EXCEPT !.pc = call.then, !.clean = @ /\ ok]
    /\ UNCHANGED <<log, config, file>>

-----------------------------------------------------------------------------
(* The read-out, of a trace and of a dump *)

(* A trace asks whether its file opened, a dump writes to it regardless. *)
OpenFile ==
    /\ call.pc = "open"
    /\ \/ Works /\ Goto("wrap")
       \/ Fails /\ IF call.op = "trace" THEN Return("file") ELSE Goto("wild")
    /\ UNCHANGED <<rec, log, config, file>>

(* A dump goes on with whatever its variable holds. *)
ReadWrap ==
    /\ call.pc = "wrap"
    /\ \/ /\ Works
          /\ \E w \in Wrapped(call.at) :
               call' = [call EXCEPT !.pc = "pointer", !.wrap = w, 
                                    !.clean = @ /\ (call.op = "trace" \/ InProgress(call.at) = {FALSE})]
       \/ /\ Fails
          /\ \/ call.op = "trace" /\ Return("failed")
             \/ /\ call.op = "dump"
                /\ \E w \in BOOLEAN : call' = [call EXCEPT !.pc = "pointer", !.wrap = w, !.clean = FALSE]
    /\ UNCHANGED <<rec, log, config, file>>

(* Where the oldest record is, and how many there are. *)
Extent(ptr, wrap) ==
    IF wrap THEN [cur |-> ptr, depth |-> RamSize] ELSE [cur |-> 0, depth |-> ptr]

ReadFrom(ptr, clean) ==
    LET e == Extent(ptr, call.wrap)
    IN  IF ptr = 0 /\ ~call.wrap
        THEN Return(IF call.op = "trace" THEN "failed" ELSE "success")
        ELSE call' = [call EXCEPT !.pc = "cells", !.cur = e.cur, !.depth = e.depth, !.clean = @ /\ clean]

(* A pointer beyond the RAM takes a dump beyond its arrays. *)
ReadPointer ==
    /\ call.pc = "pointer"
    /\ \/ Works /\ call.at \in Stations /\ ReadFrom(rec[call.at].ptr, TRUE)
       \/ Fails /\ call.op = "trace" /\ Return("failed")
       \/ /\ IF call.at \in Stations THEN Fails /\ call.op = "dump" ELSE Works
          /\ \/ Goto("wild")
             \/ \E ptr \in Cells : ReadFrom(ptr, FALSE)
    /\ UNCHANGED <<rec, log, config, file>>

(* A record joins the entries; a continuation lengthens the last one. *)
Joined(entries, r) ==
    CASE r.kind = "value" -> Append(entries, [port |-> r.port, state |-> r.state, time |-> 1])
      [] r.kind = "full"  -> [entries EXCEPT ![Len(entries)].time = Full]
      [] r.kind = "more"  -> [entries EXCEPT ![Len(entries)].time = (@ + 1) % (Full + 1)]

Leave(lines, mark) ==
    file' = [op |-> call.op, port |-> call.port, lines |-> lines, mark |-> mark, clean |-> call.clean,
             wrote |-> IF call.at \in Stations THEN log[call.at] ELSE <<>>]

(* A continuation without its value ends the read-out: the file gets no lines,
   and the call succeeds. *)
Take(r, clean) ==
    IF r.kind # "value" /\ call.entries = <<>>
    THEN Leave(<<>>, 0) /\ Return("success")
    ELSE /\ call' = [call EXCEPT !.entries = Joined(@, r), !.prev = r, !.cur = NextCell(@),
                                 !.n = @ + 1, !.clean = @ /\ clean]
         /\ UNCHANGED file

(* One cell: its address is written and three words are read; what is not read
   keeps its value from the cell before. *)
ReadCell ==
    /\ call.pc = "cells" /\ call.n < call.depth
    /\ \/ call.at \in Stations /\ Works /\ Take(rec[call.at].ram[call.cur], TRUE)
       \/ call.at \in Stations /\ Fails /\ Take(call.prev, FALSE)
       \/ call.at \notin Stations /\ Works /\ \E r \in {Blank, Continuation(TRUE)} : Take(r, FALSE)
    /\ UNCHANGED <<rec, log, config>>

(* A line for every cell: those that no value filled are zero in a trace, and
   whatever the arrays held in a dump. *)
Filler(op) == [port |-> -1, state |-> IF op = "trace" THEN "zero" ELSE "stale", time |-> 0]
Padding    == [i \in 1..(call.depth - Len(call.entries)) |-> Filler(call.op)]
FirstPolling(lines) ==
    LET P == {i \in 1..Len(lines) : lines[i].state = "polling"}
    IN  IF P = {} THEN 0 ELSE CHOOSE i \in P : \A j \in P : i <= j

PrintLines ==
    /\ call.pc = "cells" /\ call.n = call.depth
    /\ Leave(call.entries \o Padding, FirstPolling(call.entries))
    /\ Return("success")
    /\ UNCHANGED <<rec, log, config, left>>

-----------------------------------------------------------------------------
(* The Aladin menu *)

(* What a probe module sets the three test multiplexers to. *)
Unset  == 15        \* the 0xFFFFFFFF the configuration is filled with
Mux(tec, tic, phydll) == [tec |-> tec, tic |-> tic, phydll |-> phydll]
Setting(m) ==
    CASE m \in DOMAIN Phydll -> Mux(0, 0, Phydll[m])
      [] m \in DOMAIN Tic    -> Mux(0, Tic[m], Unset)
      [] m \in DOMAIN Tec    -> Mux(Tec[m], Unset, Unset)
      [] OTHER               -> Mux(Unset, Unset, Unset)

(* Mutant: bus B is put into the registers over bus A. *)
PrepOverwriting(a, b) ==
    [x \in {"tec", "tic", "phydll"} |->
        [a |-> IF Setting(b)[x] = Unset THEN Setting(a)[x] ELSE 0, b |-> Setting(b)[x]]]

(* satcPrepTmuxsettings: bus A writes whole registers, bus B its halves. *)
PrepTmuxsettings(a, b) ==
    [x \in {"tec", "tic", "phydll"} |->
        [a |-> Setting(a)[x],
         b |-> IF Setting(b)[x] # Unset THEN Setting(b)[x]
               ELSE IF Setting(a)[x] # Unset THEN 0 ELSE Unset]]

(* The module a bus shows: the last multiplexer, unless it passes the ones
   before it on. *)
Shown(tec, tic, phydll) ==
    LET In(f, n) == {m \in DOMAIN f : f[m] = n}
    IN  IF tec # 0 THEN In(Tec, tec) ELSE IF tic # 0 THEN In(Tic, tic) ELSE In(Phydll, phydll)

Menu(op, pc) ==
    /\ call.pc = "idle" /\ Spend("calls")
    /\ call' = [Idle EXCEPT !.pc = pc, !.op = op, !.at = config]
    /\ UNCHANGED <<rec, log, config, file>>

(* satcInitializeAtlasConfiguration fills the configuration with ones before it
   looks at the file; a file without a station leaves it so. *)
ConfigureFails ==
    /\ call.pc = "idle" /\ Spend("calls")
    /\ config' = Nowhere
    /\ call' = [Idle EXCEPT !.op = "configure", !.status = "failed"]
    /\ UNCHANGED <<rec, log, file>>
Configure(s, p, modules) ==
    /\ call.pc = "idle" /\ Spend("calls")
    /\ config' = s
    /\ call' = [Idle EXCEPT !.pc = "select", !.op = "configure", !.at = s, !.port = p, !.modules = modules]
    /\ UNCHANGED <<rec, log, file>>

(* Nothing asks whether a capture is in progress, or whether a write failed. *)
SelectProbe ==
    /\ call.pc = "select" /\ call.op = "configure"
    /\ \/ Works /\ rec' = IF call.at \in Stations THEN [rec EXCEPT ![call.at].sel = call.port] ELSE rec
       \/ Fails /\ UNCHANGED rec
    /\ call' = [call EXCEPT !.pc = "start", !.modules = <<>>]
    /\ UNCHANGED <<log, config, file>>
StartProbe ==
    /\ call.pc = "start" /\ call.op = "configure"
    /\ \/ Works /\ StartRecorder(call.at)
       \/ Fails /\ UNCHANGED <<rec, log>>
    /\ Return("success")
    /\ UNCHANGED <<config, file>>

(* satcPollAladinTrigger reads the status twice; its own status is always
   SCRUTINY_STATUS_FAILED, and the outcome kept here is what it tells: 1 for
   triggered, 2 for in progress. *)
Seen(running, triggered) ==
    call' = [call EXCEPT !.status = IF running THEN "in progress" ELSE "none", !.triggered = triggered,
                         !.then = "second", !.pc = IF running /\ triggered THEN "stop" ELSE "second"]
FirstLook ==
    /\ call.pc = "first"
    /\ \/ Works /\ \E r \in InProgress(call.at), t \in Triggered(call.at) : Seen(r, t)
       \/ Fails /\ \E r, t \in BOOLEAN : Seen(r, t)
    /\ UNCHANGED <<rec, log, config, file>>
SecondLook ==
    /\ call.pc = "second"
    /\ \/ Works /\ \E t \in Triggered(call.at) : Return(IF t THEN "triggered" ELSE call.status)
       \/ Fails /\ Return(IF call.triggered THEN "triggered" ELSE call.status)
    /\ UNCHANGED <<rec, log, config, file>>

-----------------------------------------------------------------------------
Library ==
    \/ CheckProgress \/ SelectPort \/ StartCapture
    \/ Look \/ Polled \/ Looked \/ Stop
    \/ OpenFile \/ ReadWrap \/ ReadPointer \/ ReadCell \/ PrintLines
    \/ SelectProbe \/ StartProbe \/ FirstLook \/ SecondLook

Commands ==
    \/ \E p \in Ports, polls \in 0..left.polls : BeginTrace(p, polls)
    \/ ConfigureFails
    \/ \E s \in Stations \cup {Nowhere}, p \in Enabled, a, b \in left.modules :
          /\ s \in Stations => p \div PerStation = s
          /\ s \notin Stations => p = 0
          /\ Configure(s, p, <<a, b>>)
    \/ Menu("poll", "first") \/ Menu("stop", "stop") \/ Menu("dump", "open")

Next == Recorder \/ Commands \/ Library

Spec == Init /\ [][Next]_vars

-----------------------------------------------------------------------------
(* Properties *)

Pcs == {"idle", "check", "select", "start", "poll", "polled", "look", "looked", "stop", "open", "wrap",
        "pointer", "cells", "first", "second", "wild"}

(* The last records of a sequence, as many as the RAM holds. *)
Kept(records) == LET n == Len(records) IN IF n <= RamSize THEN records ELSE SubSeq(records, n - RamSize + 1, n)

(* How long the value at index i lasted: until the next value, or the end. *)
Lasted(records, i) ==
    LET next == {j \in (i + 1)..Len(records) : records[j].kind = "value"}
        more == {j \in (i + 1)..Len(records) : \A k \in next : j < k}
    IN  IF \E j \in more : records[j].kind = "full" THEN Full ELSE 1 + Cardinality(more)

(* A trace without a failing access, and such a dump of a recorder that had been
   stopped, has the newest records of the capture in the order they were made, each value once
   with the whole time it lasted, and nothing but fillers after them; in a
   trace every value is from the port asked for, and the first Polling.Active
   is the one marked.  Whatever the RAM's wrap, the stop, the polls and the
   captures of other commands do. *)
TraceIsCapture ==
    file.clean /\ file.lines # <<>> =>
        LET kept   == Kept(file.wrote)
            values == {i \in 1..Len(kept) : kept[i].kind = "value"}
            place(i) == Cardinality({j \in values : j <= i})
        IN  /\ Len(file.lines) = Len(kept)
            /\ \A i \in values : file.lines[place(i)] =
                   [port |-> kept[i].port, state |-> kept[i].state, time |-> Lasted(kept, i)]
            /\ \A n \in (Cardinality(values) + 1)..Len(kept) : file.lines[n] = Filler(file.op)
            /\ file.op = "trace" =>
                   /\ \A i \in values : kept[i].port = file.port
                   /\ \A n \in 1..Cardinality(values) :
                        file.lines[n].state = "polling" => file.mark \in 1..n

(* A trace never takes a recorder from a capture that is still running: it
   neither turns its multiplexers nor starts it again. *)
TraceSparesRunning ==
    [][\A s \in Stations : rec[s].running /\ call.op = "trace" =>
          rec'[s].sel = rec[s].sel /\ IsPrefix(log[s], log'[s])]_vars

(* Each bus shows the module the file names for it, whatever the other has, even
   one that there is not. *)
BusesShowTheirModules ==
    call.pc = "select" /\ call.op = "configure" =>
        LET a   == call.modules[1]
            b   == call.modules[2]
            mux == PrepTmuxsettings(a, b)
        IN  /\ a \in Modules => Shown(mux["tec"].a, mux["tic"].a, mux["phydll"].a) = {a}
            /\ b \in Modules => Shown(mux["tec"].b, mux["tic"].b, mux["phydll"].b) = {b}

=============================================================================
