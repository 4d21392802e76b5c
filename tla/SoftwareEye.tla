----------------------------- MODULE SoftwareEye -----------------------------
(***************************************************************************)
(* The software eye of the lanes of a PCI switch (switchsignalintegrity.c, *)
(* ssiSoftwareEye): every lane is taken over, its sampling point is moved  *)
(* over a grid of offsets and phases with both polarities, the bit errors  *)
(* are counted at each point, the grid is written to a file, and the lane  *)
(* is given back.                                                          *)
(*                                                                         *)
(* The phase of a lane can only be moved in steps of one from where the    *)
(* library believes it to be.  A register access may fail, a lane may      *)
(* never grant the request, and its sample counter runs as it likes.  The  *)
(* ratio of errors to bits is left out: what a cell of the grid holds is   *)
(* the point at which it was measured.                                     *)
(***************************************************************************)
EXTENDS Integers, Sequences, FiniteSets, SequencesExt

CONSTANTS Lanes,        \* lanes of the request
          MaxOffset,    \* offsets go from MaxOffset down to -MaxOffset (63)
          SignBit,      \* the sign of an offset in its register (2^6)
          Left, Right,  \* phases go from -Left to Right (20, 21)
          MinSamples,   \* samples that errors must be counted over
          Requested,    \* samples that are enough without errors
          MaxCalls, MaxFaults       \* bounds of the model

ASSUME EyeAssumption ==
    /\ Lanes \subseteq Nat /\ IsFiniteSet(Lanes)
    /\ {MaxOffset, SignBit, Left, Right, MinSamples, Requested, MaxCalls, MaxFaults} \subseteq Nat
    /\ MaxOffset < SignBit /\ Left > 0

VARIABLES
    hw,         \* the lanes
    active,     \* PortActive: the lanes whose link is up, in order
    phase,      \* CurrentPhase: where the library believes the phases to be
    saved,      \* OldRegE74, OldReg344, OldReg398 and OldRegC8, by what they held
    count,      \* the sample counters of a measurement, as last read
    cells,      \* TripleArrayBuffer
    at,         \* the point of the grid and the loop the call is in; odd tells
                \* one round of the sample loop from the next
    file,       \* the files of the last call
    left,       \* calls and failing accesses left
    found,      \* history: the lanes as the call found them
    astray      \* history: the lanes whose phase stopped on its way from the centre

vars == <<hw, active, phase, saved, count, cells, at, file, left, found, astray>>
history == <<found, astray>>

Offsets == -MaxOffset..MaxOffset
Phases  == -Left..Right
Points  == Offsets \X Phases \X {0, 1}
NoPoint == <<>>
NoCount == [samples |-> 0, last |-> 0, done |-> FALSE]
NoCells == [l \in Lanes |-> [p \in Points |-> NoPoint]]

(* Mutant: the sign of a negative offset is lost. *)
VoffsetUnsigned(v) == IF v > 0 THEN v ELSE 0 - v

(* How an offset is written to its register, and what it means there. *)
Voffset(v) == IF v > 0 THEN v ELSE (0 - v) + SignBit
Offset(r)  == IF r >= SignBit THEN 0 - (r - SignBit) ELSE r

(* The registers of a lane that are set up for an eye, in the order in which they
   are written.  Four of them are read before and given back after; the others are
   overwritten with constants.  E68 holds the phase, E70 offset and polarity, and
   E00 the request for an eye and the counter. *)
SetUp     == <<"E68", "E00", "E04", "E14", "E18", "E1C", "E20", "E6C", "E70", "E74", "344", "398", "C8">>
Borrowed  == <<"E74", "344", "398", "C8">>
FirstOf(registers, n) == {registers[k] : k \in 1..n}
Registers == ToSet(SetUp)

(* A lane: "taken" are the registers that hold what the library wrote, and not
   what they held before. *)
Untouched == [offset |-> 0, phase |-> 0, polarity |-> 1, taken |-> {}, request |-> FALSE, scope |-> FALSE]
AtRest    == [pc |-> "idle", i |-> 1, v |-> MaxOffset, lohi |-> 0, phase |-> -Left,
              odd |-> FALSE, outcome |-> "none", status |-> "success"]

Init ==
    /\ hw = [l \in Lanes |-> Untouched]
    /\ active = <<>> /\ phase = [l \in Lanes |-> 0] /\ saved = [l \in Lanes |-> {}]
    /\ count = [l \in Lanes |-> NoCount] /\ cells = NoCells
    /\ at = AtRest /\ file = NoCells
    /\ left = [calls |-> MaxCalls, faults |-> MaxFaults]
    /\ found = hw /\ astray = {}

Works == UNCHANGED left
Fails == left.faults > 0 /\ left' = [left EXCEPT !.faults = @ - 1]

(* The lane whose turn it is in a loop over the active ones; then the next
   lane, or what follows the loop. *)
Lane == active[at.i]
Then(next) == IF at.i < Len(active) THEN [at EXCEPT !.i = @ + 1] ELSE [next EXCEPT !.i = 1]
Loop(pc)   == [at EXCEPT !.pc = pc]

(* The ways out of the call: at once, or by way of the restore. *)
Abandon == at' = [at EXCEPT !.pc = "idle", !.outcome = "failed", !.status = "failed"]
Restore(outcome) == at' = [at EXCEPT !.pc = "restore", !.i = 1, !.odd = FALSE, !.outcome = outcome]

-----------------------------------------------------------------------------
(* Taking the lanes over *)

(* ssiSoftwareEye looks which lanes are active, in their order; without any, all
   its loops are empty. *)
InOrder == {s \in SeqOf(Lanes, Cardinality(Lanes)) : \A i, j \in DOMAIN s : i < j => s[i] < s[j]}
Call(lanes) ==
    /\ at.pc = "idle" /\ left.calls > 0
    /\ left' = [left EXCEPT !.calls = @ - 1]
    /\ active' = lanes
    /\ at' = [AtRest EXCEPT !.pc = IF lanes = <<>> THEN "idle" ELSE "init"]
    /\ cells' = NoCells /\ file' = NoCells
    /\ found' = hw /\ astray' = {}
    /\ UNCHANGED <<hw, phase, saved, count>>
CallFails ==
    /\ at.pc = "idle" /\ left.calls > 0 /\ left.faults > 0
    /\ left' = [calls |-> left.calls - 1, faults |-> left.faults - 1]
    /\ at' = [AtRest EXCEPT !.outcome = "failed", !.status = "failed"]
    /\ active' = <<>> /\ file' = NoCells
    /\ found' = hw /\ astray' = {}
    /\ UNCHANGED <<hw, phase, saved, count, cells>>

(* A lane some of whose registers have been set up. *)
SetIn(l, done) ==
    LET h == hw[l] IN
    [offset   |-> IF "E70" \in done THEN 0 ELSE h.offset,
     phase    |-> IF "E68" \in done THEN 0 ELSE h.phase,
     polarity |-> IF "E70" \in done THEN 1 ELSE h.polarity,
     taken    |-> h.taken \cup done,
     request  |-> h.request /\ "E00" \notin done,
     scope    |-> h.scope /\ "E00" \notin done]

(* ssiSoftEyeSerdesInit sets the registers up and keeps what was in the borrowed
   ones; then the offset is set to zero, the phase is taken to be in the centre,
   and the eye is requested.  A failing access ends it after any of the registers. *)
InitLane ==
    /\ at.pc = "init"
    /\ \/ /\ Works
          /\ saved' = [saved EXCEPT ![Lane] = hw[Lane].taken \cap ToSet(Borrowed)]
          /\ hw' = [hw EXCEPT ![Lane] = [SetIn(Lane, Registers) EXCEPT !.request = TRUE]]
          /\ phase' = [phase EXCEPT ![Lane] = 0]
          /\ at' = Then(Loop("grant"))
       \/ /\ Fails
          /\ \E n \in 0..Len(SetUp) : hw' = [hw EXCEPT ![Lane] = SetIn(Lane, FirstOf(SetUp, n))]
          /\ Abandon
          /\ UNCHANGED <<phase, saved>>
    /\ UNCHANGED <<active, count, cells, file, history>>

(* CommandReceived and Granted are waited for; a lane that takes too long ends
   the call with the status of the last read. *)
WaitGrant ==
    /\ at.pc = "grant"
    /\ \/ Works /\ at' = Then(Loop("polarity on"))
       \/ Works /\ Restore("timeout")
       \/ Fails /\ Abandon
    /\ UNCHANGED <<hw, active, phase, saved, count, cells, file, history>>

PolarityOn ==
    /\ at.pc = "polarity on"
    /\ \/ Works /\ hw' = [hw EXCEPT ![Lane].polarity = 1] /\ at' = Then(Loop("offset"))
       \/ Fails /\ Abandon /\ UNCHANGED hw
    /\ UNCHANGED <<active, phase, saved, count, cells, file, history>>

-----------------------------------------------------------------------------
(* Moving the sampling points *)

(* ssiSoftEyeVertAdjust *)
VertAdjust ==
    /\ at.pc = "offset"
    /\ \/ Works /\ hw' = [hw EXCEPT ![Lane].offset = Voffset(at.v)] /\ at' = Then(Loop("centre"))
       \/ Fails /\ Restore("failed") /\ UNCHANGED hw
    /\ UNCHANGED <<active, phase, saved, count, cells, file, history>>

(* Where the phase of a lane is after some of the steps from one phase to
   another: each step writes the phase it comes to. *)
After(steps, from, to, l) ==
    IF steps = 0 THEN hw[l].phase ELSE IF to > from THEN from + steps ELSE from - steps
Distance(from, to) == IF to > from THEN to - from ELSE from - to

Arrive(to, next) ==
    /\ hw' = [hw EXCEPT ![Lane].phase = After(Distance(phase[Lane], to), phase[Lane], to, Lane)]
    /\ phase' = [phase EXCEPT ![Lane] = to]
    /\ at' = Then(next)

(* ssiSoftEyePhaseAdjust, which may fail after any of its steps; its callers
   then believe the lane to be where it was. *)
PhaseAdjust(to, next) ==
    /\ \/ Works /\ Arrive(to, next) /\ UNCHANGED astray
       \/ /\ Fails /\ Restore("failed") /\ UNCHANGED phase
          /\ astray' = IF phase[Lane] = 0 THEN astray \cup {Lane} ELSE astray
          /\ \E k \in 0..Distance(phase[Lane], to) :
               hw' = [hw EXCEPT ![Lane].phase = After(k, phase[Lane], to, Lane)]
    /\ UNCHANGED <<active, saved, count, cells, file, found>>

Centre == at.pc = "centre" /\ PhaseAdjust(0, Loop("polarity"))
Shift  == at.pc = "shift" /\ PhaseAdjust(at.phase, Loop("scope"))

(* After a row, the phases go back and the next row begins. *)
Home ==
    /\ at.pc = "home"
    /\ PhaseAdjust(0, IF at.v = -MaxOffset THEN Loop("file")
                      ELSE [at EXCEPT !.pc = "offset", !.v = @ - 1, !.lohi = 0])

TurnPolarity == hw' = [hw EXCEPT ![Lane].polarity = at.lohi]

(* A failing access here leaves the lanes as they are. *)
Polarity ==
    /\ at.pc = "polarity"
    /\ \/ Works /\ TurnPolarity /\ at' = Then([Loop("shift") EXCEPT !.phase = -Left])
       \/ Fails /\ Abandon /\ UNCHANGED hw
    /\ UNCHANGED <<active, phase, saved, count, cells, file, history>>

-----------------------------------------------------------------------------
(* ssiSoftEyeGetBer *)

StartScope ==
    /\ at.pc = "scope"
    /\ \/ /\ Works
          /\ hw' = [hw EXCEPT ![Lane].scope = TRUE]
          /\ count' = [count EXCEPT ![Lane] = NoCount]
          /\ at' = Then(Loop("sample"))
       \/ Fails /\ Restore("failed") /\ UNCHANGED <<hw, count>>
    /\ UNCHANGED <<active, phase, saved, cells, file, history>>

(* A lane is done when its counter stood still or never began, when it saw
   enough errors, or enough samples. *)
Done(c, samples, errors) ==
    \/ c.done
    \/ samples = c.last \/ samples = 0
    \/ samples > MinSamples /\ errors
    \/ samples > Requested

Counted(c, samples, errors) ==
    [samples |-> samples, done |-> Done(c, samples, errors),
     last |-> IF Done([c EXCEPT !.done = FALSE], samples, errors) THEN c.last ELSE samples]

(* All counters are latched, read and released; the counters of the lanes that
   are done go on. *)
Sample ==
    /\ at.pc = "sample"
    /\ \/ /\ Works
          /\ \E n \in [ToSet(active) -> 0..(Requested + 1)], errors \in [ToSet(active) -> BOOLEAN] :
               /\ \A l \in ToSet(active) : n[l] \in count[l].samples..(count[l].samples + 2)
               /\ count' = [l \in Lanes |->
                     IF l \in ToSet(active) THEN Counted(count[l], n[l], errors[l]) ELSE count[l]]
          /\ at' = IF \A l \in ToSet(active) : count'[l].done THEN [Loop("finish") EXCEPT !.odd = FALSE] ELSE [at EXCEPT !.odd = ~@]
       \/ Fails /\ Restore("failed") /\ UNCHANGED count
    /\ UNCHANGED <<hw, active, phase, saved, cells, file, history>>

Here == <<at.v, at.phase, at.lohi>>
PointOf(l) == <<Offset(hw[l].offset), hw[l].phase, hw[l].polarity>>

(* What follows a measurement: the next column, the other polarity, the end of
   the row. *)
Onward ==
    IF at.phase < Right THEN [at EXCEPT !.pc = "shift", !.phase = @ + 1]
    ELSE IF at.lohi = 0 THEN [at EXCEPT !.pc = "centre", !.lohi = 1]
    ELSE Loop("home")

(* The counter of each lane is turned off; no samples at all is a failure.
   After the last lane the cells of the point are filled. *)
Finish ==
    /\ at.pc = "finish"
    /\ \/ /\ Works /\ count[Lane].samples > 0
          /\ hw' = [hw EXCEPT ![Lane].scope = FALSE]
          /\ at' = Then(Onward)
          /\ count' = [count EXCEPT ![Lane] = NoCount]
          /\ cells' = IF at.i < Len(active) THEN cells
                      ELSE [l \in Lanes |-> IF l \in ToSet(active)
                                            THEN [cells[l] EXCEPT ![Here] = PointOf(l)] ELSE cells[l]]
       \/ /\ IF count[Lane].samples = 0 THEN Works ELSE Fails
          /\ Restore("failed") /\ UNCHANGED <<hw, count, cells>>
    /\ UNCHANGED <<active, phase, saved, file, history>>

-----------------------------------------------------------------------------
(* The end *)

(* Every active lane gets a file with the means of its two polarities. *)
WriteFiles ==
    /\ at.pc = "file"
    /\ file' = cells
    /\ Restore("measured")
    /\ UNCHANGED <<hw, active, phase, saved, count, cells, left, history>>

(* Mutant: the phase is not taken back to the centre. *)
GiveBackShifted(l) ==
    [offset |-> 0, phase |-> hw[l].phase, polarity |-> 1,
     taken |-> (hw[l].taken \ ToSet(Borrowed)) \cup saved[l], request |-> FALSE, scope |-> FALSE]

(* E00 gets a constant without request and counter, the borrowed registers what
   was kept, and E70 the value it had after ssiSoftEyeSerdesInit had written it,
   which has both polarity bits set.  The other registers stay as they are. *)
GiveBack(l) ==
    [offset |-> 0, phase |-> After(Distance(phase[l], 0), phase[l], 0, l), polarity |-> 1,
     taken |-> (hw[l].taken \ ToSet(Borrowed)) \cup saved[l], request |-> FALSE, scope |-> FALSE]

(* How far a restore may have come with a lane: at most on the way to the centre,
   or in it with some of the borrowed registers given back. *)
OnTheWay(l, k) == [hw[l] EXCEPT !.offset = 0, !.phase = After(k, phase[l], 0, l)]
PartlyBack(l, done) ==
    [GiveBack(l) EXCEPT !.polarity = hw[l].polarity, !.taken = (hw[l].taken \ done) \cup (saved[l] \cap done)]
HalfBack(l) ==
    {hw[l]} \cup {OnTheWay(l, k) : k \in 0..Distance(phase[l], 0)}
            \cup {PartlyBack(l, FirstOf(Borrowed, n)) : n \in 0..Len(Borrowed)}

(* The restore overwrites the status of what led to it, and a failing access
   ends it. *)
RestoreLane ==
    /\ at.pc = "restore"
    /\ \/ /\ Works
          /\ hw' = [hw EXCEPT ![Lane] = GiveBack(Lane)]
          /\ at' = IF at.i < Len(active) THEN [at EXCEPT !.i = @ + 1]
                   ELSE [at EXCEPT !.pc = "idle", !.status = "success"]
       \/ /\ Fails
          /\ \E h \in HalfBack(Lane) : hw' = [hw EXCEPT ![Lane] = h]
          /\ at' = [at EXCEPT !.pc = "idle", !.outcome = "failed", !.status = "failed"]
    /\ UNCHANGED <<active, phase, saved, count, cells, file, history>>

Library ==
    \/ InitLane \/ WaitGrant \/ PolarityOn
    \/ VertAdjust \/ Centre \/ Polarity \/ Shift \/ Home
    \/ StartScope \/ Sample \/ Finish
    \/ WriteFiles \/ RestoreLane

Next == (\E lanes \in InOrder : Call(lanes)) \/ CallFails \/ Library

Spec == Init /\ [][Next]_vars

-----------------------------------------------------------------------------
(* Properties *)

Pcs == {"idle", "init", "grant", "polarity on", "offset", "centre", "polarity", "shift", "scope", "sample",
        "finish", "home", "file", "restore"}

(* Every cell of a file was measured at its own offset, phase and polarity: no
   path through the sweep, a time-out, a lane that is down or a failing access
   leaves a file with a cell that is missing or from another point. *)
CellsInPlace ==
    \A l \in Lanes : file[l] # NoCells[l] => \A p \in Points : file[l][p] = p

(* A lane after an eye: its offset at zero, without request and counter, and what
   the borrowed registers held before.  The registers that are not borrowed keep
   what the library wrote. *)
Released(h, shift) ==
    [offset |-> 0, phase |-> shift, polarity |-> 1,
     taken |-> (h.taken \cap ToSet(Borrowed)) \cup (Registers \ ToSet(Borrowed)),
     request |-> FALSE, scope |-> FALSE]

(* A call that returns success has given back all of its lanes, whatever led to
   the restore: the end of the sweep, a lane that was not granted or counted
   nothing, or a failing access in any of the lanes; and no call leaves a trace on
   a lane whose link is down.  Only the phase of a lane that stopped on its way
   from the centre is left out: the library takes it to be there still, and
   the restore takes no step. *)
LanesGivenBack ==
    at.pc = "idle" => \A l \in Lanes :
        IF l \notin ToSet(active) THEN hw[l] = found[l]
        ELSE at.status = "success" =>
               hw[l] = Released(found[l], IF l \in astray THEN hw[l].phase ELSE 0)

=============================================================================
