----------------------------- MODULE Eyes_proofs -----------------------------
(***************************************************************************)
(* Proofs about the two eyes of a switch, for every set of lanes and every *)
(* number of calls and failing accesses.                                   *)
(*                                                                         *)
(* SoftwareEye, for every grid and every number of samples: a file holds   *)
(* every point of the grid where it belongs, and a call that returns       *)
(* success has released all of its lanes, whatever failed on the way.      *)
(*                                                                         *)
(* HardwareEye, for every number of polls: a command shows only eyes       *)
(* measured for it, and unless a clean-up failed no lane goes on after a   *)
(* command.                                                                *)
(***************************************************************************)
EXTENDS SoftwareEye, HardwareEye, SequenceTheorems, FiniteSetTheorems, TLAPS

(* The places of a call, and the types. *)
Aiming    == {"init", "grant", "polarity on"}
Measuring == {"shift", "scope", "sample", "finish"}
Sweep     == {"centre", "polarity"} \cup Measuring
LaneStates == [offset : Nat, phase : Phases, polarity : {0, 1}, taken : SUBSET Registers,
               request : BOOLEAN, scope : BOOLEAN]
Outcomes == {"none", "failed", "timeout", "measured"}
Spots == [pc : Pcs, i : Nat, v : Offsets, lohi : {0, 1}, phase : Phases, odd : BOOLEAN,
          outcome : Outcomes, status : {"success", "failed"}]
Turns == 1..Len(active)

Types ==
    /\ hw \in [Lanes -> LaneStates]
    /\ active \in Seq(Lanes) /\ \A j, k \in Turns : j # k => active[j] # active[k]
    /\ phase \in [Lanes -> Phases] /\ saved \in [Lanes -> SUBSET ToSet(Borrowed)]
    /\ found \in [Lanes -> LaneStates] /\ astray \subseteq Lanes
    /\ cells \in [Lanes -> [Points -> Points \cup {NoPoint}]]
    /\ at \in Spots
    /\ left \in [calls : Nat, faults : Nat] /\ left.faults <= MaxFaults

Course ==
    /\ at.pc # "idle" => at.i \in Turns
    /\ at.pc \in Aiming => at.v = MaxOffset
    /\ at.pc \in Aiming \cup {"offset"} => at.lohi = 0

(* The lane whose turn is the k-th is where it has to be for the measurement: its
   offset and its polarity are set, and its phase is the one it is taken to have
   before it is moved to the column that is measured. *)
Placed == \A k \in Turns :
    LET l == active[k] IN
    /\ at.pc \in Sweep \/ (at.pc = "offset" /\ k < at.i) => Offset(hw[l].offset) = at.v
    /\ at.pc \in Measuring \/ (at.pc = "polarity" /\ k < at.i) => hw[l].polarity = at.lohi
    /\ at.pc = "polarity" \/ (at.pc = "centre" /\ k < at.i) => phase[l] = 0
    /\ at.pc \in {"scope", "sample", "finish"} \/ (at.pc = "shift" /\ k < at.i) =>
         phase[l] = at.phase /\ hw[l].phase = at.phase
    /\ at.pc = "shift" /\ k >= at.i => phase[l] # at.phase

(* The points of the grid that are behind the call, and what it has of them. *)
Behind(p) ==
    \/ at.pc = "file"
    \/ at.pc \in Sweep \cup {"home", "offset"} /\ p[1] > at.v
    \/ at.pc = "home" /\ p[1] = at.v
    \/ at.pc \in Sweep /\ p[1] = at.v /\ p[3] < at.lohi
    \/ at.pc \in Measuring /\ p[1] = at.v /\ p[3] = at.lohi /\ p[2] < at.phase
Filled ==
    at.pc \notin {"idle", "restore"} =>
        /\ \A l \in ToSet(active) : \A p \in Points : Behind(p) => cells[l][p] = p
        /\ \A l \in Lanes \ ToSet(active) : cells[l] = NoCells[l]

(* A lane that the call has taken over: what its borrowed registers held is kept,
   all of its registers are set up, and when the library believes its phase in the
   centre it is there, unless it stopped on its way from there. *)
Held(l) ==
    /\ saved[l] = found[l].taken \cap ToSet(Borrowed)
    /\ hw[l].taken = Registers
    /\ l \in astray \/ (phase[l] = 0 => hw[l].phase = 0)

(* A lane that the call has given back. *)
Back(l) == hw[l] = Released(found[l], IF l \in astray THEN hw[l].phase ELSE 0)

(* A lane whose link is down is as the call found it, and so is one before its turn
   to be taken over; from then on it is held until its turn to be given back. *)
Known ==
    /\ \A l \in Lanes \ ToSet(active) : hw[l] = found[l]
    /\ at.pc = "idle" /\ at.status = "success" => \A l \in ToSet(active) : Back(l)
    /\ at.pc = "init" => \A k \in Turns :
         IF k >= at.i THEN hw[active[k]] = found[active[k]] ELSE Held(active[k])
    /\ at.pc = "restore" => \A k \in Turns : IF k < at.i THEN Back(active[k]) ELSE Held(active[k])
    /\ at.pc \notin {"idle", "init", "restore"} => \A k \in Turns : Held(active[k])

IInv == Types /\ Course /\ Placed /\ Filled /\ CellsInPlace /\ Known

-----------------------------------------------------------------------------
(* Offsets and phases *)

LEMMA Numbers ==
    /\ MaxOffset \in Nat /\ SignBit \in Nat /\ MaxOffset < SignBit /\ Left \in Nat /\ Left > 0
    /\ Right \in Nat /\ MaxFaults \in Nat /\ MaxCalls \in Nat
    /\ Offsets \subseteq Int /\ Phases \subseteq Int
    /\ MaxOffset \in Offsets /\ 0 \in Phases /\ -Left \in Phases
BY EyeAssumption DEF Offsets, Phases

(* What is written to the register of an offset is read as that offset. *)
LEMMA OffsetsRead == \A v \in Offsets : Voffset(v) \in Nat /\ Offset(Voffset(v)) = v
BY EyeAssumption DEF Offsets, Voffset, Offset

(* The borrowed registers and the first ones in order are among those set up. *)
LEMMA Sets ==
    /\ ToSet(Borrowed) \subseteq Registers /\ {"E68", "E00", "E70"} \subseteq Registers
    /\ \A n \in 0..Len(SetUp) : FirstOf(SetUp, n) \subseteq Registers
<1>1. Len(SetUp) = 13 /\ DOMAIN SetUp = 1..13 /\ DOMAIN Borrowed = 1..4
  BY DEF SetUp, Borrowed
<1>2. Registers = {SetUp[k] : k \in 1..13} /\ ToSet(Borrowed) = {Borrowed[k] : k \in 1..4}
  BY <1>1 DEF Registers, ToSet
<1>3. SetUp[1] = "E68" /\ SetUp[2] = "E00" /\ SetUp[9] = "E70"
  BY DEF SetUp
<1>4. /\ Borrowed[1] = SetUp[10] /\ Borrowed[2] = SetUp[11]
      /\ Borrowed[3] = SetUp[12] /\ Borrowed[4] = SetUp[13]
  BY DEF SetUp, Borrowed
<1>5. \A k \in 1..4 : k = 1 \/ k = 2 \/ k = 3 \/ k = 4
  OBVIOUS
<1>6. ToSet(Borrowed) \subseteq Registers
  BY <1>2, <1>4, <1>5
<1>7. \A n \in 0..Len(SetUp) : FirstOf(SetUp, n) \subseteq Registers
  BY <1>1, <1>2 DEF FirstOf
<1>8. {"E68", "E00", "E70"} \subseteq Registers
  <2>1. 1 \in 1..13 /\ 2 \in 1..13 /\ 9 \in 1..13
    OBVIOUS
  <2> QED
    BY <1>2, <1>3, <2>1
<1> QED
  BY <1>6, <1>7, <1>8

LEMMA PointsAreTriples ==
    \A p \in Points : p[1] \in Offsets /\ p[2] \in Phases /\ p[3] \in {0, 1} /\ p = <<p[1], p[2], p[3]>>
BY DEF Points

LEMMA PointsAreInside ==
    \A p \in Points : /\ p[1] \in Int /\ -MaxOffset <= p[1] /\ p[1] <= MaxOffset
                      /\ p[2] \in Int /\ -Left <= p[2] /\ p[2] <= Right
                      /\ p[3] \in {0, 1}
<1>1. \A v \in Offsets : v \in Int /\ -MaxOffset <= v /\ v <= MaxOffset
  BY Numbers DEF Offsets
<1>2. \A v \in Phases : v \in Int /\ -Left <= v /\ v <= Right
  BY Numbers DEF Phases
<1> QED
  BY <1>1, <1>2, PointsAreTriples

(* A phase is moved by steps of one, and stays in its range on the way. *)
LEMMA Walks ==
    ASSUME NEW from \in Phases, NEW to \in Phases, NEW l \in Lanes, hw[l].phase \in Phases
    PROVE  /\ Distance(from, to) \in Nat
           /\ \A k \in 0..Distance(from, to) : After(k, from, to, l) \in Phases
           /\ After(Distance(from, to), from, to, l) = IF from = to THEN hw[l].phase ELSE to
<1>1. from \in Int /\ to \in Int /\ -Left \in Int /\ Right \in Int /\ Left \in Nat
  BY Numbers
<1>2. Distance(from, to) \in Nat
  BY <1>1 DEF Distance
<1>3. ASSUME NEW k \in 0..Distance(from, to)
      PROVE  After(k, from, to, l) \in Phases
  <2>1. k \in Nat /\ k <= Distance(from, to)
    BY <1>2
  <2>2. CASE to > from
    BY <1>1, <2>1, <2>2 DEF Distance, After, Phases
  <2>3. CASE ~(to > from)
    BY <1>1, <2>1, <2>3 DEF Distance, After, Phases
  <2> QED
    BY <2>2, <2>3
<1>4. After(Distance(from, to), from, to, l) = IF from = to THEN hw[l].phase ELSE to
  BY <1>1 DEF Distance, After
<1> QED
  BY <1>2, <1>3, <1>4

-----------------------------------------------------------------------------
(* The loops over the lanes *)

(* The lane whose turn it is, and those that have none. *)
LEMMA Turning ==
    ASSUME Types, at.i \in Turns
    PROVE  /\ Lane = active[at.i] /\ Lane \in Lanes /\ Lane \in ToSet(active)
           /\ \A k \in Turns : active[k] \in Lanes /\ (active[k] = Lane <=> k = at.i)
           /\ \A l \in ToSet(active) : l \in Lanes /\ \E k \in Turns : l = active[k]
           /\ Len(active) \in Nat
<1>1. active \in Seq(Lanes) /\ Len(active) \in Nat
  BY DEF Types
<1>2. \A k \in Turns : active[k] \in Lanes
  BY <1>1, ElementOfSeq DEF Turns
<1>3. ToSet(active) = {active[k] : k \in Turns}
  BY <1>1 DEF ToSet, Turns
<1>4. \A k \in Turns : active[k] = active[at.i] <=> k = at.i
  BY DEF Types
<1> QED
  BY <1>1, <1>2, <1>3, <1>4 DEF Lane

Alike(a, b) == a.v = b.v /\ a.lohi = b.lohi /\ a.phase = b.phase

LEMMA Loops ==
    ASSUME at \in Spots, NEW pc \in Pcs
    PROVE  Loop(pc) \in Spots /\ Loop(pc).pc = pc /\ Alike(Loop(pc), at)
BY DEF Loop, Spots, Alike

LEMMA Thens ==
    ASSUME Types, at.i \in Turns, NEW next \in Spots, at' = Then(next)
    PROVE  /\ at' \in Spots /\ at'.i \in Turns
           /\ \/ at.i < Len(active) /\ at'.i = at.i + 1 /\ at'.pc = at.pc /\ Alike(at', at)
              \/ at.i = Len(active) /\ at'.i = 1 /\ at'.pc = next.pc /\ Alike(at', next)
<1>1. at \in Spots /\ Len(active) \in Nat /\ at.i \in Nat /\ 1 <= at.i /\ at.i <= Len(active)
  BY DEF Types, Turns
<1>2. CASE at.i < Len(active)
  <2>1. at' = [at EXCEPT !.i = at.i + 1]
    BY <1>2 DEF Then
  <2>2. at.i + 1 \in Nat /\ at.i + 1 \in Turns
    BY <1>1, <1>2 DEF Turns
  <2> QED
    BY <1>1, <1>2, <2>1, <2>2 DEF Spots, Alike
<1>3. CASE ~(at.i < Len(active))
  <2>1. at' = [next EXCEPT !.i = 1]
    BY <1>3 DEF Then
  <2>2. at.i = Len(active) /\ 1 \in Turns /\ 1 \in Nat
    BY <1>1, <1>3 DEF Turns
  <2> QED
    BY <2>1, <2>2 DEF Spots, Alike
<1> QED
  BY <1>2, <1>3

LEMMA Spends ==
    ASSUME Types, Works \/ Fails
    PROVE  left' \in [calls : Nat, faults : Nat] /\ left'.faults <= MaxFaults
<1>1. left \in [calls : Nat, faults : Nat] /\ left.faults <= MaxFaults /\ MaxFaults \in Nat
  BY Numbers DEF Types
<1>2. CASE Works
  BY <1>1, <1>2 DEF Works
<1>3. CASE Fails
  <2>1. left.faults > 0 /\ left' = [left EXCEPT !.faults = left.faults - 1]
    BY <1>3 DEF Fails
  <2>2. left.faults - 1 \in Nat /\ left.faults - 1 < MaxFaults
    BY <1>1, <2>1
  <2> QED
    BY <1>1, <2>1, <2>2
<1> QED
  BY <1>2, <1>3

(* A step that changes the lane whose turn it is and leaves its registers and the
   belief in its phase alone. *)
LEMMA StaysKnown ==
    ASSUME Types, Known, at.i \in Turns, at.pc \notin {"idle", "init", "restore"},
           at'.pc \notin {"idle", "init"}, at'.pc = "restore" => at'.i = 1,
           UNCHANGED <<active, saved, found>>, astray \subseteq astray',
           \A l \in Lanes : l # Lane => hw'[l] = hw[l] /\ phase'[l] = phase[l],
           hw'[Lane].taken = hw[Lane].taken,
           \/ Lane \in astray'
           \/ (phase[Lane] = 0 => hw[Lane].phase = 0) => (phase'[Lane] = 0 => hw'[Lane].phase = 0)
    PROVE  Known'
<1>1. /\ Lane \in Lanes /\ Lane \in ToSet(active)
      /\ \A k \in Turns : active[k] \in Lanes /\ k \in Nat /\ ~(k < 1)
  BY Turning DEF Turns, Types
<1>2. \A l \in Lanes \ ToSet(active) : hw'[l] = found[l]
  BY <1>1 DEF Known
<1>3. ASSUME NEW k \in Turns
      PROVE  Held(active[k])'
  <2> DEFINE l == active[k]
  <2>1. Held(l) /\ l \in Lanes
    BY <1>1 DEF Known
  <2>2. active'[k] = l
    OBVIOUS
  <2> HIDE DEF l
  <2>3. /\ saved'[l] = found'[l].taken \cap ToSet(Borrowed)
        /\ hw'[l].taken = Registers
        /\ l \in astray' \/ (phase'[l] = 0 => hw'[l].phase = 0)
    <3>1. CASE l = Lane
      BY <2>1, <3>1 DEF Held
    <3>2. CASE l # Lane
      BY <2>1, <3>2 DEF Held
    <3> QED
      BY <3>1, <3>2
  <2> QED
    BY <2>2, <2>3 DEF Held, l
<1>4. Turns' = Turns
  BY DEF Turns
<1>5. CASE at'.pc = "restore"
  <2>1. \A k \in Turns : ~(k < at'.i)
    BY <1>1, <1>5
  <2> QED
    BY <1>2, <1>3, <1>4, <1>5, <2>1 DEF Known
<1>6. CASE at'.pc # "restore"
  BY <1>2, <1>3, <1>4, <1>6 DEF Known
<1> QED
  BY <1>5, <1>6

LEMMA StaysFilled ==
    ASSUME Filled, at.pc \notin {"idle", "restore"}, UNCHANGED <<active, cells>>,
           \A p \in Points : Behind(p)' => Behind(p)
    PROVE  Filled'
BY DEF Filled

(* The ways out *)
LEMMA Restores ==
    ASSUME IInv, at.i \in Turns, at.pc \notin {"idle", "init", "restore"},
           NEW outcome \in Outcomes, Restore(outcome), UNCHANGED <<active, phase, saved, cells, found>>,
           CellsInPlace', hw' \in [Lanes -> LaneStates], Works \/ Fails,
           astray \subseteq astray', astray' \subseteq Lanes,
           \A l \in Lanes : l # Lane => hw'[l] = hw[l],
           hw'[Lane].taken = hw[Lane].taken,
           Lane \in astray' \/ phase[Lane] # 0 \/ hw'[Lane] = hw[Lane]
    PROVE  IInv'
<1>0. Types /\ Known /\ at \in Spots
  BY DEF IInv, Types
<1>1. at'.pc = "restore" /\ at'.i = 1 /\ at' \in Spots
  <2>1. at' = [[[[at EXCEPT !.pc = "restore"] EXCEPT !.i = 1] EXCEPT !.odd = FALSE] EXCEPT !.outcome = outcome]
    BY <1>0 DEF Restore, Spots
  <2>2. "restore" \in Pcs /\ 1 \in Nat
    BY DEF Pcs
  <2> QED
    BY <1>0, <2>1, <2>2 DEF Spots
<1>2. Types'
  BY <1>0, <1>1, Spends DEF Types, Turns
<1>3. 1 \in Turns
  BY <1>0 DEF Turns, Types
<1>4. Course' /\ Placed' /\ Filled'
  BY <1>1, <1>3 DEF Course, Placed, Filled, Turns, Aiming, Sweep, Measuring
<1>5. Known'
  BY <1>0, <1>1, StaysKnown
<1> QED
  BY <1>2, <1>4, <1>5 DEF IInv

LEMMA RestoresInPlace ==
    ASSUME IInv, at.i \in Turns, at.pc \notin {"idle", "init", "restore"},
           NEW outcome \in Outcomes, Restore(outcome), Works \/ Fails, CellsInPlace',
           UNCHANGED <<hw, active, phase, saved, cells, found, astray>>
    PROVE  IInv'
<1>1. hw' \in [Lanes -> LaneStates] /\ astray' \subseteq Lanes /\ hw' = hw
  BY DEF IInv, Types
<1> QED
  BY <1>1, Restores

LEMMA Abandons ==
    ASSUME IInv, at.i \in Turns, Fails, at'.pc = "idle", at'.status = "failed", at' \in Spots,
           hw' \in [Lanes -> LaneStates], \A l \in Lanes : l # Lane => hw'[l] = hw[l],
           UNCHANGED <<active, phase, saved, cells, file, found, astray>>
    PROVE  IInv'
<1>0. Types /\ Known
  BY DEF IInv
<1>1. Lane \in ToSet(active)
  BY <1>0, Turning
<1>2. Types'
  BY <1>0, Spends DEF Types, Turns
<1>3. Known'
  BY <1>0, <1>1 DEF Known
<1>4. Course' /\ Placed' /\ Filled'
  BY DEF Course, Placed, Filled, Aiming, Sweep, Measuring
<1>5. CellsInPlace'
  BY DEF IInv, CellsInPlace, NoCells
<1> QED
  BY <1>2, <1>3, <1>4, <1>5 DEF IInv

LEMMA AbandonSpot == at \in Spots /\ Abandon => at' \in Spots /\ at'.pc = "idle" /\ at'.status = "failed"
<1>1. {"idle"} \subseteq Pcs /\ {"failed"} \subseteq Outcomes
  BY DEF Pcs, Outcomes
<1> QED
  BY <1>1 DEF Abandon, Spots

-----------------------------------------------------------------------------
(* The steps of a call, one after the other *)

LEMMA Started == Init => IInv
<1> SUFFICES ASSUME Init PROVE IInv
  OBVIOUS
<1>1. /\ hw = [l \in Lanes |-> Untouched] /\ active = <<>> /\ phase = [l \in Lanes |-> 0]
      /\ saved = [l \in Lanes |-> {}] /\ cells = NoCells /\ at = AtRest /\ file = NoCells
      /\ found = hw /\ astray = {}
      /\ left = [calls |-> MaxCalls, faults |-> MaxFaults]
  BY DEF Init
<1>2. AtRest \in Spots /\ AtRest.pc = "idle"
  BY Numbers DEF AtRest, Spots, Pcs, Outcomes
<1>3. Untouched \in LaneStates
  BY Numbers DEF Untouched, LaneStates
<1>4. NoCells \in [Lanes -> [Points -> Points \cup {NoPoint}]]
  BY DEF NoCells
<1>5. \A j, k \in Turns : j # k => active[j] # active[k]
  BY <1>1 DEF Turns
<1>6. Types
  BY <1>1, <1>2, <1>3, <1>4, <1>5, Numbers DEF Types
<1>7. Course /\ Placed /\ Filled
  BY <1>1, <1>2 DEF Course, Placed, Filled, Aiming, Sweep, Measuring
<1>9. Known
  <2>1. ToSet(active) = {}
    BY <1>1 DEF ToSet
  <2> QED
    BY <1>1, <1>2, <2>1 DEF Known
<1>8. CellsInPlace
  BY <1>1 DEF CellsInPlace
<1> QED
  BY <1>6, <1>7, <1>8, <1>9 DEF IInv

LEMMA CallKeeps == ASSUME NEW lanes \in InOrder PROVE IInv /\ Call(lanes) => IInv'
<1> SUFFICES ASSUME IInv, Call(lanes) PROVE IInv'
  OBVIOUS
<1>1. /\ at.pc = "idle" /\ left.calls > 0 /\ left' = [left EXCEPT !.calls = left.calls - 1]
      /\ active' = lanes /\ at' = [AtRest EXCEPT !.pc = IF lanes = <<>> THEN "idle" ELSE "init"]
      /\ cells' = NoCells /\ file' = NoCells /\ UNCHANGED <<hw, phase, saved>> /\ Types
      /\ found' = hw /\ astray' = {}
  BY DEF Call, IInv
<1>2. /\ lanes \in Seq(Lanes) /\ Len(lanes) \in Nat /\ DOMAIN lanes = 1..Len(lanes)
      /\ \A j, k \in 1..Len(lanes) : j # k => lanes[j] # lanes[k]
  <2>1. PICK n \in 0..Cardinality(Lanes) : lanes \in [1..n -> Lanes]
    BY DEF InOrder, SeqOf
  <2>2. n \in Nat /\ lanes \in Seq(Lanes) /\ Len(lanes) = n
    BY <2>1
  <2>3. \A j, k \in 1..n : j < k => lanes[j] < lanes[k]
    BY <2>1 DEF InOrder
  <2>4. \A j, k \in 1..n : j # k => lanes[j] # lanes[k]
    <3> SUFFICES ASSUME NEW j \in 1..n, NEW k \in 1..n, j # k PROVE lanes[j] # lanes[k]
      OBVIOUS
    <3>1. lanes[j] \in Lanes /\ lanes[k] \in Lanes
      BY <2>1
    <3>2. lanes[j] \in Nat /\ lanes[k] \in Nat
      BY <3>1, EyeAssumption
    <3>3. j < k \/ k < j
      OBVIOUS
    <3>4. lanes[j] < lanes[k] \/ lanes[k] < lanes[j]
      BY <2>3, <3>3
    <3> QED
      BY <3>2, <3>4
  <2> QED
    BY <2>1, <2>2, <2>4
<1>3. /\ at' \in Spots /\ at'.i = 1 /\ at'.v = MaxOffset /\ at'.lohi = 0
      /\ at'.pc = IF lanes = <<>> THEN "idle" ELSE "init"
  BY <1>1, Numbers DEF AtRest, Spots, Pcs, Outcomes
<1>4. left' \in [calls : Nat, faults : Nat] /\ left'.faults = left.faults
  <2>1. left.calls - 1 \in Nat
    BY <1>1 DEF Types
  <2> QED
    BY <1>1, <2>1 DEF Types
<1>5. NoCells \in [Lanes -> [Points -> Points \cup {NoPoint}]]
  BY DEF NoCells
<1>6. Types'
  BY <1>1, <1>2, <1>3, <1>4, <1>5 DEF Types, Turns
<1>7. lanes # <<>> => 1 \in 1..Len(lanes)
  BY <1>2
<1>8. Course'
  BY <1>1, <1>3, <1>7 DEF Course, Turns, Aiming
<1>9. Placed'
  BY <1>3 DEF Placed, Sweep, Measuring
<1>10. Filled'
  BY <1>1, <1>3 DEF Filled, Behind, Sweep, Measuring
<1>11. CellsInPlace'
  BY <1>1 DEF CellsInPlace, NoCells
<1>12. Known'
  <2>1. \A l \in Lanes : hw'[l] = found'[l]
    BY <1>1
  <2>2. \A k \in 1..Len(lanes) : lanes[k] \in Lanes /\ k >= 1
    BY <1>2, ElementOfSeq
  <2>3. at'.pc = "idle" => ToSet(active') = {}
    BY <1>1, <1>3 DEF ToSet
  <2> QED
    BY <1>1, <1>3, <2>1, <2>2, <2>3 DEF Known, Turns
<1> QED
  BY <1>6, <1>8, <1>9, <1>10, <1>11, <1>12 DEF IInv

LEMMA CallFailsKeeps == IInv /\ CallFails => IInv'
<1> SUFFICES ASSUME IInv, CallFails PROVE IInv'
  OBVIOUS
<1>1. /\ left.calls > 0 /\ left.faults > 0 /\ file' = NoCells
      /\ left' = [calls |-> left.calls - 1, faults |-> left.faults - 1]
      /\ at' = [AtRest EXCEPT !.outcome = "failed", !.status = "failed"]
      /\ active' = <<>> /\ found' = hw /\ astray' = {}
      /\ UNCHANGED <<hw, phase, saved, cells>> /\ Types
  BY DEF CallFails, IInv
<1>2. at' \in Spots /\ at'.pc = "idle" /\ at'.status = "failed"
  BY <1>1, Numbers DEF AtRest, Spots, Pcs, Outcomes
<1>3. left' \in [calls : Nat, faults : Nat] /\ left'.faults <= MaxFaults
  BY <1>1, Numbers DEF Types
<1>4. Types'
  BY <1>1, <1>2, <1>3 DEF Types, Turns
<1>5. Course' /\ Placed' /\ Filled' /\ Known'
  BY <1>1, <1>2 DEF Course, Placed, Filled, Known, Aiming, Sweep, Measuring
<1>6. CellsInPlace'
  BY <1>1 DEF CellsInPlace, NoCells
<1> QED
  BY <1>4, <1>5, <1>6 DEF IInv

(* A lane some of whose registers have been set up *)
LEMMA SettingUp ==
    ASSUME NEW l \in Lanes, hw[l] \in LaneStates, NEW done \in SUBSET Registers
    PROVE  /\ SetIn(l, done) \in LaneStates /\ SetIn(l, done).taken = hw[l].taken \cup done
           /\ done = Registers => SetIn(l, done).phase = 0
<1> DEFINE h == hw[l]
<1>1. h \in LaneStates /\ 0 \in Phases
  BY Numbers
<1>2. SetIn(l, done) = [offset |-> IF "E70" \in done THEN 0 ELSE h.offset,
                        phase |-> IF "E68" \in done THEN 0 ELSE h.phase,
                        polarity |-> IF "E70" \in done THEN 1 ELSE h.polarity,
                        taken |-> h.taken \cup done,
                        request |-> h.request /\ "E00" \notin done,
                        scope |-> h.scope /\ "E00" \notin done]
  BY DEF SetIn
<1>3. /\ (IF "E70" \in done THEN 0 ELSE h.offset) \in Nat
      /\ (IF "E68" \in done THEN 0 ELSE h.phase) \in Phases
      /\ (IF "E70" \in done THEN 1 ELSE h.polarity) \in {0, 1}
      /\ (h.taken \cup done) \in SUBSET Registers
  BY <1>1 DEF LaneStates
<1>4. (h.request /\ "E00" \notin done) \in BOOLEAN /\ (h.scope /\ "E00" \notin done) \in BOOLEAN
  OBVIOUS
<1>5. done = Registers => "E68" \in done
  BY Sets
<1> HIDE DEF h
<1> QED
  BY <1>2, <1>3, <1>4, <1>5 DEF LaneStates, h

LEMMA InitLaneKeeps == IInv /\ InitLane => IInv'
<1> SUFFICES ASSUME IInv, InitLane PROVE IInv'
  OBVIOUS
<1>1. /\ at.pc = "init" /\ UNCHANGED <<active, cells, file, found, astray>> /\ at \in Spots
      /\ Types /\ Course /\ Filled /\ CellsInPlace /\ Known /\ at.i \in Turns
  BY DEF InitLane, IInv, Types, Course, history
<1>2. /\ Lane = active[at.i] /\ Lane \in Lanes /\ Lane \in ToSet(active) /\ Len(active) \in Nat
      /\ \A k \in Turns : active[k] \in Lanes /\ (active[k] = Lane <=> k = at.i)
  BY <1>1, Turning
<1>3. /\ hw \in [Lanes -> LaneStates] /\ saved \in [Lanes -> SUBSET ToSet(Borrowed)]
      /\ phase \in [Lanes -> Phases]
  BY <1>1 DEF Types
<1>4. CASE /\ Works
           /\ saved' = [saved EXCEPT ![Lane] = hw[Lane].taken \cap ToSet(Borrowed)]
           /\ hw' = [hw EXCEPT ![Lane] = [SetIn(Lane, Registers) EXCEPT !.request = TRUE]]
           /\ phase' = [phase EXCEPT ![Lane] = 0]
           /\ at' = Then(Loop("grant"))
  <2> DEFINE set == SetIn(Lane, Registers)
             h == [set EXCEPT !.request = TRUE]
  <2>1. h \in LaneStates /\ h.taken = Registers /\ h.phase = 0
    <3>1. hw[Lane] \in LaneStates /\ hw[Lane].taken \subseteq Registers
      BY <1>2, <1>3 DEF LaneStates
    <3>2. set \in LaneStates /\ set.taken = Registers /\ set.phase = 0
      <4> DEFINE l == Lane
      <4>1. l \in Lanes /\ hw[l] \in LaneStates /\ hw[l].taken \cup Registers = Registers
        BY <1>2, <3>1
      <4> HIDE DEF l
      <4>2. Registers \in SUBSET Registers
        OBVIOUS
      <4>3. /\ SetIn(l, Registers) \in LaneStates /\ SetIn(l, Registers).phase = 0
            /\ SetIn(l, Registers).taken = Registers
        BY <4>1, <4>2, SettingUp
      <4> QED
        BY <4>3 DEF l
    <3> HIDE DEF set
    <3> QED
      BY <3>2 DEF LaneStates
  <2>2. hw' = [hw EXCEPT ![Lane] = h]
    BY <1>4
  <2> HIDE DEF set, h
  <2>3. /\ hw' \in [Lanes -> LaneStates] /\ phase' \in [Lanes -> Phases]
        /\ saved' \in [Lanes -> SUBSET ToSet(Borrowed)]
        /\ hw'[Lane].phase = 0 /\ hw'[Lane].taken = Registers
        /\ saved'[Lane] = hw[Lane].taken \cap ToSet(Borrowed)
        /\ \A l \in Lanes : l # Lane => hw'[l] = hw[l] /\ phase'[l] = phase[l] /\ saved'[l] = saved[l]
    <3>1. (hw[Lane].taken \cap ToSet(Borrowed)) \in SUBSET ToSet(Borrowed)
      OBVIOUS
    <3>2. /\ hw' \in [Lanes -> LaneStates] /\ hw'[Lane] = h
          /\ \A l \in Lanes : l # Lane => hw'[l] = hw[l]
      BY <1>2, <1>3, <2>1, <2>2
    <3>3. phase' \in [Lanes -> Phases] /\ \A l \in Lanes : l # Lane => phase'[l] = phase[l]
      BY <1>2, <1>3, <1>4, Numbers
    <3>4. /\ saved' \in [Lanes -> SUBSET ToSet(Borrowed)]
          /\ saved'[Lane] = hw[Lane].taken \cap ToSet(Borrowed)
          /\ \A l \in Lanes : l # Lane => saved'[l] = saved[l]
      BY <1>2, <1>3, <1>4, <3>1
    <3> QED
      BY <2>1, <3>2, <3>3, <3>4
  <2>4. /\ at' \in Spots /\ at'.i \in Turns /\ Alike(at', at)
        /\ \/ at'.pc = "init" /\ at'.i = at.i + 1
           \/ at'.pc = "grant" /\ at'.i = 1 /\ at.i = Len(active)
    <3>1. "grant" \in Pcs
      BY DEF Pcs
    <3>2. Loop("grant") \in Spots /\ Loop("grant").pc = "grant" /\ Alike(Loop("grant"), at)
      BY <1>1, <3>1, Loops
    <3> QED
      BY <1>1, <1>4, <3>2, Thens DEF Alike
  <2>5. Types'
    BY <1>1, <1>4, <2>3, <2>4, Spends DEF Types, Turns
  <2>6. Course'
    BY <1>1, <2>4 DEF Course, Turns, Aiming, Alike
  <2>7. Placed'
    BY <2>4 DEF Placed, Sweep, Measuring
  <2>8. Filled'
    BY <1>1, <2>4, StaysFilled DEF Behind, Sweep, Measuring
  <2>9. CellsInPlace'
    BY <1>1 DEF CellsInPlace, NoCells
  <2>10. Known'
    <3>1. \A l \in Lanes \ ToSet(active) : hw'[l] = found[l]
      BY <1>1, <1>2, <2>3 DEF Known
    <3>2. \A k \in Turns : IF k >= at.i THEN hw[active[k]] = found[active[k]] ELSE Held(active[k])
      BY <1>1 DEF Known
    <3>3. at.i \in Int /\ \A k \in Turns : k \in Int /\ k <= Len(active)
      BY <1>1, <1>2 DEF Turns, Spots
    <3>4. saved'[Lane] = found[Lane].taken \cap ToSet(Borrowed)
      BY <1>1, <1>2, <2>3, <3>2, <3>3
    <3>5. ASSUME NEW k \in Turns, k <= at.i
          PROVE  Held(active[k])'
      <4>1. CASE k = at.i
        BY <1>1, <1>2, <2>3, <3>4, <4>1 DEF Held
      <4>2. CASE k # at.i
        <5>1. Held(active[k]) /\ active[k] # Lane /\ active[k] \in Lanes
          BY <1>2, <3>2, <3>3, <3>5, <4>2
        <5> QED
          BY <1>1, <2>3, <5>1 DEF Held
      <4> QED
        BY <4>1, <4>2
    <3>6. ASSUME NEW k \in Turns, k > at.i
          PROVE  hw'[active[k]] = found[active[k]]
      <4>1. active[k] # Lane /\ active[k] \in Lanes /\ k >= at.i
        BY <1>2, <3>3, <3>6
      <4> QED
        BY <2>3, <3>2, <4>1
    <3>7. Turns' = Turns /\ found' = found /\ active' = active
      BY <1>1 DEF Turns
    <3>8. CASE at'.pc = "init" /\ at'.i = at.i + 1
      <4>1. \A k \in Turns : IF k >= at'.i THEN hw'[active[k]] = found[active[k]] ELSE Held(active[k])'
        BY <3>3, <3>5, <3>6, <3>8
      <4> QED
        BY <3>1, <3>7, <3>8, <4>1 DEF Known
    <3>9. CASE at'.pc = "grant" /\ at.i = Len(active)
      <4>1. \A k \in Turns : Held(active[k])'
        BY <3>3, <3>5, <3>9
      <4> QED
        BY <3>1, <3>7, <3>9, <4>1 DEF Known
    <3> QED
      BY <2>4, <3>8, <3>9
  <2> QED
    BY <2>5, <2>6, <2>7, <2>8, <2>9, <2>10 DEF IInv
<1>5. CASE /\ Fails /\ Abandon /\ UNCHANGED <<phase, saved>>
           /\ \E n \in 0..Len(SetUp) : hw' = [hw EXCEPT ![Lane] = SetIn(Lane, FirstOf(SetUp, n))]
  <2>1. PICK n \in 0..Len(SetUp) : hw' = [hw EXCEPT ![Lane] = SetIn(Lane, FirstOf(SetUp, n))]
    BY <1>5
  <2> DEFINE h == SetIn(Lane, FirstOf(SetUp, n))
  <2>2. h \in LaneStates
    <3>1. hw[Lane] \in LaneStates
      BY <1>2, <1>3
    <3>2. FirstOf(SetUp, n) \in SUBSET Registers
      BY <2>1, Sets
    <3> QED
      BY <1>2, <3>1, <3>2, SettingUp
  <2> HIDE DEF h
  <2>3. hw' = [hw EXCEPT ![Lane] = h]
    BY <2>1 DEF h
  <2>4. hw' \in [Lanes -> LaneStates] /\ \A l \in Lanes : l # Lane => hw'[l] = hw[l]
    BY <1>2, <1>3, <2>2, <2>3
  <2> QED
    BY <1>1, <1>5, <2>4, AbandonSpot, Abandons
<1> QED
  BY <1>4, <1>5 DEF InitLane

(* A step of the sweep that goes on. *)
LEMMA Proceeds ==
    ASSUME IInv, at.i \in Turns, at.pc \notin {"idle", "init", "restore"}, Works,
           at' \in Spots, at'.pc \notin {"idle", "init", "restore"},
           UNCHANGED <<active, saved, file, found, astray>>,
           hw' \in [Lanes -> LaneStates], phase' \in [Lanes -> Phases],
           cells' \in [Lanes -> [Points -> Points \cup {NoPoint}]],
           \A l \in Lanes : l # Lane => hw'[l] = hw[l] /\ phase'[l] = phase[l],
           hw'[Lane].taken = hw[Lane].taken,
           (phase[Lane] = 0 => hw[Lane].phase = 0) => (phase'[Lane] = 0 => hw'[Lane].phase = 0)
    PROVE  Types' /\ CellsInPlace' /\ Known'
<1>1. Types /\ Known /\ CellsInPlace
  BY DEF IInv
<1>2. left' \in [calls : Nat, faults : Nat] /\ left'.faults <= MaxFaults
  BY <1>1, Spends
<1>3. Types'
  BY <1>1, <1>2 DEF Types, Turns
<1>4. CellsInPlace'
  BY <1>1 DEF CellsInPlace, NoCells
<1>5. Known'
  BY <1>1, StaysKnown
<1> QED
  BY <1>3, <1>4, <1>5

(* What holds of the lanes at such a step. *)
LEMMA Going ==
    ASSUME IInv, at.pc # "idle"
    PROVE  /\ at \in Spots /\ at.i \in Turns /\ at.i \in Nat /\ Len(active) \in Nat
           /\ Turns = 1..Len(active) /\ \A k \in Turns : k \in Int /\ ~(k < 1)
           /\ Lane = active[at.i] /\ Lane \in Lanes
           /\ \A k \in Turns : active[k] \in Lanes /\ (active[k] = Lane <=> k = at.i)
           /\ hw \in [Lanes -> LaneStates] /\ phase \in [Lanes -> Phases]
           /\ saved \in [Lanes -> SUBSET ToSet(Borrowed)]
           /\ cells \in [Lanes -> [Points -> Points \cup {NoPoint}]]
           /\ "failed" \in Outcomes /\ "timeout" \in Outcomes /\ "measured" \in Outcomes
<1>1. Types /\ at.i \in Turns /\ at \in Spots
  BY DEF IInv, Course, Types
<1>2. at.i \in Nat
  BY <1>1 DEF Spots
<1>3. \A k \in Turns : k \in Int /\ ~(k < 1)
  BY <1>1, Turning DEF Turns
<1> QED
  BY <1>1, <1>2, <1>3, Turning DEF Types, Turns, Outcomes

LEMMA WaitGrantKeeps == IInv /\ WaitGrant => IInv'
<1> SUFFICES ASSUME IInv, WaitGrant PROVE IInv'
  OBVIOUS
<1>1. /\ at.pc = "grant" /\ UNCHANGED <<hw, active, phase, saved, count, cells, file, found, astray>>
      /\ CellsInPlace /\ Types /\ Course /\ Filled
  BY DEF WaitGrant, IInv, history
<1>2. CellsInPlace'
  BY <1>1 DEF CellsInPlace, NoCells
<1>3. CASE Works /\ at' = Then(Loop("polarity on"))
  <2>1. "polarity on" \in Pcs
    BY DEF Pcs
  <2>2. Loop("polarity on") \in Spots /\ Loop("polarity on").pc = "polarity on" /\ Alike(Loop("polarity on"), at)
    BY <1>1, <2>1, Going, Loops
  <2>3. at' \in Spots /\ at'.i \in Turns /\ at'.pc \in {"grant", "polarity on"} /\ Alike(at', at)
    BY <1>1, <1>3, <2>2, Going, Thens DEF Alike
  <2>4. Types' /\ Known'
    BY <1>1, <1>3, <2>3, Going, Proceeds
  <2>5. Course'
    BY <1>1, <2>3 DEF Course, Turns, Aiming, Alike
  <2>6. Placed'
    BY <2>3 DEF Placed, Sweep, Measuring
  <2>7. Filled'
    BY <1>1, <2>3, StaysFilled DEF Behind, Sweep, Measuring
  <2> QED
    BY <1>2, <2>4, <2>5, <2>6, <2>7 DEF IInv
<1>4. CASE Works /\ Restore("timeout")
  BY <1>1, <1>2, <1>4, Going, RestoresInPlace
<1>5. CASE Fails /\ Abandon
  BY <1>1, <1>5, Going, AbandonSpot, Abandons
<1> QED
  BY <1>3, <1>4, <1>5 DEF WaitGrant

(* The lanes of which only the one whose turn it is changes. *)
LEMMA OneLane ==
    ASSUME hw \in [Lanes -> LaneStates], Lane \in Lanes, NEW h \in LaneStates,
           hw' = [hw EXCEPT ![Lane] = h]
    PROVE  hw' \in [Lanes -> LaneStates] /\ hw'[Lane] = h /\ \A l \in Lanes : l # Lane => hw'[l] = hw[l]
OBVIOUS

LEMMA PolarityOnKeeps == IInv /\ PolarityOn => IInv'
<1> SUFFICES ASSUME IInv, PolarityOn PROVE IInv'
  OBVIOUS
<1>1. /\ at.pc = "polarity on" /\ UNCHANGED <<active, phase, saved, cells, file, found, astray>>
      /\ CellsInPlace /\ Types /\ Course /\ Filled
  BY DEF PolarityOn, IInv, history
<1>2. CASE Works /\ hw' = [hw EXCEPT ![Lane].polarity = 1] /\ at' = Then(Loop("offset"))
  <2>1. /\ hw' \in [Lanes -> LaneStates] /\ hw'[Lane].phase = hw[Lane].phase
        /\ hw'[Lane].taken = hw[Lane].taken /\ \A l \in Lanes : l # Lane => hw'[l] = hw[l]
    <3> DEFINE h == [hw[Lane] EXCEPT !.polarity = 1]
    <3>1. hw[Lane] \in LaneStates
      BY <1>1, Going
    <3>2. h \in LaneStates /\ h.phase = hw[Lane].phase /\ h.taken = hw[Lane].taken
      BY <3>1 DEF LaneStates
    <3>3. hw' = [hw EXCEPT ![Lane] = h]
      BY <1>2
    <3> QED
      BY <1>1, <3>2, <3>3, Going
  <2>2. /\ at' \in Spots /\ at'.i \in Turns /\ at'.pc \in {"polarity on", "offset"} /\ Alike(at', at)
        /\ at'.pc = "offset" => at'.i = 1
    <3>1. "offset" \in Pcs
      BY DEF Pcs
    <3>2. Loop("offset") \in Spots /\ Loop("offset").pc = "offset" /\ Alike(Loop("offset"), at)
      BY <1>1, <3>1, Going, Loops
    <3> QED
      BY <1>1, <1>2, <3>2, Going, Thens DEF Alike
  <2>3. Types' /\ CellsInPlace' /\ Known'
    BY <1>1, <1>2, <2>1, <2>2, Going, Proceeds
  <2>4. Course'
    BY <1>1, <2>2 DEF Course, Turns, Aiming, Alike
  <2>5. Placed'
    <3>1. \A k \in Turns : ~(k < 1)
      BY <1>1, Going
    <3> QED
      BY <1>1, <2>2, <3>1 DEF Placed, Sweep, Measuring, Turns
  <2>6. Filled'
    <3>1. at'.v = MaxOffset /\ \A p \in Points : ~(p[1] > MaxOffset)
      <4>1. at'.v = MaxOffset
        BY <1>1, <2>2 DEF Course, Aiming, Alike
      <4>2. \A p \in Points : p[1] \in Int /\ p[1] <= MaxOffset
        BY PointsAreInside
      <4>3. \A p \in Points : ~(p[1] > MaxOffset)
        BY <4>2, Numbers
      <4> QED
        BY <4>1, <4>3
    <3>2. ASSUME NEW p \in Points
          PROVE  ~Behind(p)'
      BY <2>2, <3>1 DEF Behind, Sweep, Measuring
    <3> QED
      BY <1>1, <2>2, <3>2, StaysFilled
  <2> QED
    BY <2>3, <2>4, <2>5, <2>6 DEF IInv
<1>3. CASE Fails /\ Abandon /\ UNCHANGED hw
  BY <1>1, <1>3, Going, AbandonSpot, Abandons
<1> QED
  BY <1>2, <1>3 DEF PolarityOn

LEMMA VertAdjustKeeps == IInv /\ VertAdjust => IInv'
<1> SUFFICES ASSUME IInv, VertAdjust PROVE IInv'
  OBVIOUS
<1>1. /\ at.pc = "offset" /\ UNCHANGED <<active, phase, saved, cells, file, found, astray>>
      /\ CellsInPlace /\ Types /\ Course /\ Filled /\ Placed
  BY DEF VertAdjust, IInv, history
<1>2. CASE Works /\ hw' = [hw EXCEPT ![Lane].offset = Voffset(at.v)] /\ at' = Then(Loop("centre"))
  <2>1. /\ hw' \in [Lanes -> LaneStates] /\ hw'[Lane].phase = hw[Lane].phase
        /\ hw'[Lane].taken = hw[Lane].taken
        /\ Offset(hw'[Lane].offset) = at.v /\ \A l \in Lanes : l # Lane => hw'[l] = hw[l]
    <3> DEFINE h == [hw[Lane] EXCEPT !.offset = Voffset(at.v)]
    <3>1. hw[Lane] \in LaneStates
      BY <1>1, Going
    <3>2. Voffset(at.v) \in Nat /\ Offset(Voffset(at.v)) = at.v
      BY <1>1, Going, OffsetsRead DEF Spots
    <3>3. /\ h \in LaneStates /\ h.phase = hw[Lane].phase /\ h.taken = hw[Lane].taken
          /\ h.offset = Voffset(at.v)
      BY <3>1, <3>2 DEF LaneStates
    <3>4. hw' = [hw EXCEPT ![Lane] = h]
      BY <1>2
    <3> HIDE DEF h
    <3>5. hw' \in [Lanes -> LaneStates] /\ hw'[Lane] = h /\ \A l \in Lanes : l # Lane => hw'[l] = hw[l]
      BY <1>1, <3>3, <3>4, Going
    <3> QED
      BY <3>2, <3>3, <3>5
  <2>2. /\ at' \in Spots /\ at'.i \in Turns /\ Alike(at', at)
        /\ \/ at'.pc = "offset" /\ at'.i = at.i + 1
           \/ at'.pc = "centre" /\ at'.i = 1 /\ at.i = Len(active)
    <3>1. "centre" \in Pcs
      BY DEF Pcs
    <3>2. Loop("centre") \in Spots /\ Loop("centre").pc = "centre" /\ Alike(Loop("centre"), at)
      BY <1>1, <3>1, Going, Loops
    <3> QED
      BY <1>1, <1>2, <3>2, Going, Thens DEF Alike
  <2>3. Types' /\ CellsInPlace' /\ Known'
    BY <1>1, <1>2, <2>1, <2>2, Going, Proceeds
  <2>4. Course'
    BY <1>1, <2>2 DEF Course, Turns, Aiming, Alike
  <2>5. Placed'
    <3>1. ASSUME NEW k \in Turns, at'.pc = "centre" \/ k < at'.i
          PROVE  Offset(hw'[active[k]].offset) = at.v
      <4>1. k = at.i \/ (k # at.i /\ k < at.i)
        BY <1>1, <2>2, <3>1, Going
      <4>2. active[k] \in Lanes /\ (active[k] = Lane <=> k = at.i)
        BY <1>1, Going
      <4>3. k < at.i => Offset(hw[active[k]].offset) = at.v
        BY <1>1 DEF Placed
      <4> QED
        BY <2>1, <4>1, <4>2, <4>3
    <3>2. \A k \in Turns : ~(k < 1)
      BY <1>1, Going
    <3> QED
      BY <1>1, <2>2, <3>1, <3>2 DEF Placed, Sweep, Measuring, Turns, Alike
  <2>6. Filled'
    <3>1. at.lohi = 0 /\ \A p \in Points : ~(p[3] < 0)
      <4>1. \A p \in Points : p[3] \in {0, 1}
        BY PointsAreInside
      <4> QED
        BY <1>1, <4>1 DEF Course
    <3>2. ASSUME NEW p \in Points, Behind(p)'
          PROVE  Behind(p)
      BY <1>1, <2>2, <3>1, <3>2 DEF Behind, Sweep, Measuring, Alike
    <3> QED
      BY <1>1, <2>2, <3>2, StaysFilled
  <2> QED
    BY <2>3, <2>4, <2>5, <2>6 DEF IInv
<1>3. CASE Fails /\ Restore("failed") /\ UNCHANGED hw
  <2>1. CellsInPlace'
    BY <1>1 DEF CellsInPlace, NoCells
  <2> QED
    BY <1>1, <1>3, <2>1, Going, RestoresInPlace
<1> QED
  BY <1>2, <1>3 DEF VertAdjust

-----------------------------------------------------------------------------
(* Moving a phase *)

(* A lane that has arrived, and one that is left on the way. *)
LEMMA Moves ==
    ASSUME IInv, at.pc \in {"centre", "shift", "home"}, NEW to \in Phases, NEW next \in Spots,
           next.pc \notin {"idle", "init", "restore"}, PhaseAdjust(to, next)
    PROVE  \/ IInv'
           \/ /\ at' = Then(next) /\ UNCHANGED <<active, cells>> /\ at' \in Spots /\ at'.i \in Turns
              /\ Types' /\ CellsInPlace' /\ Known' /\ phase'[Lane] = to
              /\ phase[Lane] # to => hw'[Lane].phase = to
              /\ \A l \in Lanes : l # Lane => hw'[l] = hw[l] /\ phase'[l] = phase[l]
              /\ \A l \in Lanes : hw'[l].offset = hw[l].offset /\ hw'[l].polarity = hw[l].polarity
<1>1. /\ CellsInPlace /\ Types /\ UNCHANGED <<active, saved, cells, file, found>>
      /\ at.pc \notin {"idle", "init", "restore"}
  BY DEF IInv, PhaseAdjust
<1>2. phase[Lane] \in Phases /\ hw[Lane] \in LaneStates /\ hw[Lane].phase \in Phases /\ Lane \in Lanes
  BY <1>1, Going DEF LaneStates
<1>3. /\ Distance(phase[Lane], to) \in Nat
      /\ \A k \in 0..Distance(phase[Lane], to) : After(k, phase[Lane], to, Lane) \in Phases
      /\ After(Distance(phase[Lane], to), phase[Lane], to, Lane) = IF phase[Lane] = to THEN hw[Lane].phase ELSE to
  <2> DEFINE from == phase[Lane]
             l == Lane
  <2>1. from \in Phases /\ l \in Lanes /\ hw[l].phase \in Phases
    BY <1>2
  <2> HIDE DEF from, l
  <2>2. /\ Distance(from, to) \in Nat
        /\ \A k \in 0..Distance(from, to) : After(k, from, to, l) \in Phases
        /\ After(Distance(from, to), from, to, l) = IF from = to THEN hw[l].phase ELSE to
    BY <2>1, Walks
  <2> QED
    BY <2>2 DEF from, l
<1>4. ASSUME NEW p \in Phases, hw' = [hw EXCEPT ![Lane].phase = p]
      PROVE  /\ hw' \in [Lanes -> LaneStates] /\ hw'[Lane].phase = p /\ hw'[Lane].taken = hw[Lane].taken
             /\ \A l \in Lanes : l # Lane => hw'[l] = hw[l]
             /\ \A l \in Lanes : hw'[l].offset = hw[l].offset /\ hw'[l].polarity = hw[l].polarity
  <2> DEFINE h == [hw[Lane] EXCEPT !.phase = p]
  <2>1. /\ h \in LaneStates /\ h.phase = p /\ h.offset = hw[Lane].offset
        /\ h.polarity = hw[Lane].polarity /\ h.taken = hw[Lane].taken
    BY <1>2 DEF LaneStates
  <2>2. hw' = [hw EXCEPT ![Lane] = h]
    BY <1>4
  <2> HIDE DEF h
  <2>3. hw' \in [Lanes -> LaneStates] /\ hw'[Lane] = h /\ \A l \in Lanes : l # Lane => hw'[l] = hw[l]
    BY <1>1, <2>1, <2>2, Going
  <2> QED
    BY <2>1, <2>3
<1>5. CASE Works /\ Arrive(to, next) /\ UNCHANGED astray
  <2>1. /\ hw' = [hw EXCEPT ![Lane].phase = After(Distance(phase[Lane], to), phase[Lane], to, Lane)]
        /\ phase' = [phase EXCEPT ![Lane] = to] /\ at' = Then(next)
    BY <1>5 DEF Arrive
  <2>2. /\ hw' \in [Lanes -> LaneStates] /\ \A l \in Lanes : l # Lane => hw'[l] = hw[l]
        /\ hw'[Lane].phase = IF phase[Lane] = to THEN hw[Lane].phase ELSE to
        /\ hw'[Lane].taken = hw[Lane].taken
        /\ \A l \in Lanes : hw'[l].offset = hw[l].offset /\ hw'[l].polarity = hw[l].polarity
    BY <1>2, <1>3, <1>4, <2>1
  <2>3. /\ phase' \in [Lanes -> Phases] /\ phase'[Lane] = to
        /\ \A l \in Lanes : l # Lane => phase'[l] = phase[l]
    BY <1>1, <1>2, <2>1, Going
  <2>4. at' \in Spots /\ at'.i \in Turns /\ at'.pc \in {at.pc, next.pc}
    BY <1>1, <2>1, Going, Thens
  <2>5. Types' /\ CellsInPlace' /\ Known'
    BY <1>1, <1>5, <2>2, <2>3, <2>4, Going, Proceeds
  <2> QED
    BY <1>1, <2>1, <2>2, <2>3, <2>4, <2>5
<1>6. CASE /\ Fails /\ Restore("failed") /\ UNCHANGED phase
           /\ astray' = IF phase[Lane] = 0 THEN astray \cup {Lane} ELSE astray
           /\ \E k \in 0..Distance(phase[Lane], to) :
                hw' = [hw EXCEPT ![Lane].phase = After(k, phase[Lane], to, Lane)]
  <2>1. CellsInPlace'
    BY <1>1 DEF CellsInPlace, NoCells
  <2>2. /\ hw' \in [Lanes -> LaneStates] /\ hw'[Lane].taken = hw[Lane].taken
        /\ \A l \in Lanes : l # Lane => hw'[l] = hw[l]
    BY <1>3, <1>4, <1>6
  <2>3. /\ astray \subseteq astray' /\ astray' \subseteq Lanes
        /\ Lane \in astray' \/ phase[Lane] # 0
    BY <1>1, <1>2, <1>6 DEF Types
  <2> QED
    BY <1>1, <1>6, <2>1, <2>2, <2>3, Going, Restores
<1> QED
  BY <1>5, <1>6 DEF PhaseAdjust

LEMMA CentreKeeps == IInv /\ Centre => IInv'
<1> SUFFICES ASSUME IInv, Centre PROVE IInv'
  OBVIOUS
<1>1. at.pc = "centre" /\ PhaseAdjust(0, Loop("polarity")) /\ Course /\ Filled /\ Placed
  BY DEF Centre, IInv
<1>2. Loop("polarity") \in Spots /\ Loop("polarity").pc = "polarity" /\ Alike(Loop("polarity"), at)
  <2>1. "polarity" \in Pcs
    BY DEF Pcs
  <2> QED
    BY <1>1, <2>1, Going, Loops
<1> SUFFICES ASSUME /\ at' = Then(Loop("polarity")) /\ UNCHANGED <<active, cells>> /\ at' \in Spots /\ at'.i \in Turns
                    /\ Types' /\ CellsInPlace' /\ Known' /\ phase'[Lane] = 0
                    /\ \A l \in Lanes : l # Lane => hw'[l] = hw[l] /\ phase'[l] = phase[l]
                    /\ \A l \in Lanes : hw'[l].offset = hw[l].offset /\ hw'[l].polarity = hw[l].polarity
             PROVE  IInv'
  BY <1>1, <1>2, Moves, Numbers
<1>3. /\ Alike(at', at)
      /\ \/ at'.pc = "centre" /\ at'.i = at.i + 1
         \/ at'.pc = "polarity" /\ at'.i = 1 /\ at.i = Len(active)
  BY <1>1, <1>2, Going, Thens DEF Alike, IInv
<1>4. Course'
  BY <1>1, <1>3 DEF Course, Turns, Aiming
<1>5. Placed'
  <2>1. ASSUME NEW k \in Turns, at'.pc = "polarity" \/ k < at'.i
        PROVE  phase'[active[k]] = 0
    <3>1. k = at.i \/ (k # at.i /\ k < at.i)
      BY <1>1, <1>3, <2>1, Going
    <3>2. active[k] \in Lanes /\ (active[k] = Lane <=> k = at.i)
      BY <1>1, Going
    <3>3. k < at.i => phase[active[k]] = 0
      BY <1>1 DEF Placed
    <3> QED
      BY <3>1, <3>2, <3>3
  <2>2. \A k \in Turns : active[k] \in Lanes /\ Offset(hw[active[k]].offset) = at.v /\ ~(k < 1)
    BY <1>1, Going DEF Placed, Sweep
  <2>3. \A k \in Turns : Offset(hw'[active[k]].offset) = at.v
    BY <2>2
  <2> QED
    BY <1>3, <2>1, <2>2, <2>3 DEF Placed, Sweep, Measuring, Turns, Alike
<1>6. Filled'
  <2>1. ASSUME NEW p \in Points, Behind(p)'
        PROVE  Behind(p)
    BY <1>1, <1>3, <2>1 DEF Behind, Sweep, Measuring, Alike
  <2> QED
    BY <1>1, <1>3, <2>1, StaysFilled
<1> QED
  BY <1>4, <1>5, <1>6 DEF IInv

LEMMA PolarityKeeps == IInv /\ Polarity => IInv'
<1> SUFFICES ASSUME IInv, Polarity PROVE IInv'
  OBVIOUS
<1>1. /\ at.pc = "polarity" /\ UNCHANGED <<active, phase, saved, cells, file, found, astray>>
      /\ CellsInPlace /\ Types /\ Course /\ Filled /\ Placed
  BY DEF Polarity, IInv, history
<1>2. CASE Works /\ TurnPolarity /\ at' = Then([Loop("shift") EXCEPT !.phase = -Left])
  <2>1. /\ hw' \in [Lanes -> LaneStates] /\ hw'[Lane].polarity = at.lohi
        /\ \A l \in Lanes : l # Lane => hw'[l] = hw[l]
        /\ hw'[Lane].taken = hw[Lane].taken
        /\ \A l \in Lanes : hw'[l].offset = hw[l].offset /\ hw'[l].phase = hw[l].phase
    <3> DEFINE h == [hw[Lane] EXCEPT !.polarity = at.lohi]
    <3>1. hw[Lane] \in LaneStates /\ at.lohi \in {0, 1}
      BY <1>1, Going DEF Spots
    <3>2. /\ h \in LaneStates /\ h.phase = hw[Lane].phase /\ h.polarity = at.lohi
          /\ h.offset = hw[Lane].offset /\ h.taken = hw[Lane].taken
      BY <3>1 DEF LaneStates
    <3>3. hw' = [hw EXCEPT ![Lane] = h]
      BY <1>2 DEF TurnPolarity
    <3> HIDE DEF h
    <3>4. hw' \in [Lanes -> LaneStates] /\ hw'[Lane] = h /\ \A l \in Lanes : l # Lane => hw'[l] = hw[l]
      BY <1>1, <3>2, <3>3, Going
    <3> QED
      BY <3>2, <3>4
  <2> DEFINE next == [Loop("shift") EXCEPT !.phase = -Left]
  <2>2. next \in Spots /\ next.pc = "shift" /\ next.v = at.v /\ next.lohi = at.lohi /\ next.phase = -Left
    <3>1. "shift" \in Pcs /\ -Left \in Phases
      BY Numbers DEF Pcs
    <3>2. Loop("shift") \in Spots /\ Loop("shift").pc = "shift" /\ Alike(Loop("shift"), at)
      BY <1>1, <3>1, Going, Loops
    <3> QED
      BY <3>1, <3>2 DEF Spots, Alike
  <2>3. at' = Then(next)
    BY <1>2
  <2> HIDE DEF next
  <2>4. /\ at' \in Spots /\ at'.i \in Turns /\ at'.v = at.v /\ at'.lohi = at.lohi
        /\ \/ at'.pc = "polarity" /\ at'.i = at.i + 1
           \/ at'.pc = "shift" /\ at'.i = 1 /\ at.i = Len(active) /\ at'.phase = -Left
    BY <1>1, <2>2, <2>3, Going, Thens DEF Alike
  <2>5. Types' /\ CellsInPlace' /\ Known'
    BY <1>1, <1>2, <2>1, <2>4, Going, Proceeds
  <2>6. Course'
    BY <1>1, <2>4 DEF Course, Turns, Aiming
  <2>7. Placed'
    <3>1. ASSUME NEW k \in Turns, at'.pc = "shift" \/ k < at'.i
          PROVE  hw'[active[k]].polarity = at.lohi
      <4>1. k = at.i \/ (k # at.i /\ k < at.i)
        BY <1>1, <2>4, <3>1, Going
      <4>2. active[k] \in Lanes /\ (active[k] = Lane <=> k = at.i)
        BY <1>1, Going
      <4>3. k < at.i => hw[active[k]].polarity = at.lohi
        BY <1>1 DEF Placed
      <4> QED
        BY <2>1, <4>1, <4>2, <4>3
    <3>2. \A k \in Turns : active[k] \in Lanes /\ Offset(hw[active[k]].offset) = at.v /\ ~(k < 1)
                           /\ phase[active[k]] = 0
      BY <1>1, Going DEF Placed, Sweep
    <3>3. \A k \in Turns : Offset(hw'[active[k]].offset) = at.v
      BY <2>1, <3>2
    <3>4. 0 # -Left
      BY Numbers
    <3>5. \A k \in Turns : at'.pc = "shift" => phase'[active[k]] # at'.phase
      BY <1>1, <2>4, <3>2, <3>4
    <3>6. \A k \in Turns : phase'[active[k]] = 0
      BY <1>1, <3>2
    <3> QED
      BY <1>1, <2>4, <3>1, <3>2, <3>3, <3>5, <3>6 DEF Placed, Sweep, Measuring, Turns
  <2>8. Filled'
    <3>1. \A p \in Points : ~(p[2] < -Left)
      <4>1. \A p \in Points : p[2] \in Int /\ -Left <= p[2]
        BY PointsAreInside
      <4> QED
        BY <4>1, Numbers
    <3>2. ASSUME NEW p \in Points, Behind(p)'
          PROVE  Behind(p)
      BY <1>1, <2>4, <3>1, <3>2 DEF Behind, Sweep, Measuring
    <3> QED
      BY <1>1, <2>4, <3>2, StaysFilled
  <2> QED
    BY <2>5, <2>6, <2>7, <2>8 DEF IInv
<1>3. CASE Fails /\ Abandon /\ UNCHANGED hw
  BY <1>1, <1>3, Going, AbandonSpot, Abandons
<1> QED
  BY <1>2, <1>3 DEF Polarity

LEMMA ShiftKeeps == IInv /\ Shift => IInv'
<1> SUFFICES ASSUME IInv, Shift PROVE IInv'
  OBVIOUS
<1>1. at.pc = "shift" /\ PhaseAdjust(at.phase, Loop("scope")) /\ Course /\ Filled /\ Placed
  BY DEF Shift, IInv
<1>2. Loop("scope") \in Spots /\ Loop("scope").pc = "scope" /\ Alike(Loop("scope"), at) /\ at.phase \in Phases
  <2>1. "scope" \in Pcs
    BY DEF Pcs
  <2>2. at.phase \in Phases
    BY <1>1, Going DEF Spots
  <2> QED
    BY <1>1, <2>1, <2>2, Going, Loops
<1> SUFFICES ASSUME /\ at' = Then(Loop("scope")) /\ UNCHANGED <<active, cells>> /\ at' \in Spots /\ at'.i \in Turns
                    /\ Types' /\ CellsInPlace' /\ Known' /\ phase'[Lane] = at.phase
                    /\ phase[Lane] # at.phase => hw'[Lane].phase = at.phase
                    /\ \A l \in Lanes : l # Lane => hw'[l] = hw[l] /\ phase'[l] = phase[l]
                    /\ \A l \in Lanes : hw'[l].offset = hw[l].offset /\ hw'[l].polarity = hw[l].polarity
             PROVE  IInv'
  BY <1>1, <1>2, Moves
<1>3. /\ Alike(at', at)
      /\ \/ at'.pc = "shift" /\ at'.i = at.i + 1
         \/ at'.pc = "scope" /\ at'.i = 1 /\ at.i = Len(active)
  BY <1>1, <1>2, Going, Thens DEF Alike, IInv
<1>4. Course'
  BY <1>1, <1>3 DEF Course, Turns, Aiming
<1>5. Placed'
  <2>1. hw'[Lane].phase = at.phase
    <3>1. phase[active[at.i]] # at.phase
      BY <1>1, Going DEF Placed
    <3> QED
      BY <1>1, <3>1, Going
  <2>2. ASSUME NEW k \in Turns, at'.pc = "scope" \/ k < at'.i
        PROVE  phase'[active[k]] = at.phase /\ hw'[active[k]].phase = at.phase
    <3>1. k = at.i \/ (k # at.i /\ k < at.i)
      BY <1>1, <1>3, <2>2, Going
    <3>2. active[k] \in Lanes /\ (active[k] = Lane <=> k = at.i)
      BY <1>1, Going
    <3>3. k < at.i => phase[active[k]] = at.phase /\ hw[active[k]].phase = at.phase
      BY <1>1 DEF Placed
    <3> QED
      BY <2>1, <3>1, <3>2, <3>3
  <2>3. \A k \in Turns : /\ active[k] \in Lanes /\ ~(k < 1)
                         /\ Offset(hw[active[k]].offset) = at.v /\ hw[active[k]].polarity = at.lohi
    BY <1>1, Going DEF Placed, Sweep, Measuring
  <2>4. \A k \in Turns : Offset(hw'[active[k]].offset) = at.v /\ hw'[active[k]].polarity = at.lohi
    BY <2>3
  <2>5. ASSUME NEW k \in Turns, at'.pc = "shift", k >= at'.i
        PROVE  phase'[active[k]] # at.phase
    <3>1. k # at.i /\ k >= at.i
      BY <1>1, <1>3, <2>5, Going
    <3> QED
      BY <1>1, <2>3, <3>1, Going DEF Placed
  <2> QED
    BY <1>3, <2>2, <2>3, <2>4, <2>5 DEF Placed, Sweep, Measuring, Turns, Alike
<1>6. Filled'
  <2>1. ASSUME NEW p \in Points, Behind(p)'
        PROVE  Behind(p)
    BY <1>1, <1>3, <2>1 DEF Behind, Sweep, Measuring, Alike
  <2> QED
    BY <1>1, <1>3, <2>1, StaysFilled
<1> QED
  BY <1>4, <1>5, <1>6 DEF IInv

LEMMA HomeKeeps == IInv /\ Home => IInv'
<1> SUFFICES ASSUME IInv, Home PROVE IInv'
  OBVIOUS
<1> DEFINE next == IF at.v = -MaxOffset THEN Loop("file")
                   ELSE [at EXCEPT !.pc = "offset", !.v = @ - 1, !.lohi = 0]
<1>1. at.pc = "home" /\ PhaseAdjust(0, next) /\ Course /\ Filled /\ Placed /\ at \in Spots /\ at.v \in Offsets
  BY DEF Home, IInv, Types, Spots
<1>2. /\ next \in Spots
      /\ \/ at.v = -MaxOffset /\ next.pc = "file"
         \/ next.pc = "offset" /\ next.lohi = 0 /\ next.v = at.v - 1
  <2>1. CASE at.v = -MaxOffset
    <3>1. "file" \in Pcs
      BY DEF Pcs
    <3>2. Loop("file") \in Spots /\ Loop("file").pc = "file"
      BY <1>1, <3>1, Loops
    <3> QED
      BY <2>1, <3>2
  <2>2. CASE at.v # -MaxOffset
    <3>1. \A v \in Offsets : v # -MaxOffset => v - 1 \in Offsets
      BY Numbers DEF Offsets
    <3>2. at.v - 1 \in Offsets /\ "offset" \in Pcs
      BY <1>1, <2>2, <3>1 DEF Pcs
    <3>3. next = [[[at EXCEPT !.pc = "offset"] EXCEPT !.v = at.v - 1] EXCEPT !.lohi = 0]
      BY <1>1, <2>2 DEF Spots
    <3> HIDE DEF next
    <3>4. next \in Spots /\ next.pc = "offset" /\ next.lohi = 0 /\ next.v = at.v - 1
      BY <1>1, <3>2, <3>3 DEF Spots
    <3> QED
      BY <3>4
  <2> QED
    BY <2>1, <2>2
<1> HIDE DEF next
<1> SUFFICES ASSUME /\ at' = Then(next) /\ UNCHANGED <<active, cells>> /\ at' \in Spots /\ at'.i \in Turns
                    /\ Types' /\ CellsInPlace' /\ Known'
             PROVE  IInv'
  BY <1>1, <1>2, Moves, Numbers
<1>3. \/ at'.pc = "home" /\ Alike(at', at)
      \/ at'.pc = "file" /\ at.v = -MaxOffset
      \/ at'.pc = "offset" /\ at'.i = 1 /\ at'.lohi = 0 /\ at'.v = at.v - 1
  BY <1>1, <1>2, Going, Thens DEF Alike, IInv
<1>4. Course'
  BY <1>1, <1>3 DEF Course, Turns, Aiming
<1>5. Placed'
  <2>1. \A k \in Turns : ~(k < 1)
    BY <1>1, Going
  <2> QED
    BY <1>3, <2>1 DEF Placed, Sweep, Measuring, Turns
<1>6. Filled'
  <2>1. ASSUME NEW p \in Points
        PROVE  /\ at.v = -MaxOffset => p[1] > at.v \/ p[1] = at.v
               /\ p[1] > at.v - 1 => p[1] > at.v \/ p[1] = at.v
    <3>1. p[1] \in Int /\ -MaxOffset <= p[1]
      BY PointsAreInside
    <3>2. at.v \in Int
      BY <1>1, Numbers
    <3> QED
      BY <3>1, <3>2, Numbers
  <2>2. ASSUME NEW p \in Points, Behind(p)'
        PROVE  Behind(p)
    <3>1. CASE at'.pc = "home" /\ Alike(at', at)
      BY <1>1, <2>2, <3>1 DEF Behind, Sweep, Measuring, Alike
    <3>2. CASE at'.pc = "file" /\ at.v = -MaxOffset
      BY <1>1, <2>1, <3>2 DEF Behind
    <3>3. CASE at'.pc = "offset" /\ at'.v = at.v - 1
      <4>1. p[1] > at'.v
        BY <2>2, <3>3 DEF Behind, Sweep, Measuring
      <4> QED
        BY <1>1, <2>1, <3>3, <4>1 DEF Behind
    <3> QED
      BY <1>3, <3>1, <3>2, <3>3
  <2> QED
    BY <1>1, <1>3, <2>2, StaysFilled
<1> QED
  BY <1>4, <1>5, <1>6 DEF IInv

-----------------------------------------------------------------------------
(* Measuring a point *)

LEMMA StartScopeKeeps == IInv /\ StartScope => IInv'
<1> SUFFICES ASSUME IInv, StartScope PROVE IInv'
  OBVIOUS
<1>1. /\ at.pc = "scope" /\ UNCHANGED <<active, phase, saved, cells, file, found, astray>>
      /\ CellsInPlace /\ Types /\ Course /\ Filled /\ Placed
  BY DEF StartScope, IInv, history
<1>2. CASE Works /\ hw' = [hw EXCEPT ![Lane].scope = TRUE] /\ at' = Then(Loop("sample"))
  <2>1. /\ hw' \in [Lanes -> LaneStates] /\ \A l \in Lanes : l # Lane => hw'[l] = hw[l]
        /\ hw'[Lane].taken = hw[Lane].taken
        /\ \A l \in Lanes : /\ hw'[l].offset = hw[l].offset /\ hw'[l].phase = hw[l].phase
                            /\ hw'[l].polarity = hw[l].polarity
    <3> DEFINE h == [hw[Lane] EXCEPT !.scope = TRUE]
    <3>1. hw[Lane] \in LaneStates
      BY <1>1, Going
    <3>2. /\ h \in LaneStates /\ h.phase = hw[Lane].phase /\ h.polarity = hw[Lane].polarity
          /\ h.offset = hw[Lane].offset /\ h.taken = hw[Lane].taken
      BY <3>1 DEF LaneStates
    <3>3. hw' = [hw EXCEPT ![Lane] = h]
      BY <1>2
    <3> HIDE DEF h
    <3>4. hw' \in [Lanes -> LaneStates] /\ hw'[Lane] = h /\ \A l \in Lanes : l # Lane => hw'[l] = hw[l]
      BY <1>1, <3>2, <3>3, Going
    <3> QED
      BY <3>2, <3>4
  <2>2. at' \in Spots /\ at'.i \in Turns /\ at'.pc \in {"scope", "sample"} /\ Alike(at', at)
    <3>1. "sample" \in Pcs
      BY DEF Pcs
    <3>2. Loop("sample") \in Spots /\ Loop("sample").pc = "sample" /\ Alike(Loop("sample"), at)
      BY <1>1, <3>1, Going, Loops
    <3> QED
      BY <1>1, <1>2, <3>2, Going, Thens DEF Alike
  <2>3. Types' /\ CellsInPlace' /\ Known'
    BY <1>1, <1>2, <2>1, <2>2, Going, Proceeds
  <2>4. Course'
    BY <1>1, <2>2 DEF Course, Turns, Aiming
  <2>5. Placed'
    <3>1. \A k \in Turns : /\ active[k] \in Lanes /\ phase[active[k]] = at.phase
                           /\ hw[active[k]].phase = at.phase /\ hw[active[k]].polarity = at.lohi
                           /\ Offset(hw[active[k]].offset) = at.v
      BY <1>1, Going DEF Placed, Sweep, Measuring
    <3>2. \A k \in Turns : /\ phase'[active[k]] = at.phase
                           /\ hw'[active[k]].phase = at.phase /\ hw'[active[k]].polarity = at.lohi
                           /\ Offset(hw'[active[k]].offset) = at.v
      BY <1>1, <2>1, <3>1
    <3> QED
      BY <1>1, <2>2, <3>2 DEF Placed, Sweep, Measuring, Turns, Alike
  <2>6. Filled'
    <3>1. ASSUME NEW p \in Points, Behind(p)'
          PROVE  Behind(p)
      BY <1>1, <2>2, <3>1 DEF Behind, Sweep, Measuring, Alike
    <3> QED
      BY <1>1, <2>2, <3>1, StaysFilled
  <2> QED
    BY <2>3, <2>4, <2>5, <2>6 DEF IInv
<1>3. CASE Fails /\ Restore("failed") /\ UNCHANGED hw
  <2>1. CellsInPlace'
    BY <1>1 DEF CellsInPlace, NoCells
  <2> QED
    BY <1>1, <1>3, <2>1, Going, RestoresInPlace
<1> QED
  BY <1>2, <1>3 DEF StartScope

LEMMA SampleKeeps == IInv /\ Sample => IInv'
<1> SUFFICES ASSUME IInv, Sample PROVE IInv'
  OBVIOUS
<1>1. /\ at.pc = "sample" /\ UNCHANGED <<hw, active, phase, saved, cells, file, found, astray>>
      /\ CellsInPlace /\ Types /\ Course /\ Filled /\ Placed /\ at \in Spots
  BY DEF Sample, IInv, Types, history
<1>2. CASE Works /\ at' \in {[Loop("finish") EXCEPT !.odd = FALSE], [at EXCEPT !.odd = ~at.odd]}
  <2>1. at' \in Spots /\ at'.i \in Turns /\ at'.pc \in {"sample", "finish"} /\ Alike(at', at)
    <3>1. at.i \in Turns
      BY <1>1, Going
    <3>2. CASE at' = [Loop("finish") EXCEPT !.odd = FALSE]
      <4>1. at' = [[at EXCEPT !.pc = "finish"] EXCEPT !.odd = FALSE] /\ "finish" \in Pcs
        BY <3>2 DEF Loop, Pcs
      <4> QED
        BY <1>1, <3>1, <4>1 DEF Spots, Alike
    <3>3. CASE at' = [at EXCEPT !.odd = ~at.odd]
      BY <1>1, <3>1, <3>3 DEF Spots, Alike
    <3> QED
      BY <1>2, <3>2, <3>3
  <2>2. Types' /\ CellsInPlace' /\ Known'
    BY <1>1, <1>2, <2>1, Going, Proceeds
  <2>3. Course'
    BY <1>1, <2>1 DEF Course, Turns, Aiming
  <2>4. Placed'
    BY <1>1, <2>1 DEF Placed, Sweep, Measuring, Turns, Alike
  <2>5. Filled'
    <3>1. ASSUME NEW p \in Points, Behind(p)'
          PROVE  Behind(p)
      BY <1>1, <2>1, <3>1 DEF Behind, Sweep, Measuring, Alike
    <3> QED
      BY <1>1, <2>1, <3>1, StaysFilled
  <2> QED
    BY <2>2, <2>3, <2>4, <2>5 DEF IInv
<1>3. CASE Fails /\ Restore("failed")
  <2>1. CellsInPlace'
    BY <1>1 DEF CellsInPlace, NoCells
  <2> QED
    BY <1>1, <1>3, <2>1, Going, RestoresInPlace
<1> QED
  <2>1. at.odd \in BOOLEAN
    BY <1>1 DEF Spots
  <2> QED
    BY <1>2, <1>3 DEF Sample

(* What a lane shows at the end of a measurement is the point that was meant. *)
LEMMA Shown ==
    ASSUME IInv, at.pc = "finish"
    PROVE  Here \in Points /\ \A l \in ToSet(active) : l \in Lanes /\ PointOf(l) = Here
<1>1. at.v \in Offsets /\ at.phase \in Phases /\ at.lohi \in {0, 1}
  BY Going DEF Spots
<1>2. \A k \in Turns : /\ Offset(hw[active[k]].offset) = at.v /\ hw[active[k]].phase = at.phase
                       /\ hw[active[k]].polarity = at.lohi
  BY DEF IInv, Placed, Sweep, Measuring
<1>3. \A l \in ToSet(active) : l \in Lanes /\ \E k \in Turns : l = active[k]
  BY Going, Turning DEF IInv
<1>4. ASSUME NEW l \in ToSet(active)
      PROVE  l \in Lanes /\ PointOf(l) = Here
  <2>1. PICK k \in Turns : l = active[k]
    BY <1>3
  <2> QED
    BY <1>2, <1>3, <2>1 DEF PointOf, Here
<1>5. Here \in Points
  BY <1>1 DEF Here, Points
<1> QED
  BY <1>4, <1>5

(* Where the sweep goes from a point, and that nothing is left out on the way. *)
LEMMA NothingSkipped ==
    ASSUME IInv, at.pc = "finish"
    PROVE  /\ Onward \in Spots /\ Onward.v = at.v
           /\ \/ Onward.pc = "shift" /\ Onward.lohi = at.lohi /\ Onward.phase = at.phase + 1
              \/ Onward.pc = "centre" /\ Onward.lohi = 1
              \/ Onward.pc = "home"
           /\ \A p \in Points :
                /\ Onward.pc = "shift" /\ p[2] < Onward.phase => p[2] < at.phase \/ p[2] = at.phase
                /\ Onward.pc = "centre" /\ p[3] < 1 =>
                     at.lohi = 0 /\ p[3] = at.lohi /\ (p[2] < at.phase \/ p[2] = at.phase)
                /\ Onward.pc = "home" =>
                     p[3] < at.lohi \/ (p[3] = at.lohi /\ (p[2] < at.phase \/ p[2] = at.phase))
<1>1. /\ at \in Spots /\ at.phase \in Phases /\ at.phase \in Int /\ at.lohi \in {0, 1} /\ at.v \in Offsets
      /\ at.phase <= Right
  <2>1. at \in Spots /\ at.phase \in Phases /\ at.lohi \in {0, 1} /\ at.v \in Offsets
    BY Going DEF Spots
  <2>2. \A v \in Phases : v \in Int /\ v <= Right
    BY Numbers DEF Phases
  <2> QED
    BY <2>1, <2>2
<1>2. \A p \in Points : p[2] \in Int /\ p[2] <= Right /\ p[3] \in {0, 1}
  BY PointsAreInside
<1>3. CASE at.phase < Right
  <2>1. Onward = [[at EXCEPT !.pc = "shift"] EXCEPT !.phase = at.phase + 1]
    BY <1>1, <1>3 DEF Onward, Spots
  <2>2. at.phase + 1 \in Phases /\ "shift" \in Pcs
    <3>1. \A v \in Phases : v < Right => v + 1 \in Phases
      BY Numbers DEF Phases
    <3> QED
      BY <1>1, <1>3, <3>1 DEF Pcs
  <2>3. Onward \in Spots /\ Onward.v = at.v /\ Onward.pc = "shift" /\ Onward.lohi = at.lohi
        /\ Onward.phase = at.phase + 1
    BY <1>1, <2>1, <2>2 DEF Spots
  <2>4. \A p \in Points : p[2] < at.phase + 1 => p[2] < at.phase \/ p[2] = at.phase
    BY <1>1, <1>2
  <2> QED
    BY <2>3, <2>4
<1>4. CASE ~(at.phase < Right)
  <2>1. \A p \in Points : p[2] < at.phase \/ p[2] = at.phase
    <3>1. at.phase = Right
      BY <1>1, <1>4, Numbers
    <3> QED
      BY <1>2, <3>1, Numbers
  <2>2. CASE at.lohi = 0
    <3>1. Onward = [[at EXCEPT !.pc = "centre"] EXCEPT !.lohi = 1]
      BY <1>1, <1>4, <2>2 DEF Onward, Spots
    <3>2. "centre" \in Pcs
      BY DEF Pcs
    <3>3. Onward \in Spots /\ Onward.v = at.v /\ Onward.pc = "centre" /\ Onward.lohi = 1
      BY <1>1, <3>1, <3>2 DEF Spots
    <3>4. \A p \in Points : p[3] < 1 => p[3] = 0
      BY <1>2
    <3> QED
      BY <2>1, <2>2, <3>3, <3>4
  <2>3. CASE at.lohi # 0
    <3>1. Onward = [at EXCEPT !.pc = "home"] /\ "home" \in Pcs
      BY <1>1, <1>4, <2>3 DEF Onward, Loop, Pcs
    <3>2. Onward \in Spots /\ Onward.v = at.v /\ Onward.pc = "home"
      BY <1>1, <3>1 DEF Spots
    <3>3. at.lohi = 1 /\ \A p \in Points : p[3] < 1 \/ p[3] = 1
      BY <1>1, <1>2, <2>3
    <3> QED
      BY <2>1, <3>2, <3>3
  <2> QED
    BY <2>2, <2>3
<1> QED
  BY <1>3, <1>4

LEMMA FinishKeeps == IInv /\ Finish => IInv'
<1> SUFFICES ASSUME IInv, Finish PROVE IInv'
  OBVIOUS
<1>1. /\ at.pc = "finish" /\ UNCHANGED <<active, phase, saved, file, found, astray>>
      /\ CellsInPlace /\ Types /\ Course /\ Filled /\ Placed
  BY DEF Finish, IInv, history
<1>2. CASE /\ Works
           /\ hw' = [hw EXCEPT ![Lane].scope = FALSE]
           /\ at' = Then(Onward)
           /\ cells' = IF at.i < Len(active) THEN cells
                       ELSE [l \in Lanes |-> IF l \in ToSet(active)
                                             THEN [cells[l] EXCEPT ![Here] = PointOf(l)] ELSE cells[l]]
  <2>1. /\ hw' \in [Lanes -> LaneStates] /\ \A l \in Lanes : l # Lane => hw'[l] = hw[l]
        /\ hw'[Lane].taken = hw[Lane].taken
        /\ \A l \in Lanes : /\ hw'[l].offset = hw[l].offset /\ hw'[l].phase = hw[l].phase
                            /\ hw'[l].polarity = hw[l].polarity
    <3> DEFINE h == [hw[Lane] EXCEPT !.scope = FALSE]
    <3>1. hw[Lane] \in LaneStates
      BY <1>1, Going
    <3>2. /\ h \in LaneStates /\ h.phase = hw[Lane].phase /\ h.polarity = hw[Lane].polarity
          /\ h.offset = hw[Lane].offset /\ h.taken = hw[Lane].taken
      BY <3>1 DEF LaneStates
    <3>3. hw' = [hw EXCEPT ![Lane] = h]
      BY <1>2
    <3> HIDE DEF h
    <3>4. hw' \in [Lanes -> LaneStates] /\ hw'[Lane] = h /\ \A l \in Lanes : l # Lane => hw'[l] = hw[l]
      BY <1>1, <3>2, <3>3, Going
    <3> QED
      BY <3>2, <3>4
  <2>2. \A k \in Turns : /\ active[k] \in Lanes /\ ~(k < 1) /\ phase[active[k]] = at.phase
                         /\ hw[active[k]].phase = at.phase /\ hw[active[k]].polarity = at.lohi
                         /\ Offset(hw[active[k]].offset) = at.v
    BY <1>1, Going DEF Placed, Sweep, Measuring
  <2>3. \A k \in Turns : /\ phase'[active[k]] = at.phase /\ ~(k < 1)
                         /\ hw'[active[k]].phase = at.phase /\ hw'[active[k]].polarity = at.lohi
                         /\ Offset(hw'[active[k]].offset) = at.v
    BY <1>1, <2>1, <2>2
  <2>4. Onward \in Spots /\ Onward.pc \in {"shift", "centre", "home"} /\ Onward.v = at.v
    BY <1>1, NothingSkipped
  <2>5. /\ at' \in Spots /\ at'.i \in Turns
        /\ \/ at.i < Len(active) /\ at'.pc = "finish" /\ Alike(at', at)
           \/ ~(at.i < Len(active)) /\ at'.pc = Onward.pc /\ at'.i = 1 /\ Alike(at', Onward)
    <3>1. at.i = Len(active) => ~(at.i < Len(active))
      BY <1>1, Going
    <3> QED
      BY <1>1, <1>2, <2>4, <3>1, Going, Thens
  <2>6. Here \in Points /\ \A l \in ToSet(active) : l \in Lanes /\ PointOf(l) = Here
    BY <1>1, Shown
  <2>7. /\ cells' \in [Lanes -> [Points -> Points \cup {NoPoint}]]
        /\ \A l \in Lanes \ ToSet(active) : cells'[l] = cells[l]
        /\ \A l \in ToSet(active) : \A p \in Points : p # Here => cells'[l][p] = cells[l][p]
        /\ at.i < Len(active) => cells' = cells
        /\ ~(at.i < Len(active)) => \A l \in ToSet(active) : cells'[l][Here] = Here
    <3>1. cells \in [Lanes -> [Points -> Points \cup {NoPoint}]]
      BY <1>1, Going
    <3>2. CASE at.i < Len(active)
      BY <1>2, <2>6, <3>1, <3>2
    <3>3. CASE ~(at.i < Len(active))
      <4>1. cells' = [l \in Lanes |-> IF l \in ToSet(active) THEN [cells[l] EXCEPT ![Here] = PointOf(l)]
                                      ELSE cells[l]]
        BY <1>2, <3>3
      <4>2. \A l \in ToSet(active) : l \in Lanes /\ cells'[l] = [cells[l] EXCEPT ![Here] = Here]
        BY <2>6, <4>1
      <4>3. \A l \in Lanes \ ToSet(active) : cells'[l] = cells[l]
        BY <4>1
      <4>4. \A l \in ToSet(active) : /\ cells'[l] \in [Points -> Points \cup {NoPoint}]
                                     /\ cells'[l][Here] = Here
                                     /\ \A p \in Points : p # Here => cells'[l][p] = cells[l][p]
        <5> SUFFICES ASSUME NEW l \in ToSet(active)
                     PROVE  /\ cells'[l] \in [Points -> Points \cup {NoPoint}]
                            /\ cells'[l][Here] = Here
                            /\ \A p \in Points : p # Here => cells'[l][p] = cells[l][p]
          OBVIOUS
        <5> DEFINE c == cells[l]
                   h == Here
        <5>1. c \in [Points -> Points \cup {NoPoint}] /\ h \in Points
          BY <2>6, <3>1
        <5>2. cells'[l] = [c EXCEPT ![h] = h]
          BY <4>2
        <5> HIDE DEF c, h
        <5>3. /\ cells'[l] \in [Points -> Points \cup {NoPoint}] /\ cells'[l][h] = h
              /\ \A p \in Points : p # h => cells'[l][p] = c[p]
          BY <5>1, <5>2
        <5> QED
          BY <5>3 DEF c, h
      <4>5. \A l \in Lanes : cells'[l] \in [Points -> Points \cup {NoPoint}]
        BY <3>1, <4>3, <4>4
      <4>6. cells' \in [Lanes -> [Points -> Points \cup {NoPoint}]]
        BY <4>1, <4>5
      <4> QED
        BY <3>3, <4>3, <4>4, <4>6
    <3> QED
      BY <3>2, <3>3
  <2>8. Types' /\ CellsInPlace' /\ Known'
    <3>1. at'.pc \notin {"idle", "init", "restore"}
      BY <2>4, <2>5
    <3>2. hw'[Lane].phase = hw[Lane].phase /\ phase'[Lane] = phase[Lane]
      BY <1>1, <2>1, Going
    <3> QED
      BY <1>1, <1>2, <2>1, <2>5, <2>7, <3>1, <3>2, Going, Proceeds
  <2>9. Course'
    BY <1>1, <2>4, <2>5 DEF Course, Turns, Aiming
  <2>10. Placed'
    <3>1. CASE at'.pc = "finish" /\ Alike(at', at)
      BY <1>1, <2>3, <3>1 DEF Placed, Sweep, Measuring, Turns, Alike
    <3>2. CASE at'.pc = Onward.pc /\ at'.i = 1 /\ Alike(at', Onward)
      <4>1. at'.pc = "shift" => at'.lohi = at.lohi /\ at'.phase # at.phase
        <5>1. at.phase \in Int
          BY <1>1, Going, Numbers DEF Spots
        <5>2. at'.pc = "shift" => at'.lohi = at.lohi /\ at'.phase = at.phase + 1
          BY <1>1, <3>2, NothingSkipped DEF Alike
        <5> QED
          BY <5>1, <5>2
      <4>2. at'.pc \in {"shift", "centre", "home"} /\ at'.v = at.v
        BY <2>4, <3>2 DEF Alike
      <4>3. \A k \in Turns : at'.pc = "shift" => phase'[active[k]] # at'.phase
        BY <2>3, <4>1
      <4> QED
        BY <1>1, <2>3, <3>2, <4>1, <4>2, <4>3 DEF Placed, Sweep, Measuring, Turns
    <3> QED
      BY <2>5, <3>1, <3>2
  <2>11. Filled'
    <3>1. CASE at.i < Len(active)
      <4>1. cells' = cells /\ at'.pc = "finish" /\ Alike(at', at)
        BY <2>5, <2>7, <3>1
      <4>2. ASSUME NEW p \in Points, Behind(p)'
            PROVE  Behind(p)
        BY <1>1, <4>1, <4>2 DEF Behind, Sweep, Measuring, Alike
      <4> QED
        BY <1>1, <4>1, <4>2, StaysFilled
    <3>2. CASE ~(at.i < Len(active))
      <4>1. at'.pc = Onward.pc /\ Alike(at', Onward) /\ at'.v = at.v
        BY <2>4, <2>5, <3>2 DEF Alike
      <4>2. ASSUME NEW p \in Points, Behind(p)'
            PROVE  \/ Behind(p)
                   \/ p[1] = at.v /\ p[3] = at.lohi /\ p[2] = at.phase
        <5>1. CASE Onward.pc = "shift"
          <6>1. at'.pc = "shift" /\ at'.lohi = at.lohi /\ at'.phase = Onward.phase
            BY <1>1, <4>1, <5>1, NothingSkipped DEF Alike
          <6>2. \/ p[1] > at.v
                \/ p[1] = at.v /\ p[3] < at.lohi
                \/ p[1] = at.v /\ p[3] = at.lohi /\ p[2] < Onward.phase
            BY <4>1, <4>2, <6>1 DEF Behind, Sweep, Measuring
          <6>3. p[2] < Onward.phase => p[2] < at.phase \/ p[2] = at.phase
            BY <1>1, <5>1, NothingSkipped
          <6> QED
            BY <1>1, <6>2, <6>3 DEF Behind, Sweep, Measuring
        <5>2. CASE Onward.pc = "centre"
          <6>1. at'.pc = "centre" /\ at'.lohi = 1
            BY <1>1, <4>1, <5>2, NothingSkipped DEF Alike
          <6>2. p[1] > at.v \/ (p[1] = at.v /\ p[3] < 1)
            BY <4>1, <4>2, <6>1 DEF Behind, Sweep, Measuring
          <6>3. p[3] < 1 => p[3] = at.lohi /\ (p[2] < at.phase \/ p[2] = at.phase)
            BY <1>1, <5>2, NothingSkipped
          <6> QED
            BY <1>1, <6>2, <6>3 DEF Behind, Sweep, Measuring
        <5>3. CASE Onward.pc = "home"
          <6>1. p[1] > at.v \/ p[1] = at.v
            BY <4>1, <4>2, <5>3 DEF Behind, Sweep, Measuring
          <6>2. p[3] < at.lohi \/ (p[3] = at.lohi /\ (p[2] < at.phase \/ p[2] = at.phase))
            BY <1>1, <5>3, NothingSkipped
          <6> QED
            BY <1>1, <6>1, <6>2 DEF Behind, Sweep, Measuring
        <5> QED
          BY <2>4, <5>1, <5>2, <5>3
      <4>3. \A p \in Points : p[1] = at.v /\ p[3] = at.lohi /\ p[2] = at.phase => p = Here
        BY PointsAreTriples DEF Here
      <4>4. /\ \A l \in ToSet(active) : \A p \in Points : Behind(p) => cells[l][p] = p
            /\ \A l \in Lanes \ ToSet(active) : cells[l] = NoCells[l]
        BY <1>1 DEF Filled
      <4>5. \A l \in ToSet(active) : \A p \in Points : Behind(p)' => cells'[l][p] = p
        BY <2>6, <2>7, <3>2, <4>2, <4>3, <4>4
      <4>6. \A l \in Lanes \ ToSet(active) : cells'[l] = NoCells[l]
        BY <2>7, <4>4
      <4> QED
        BY <1>1, <4>5, <4>6 DEF Filled, NoCells
    <3> QED
      BY <3>1, <3>2
  <2> QED
    BY <2>8, <2>9, <2>10, <2>11 DEF IInv
<1>3. CASE (Works \/ Fails) /\ Restore("failed") /\ UNCHANGED <<hw, cells>>
  <2>1. CellsInPlace'
    BY <1>1 DEF CellsInPlace, NoCells
  <2> QED
    BY <1>1, <1>3, <2>1, Going, RestoresInPlace
<1> QED
  BY <1>2, <1>3 DEF Finish

-----------------------------------------------------------------------------
(* The end of a call *)

LEMMA WriteFilesKeeps == IInv /\ WriteFiles => IInv'
<1> SUFFICES ASSUME IInv, WriteFiles PROVE IInv'
  OBVIOUS
<1>1. /\ at.pc = "file" /\ file' = cells /\ Restore("measured") /\ Filled
      /\ UNCHANGED <<hw, active, phase, saved, cells, left, found, astray>>
  BY DEF WriteFiles, IInv, history
<1>2. \A l \in Lanes : cells[l] # NoCells[l] => \A p \in Points : cells[l][p] = p
  <2>1. \A p \in Points : Behind(p)
    BY <1>1 DEF Behind
  <2> QED
    BY <1>1, <2>1 DEF Filled
<1>3. CellsInPlace'
  BY <1>1, <1>2 DEF CellsInPlace, NoCells
<1>4. Works
  BY <1>1 DEF Works
<1> QED
  BY <1>1, <1>3, <1>4, Going, RestoresInPlace

(* What a lane gives back, and what is left when that breaks off. *)
LEMMA GivesBack ==
    ASSUME Types, NEW l \in Lanes
    PROVE  /\ GiveBack(l) \in LaneStates
           /\ GiveBack(l).taken = (hw[l].taken \ ToSet(Borrowed)) \cup saved[l]
           /\ GiveBack(l) = [offset |-> 0, phase |-> GiveBack(l).phase, polarity |-> 1,
                             taken |-> GiveBack(l).taken, request |-> FALSE, scope |-> FALSE]
           /\ GiveBack(l).phase = IF phase[l] = 0 THEN hw[l].phase ELSE 0
           /\ HalfBack(l) \subseteq LaneStates
<1>1. /\ hw[l] \in LaneStates /\ hw[l].phase \in Phases /\ phase[l] \in Phases /\ 0 \in Phases
      /\ saved[l] \subseteq ToSet(Borrowed) /\ hw[l].taken \subseteq Registers
  BY Numbers DEF Types, LaneStates
<1> DEFINE from == phase[l]
           to == 0
           p == After(Distance(from, to), from, to, l)
           t == (hw[l].taken \ ToSet(Borrowed)) \cup saved[l]
<1>2. /\ Distance(from, to) \in Nat
      /\ \A k \in 0..Distance(from, to) : After(k, from, to, l) \in Phases
      /\ p = IF from = to THEN hw[l].phase ELSE to
  <2>1. from \in Phases /\ to \in Phases
    BY <1>1
  <2> HIDE DEF from, to
  <2> QED
    BY <1>1, <2>1, Walks
<1>3. p \in Phases
  BY <1>1, <1>2
<1>4. t \in SUBSET Registers
  BY <1>1, Sets
<1>5. GiveBack(l) = [offset |-> 0, phase |-> p, polarity |-> 1, taken |-> t,
                     request |-> FALSE, scope |-> FALSE]
  BY DEF GiveBack
<1> HIDE DEF p, t
<1>6. GiveBack(l) \in LaneStates /\ GiveBack(l).phase = p /\ GiveBack(l).taken = t
  BY <1>3, <1>4, <1>5 DEF LaneStates
<1>7. ASSUME NEW k \in 0..Distance(from, to)
      PROVE  OnTheWay(l, k) \in LaneStates
  <2> DEFINE q == After(k, from, to, l)
             h == hw[l]
  <2>1. q \in Phases /\ h \in LaneStates
    BY <1>1, <1>2
  <2>2. OnTheWay(l, k) = [h EXCEPT !.offset = 0, !.phase = q]
    BY DEF OnTheWay
  <2> HIDE DEF q, h
  <2>3. [[h EXCEPT !.offset = 0] EXCEPT !.phase = q] \in LaneStates
    BY <2>1 DEF LaneStates
  <2>4. [h EXCEPT !.offset = 0, !.phase = q] = [[h EXCEPT !.offset = 0] EXCEPT !.phase = q]
    BY <2>1 DEF LaneStates
  <2> QED
    BY <2>2, <2>3, <2>4
<1>8. ASSUME NEW n \in 0..Len(Borrowed)
      PROVE  PartlyBack(l, FirstOf(Borrowed, n)) \in LaneStates
  <2> DEFINE done == FirstOf(Borrowed, n)
             g == GiveBack(l)
             h == hw[l]
             u == (h.taken \ done) \cup (saved[l] \cap done)
  <2>1. u \in SUBSET Registers
    BY <1>1, Sets
  <2>2. h.polarity \in {0, 1} /\ g \in LaneStates
    BY <1>1, <1>6 DEF LaneStates
  <2>3. PartlyBack(l, done) = [g EXCEPT !.polarity = h.polarity, !.taken = u]
    BY DEF PartlyBack
  <2> HIDE DEF done, g, h, u
  <2>4. [g EXCEPT !.polarity = h.polarity, !.taken = u] \in LaneStates
    BY <2>1, <2>2 DEF LaneStates
  <2> QED
    BY <2>3, <2>4 DEF done
<1>9. HalfBack(l) \subseteq LaneStates
  BY <1>1, <1>7, <1>8 DEF HalfBack
<1> QED
  BY <1>2, <1>5, <1>6, <1>9 DEF t

LEMMA RestoreLaneKeeps == IInv /\ RestoreLane => IInv'
<1> SUFFICES ASSUME IInv, RestoreLane PROVE IInv'
  OBVIOUS
<1>1. /\ at.pc = "restore" /\ UNCHANGED <<active, phase, saved, cells, file, found, astray>>
      /\ CellsInPlace /\ Types /\ Known /\ at \in Spots
  BY DEF RestoreLane, IInv, Types, history
<1>2. hw[Lane] \in LaneStates /\ Lane \in Lanes /\ at.i \in Turns
  BY <1>1, Going
<1>3. CASE /\ Works /\ hw' = [hw EXCEPT ![Lane] = GiveBack(Lane)]
           /\ at' = IF at.i < Len(active) THEN [at EXCEPT !.i = @ + 1]
                    ELSE [at EXCEPT !.pc = "idle", !.status = "success"]
  <2>1. /\ hw' \in [Lanes -> LaneStates] /\ hw'[Lane] = GiveBack(Lane)
        /\ \A l \in Lanes : l # Lane => hw'[l] = hw[l]
    <3> DEFINE g == GiveBack(Lane)
    <3>1. g \in LaneStates
      BY <1>1, <1>2, GivesBack
    <3> HIDE DEF g
    <3>2. hw' \in [Lanes -> LaneStates] /\ hw'[Lane] = g /\ \A l \in Lanes : l # Lane => hw'[l] = hw[l]
      BY <1>1, <1>3, <3>1, Going DEF g
    <3> QED
      BY <3>2 DEF g
  <2>2. /\ at' \in Spots
        /\ \/ at.i < Len(active) /\ at'.pc = "restore" /\ at'.i = at.i + 1 /\ at'.i \in Turns
           \/ ~(at.i < Len(active)) /\ at'.pc = "idle"
    <3>1. at.i + 1 \in Nat /\ at.i \in Turns /\ at.i \in Nat
      BY <1>1, Going
    <3>2. CASE at.i < Len(active)
      <4>1. at' = [at EXCEPT !.i = at.i + 1]
        BY <1>3, <3>2
      <4>2. at.i + 1 \in Turns
        BY <1>1, <3>1, <3>2, Going
      <4> QED
        BY <1>1, <3>1, <3>2, <4>1, <4>2 DEF Spots
    <3>3. CASE ~(at.i < Len(active))
      <4>1. at' = [[at EXCEPT !.pc = "idle"] EXCEPT !.status = "success"] /\ "idle" \in Pcs
        BY <1>1, <1>3, <3>3 DEF Pcs, Spots
      <4> QED
        BY <1>1, <3>3, <4>1 DEF Spots
    <3> QED
      BY <3>2, <3>3
  <2>3. Types'
    BY <1>1, <1>3, <2>1, <2>2, Spends DEF Types, Turns
  <2>4. Course' /\ Placed' /\ Filled'
    BY <1>1, <2>2 DEF Course, Placed, Filled, Turns, Aiming, Sweep, Measuring
  <2>5. CellsInPlace'
    BY <1>1 DEF CellsInPlace, NoCells
  <2>6. Known'
    <3>1. \A k \in Turns : IF k < at.i THEN Back(active[k]) ELSE Held(active[k])
      BY <1>1 DEF Known
    <3>2. \A k \in Turns : k = at.i => Back(active[k])'
      <4> DEFINE l == Lane
                 b == ToSet(Borrowed)
                 g == GiveBack(l)
      <4>1. ~(at.i < at.i) /\ l = active[at.i]
        BY <1>1, Going
      <4>2. /\ saved[l] = found[l].taken \cap b /\ hw[l].taken = Registers
            /\ l \in astray \/ (phase[l] = 0 => hw[l].phase = 0)
        BY <1>2, <3>1, <4>1 DEF Held
      <4>3. /\ g = [offset |-> 0, phase |-> g.phase, polarity |-> 1, taken |-> g.taken,
                    request |-> FALSE, scope |-> FALSE]
            /\ g.taken = (hw[l].taken \ b) \cup saved[l]
            /\ g.phase = IF phase[l] = 0 THEN hw[l].phase ELSE 0
        BY <1>1, <1>2, GivesBack
      <4>4. g.taken = (found[l].taken \cap b) \cup (Registers \ b) /\ (l \in astray \/ g.phase = 0)
        BY <4>2, <4>3
      <4>5. hw'[l] = g /\ found'[l] = found[l] /\ astray' = astray
        BY <1>1, <2>1
      <4> HIDE DEF l, g, b
      <4>6. hw'[l] = Released(found'[l], IF l \in astray' THEN hw'[l].phase ELSE 0)
        BY <4>3, <4>4, <4>5 DEF Released, b
      <4>7. \A k \in Turns : k = at.i => active'[k] = l
        BY <1>1, <4>1
      <4> QED
        BY <4>6, <4>7 DEF Back
    <3>3. Lane \in ToSet(active) /\ \A l \in ToSet(active) : \E k \in Turns : l = active[k]
      BY <1>1, Going, Turning
    <3>4. \A l \in Lanes \ ToSet(active) : hw'[l] = found[l]
      BY <1>1, <2>1, <3>3 DEF Known
    <3>5. ASSUME NEW k \in Turns
          PROVE  IF k < at.i \/ k = at.i THEN Back(active[k])' ELSE Held(active[k])'
      <4>1. active[k] \in Lanes /\ (active[k] = Lane <=> k = at.i)
        BY <1>1, Going
      <4>2. CASE k = at.i
        BY <3>2, <4>2
      <4>3. CASE k # at.i
        <5>1. hw'[active[k]] = hw[active[k]] /\ active'[k] = active[k]
          BY <1>1, <2>1, <4>1, <4>3
        <5>2. CASE k < at.i
          BY <1>1, <3>1, <5>1, <5>2 DEF Back
        <5>3. CASE ~(k < at.i)
          BY <1>1, <3>1, <4>3, <5>1, <5>3 DEF Held
        <5> QED
          BY <5>2, <5>3
      <4> QED
        BY <4>2, <4>3
    <3>6. Turns' = Turns /\ found' = found /\ active' = active /\ at.i \in Nat
      BY <1>1, Going DEF Turns
    <3>7. CASE at.i < Len(active) /\ at'.pc = "restore" /\ at'.i = at.i + 1
      <4>1. \A k \in Turns : k < at'.i <=> (k < at.i \/ k = at.i)
        <5>1. \A k \in Turns : k \in Int
          BY <1>1, Going
        <5> QED
          BY <3>6, <3>7, <5>1
      <4>2. \A k \in Turns : IF k < at'.i THEN Back(active[k])' ELSE Held(active[k])'
        BY <3>5, <4>1
      <4> QED
        BY <3>4, <3>6, <3>7, <4>2 DEF Known
    <3>8. CASE ~(at.i < Len(active)) /\ at'.pc = "idle"
      <4>1. \A k \in Turns : k < at.i \/ k = at.i
        BY <1>1, <3>8, Going
      <4>2. \A k \in Turns : Back(active[k])'
        BY <3>5, <4>1
      <4>3. \A l \in ToSet(active) : Back(l)'
        BY <1>1, <3>3, <4>2 DEF Back
      <4> QED
        BY <3>4, <3>6, <3>8, <4>3 DEF Known
    <3> QED
      BY <2>2, <3>7, <3>8
  <2> QED
    BY <2>3, <2>4, <2>5, <2>6 DEF IInv
<1>4. CASE /\ Fails
           /\ \E h \in HalfBack(Lane) : hw' = [hw EXCEPT ![Lane] = h]
           /\ at' = [at EXCEPT !.pc = "idle", !.outcome = "failed", !.status = "failed"]
  <2>1. PICK h \in HalfBack(Lane) : hw' = [hw EXCEPT ![Lane] = h]
    BY <1>4
  <2>2. h \in LaneStates
    BY <1>1, <1>2, <2>1, GivesBack
  <2>3. hw' \in [Lanes -> LaneStates] /\ \A l \in Lanes : l # Lane => hw'[l] = hw[l]
    BY <1>1, <2>1, <2>2, Going
  <2>4. at' \in Spots /\ at'.pc = "idle" /\ at'.status = "failed"
    BY <1>1, <1>4, AbandonSpot DEF Abandon
  <2> QED
    BY <1>1, <1>2, <1>4, <2>3, <2>4, Abandons
<1> QED
  BY <1>3, <1>4 DEF RestoreLane

LEMMA StutterKeeps == IInv /\ UNCHANGED vars => IInv'
<1> SUFFICES ASSUME IInv, UNCHANGED vars PROVE IInv'
  OBVIOUS
<1>1. /\ UNCHANGED <<hw, active, phase, saved, cells, at, file, left, found, astray>>
      /\ Types /\ Course /\ Placed /\ Filled /\ CellsInPlace /\ Known
  BY DEF vars, IInv
<1>2. Types' /\ Course'
  BY <1>1 DEF Types, Course, Turns
<1>3. Placed' /\ Filled'
  BY <1>1 DEF Placed, Filled, Turns, Behind, NoCells
<1>4. CellsInPlace'
  BY <1>1 DEF CellsInPlace, NoCells
<1>5. Known'
  BY <1>1 DEF Known, Turns, Held, Back
<1> QED
  BY <1>2, <1>3, <1>4, <1>5 DEF IInv

-----------------------------------------------------------------------------
(* What holds of every call *)

(* The invariant holds in every state that calls, time-outs and failing
   accesses can reach (ssiSoftwareEye and its helpers). *)
THEOREM Invariance == Spec => []IInv
<1>1. ASSUME IInv, [Next]_vars PROVE IInv'
  <2>1. CASE UNCHANGED vars
    BY <1>1, <2>1, StutterKeeps
  <2>2. CASE \E lanes \in InOrder : Call(lanes)
    BY <1>1, <2>2, CallKeeps
  <2>3. CASE CallFails
    BY <1>1, <2>3, CallFailsKeeps
  <2>4. CASE InitLane
    BY <1>1, <2>4, InitLaneKeeps
  <2>5. CASE WaitGrant
    BY <1>1, <2>5, WaitGrantKeeps
  <2>6. CASE PolarityOn
    BY <1>1, <2>6, PolarityOnKeeps
  <2>7. CASE VertAdjust
    BY <1>1, <2>7, VertAdjustKeeps
  <2>8. CASE Centre
    BY <1>1, <2>8, CentreKeeps
  <2>9. CASE Polarity
    BY <1>1, <2>9, PolarityKeeps
  <2>10. CASE Shift
    BY <1>1, <2>10, ShiftKeeps
  <2>11. CASE Home
    BY <1>1, <2>11, HomeKeeps
  <2>12. CASE StartScope
    BY <1>1, <2>12, StartScopeKeeps
  <2>13. CASE Sample
    BY <1>1, <2>13, SampleKeeps
  <2>14. CASE Finish
    BY <1>1, <2>14, FinishKeeps
  <2>15. CASE WriteFiles
    BY <1>1, <2>15, WriteFilesKeeps
  <2>16. CASE RestoreLane
    BY <1>1, <2>16, RestoreLaneKeeps
  <2> QED
    BY <1>1, <2>1, <2>2, <2>3, <2>4, <2>5, <2>6, <2>7, <2>8, <2>9, <2>10, <2>11, <2>12, <2>13, <2>14,
       <2>15, <2>16 DEF Next, Library
<1> QED
  BY Started, <1>1, PTL DEF Spec

(* Every cell of a file was measured at its own offset, phase and polarity,
   whatever lane timed out or access failed on the way (ssiSoftwareEye,
   ssiSoftEyeVertAdjust, ssiSoftEyePhaseAdjust). *)
THEOREM CellsAreInPlace == Spec => []CellsInPlace
<1>1. IInv => CellsInPlace
  BY DEF IInv
<1> QED
  BY Invariance, <1>1, PTL

(* A call that returns success has released all of its lanes, and no call has
   changed one whose link is down, whichever access failed on the way, whichever
   lane timed out or counted no sample at all; only the phase of a lane that
   stopped on its way from the centre is left out (ssiSoftEyeSerdesInit,
   ssiSoftEyePhaseAdjust and the restore of ssiSoftwareEye). *)
THEOREM LanesAreGivenBack == Spec => []LanesGivenBack
<1>1. ASSUME IInv PROVE LanesGivenBack
  <2>1. Types /\ Known
    BY <1>1 DEF IInv
  <2> QED
    BY <2>1 DEF Known, Back, LanesGivenBack
<1> QED
  BY Invariance, <1>1, PTL

-----------------------------------------------------------------------------
(* The hardware eye *)

Eyes == [masked : BOOLEAN, held : BOOLEAN, going : BOOLEAN, done : BOOLEAN,
         of : 0..MaxCommands, eye : 0..MaxCommands]
Marks  == [active : BOOLEAN, done : BOOLEAN]
Places == [pc : {"idle", "look", "start", "poll", "get", "clean"}, lane : EyeLanes,
           count : Nat, polls : 0..Timeout]

(* A lane that is not at rest is active, and the command has started it and not
   yet cleaned it up. *)
Resting(h) == ~h.going /\ h.masked
Taken(l) ==
    \/ place.pc = "start" /\ l < place.lane
    \/ place.pc \in {"poll", "get"}
    \/ place.pc = "clean" /\ l >= place.lane
Restless ==
    "clean" \notin failed => \A l \in EyeLanes : Resting(monitors[l]) \/ (flags[l].active /\ Taken(l))

(* The eye of a lane that is done is that of its last reset; an active lane that
   the command has started was reset by it; a lane noted as done is done. *)
Measured ==
    /\ \A l \in EyeLanes : monitors[l].done => monitors[l].eye = monitors[l].of
    /\ "start" \notin failed =>
        \A l \in EyeLanes : flags[l].active =>
            /\ flags[l].done => monitors[l].done
            /\ place.pc \notin {"look", "start"} \/ (place.pc = "start" /\ l < place.lane) => monitors[l].of = command

(* The count of a poll is that of the lanes noted as done; the eyes are read only
   when all of them are. *)
Noted(f, k) == {l \in EyeLanes : l < k /\ f[l].active /\ f[l].done}
DoneCounted ==
    /\ place.pc \in {"look", "start"} => ~global /\ place.polls = 0 /\ \A l \in EyeLanes : ~flags[l].done
    /\ place.pc = "poll" => ~global /\ place.polls < Timeout /\ place.count = Cardinality(Noted(flags, place.lane))
    /\ place.pc = "get" => global
    /\ global => \A l \in Active : flags[l].done
    /\ place.pc # "poll" => place.count = 0

(* TypeInv without the bound of the count. *)
HwEyeTypes ==
    /\ monitors \in [EyeLanes -> Eyes]
    /\ command \in 0..MaxCommands
    /\ place \in Places /\ flags \in [EyeLanes -> Marks] /\ global \in BOOLEAN
    /\ shown \in [EyeLanes -> 0..MaxCommands] /\ failed \subseteq {"start", "poll", "get", "clean"}

OwnEyesShown == "start" \notin failed => \A l \in EyeLanes : shown[l] \in {NoEye, command}

HwEyeIInv == HwEyeTypes /\ Restless /\ Measured /\ DoneCounted /\ OwnEyesShown

-----------------------------------------------------------------------------
(* The lanes are finitely many, and with them any part of them. *)
LEMMA LanesFinite == IsFiniteSet(EyeLanes) /\ \A S \in SUBSET EyeLanes : IsFiniteSet(S) /\ Cardinality(S) \in Nat
<1>1. IsFiniteSet(EyeLanes)
  BY FS_Interval, HwEyeAssumption DEF EyeLanes
<1> QED
  BY <1>1, FS_Subset, FS_CardinalityType

(* No lane is below the first one; the next lane is noted if it is active and
   done. *)
LEMMA NotedNone == ASSUME NEW f PROVE Cardinality(Noted(f, 0)) = 0
<1>1. Noted(f, 0) = {}
  BY DEF Noted, EyeLanes
<1> QED
  BY <1>1, FS_EmptySet

LEMMA NotedNext ==
    ASSUME NEW f, NEW k \in EyeLanes
    PROVE  Cardinality(Noted(f, k + 1)) =
             Cardinality(Noted(f, k)) + (IF f[k].active /\ f[k].done THEN 1 ELSE 0)
<1> DEFINE S == Noted(f, k)
<1>1. S \in SUBSET EyeLanes /\ k \notin S
  BY HwEyeAssumption DEF Noted, EyeLanes
<1>2. IsFiniteSet(S) /\ Cardinality(S) \in Nat
  BY <1>1, LanesFinite
<1>3. CASE f[k].active /\ f[k].done
  <2>1. Noted(f, k + 1) = S \cup {k}
    BY <1>3, HwEyeAssumption DEF Noted, EyeLanes
  <2> QED
    BY <2>1, <1>1, <1>2, <1>3, FS_AddElement
<1>4. CASE ~(f[k].active /\ f[k].done)
  <2>1. Noted(f, k + 1) = S
    BY <1>4, HwEyeAssumption DEF Noted, EyeLanes
  <2> QED
    BY <2>1, <1>2, <1>4
<1> QED
  BY <1>3, <1>4

(* What is noted below a lane depends on the lanes below it only. *)
LEMMA NotedSame ==
    ASSUME NEW f, NEW g, NEW k \in Int, \A l \in EyeLanes : l < k => f[l] = g[l]
    PROVE  Noted(f, k) = Noted(g, k)
BY DEF Noted

(* As many noted as active: all of them. *)
LEMMA AllNoted ==
    ASSUME NEW f, Cardinality(Noted(f, LastLane + 1)) >= Cardinality({l \in EyeLanes : f[l].active})
    PROVE  \A l \in EyeLanes : f[l].active => f[l].done
<1> DEFINE A == {l \in EyeLanes : f[l].active}
           N == Noted(f, LastLane + 1)
<1>1. A \in SUBSET EyeLanes /\ N \subseteq A
  BY DEF Noted
<1>2. IsFiniteSet(A) /\ Cardinality(A) \in Nat
  BY <1>1, LanesFinite
<1>3. Cardinality(N) \in Nat /\ Cardinality(N) <= Cardinality(A) /\ (Cardinality(N) = Cardinality(A) => N = A)
  BY <1>1, <1>2, LanesFinite, FS_Subset
<1>4. N = A
  <2> HIDE DEF N, A
  <2> QED BY <1>2, <1>3 DEF N, A
<1> QED
  BY <1>4 DEF Noted

(* Where a call goes: to the first lane of another one, or to its next lane. *)
Labels == {"idle", "look", "start", "poll", "get", "clean"}

LEMMA Enters ==
    ASSUME place \in Places, NEW pc \in Labels, Enter(pc)
    PROVE  /\ place' \in Places /\ place'.pc = pc /\ place'.lane = 0 /\ place'.count = 0
           /\ place'.polls = place.polls
<1>1. place' = [pc |-> pc, lane |-> 0, count |-> 0, polls |-> place.polls]
  BY DEF Enter, Places
<1>2. 0 \in EyeLanes /\ place.polls \in 0..Timeout
  BY HwEyeAssumption DEF EyeLanes, Places
<1> QED
  BY <1>1, <1>2 DEF Places, Labels

LEMMA Advances ==
    ASSUME place \in Places, place.lane # LastLane, place' = [place EXCEPT !.lane = @ + 1]
    PROVE  /\ place' \in Places /\ place'.pc = place.pc /\ place'.lane = place.lane + 1
           /\ place'.count = place.count /\ place'.polls = place.polls
<1>1. place.lane \in EyeLanes /\ place.lane + 1 \in EyeLanes
  BY HwEyeAssumption DEF EyeLanes, Places
<1>2. place' = [pc |-> place.pc, lane |-> place.lane + 1, count |-> place.count, polls |-> place.polls]
  BY DEF Places
<1> QED
  BY <1>1, <1>2 DEF Places

LEMMA GoesOn ==
    ASSUME place \in Places, NEW pc \in Labels, NextLane(pc)
    PROVE  /\ place' \in Places /\ place'.polls = place.polls
           /\ \/ /\ place.lane = LastLane /\ place'.pc = pc
                 /\ place'.lane = 0 /\ place'.count = 0
              \/ /\ place.lane # LastLane /\ place'.pc = place.pc
                 /\ place'.lane = place.lane + 1 /\ place'.count = place.count
<1>1. CASE place.lane = LastLane
  BY <1>1, Enters DEF NextLane
<1>2. CASE place.lane # LastLane
  BY <1>2, Advances DEF NextLane
<1> QED
  BY <1>1, <1>2

(* The initial state. *)
LEMMA InitHolds == HwEyeInit => HwEyeIInv
<1> SUFFICES ASSUME HwEyeInit PROVE HwEyeIInv
  OBVIOUS
<1> USE HwEyeAssumption DEF HwEyeInit
<1>1. HwEyeTypes
  <2>1. monitors \in [EyeLanes -> Eyes]
    BY DEF Eyes, NoEye
  <2>2. command \in 0..MaxCommands /\ shown \in [EyeLanes -> 0..MaxCommands]
    BY DEF NoEye
  <2>3. place \in Places
    BY DEF Places, Idle, EyeLanes
  <2>4. flags \in [EyeLanes -> Marks] /\ global \in BOOLEAN
    BY DEF NoFlags, Marks
  <2> QED
    BY <2>1, <2>2, <2>3, <2>4 DEF HwEyeTypes
<1>2. Restless
  BY DEF Restless, Resting
<1>3. Measured
  BY DEF Measured, NoFlags
<1>4. DoneCounted
  BY DEF DoneCounted, Idle, NoFlags
<1>5. OwnEyesShown
  BY DEF OwnEyesShown
<1> QED
  BY <1>1, <1>2, <1>3, <1>4, <1>5 DEF HwEyeIInv

(* A lane measures. *)
LEMMA MeasureKeeps ==
    ASSUME HwEyeIInv, NEW m \in EyeLanes, Measure(m)
    PROVE  HwEyeIInv'
<1> USE DEF HwEyeIInv, Measure
<1>1. HwEyeTypes'
  <2>1. monitors' \in [EyeLanes -> Eyes]
    BY DEF HwEyeTypes, Eyes
  <2> QED
    BY <2>1 DEF HwEyeTypes
<1>2. Restless'
  BY DEF Restless, Resting, Taken, HwEyeTypes, Eyes, Places, Marks
<1>3. Measured'
  BY DEF Measured, HwEyeTypes, Eyes, Marks, Places
<1>4. DoneCounted'
  BY DEF DoneCounted, Active, Noted
<1>5. OwnEyesShown'
  BY DEF OwnEyesShown
<1> QED
  BY <1>1, <1>2, <1>3, <1>4, <1>5

(* A command begins: the lanes are at rest. *)
LEMMA BeginKeeps ==
    ASSUME HwEyeIInv, Begin
    PROVE  HwEyeIInv'
<1> USE HwEyeAssumption DEF HwEyeIInv, Begin, Idle
<1>1. HwEyeTypes'
  <2>1. command' \in 0..MaxCommands /\ shown' \in [EyeLanes -> 0..MaxCommands]
    BY DEF HwEyeTypes, NoEye
  <2>2. place' \in Places
    BY DEF HwEyeTypes, Places, EyeLanes
  <2>3. flags' \in [EyeLanes -> Marks] /\ global' \in BOOLEAN
    BY DEF NoFlags, Marks
  <2> QED
    BY <2>1, <2>2, <2>3 DEF HwEyeTypes
<1>2. Restless'
  BY DEF Restless, Resting, Taken
<1>3. Measured'
  BY DEF Measured, NoFlags, HwEyeTypes, Eyes
<1>4. DoneCounted'
  BY DEF DoneCounted, NoFlags
<1>5. OwnEyesShown'
  BY DEF OwnEyesShown
<1> QED
  BY <1>1, <1>2, <1>3, <1>4, <1>5

(* The active lanes are found. *)
LEMMA LookKeeps ==
    ASSUME HwEyeIInv, Look
    PROVE  HwEyeIInv'
<1> USE HwEyeAssumption
<1>1. /\ place \in Places /\ place.pc = "look" /\ place.lane \in EyeLanes /\ place.count = 0 /\ place.polls = 0
      /\ ~global /\ flags \in [EyeLanes -> Marks] /\ \A l \in EyeLanes : ~flags[l].done
  BY DEF HwEyeIInv, HwEyeTypes, DoneCounted, Places, Look
<1>2. monitors' = monitors /\ command' = command /\ global' = global /\ shown' = shown
  BY DEF Look
<1>3. /\ failed' \subseteq Labels /\ failed \subseteq failed'
      /\ "clean" \in failed' => "clean" \in failed
  BY DEF HwEyeIInv, HwEyeTypes, Look, AccessWorks, AccessFails, Labels
<1>4. flags' \in [EyeLanes -> Marks] /\ \A l \in EyeLanes : ~flags'[l].done
  BY <1>1 DEF Look, Marks
<1>5. /\ place' \in Places /\ place'.polls = 0 /\ place'.count = 0
      /\ place'.pc \in {"look", "start", "poll", "clean"}
      /\ place'.pc \in {"start", "poll"} => place'.lane = 0
      /\ place'.pc = "poll" => 0 < Timeout
      /\ place'.pc \notin {"look", "start"} => "start" \in failed'
  <2>1. CASE NextLane("start")
    BY <2>1, <1>1, GoesOn DEF Labels
  <2>2. CASE Enter(AfterPoll(0, FALSE)) /\ AccessFails("start")
    BY <2>2, <1>1, Enters DEF Labels, AfterPoll, AccessFails
  <2> QED
    BY <2>1, <2>2 DEF Look
<1>6. HwEyeTypes'
  <2>1. monitors \in [EyeLanes -> Eyes] /\ command \in 0..MaxCommands /\ global \in BOOLEAN
    BY DEF HwEyeIInv, HwEyeTypes
  <2>2. shown \in [EyeLanes -> 0..MaxCommands]
    BY DEF HwEyeIInv, HwEyeTypes
  <2>3. failed' \subseteq {"start", "poll", "get", "clean"}
    BY DEF HwEyeIInv, HwEyeTypes, Look, AccessWorks, AccessFails
  <2> QED
    BY <2>1, <2>2, <2>3, <1>2, <1>4, <1>5 DEF HwEyeTypes
<1>7. Restless'
  BY <1>1, <1>2, <1>3 DEF HwEyeIInv, Restless, Taken
<1>8. Measured'
  BY <1>2, <1>3, <1>4, <1>5, <1>6 DEF HwEyeIInv, Measured, HwEyeTypes, Places, EyeLanes
<1>9. DoneCounted'
  <2>1. place'.pc = "poll" => place'.count = Cardinality(Noted(flags', place'.lane))
    BY <1>5, NotedNone
  <2> QED
    BY <2>1, <1>1, <1>2, <1>4, <1>5 DEF DoneCounted
<1>10. OwnEyesShown'
  BY <1>2, <1>3 DEF HwEyeIInv, OwnEyesShown
<1> QED
  BY <1>6, <1>7, <1>8, <1>9, <1>10 DEF HwEyeIInv

(* However far a lane was started, its eye is that of its last reset. *)
LEMMA LaneStarted ==
    ASSUME NEW h \in Eyes, h.done => h.eye = h.of, command \in 0..MaxCommands
    PROVE  /\ \A g \in {h, Unmask(h), Hold(h), Release(h), Restart(h)} :
                g \in Eyes /\ (g.done => g.eye = g.of)
           /\ Restart(h).of = command
<1>1. Unmask(h) \in Eyes
  BY DEF Unmask, Eyes
<1>2. Unmask(h).done = h.done /\ Unmask(h).eye = h.eye /\ Unmask(h).of = h.of
  BY DEF Unmask, Eyes
<1>3. Hold(h) \in Eyes /\ ~Hold(h).done
  BY <1>1 DEF Hold, Eyes
<1>4. Release(h) \in Eyes
  BY <1>3 DEF Release, Eyes
<1>5. ~Release(h).done /\ Release(h).of = command
  BY <1>3 DEF Release, Eyes
<1>6. Restart(h) \in Eyes
  BY <1>4 DEF Restart, Eyes
<1>7. ~Restart(h).done /\ Restart(h).of = command
  BY <1>4, <1>5 DEF Restart, Eyes
<1> QED
  BY <1>1, <1>2, <1>3, <1>4, <1>5, <1>6, <1>7

(* The active lanes are started. *)
LEMMA StartKeeps ==
    ASSUME HwEyeIInv, Start
    PROVE  HwEyeIInv'
<1> USE HwEyeAssumption
<1>1. /\ place \in Places /\ place.pc = "start" /\ place.lane \in EyeLanes /\ place.count = 0 /\ place.polls = 0
      /\ ~global /\ flags \in [EyeLanes -> Marks] /\ \A l \in EyeLanes : ~flags[l].done
  BY DEF HwEyeIInv, HwEyeTypes, DoneCounted, Places, Start
<1>2. monitors \in [EyeLanes -> Eyes] /\ command \in 0..MaxCommands /\ \A l \in EyeLanes : monitors[l].done => monitors[l].eye = monitors[l].of
  BY DEF HwEyeIInv, HwEyeTypes, Measured
<1>3. flags' = flags /\ command' = command /\ global' = global /\ shown' = shown
  BY DEF Start
<1>4. /\ failed' \subseteq Labels \ {"look", "idle"} /\ failed \subseteq failed'
      /\ "clean" \in failed' => "clean" \in failed
  BY DEF HwEyeIInv, HwEyeTypes, Start, AccessWorks, AccessFails, Labels
<1>5. PICK g \in Eyes :
        /\ monitors' = [monitors EXCEPT ![place.lane] = g]
        /\ g.done => g.eye = g.of
        /\ g = monitors[place.lane] \/ flags[place.lane].active
        /\ "start" \notin failed' /\ flags[place.lane].active => g.of = command
  <2> DEFINE h == monitors[place.lane]
  <2>1. h \in Eyes /\ (h.done => h.eye = h.of)
    BY <1>1, <1>2
  <2>2. CASE AccessWorks /\ flags[place.lane].active /\ monitors' = [monitors EXCEPT ![place.lane] = Restart(@)]
    <3>1. Restart(h) \in Eyes /\ (Restart(h).done => Restart(h).eye = Restart(h).of) /\ Restart(h).of = command
      BY <2>1, <1>2, LaneStarted
    <3> QED
      BY <3>1, <2>2
  <2>3. CASE ~flags[place.lane].active /\ monitors' = monitors
    BY <2>1, <2>3, <1>1, <1>2
  <2>4. CASE /\ flags[place.lane].active /\ AccessFails("start")
             /\ \E g \in {h, Unmask(h), Hold(h), Release(h), Restart(h)} : monitors' = [monitors EXCEPT ![place.lane] = g]
    <3>1. PICK g \in {h, Unmask(h), Hold(h), Release(h), Restart(h)} : monitors' = [monitors EXCEPT ![place.lane] = g]
      BY <2>4
    <3>2. g \in Eyes /\ (g.done => g.eye = g.of)
      BY <2>1, <1>2, LaneStarted
    <3> QED
      BY <3>1, <3>2, <2>4 DEF AccessFails
  <2> QED
    BY <2>2, <2>3, <2>4 DEF Start
<1>6. monitors' \in [EyeLanes -> Eyes] /\ monitors'[place.lane] = g /\ \A l \in EyeLanes : l # place.lane => monitors'[l] = monitors[l]
  BY <1>1, <1>2, <1>5
<1>7. /\ place' \in Places /\ place'.polls = 0 /\ place'.count = 0
      /\ \/ place'.pc = "start" /\ place'.lane = place.lane + 1
         \/ /\ place'.pc \in {"poll", "clean"} /\ place'.lane = 0
            /\ place.lane = LastLane \/ "start" \in failed'
      /\ place'.pc = "poll" => 0 < Timeout
  <2>1. CASE NextLane(AfterPoll(0, FALSE))
    <3>1. AfterPoll(0, FALSE) \in Labels /\ AfterPoll(0, FALSE) \in {"poll", "clean"}
      BY DEF AfterPoll, Labels
    <3>2. AfterPoll(0, FALSE) = "poll" => 0 < Timeout
      BY DEF AfterPoll
    <3> HIDE DEF AfterPoll
    <3> QED
      BY <3>1, <3>2, <2>1, <1>1, GoesOn
  <2>2. CASE Enter(AfterPoll(0, FALSE)) /\ AccessFails("start")
    BY <2>2, <1>1, Enters DEF Labels, AfterPoll, AccessFails
  <2> QED
    BY <2>1, <2>2 DEF Start
<1>8. HwEyeTypes'
  <2>1. shown \in [EyeLanes -> 0..MaxCommands] /\ global \in BOOLEAN
    BY DEF HwEyeIInv, HwEyeTypes
  <2> QED
    BY <2>1, <1>1, <1>2, <1>3, <1>4, <1>6, <1>7 DEF HwEyeTypes, Labels
<1>9. Restless'
  <2> SUFFICES ASSUME "clean" \notin failed', NEW l \in EyeLanes
               PROVE  Resting(monitors'[l]) \/ (flags'[l].active /\ Taken(l)')
    BY DEF Restless
  <2>1. Resting(monitors[l]) \/ (flags[l].active /\ l < place.lane)
    BY <1>1, <1>4 DEF HwEyeIInv, Restless, Taken
  <2>2. l \in Nat /\ place.lane \in Nat /\ l <= LastLane
    BY <1>1 DEF EyeLanes
  <2>3. l <= place.lane => Taken(l)'
    BY <2>2, <1>7 DEF Taken
  <2> QED
    BY <2>1, <2>2, <2>3, <1>3, <1>5, <1>6
<1>10. Measured'
  <2>1. \A l \in EyeLanes : monitors'[l].done => monitors'[l].eye = monitors'[l].of
    BY <1>2, <1>5, <1>6
  <2>2. ASSUME "start" \notin failed', NEW l \in EyeLanes, flags'[l].active
        PROVE  /\ flags'[l].done => monitors'[l].done
               /\ place'.pc \notin {"look", "start"} \/ (place'.pc = "start" /\ l < place'.lane) => monitors'[l].of = command'
    <3>1. l < place.lane => monitors[l].of = command
      BY <2>2, <1>1, <1>3, <1>4 DEF HwEyeIInv, Measured
    <3>2. l \in Nat /\ place.lane \in Nat /\ l <= LastLane
      BY <1>1 DEF EyeLanes
    <3>3. l <= place.lane => monitors'[l].of = command
      BY <3>1, <3>2, <2>2, <1>3, <1>5, <1>6
    <3> QED
      BY <3>2, <3>3, <2>2, <1>1, <1>3, <1>7
  <2> QED
    BY <2>1, <2>2 DEF Measured
<1>11. DoneCounted'
  <2>1. place'.pc = "poll" => place'.count = Cardinality(Noted(flags', place'.lane))
    BY <1>7, NotedNone
  <2> QED
    BY <2>1, <1>1, <1>3, <1>7 DEF DoneCounted
<1>12. OwnEyesShown'
  BY <1>3, <1>4 DEF HwEyeIInv, OwnEyesShown
<1> QED
  BY <1>8, <1>9, <1>10, <1>11, <1>12 DEF HwEyeIInv

(* The end of a poll. *)
LEMMA Ends ==
    ASSUME place \in Places, place.polls < Timeout, NEW done \in BOOLEAN, Polled(done)
    PROVE  /\ place' \in Places /\ place'.lane = 0 /\ place'.count = 0 /\ global' = done
           /\ place'.pc \in {"get", "poll", "clean"}
           /\ place'.pc = "get" => done
           /\ place'.pc = "poll" => ~done /\ place'.polls < Timeout
<1>1. place.polls \in 0..Timeout /\ place.polls + 1 \in 0..Timeout /\ 0 \in EyeLanes
  BY HwEyeAssumption DEF Places, EyeLanes
<1>2. /\ AfterPoll(place.polls + 1, done) \in {"get", "poll", "clean"}
      /\ AfterPoll(place.polls + 1, done) = "get" => done
      /\ AfterPoll(place.polls + 1, done) = "poll" => ~done /\ place.polls + 1 < Timeout
  BY DEF AfterPoll
<1>3. /\ place'.pc = AfterPoll(place.polls + 1, done) /\ place'.lane = 0 /\ place'.count = 0
      /\ place'.polls = place.polls + 1 /\ global' = done
  BY DEF Polled, Idle
<1>4. place' = [pc |-> AfterPoll(place.polls + 1, done), lane |-> 0, count |-> 0, polls |-> place.polls + 1]
  BY DEF Polled, Idle
<1> HIDE DEF AfterPoll
<1>5. place' \in Places
  BY <1>1, <1>2, <1>4 DEF Places
<1> QED
  BY <1>2, <1>3, <1>5

(* The active lanes are asked. *)
LEMMA PollKeeps ==
    ASSUME HwEyeIInv, Poll
    PROVE  HwEyeIInv'
<1> USE HwEyeAssumption
<1>1. /\ place \in Places /\ place.pc = "poll" /\ place.lane \in EyeLanes /\ place.polls < Timeout
      /\ place.count = Cardinality(Noted(flags, place.lane)) /\ global = FALSE
      /\ flags \in [EyeLanes -> Marks] /\ monitors \in [EyeLanes -> Eyes]
  BY DEF HwEyeIInv, HwEyeTypes, DoneCounted, Places, Poll
<1>2. monitors' = monitors /\ command' = command /\ shown' = shown
  BY DEF Poll
<1>3. /\ failed' \subseteq {"start", "poll", "get", "clean"} /\ failed \subseteq failed'
      /\ "clean" \in failed' => "clean" \in failed
  BY DEF HwEyeIInv, HwEyeTypes, Poll, AccessWorks, AccessFails
<1>4. /\ flags' \in [EyeLanes -> Marks]
      /\ \A l \in EyeLanes : flags'[l].active = flags[l].active
      /\ \A l \in EyeLanes : l # place.lane => flags'[l] = flags[l]
      /\ flags' = flags \/ (flags[place.lane].active => flags'[place.lane].done = monitors[place.lane].done)
  <2>1. CASE flags' = flags
    BY <2>1, <1>1
  <2>2. CASE flags' = [flags EXCEPT ![place.lane].done = IF flags[place.lane].active THEN monitors[place.lane].done ELSE @]
    <3>1. monitors[place.lane].done \in BOOLEAN /\ flags[place.lane] \in Marks
      BY <1>1 DEF Eyes
    <3>2. flags' \in [EyeLanes -> Marks]
      BY <3>1, <2>2, <1>1 DEF Marks
    <3>3. \A l \in EyeLanes : flags'[l].active = flags[l].active
      BY <2>2, <1>1 DEF Marks
    <3>4. \A l \in EyeLanes : l # place.lane => flags'[l] = flags[l]
      BY <2>2, <1>1
    <3>5. flags[place.lane].active => flags'[place.lane].done = monitors[place.lane].done
      BY <3>1, <2>2, <1>1 DEF Marks
    <3> QED
      BY <3>2, <3>3, <3>4, <3>5
  <2> QED
    BY <2>1, <2>2 DEF Poll
<1>5. \/ /\ place'.pc = "poll" /\ place.lane # LastLane /\ place' \in Places /\ place'.polls < Timeout
         /\ place'.count = Cardinality(Noted(flags', place'.lane)) /\ global' = FALSE
      \/ /\ place' \in Places /\ place'.lane = 0 /\ place'.count = 0
         /\ place'.pc \in {"get", "poll", "clean"} /\ global' \in BOOLEAN
         /\ place'.pc = "get" => global'
         /\ place'.pc = "poll" => ~global' /\ place'.polls < Timeout
         /\ global' => \A l \in EyeLanes : flags'[l].active => flags'[l].done
  <2>1. CASE /\ flags' = [flags EXCEPT ![place.lane].done = IF flags[place.lane].active THEN monitors[place.lane].done ELSE @]
             /\ IF place.lane = LastLane THEN Polled(CountDone >= Cardinality(Active))
                ELSE place' = [place EXCEPT !.lane = @ + 1, !.count = CountDone] /\ UNCHANGED global
    <3>1. Noted(flags, place.lane) = Noted(flags', place.lane)
      BY <1>1, <1>4 DEF Noted, EyeLanes
    <3>2. flags[place.lane].active => flags'[place.lane].done = monitors[place.lane].done
      BY <2>1, <1>1 DEF Marks, Eyes
    <3>3. CountDone = Cardinality(Noted(flags', place.lane + 1))
      BY <3>1, <3>2, <1>1, <1>4, NotedNext DEF CountDone
    <3>4. CASE place.lane = LastLane
      <4>1. Active = {l \in EyeLanes : flags'[l].active}
        BY <1>4 DEF Active
      <4>2. (CountDone >= Cardinality(Active)) => \A l \in EyeLanes : flags'[l].active => flags'[l].done
        BY <4>1, <3>3, <3>4, AllNoted
      <4>3. Polled(CountDone >= Cardinality(Active))
        BY <2>1, <3>4
      <4> DEFINE d == CountDone >= Cardinality(Active)
      <4>4. d \in BOOLEAN
        OBVIOUS
      <4>5. (d => \A l \in EyeLanes : flags'[l].active => flags'[l].done) /\ Polled(d)
        BY <4>2, <4>3
      <4> HIDE DEF d
      <4> QED
        BY <4>4, <4>5, <1>1, Ends
    <3>5. CASE place.lane # LastLane
      <4>1. place.lane + 1 \in EyeLanes
        BY <3>5, <1>1 DEF EyeLanes
      <4>2. CountDone \in Nat
        BY <3>3, LanesFinite DEF Noted
      <4>3. place' = [place EXCEPT !.lane = @ + 1, !.count = CountDone] /\ global' = global
        BY <2>1, <3>5
      <4> HIDE DEF CountDone
      <4>4. /\ place'.pc = "poll" /\ place'.lane = place.lane + 1 /\ place'.count = CountDone /\ place'.polls = place.polls
            /\ place' \in Places
        BY <4>1, <4>2, <4>3, <1>1 DEF Places
      <4> QED
        BY <4>3, <4>4, <3>3, <3>5, <1>1
    <3> QED
      BY <3>4, <3>5
  <2>2. CASE Polled(global) /\ flags' = flags
    BY <2>2, <1>1, Ends
  <2> QED
    BY <2>1, <2>2 DEF Poll
<1>6. HwEyeTypes'
  <2>1. command \in 0..MaxCommands /\ shown \in [EyeLanes -> 0..MaxCommands]
    BY DEF HwEyeIInv, HwEyeTypes
  <2>2. global' \in BOOLEAN /\ place' \in Places
    BY <1>5
  <2> QED
    BY <2>1, <2>2, <1>1, <1>2, <1>3, <1>4 DEF HwEyeTypes
<1>7. Restless'
  <2> SUFFICES ASSUME "clean" \notin failed', NEW l \in EyeLanes
               PROVE  Resting(monitors[l]) \/ (flags[l].active /\ Taken(l)')
    BY <1>2, <1>4 DEF Restless
  <2>1. Resting(monitors[l]) \/ flags[l].active
    BY <1>3 DEF HwEyeIInv, Restless
  <2>2. Taken(l)'
    BY <1>5 DEF Taken, EyeLanes
  <2> QED
    BY <2>1, <2>2
<1>8. Measured'
  <2>1. \A l \in EyeLanes : monitors'[l].done => monitors'[l].eye = monitors'[l].of
    BY <1>2 DEF HwEyeIInv, Measured
  <2>2. ASSUME "start" \notin failed', NEW l \in EyeLanes, flags'[l].active
        PROVE  (flags'[l].done => monitors'[l].done) /\ monitors'[l].of = command'
    <3>1. flags[l].active /\ "start" \notin failed
      BY <2>2, <1>3, <1>4
    <3>2. (flags[l].done => monitors[l].done) /\ monitors[l].of = command
      BY <3>1, <1>1 DEF HwEyeIInv, Measured
    <3> QED
      BY <3>1, <3>2, <1>2, <1>4
  <2> QED
    BY <2>1, <2>2 DEF Measured
<1>9. DoneCounted'
  <2>1. place'.pc = "poll" => place'.count = Cardinality(Noted(flags', place'.lane))
    BY <1>5, NotedNone
  <2> QED
    BY <2>1, <1>5 DEF DoneCounted, Active
<1>10. OwnEyesShown'
  BY <1>2, <1>3 DEF HwEyeIInv, OwnEyesShown
<1> QED
  BY <1>6, <1>7, <1>8, <1>9, <1>10 DEF HwEyeIInv

(* The eyes are read: all active lanes are done, for this command. *)
LEMMA GetKeeps ==
    ASSUME HwEyeIInv, Get
    PROVE  HwEyeIInv'
<1> USE HwEyeAssumption
<1>1. /\ place \in Places /\ place.pc = "get" /\ place.lane \in EyeLanes /\ place.count = 0 /\ global = TRUE
      /\ flags \in [EyeLanes -> Marks] /\ monitors \in [EyeLanes -> Eyes]
      /\ command \in 0..MaxCommands /\ shown \in [EyeLanes -> 0..MaxCommands]
  BY DEF HwEyeIInv, HwEyeTypes, DoneCounted, Places, Get
<1>2. monitors' = monitors /\ command' = command /\ flags' = flags /\ global' = global
  BY DEF Get
<1>3. /\ failed' \subseteq {"start", "poll", "get", "clean"} /\ failed \subseteq failed'
      /\ "clean" \in failed' => "clean" \in failed
  BY DEF HwEyeIInv, HwEyeTypes, Get, AccessWorks, AccessFails
<1>4. place' \in Places /\ place'.count = 0 /\ (place'.pc = "get" \/ (place'.pc = "clean" /\ place'.lane = 0))
  <2>1. CASE NextLane("clean")
    BY <2>1, <1>1, GoesOn DEF Labels
  <2>2. CASE Enter("clean")
    BY <2>2, <1>1, Enters DEF Labels
  <2> QED
    BY <2>1, <2>2 DEF Get
<1>5. shown' = shown \/ (flags[place.lane].active /\ shown' = [shown EXCEPT ![place.lane] = monitors[place.lane].eye])
  BY DEF Get
<1>6. HwEyeTypes'
  <2>1. monitors[place.lane].eye \in 0..MaxCommands
    BY <1>1 DEF Eyes
  <2>2. shown' \in [EyeLanes -> 0..MaxCommands]
    BY <2>1, <1>1, <1>5
  <2> QED
    BY <2>2, <1>1, <1>2, <1>3, <1>4 DEF HwEyeTypes
<1>7. Restless'
  <2> SUFFICES ASSUME "clean" \notin failed', NEW l \in EyeLanes
               PROVE  Resting(monitors[l]) \/ (flags[l].active /\ Taken(l)')
    BY <1>2 DEF Restless
  <2>1. Resting(monitors[l]) \/ flags[l].active
    BY <1>3 DEF HwEyeIInv, Restless
  <2>2. Taken(l)'
    BY <1>4 DEF Taken, EyeLanes
  <2> QED
    BY <2>1, <2>2
<1>8. Measured'
  <2>1. \A l \in EyeLanes : monitors'[l].done => monitors'[l].eye = monitors'[l].of
    BY <1>2 DEF HwEyeIInv, Measured
  <2>2. ASSUME "start" \notin failed', NEW l \in EyeLanes, flags'[l].active
        PROVE  (flags'[l].done => monitors'[l].done) /\ monitors'[l].of = command'
    BY <2>2, <1>1, <1>2, <1>3 DEF HwEyeIInv, Measured
  <2> QED
    BY <2>1, <2>2 DEF Measured
<1>9. DoneCounted'
  BY <1>1, <1>2, <1>4 DEF HwEyeIInv, DoneCounted, Active
<1>10. OwnEyesShown'
  <2> SUFFICES ASSUME "start" \notin failed', NEW l \in EyeLanes
               PROVE  shown'[l] \in {NoEye, command}
    BY <1>2 DEF OwnEyesShown
  <2>1. shown[l] \in {NoEye, command}
    BY <1>3 DEF HwEyeIInv, OwnEyesShown
  <2>2. flags[place.lane].active => monitors[place.lane].eye = command
    BY <1>1, <1>3 DEF HwEyeIInv, Measured, DoneCounted, Active
  <2> QED
    BY <2>1, <2>2, <1>1, <1>5
<1> QED
  BY <1>6, <1>7, <1>8, <1>9, <1>10 DEF HwEyeIInv

(* The lanes are cleaned up. *)
LEMMA CleanKeeps ==
    ASSUME HwEyeIInv, Clean
    PROVE  HwEyeIInv'
<1> USE HwEyeAssumption
<1>1. /\ place \in Places /\ place.pc = "clean" /\ place.lane \in EyeLanes /\ place.count = 0
      /\ flags \in [EyeLanes -> Marks] /\ monitors \in [EyeLanes -> Eyes]
  BY DEF HwEyeIInv, HwEyeTypes, DoneCounted, Places, Clean
<1>2. flags' = flags /\ command' = command /\ global' = global /\ shown' = shown
  BY DEF Clean
<1>3. failed' \subseteq {"start", "poll", "get", "clean"} /\ failed \subseteq failed'
  BY DEF HwEyeIInv, HwEyeTypes, Clean, AccessWorks, AccessFails
<1>4. PICK g \in Eyes :
        /\ monitors' = [monitors EXCEPT ![place.lane] = g]
        /\ g.done = monitors[place.lane].done /\ g.eye = monitors[place.lane].eye /\ g.of = monitors[place.lane].of
        /\ Resting(monitors[place.lane]) => Resting(g)
        /\ "clean" \notin failed' => Resting(g) \/ ~flags[place.lane].active
  <2> DEFINE h == monitors[place.lane]
  <2>1. h \in Eyes
    BY <1>1
  <2>2. Quiet(h) \in Eyes
    BY <2>1 DEF Quiet, Eyes
  <2>3. Quiet(h).done = h.done /\ Quiet(h).eye = h.eye /\ Quiet(h).of = h.of /\ Resting(Quiet(h))
    BY <2>1 DEF Quiet, Eyes, Resting
  <2>4. [h EXCEPT !.going = FALSE] \in Eyes
    BY <2>1 DEF Eyes
  <2>5. /\ [h EXCEPT !.going = FALSE].done = h.done /\ [h EXCEPT !.going = FALSE].eye = h.eye
        /\ [h EXCEPT !.going = FALSE].of = h.of
        /\ Resting(h) => Resting([h EXCEPT !.going = FALSE])
    BY <2>1 DEF Eyes, Resting
  <2>6. CASE AccessWorks /\ monitors' = IF flags[place.lane].active THEN [monitors EXCEPT ![place.lane] = Quiet(@)] ELSE monitors
    <3>1. CASE flags[place.lane].active
      BY <3>1, <2>2, <2>3, <2>6
    <3>2. CASE ~flags[place.lane].active
      BY <3>2, <2>1, <2>6, <1>1
    <3> QED
      BY <3>1, <3>2
  <2>7. CASE AccessFails("clean") /\ \E g \in {h, [h EXCEPT !.going = FALSE], Quiet(h)} : monitors' = [monitors EXCEPT ![place.lane] = g]
    <3>1. "clean" \in failed'
      BY <2>7 DEF AccessFails
    <3>2. PICK g \in {h, [h EXCEPT !.going = FALSE], Quiet(h)} : monitors' = [monitors EXCEPT ![place.lane] = g]
      BY <2>7
    <3> HIDE DEF h
    <3> QED
      BY <3>1, <3>2, <2>1, <2>2, <2>3, <2>4, <2>5 DEF h
  <2> QED
    BY <2>6, <2>7 DEF Clean
<1>5. monitors' \in [EyeLanes -> Eyes] /\ monitors'[place.lane] = g /\ \A l \in EyeLanes : l # place.lane => monitors'[l] = monitors[l]
  BY <1>1, <1>4
<1>6. /\ place' \in Places /\ place'.count = 0
      /\ \/ place'.pc = "clean" /\ place'.lane = place.lane + 1
         \/ place'.pc = "idle" /\ (place.lane = LastLane \/ "clean" \in failed')
  <2>1. CASE place' = Idle /\ (place.lane = LastLane \/ "clean" \in failed')
    <3>1. 0 \in EyeLanes /\ 0 \in 0..Timeout
      BY DEF EyeLanes
    <3> QED
      BY <2>1, <3>1 DEF Idle, Places
  <2>2. CASE place.lane # LastLane /\ place' = [place EXCEPT !.lane = @ + 1]
    BY <2>2, <1>1, Advances
  <2> QED
    BY <2>1, <2>2 DEF Clean, AccessFails
<1>7. HwEyeTypes'
  <2>1. command \in 0..MaxCommands /\ shown \in [EyeLanes -> 0..MaxCommands] /\ global \in BOOLEAN
    BY DEF HwEyeIInv, HwEyeTypes
  <2> QED
    BY <2>1, <1>1, <1>2, <1>3, <1>5, <1>6 DEF HwEyeTypes
<1>8. Restless'
  <2> SUFFICES ASSUME "clean" \notin failed', NEW l \in EyeLanes
               PROVE  Resting(monitors'[l]) \/ (flags[l].active /\ Taken(l)')
    BY <1>2 DEF Restless
  <2>1. Resting(monitors[l]) \/ (flags[l].active /\ place.lane <= l)
    BY <1>1, <1>3 DEF HwEyeIInv, Restless, Taken
  <2>2. l \in Nat /\ place.lane \in Nat /\ l <= LastLane
    BY <1>1 DEF EyeLanes
  <2>3. CASE l = place.lane
    BY <2>1, <2>3, <1>4, <1>5
  <2>4. CASE l # place.lane
    <3>1. place.lane <= l => Taken(l)'
      BY <2>2, <2>4, <1>6 DEF Taken
    <3> QED
      BY <3>1, <2>1, <2>4, <1>5
  <2> QED
    BY <2>3, <2>4
<1>9. Measured'
  <2>1. \A l \in EyeLanes : monitors'[l].done = monitors[l].done /\ monitors'[l].eye = monitors[l].eye /\ monitors'[l].of = monitors[l].of
    BY <1>4, <1>5
  <2>2. ASSUME "start" \notin failed', NEW l \in EyeLanes, flags'[l].active
        PROVE  (flags'[l].done => monitors'[l].done) /\ monitors'[l].of = command'
    BY <2>1, <2>2, <1>1, <1>2, <1>3 DEF HwEyeIInv, Measured
  <2>3. \A l \in EyeLanes : monitors'[l].done => monitors'[l].eye = monitors'[l].of
    BY <2>1 DEF HwEyeIInv, Measured
  <2> QED
    BY <2>2, <2>3 DEF Measured
<1>10. DoneCounted'
  BY <1>2, <1>6 DEF HwEyeIInv, DoneCounted, Active
<1>11. OwnEyesShown'
  BY <1>2, <1>3 DEF HwEyeIInv, OwnEyesShown
<1> QED
  BY <1>7, <1>8, <1>9, <1>10, <1>11 DEF HwEyeIInv

-----------------------------------------------------------------------------
(* The steps keep the invariant. *)
LEMMA StepKeeps == HwEyeIInv /\ [HwEyeNext]_hwEyeVars => HwEyeIInv'
<1> SUFFICES ASSUME HwEyeIInv, [HwEyeNext]_hwEyeVars PROVE HwEyeIInv'
  OBVIOUS
<1>1. CASE UNCHANGED hwEyeVars
  BY <1>1 DEF hwEyeVars, HwEyeIInv, HwEyeTypes, Restless, Taken, Measured, DoneCounted, Active, Noted, OwnEyesShown
<1>2. CASE Begin
  BY <1>2, BeginKeeps
<1>3. CASE Look
  BY <1>3, LookKeeps
<1>4. CASE Start
  BY <1>4, StartKeeps
<1>5. CASE Poll
  BY <1>5, PollKeeps
<1>6. CASE Get
  BY <1>6, GetKeeps
<1>7. CASE Clean
  BY <1>7, CleanKeeps
<1>8. CASE \E l \in EyeLanes : Measure(l)
  BY <1>8, MeasureKeeps
<1> QED
  BY <1>1, <1>2, <1>3, <1>4, <1>5, <1>6, <1>7, <1>8 DEF HwEyeNext, Program

(* The inductive invariant holds in every reachable state. *)
THEOREM HwEyeInvariance == HwEyeSpec => []HwEyeIInv
<1> QED
  BY InitHolds, StepKeeps, PTL DEF HwEyeSpec

(* The variables of the commands stay in their types; the lanes counted as done
   are never more than the active ones, and a command polls no more often than it
   was told. *)
THEOREM HwEyeTypeCorrect == HwEyeSpec => []TypeInv
<1>1. HwEyeIInv => TypeInv
  <2> SUFFICES ASSUME HwEyeIInv PROVE TypeInv
    OBVIOUS
  <2>1. Active \in SUBSET EyeLanes
    BY DEF Active
  <2>2. IsFiniteSet(Active) /\ Cardinality(Active) \in Nat
    BY <2>1, LanesFinite
  <2>3. Noted(flags, place.lane) \subseteq Active
    BY DEF Noted, Active
  <2>4. place.count = 0 \/ place.count = Cardinality(Noted(flags, place.lane))
    BY DEF HwEyeIInv, DoneCounted
  <2>5. place.count <= Cardinality(Active)
    BY <2>2, <2>3, <2>4, FS_Subset
  <2>6. place \in [pc : {"idle", "look", "start", "poll", "get", "clean"}, lane : EyeLanes,
                count : 0..Cardinality(Active), polls : 0..Timeout]
    BY <2>2, <2>5 DEF HwEyeIInv, HwEyeTypes, Places
  <2> QED
    BY <2>6 DEF HwEyeIInv, HwEyeTypes, Eyes, Marks, TypeInv
<1> QED
  BY <1>1, HwEyeInvariance, PTL

(* A command whose Start did not fail shows only eyes that were measured for it,
   whatever an earlier command, a poll or a clean-up left behind. *)
THEOREM EyesAreRight == HwEyeSpec => []EyesAreOfThisCommand
<1>1. HwEyeIInv => EyesAreOfThisCommand
  <2> SUFFICES ASSUME HwEyeIInv, "start" \notin failed PROVE
               /\ \A l \in EyeLanes : shown[l] \in {NoEye, command}
               /\ place.pc \in {"get", "idle"} /\ global => \A l \in Active : monitors[l].eye = command
    BY DEF EyesAreOfThisCommand
  <2>1. \A l \in EyeLanes : shown[l] \in {NoEye, command}
    BY DEF HwEyeIInv, OwnEyesShown
  <2>2. ASSUME place.pc \in {"get", "idle"}, global, NEW l \in Active PROVE monitors[l].eye = command
    <3>1. l \in EyeLanes /\ flags[l].active /\ flags[l].done
      BY <2>2 DEF HwEyeIInv, DoneCounted, Active
    <3> QED
      BY <2>2, <3>1 DEF HwEyeIInv, Measured
  <2> QED
    BY <2>1, <2>2
<1> QED
  BY <1>1, HwEyeInvariance, PTL

(* Unless a clean-up failed, a command leaves every lane at rest, however far its
   Start had come and whatever failed after it. *)
THEOREM LanesQuiet == HwEyeSpec => []LanesLeftQuiet
<1>1. HwEyeIInv => LanesLeftQuiet
  BY DEF HwEyeIInv, Restless, Taken, Resting, LanesLeftQuiet
<1> QED
  BY <1>1, HwEyeInvariance, PTL
=============================================================================
