------------------------ MODULE AladinCapture_proofs ------------------------
(***************************************************************************)
(* Proofs about AladinCapture, for every number of ports and entries,      *)
(* every size of the RAM and every number of records, polls and failing    *)
(* accesses: a recorder's RAM is the end of its log, the file holds the    *)
(* newest records in order, each bus shows the module it was given, and a  *)
(* recorder is stopped only when the trace was asked to.                   *)
(***************************************************************************)
EXTENDS AladinCapture, SequenceTheorems, FiniteSetTheorems, TLAPS

(* Records and entries as they may be; the types of the state. *)
States  == LinkStates \cup {"none", "blank", "zero", "stale"}
Records == [kind : {"value", "full", "more"}, port : Int, state : States]
Entries == [port : Int, state : States, time : Nat]
Recorders == [running : BOOLEAN, triggered : BOOLEAN, sel : Int, ram : [Cells -> Records],
              ptr : Cells, wrap : BOOLEAN]
Outcomes == {"success", "failed", "retry", "file", "invalid port", "in progress", "none", "triggered"}
Calls == [pc : Pcs, op : {"none", "trace", "poll", "stop", "dump", "configure"}, at : Int, port : Int,
          polls : Nat, then : {"idle", "polled", "looked", "open", "second"}, status : Outcomes,
          triggered : BOOLEAN, wrap : BOOLEAN, cur : Cells, depth : Nat, n : Nat, prev : Records,
          entries : Seq(Entries), clean : BOOLEAN, modules : {<<>>} \cup (Named \X Named)]
Bounds == [calls : Nat, records : Nat, polls : Nat, faults : Nat, modules : SUBSET Named]

TypeOK ==
    /\ rec \in [Stations -> Recorders]
    /\ log \in [Stations -> Seq(Records)]
    /\ config \in Stations \cup {0, Nowhere}
    /\ call \in Calls
    /\ left \in Bounds

(* Place k of a ring that begins at a cell. *)
Around(start, k) == IF start + k < RamSize THEN start + k ELSE start + k - RamSize

(* The RAM of a recorder holds the newest records it wrote: from its beginning, or
   from the pointer round and round. *)
HoldsLog(r, l) ==
    IF r.wrap
    THEN Len(l) >= RamSize /\ \A k \in Cells : r.ram[Around(r.ptr, k)] = l[Len(l) - RamSize + 1 + k]
    ELSE r.ptr = Len(l) /\ \A k \in 1..Len(l) : r.ram[k - 1] = l[k]
RamHoldsLog == \A s \in Stations : HoldsLog(rec[s], log[s])

(* What follows a full counter is a value. *)
Grammatical(l) == \A j \in 1..(Len(l) - 1) : l[j].kind = "full" => l[j + 1].kind = "value"
LogsGrammatical == \A s \in Stations : Grammatical(log[s])

(* A trace is of its port, from the start of the capture on. *)
Reading == {"open", "wrap", "pointer", "cells"}
Tracing == {"poll", "polled", "look", "looked", "stop"} \cup Reading
OfPort(l, p) == \A j \in 1..Len(l) : l[j].kind = "value" => l[j].port = p
TraceOfPort ==
    call.op = "trace" =>
        /\ call.pc # "idle" => call.at \in Stations /\ call.port \in Ports
        /\ call.pc = "start" /\ call.status = "success" => rec[call.at].sel = call.port
        /\ call.pc \in Tracing => rec[call.at].sel = call.port /\ OfPort(log[call.at], call.port)

(* While it is selected and started, a recorder stands still; and so it does, unless
   the write that stops it failed, from the stop of a trace on; a dump looks whether
   it does. *)
Still(s) == s \in Stations /\ ~rec[s].running
StandsStill ==
    /\ call.op = "trace" /\ call.pc \in {"select", "start"} => Still(call.at)
    /\ call.op = "trace" /\ call.pc \in {"polled", "looked"} /\ call.triggered /\ call.clean => Still(call.at)
    /\ call.op = "trace" /\ call.pc \in Reading /\ call.clean => Still(call.at)
    /\ call.pc \in {"pointer", "cells"} /\ call.clean => Still(call.at)

(* The steps that each command takes. *)
Paths ==
    /\ call.pc \in {"first", "second"} => call.op = "poll"
    /\ call.pc \in {"check", "poll", "polled", "look", "looked"} => call.op = "trace"
    /\ call.pc \in {"select", "start"} => call.op \in {"trace", "configure"}
    /\ call.pc \in Reading => call.op \in {"trace", "dump"}
    /\ call.pc = "stop" => call.op \in {"trace", "poll", "stop"}
    /\ call.pc = "stop" /\ call.op = "trace" => call.then \in {"polled", "looked", "open"}
    /\ call.pc = "stop" /\ call.op = "poll" => call.then = "second"

(* The values among the first n records, how many of them there are up to the ith
   record, and how long the ith lasted by then. *)
Values(l, n)  == {i \in 1..n : l[i].kind = "value"}
Place(l, i)   == Cardinality(Values(l, i))
More(l, n, i) == {j \in (i + 1)..n : \A k \in (i + 1)..j : l[k].kind # "value"}
Lasts(l, n, i) == IF \E j \in More(l, n, i) : l[j].kind = "full" THEN Full ELSE 1 + Cardinality(More(l, n, i))

(* Entries that show the first n records. *)
Shows(l, n, entries) ==
    /\ Len(entries) = Place(l, n)
    /\ \A i \in Values(l, n) :
          entries[Place(l, i)] = [port |-> l[i].port, state |-> l[i].state, time |-> Lasts(l, n, i)]
    /\ n > 0 => \E v \in Values(l, n) : \A k \in (v + 1)..n : l[k].kind # "value"

(* The first Polling.Active among the entries, if there is one. *)
Pollings(entries) == {i \in 1..Len(entries) : entries[i].state = "polling"}
HasFirst(entries) == Pollings(entries) # {} => \E m \in Pollings(entries) : \A j \in Pollings(entries) : m <= j

(* A read-out without a failing access has come to cell n of what is in the RAM. *)
Start(r) == IF r.wrap THEN r.ptr ELSE 0
ReadsRam ==
    /\ call.pc \in {"pointer", "cells"} /\ call.clean => call.wrap = rec[call.at].wrap
    /\ call.pc = "cells" => HasFirst(call.entries)
    /\ call.pc = "cells" /\ call.clean =>
          LET r == rec[call.at]
              l == Kept(log[call.at])
          IN  /\ call.depth = Len(l) /\ call.n <= call.depth
              /\ call.cur = Around(Start(r), call.n)
              /\ Shows(l, call.n, call.entries)

(* Nothing is in the read-out before it begins. *)
Fresh == call.pc \in {"idle", "check", "select", "start", "first"} \cup (Tracing \ {"cells"}) => call.n = 0 /\ call.entries = <<>>
(* A configuration names two modules. *)
NamesTwo == call.pc = "select" /\ call.op = "configure" => call.modules \in Named \X Named

CallInv == TraceOfPort /\ StandsStill /\ Paths /\ ReadsRam /\ Fresh /\ NamesTwo

IInv == TypeOK /\ RamHoldsLog /\ LogsGrammatical /\ CallInv /\ TraceIsCapture

-----------------------------------------------------------------------------
(* The ring *)

(* The next cell is the next one, or the first after the last. *)
LEMMA Modulo == ASSUME NEW a \in Nat, NEW b \in Nat \ {0}, a <= b PROVE a % b = IF a = b THEN 0 ELSE a
  OBVIOUS

LEMMA CellsNext ==
    ASSUME NEW c \in Cells
    PROVE  NextCell(c) = (IF c = RamSize - 1 THEN 0 ELSE c + 1) /\ NextCell(c) \in Cells
<1>1. RamSize \in Nat \ {0} /\ c \in Nat /\ c + 1 \in Nat /\ c + 1 <= RamSize
  BY CaptureAssumption DEF Cells
<1>2. (c + 1) % RamSize = IF c + 1 = RamSize THEN 0 ELSE c + 1
  BY <1>1, Modulo
<1> QED
  BY <1>1, <1>2 DEF NextCell, Cells

(* One place further in a ring that begins at a cell. *)
LEMMA AroundStep ==
    ASSUME NEW p \in Cells, NEW k \in Cells
    PROVE  Around(p, k) \in Cells /\ Around(p, k + 1) = NextCell(Around(p, k))
<1>1. RamSize \in Nat \ {0} /\ p \in 0..(RamSize - 1) /\ k \in 0..(RamSize - 1)
  BY CaptureAssumption DEF Cells
<1>2. Around(p, k) \in Cells
  BY <1>1 DEF Around, Cells
<1> QED
  BY <1>1, <1>2, CellsNext DEF Around, Cells

LEMMA AroundNext ==
    ASSUME NEW p \in Cells, NEW k \in Cells, k # RamSize - 1
    PROVE  /\ k + 1 \in Cells
           /\ Around(NextCell(p), k) = Around(p, k + 1)
           /\ Around(p, k + 1) \in Cells /\ Around(p, k + 1) # p
<1>1. RamSize \in Nat \ {0} /\ p \in 0..(RamSize - 1) /\ k \in 0..(RamSize - 2) /\ k + 1 \in 0..(RamSize - 1)
  BY CaptureAssumption DEF Cells
<1>2. Around(NextCell(p), k) = Around(p, k + 1)
  BY <1>1, CellsNext DEF Around, Cells
<1> QED
  BY <1>1, <1>2 DEF Around, Cells

(* A recorder that was started holds its empty log. *)
LEMMA HoldsNothing ==
    ASSUME NEW r, r.wrap = FALSE, r.ptr = 0
    PROVE  HoldsLog(r, <<>>)
  BY DEF HoldsLog

(* One more record in the RAM is one more in the log. *)
LEMMA HoldsOneMore ==
    ASSUME NEW l \in Seq(Records), NEW x \in Records, NEW r, NEW q,
           r.ram \in [Cells -> Records], r.ptr \in Cells, r.wrap \in BOOLEAN, HoldsLog(r, l),
           q.ram = [r.ram EXCEPT ![r.ptr] = x], q.ptr = NextCell(r.ptr),
           q.wrap = (r.wrap \/ r.ptr = RamSize - 1)
    PROVE  HoldsLog(q, Append(l, x))
<1> DEFINE m == Append(l, x)
<1>1. Len(m) = Len(l) + 1 /\ m[Len(l) + 1] = x /\ \A i \in 1..Len(l) : m[i] = l[i]
  BY AppendProperties
<1>2. Len(l) \in Nat /\ RamSize \in Nat \ {0} /\ r.ptr \in 0..(RamSize - 1)
  BY LenProperties, CaptureAssumption DEF Cells
<1>3. q.ptr = IF r.ptr = RamSize - 1 THEN 0 ELSE r.ptr + 1
  BY CellsNext
<1>4. \A c \in Cells : q.ram[c] = IF c = r.ptr THEN x ELSE r.ram[c]
  OBVIOUS
<1> HIDE DEF m
<1>5. CASE r.wrap
  <2>1. Len(l) >= RamSize /\ \A k \in Cells : r.ram[Around(r.ptr, k)] = l[Len(l) - RamSize + 1 + k]
    BY <1>5 DEF HoldsLog
  <2>2. ASSUME NEW k \in Cells, k # RamSize - 1
        PROVE  q.ram[Around(q.ptr, k)] = m[Len(m) - RamSize + 1 + k]
    <3>1. k + 1 \in Cells /\ Around(q.ptr, k) = Around(r.ptr, k + 1)
      BY <2>2, AroundNext
    <3>2. Around(r.ptr, k + 1) \in Cells /\ Around(r.ptr, k + 1) # r.ptr
      BY <2>2, AroundNext
    <3>3. r.ram[Around(r.ptr, k + 1)] = l[Len(l) - RamSize + 1 + (k + 1)]
      BY <3>1, <2>1
    <3>4. Len(l) - RamSize + 1 + (k + 1) \in 1..Len(l)
      BY <1>2, <2>1, <2>2 DEF Cells
    <3>5. Len(m) - RamSize + 1 + k = Len(l) - RamSize + 1 + (k + 1)
      BY <1>1, <1>2 DEF Cells
    <3> QED
      BY <3>1, <3>2, <3>3, <3>4, <3>5, <1>1, <1>4
  <2>3. q.ram[Around(q.ptr, RamSize - 1)] = m[Len(m) - RamSize + 1 + (RamSize - 1)]
    <3>1. Around(q.ptr, RamSize - 1) = r.ptr
      BY <1>2, <1>3 DEF Around
    <3>2. Len(m) - RamSize + 1 + (RamSize - 1) = Len(l) + 1
      BY <1>1, <1>2
    <3> QED
      BY <3>1, <3>2, <1>1, <1>4
  <2>4. Len(m) >= RamSize
    BY <1>1, <1>2, <2>1
  <2> QED
    BY <2>2, <2>3, <2>4, <1>5 DEF HoldsLog, m
<1>6. CASE ~r.wrap
  <2>1. r.ptr = Len(l) /\ \A k \in 1..Len(l) : r.ram[k - 1] = l[k]
    BY <1>6 DEF HoldsLog
  <2>2. ASSUME NEW k \in 1..Len(m) PROVE q.ram[k - 1] = m[k]
    <3>1. CASE k = Len(l) + 1
      BY <3>1, <2>1, <1>1, <1>2, <1>4
    <3>2. CASE k # Len(l) + 1
      <4>1. k \in 1..Len(l) /\ k - 1 \in Cells /\ k - 1 # r.ptr
        BY <3>2, <2>1, <1>1, <1>2 DEF Cells
      <4> QED
        BY <4>1, <2>1, <1>1, <1>4
    <3> QED
      BY <3>1, <3>2
  <2>3. CASE r.ptr = RamSize - 1
    <3>1. Len(m) = RamSize /\ q.ptr = 0
      BY <2>3, <2>1, <1>1, <1>2, <1>3
    <3>9. q.wrap
      BY <2>3, Zenon
    <3>2. ASSUME NEW k \in Cells PROVE q.ram[Around(q.ptr, k)] = m[Len(m) - RamSize + 1 + k]
      <4>1. Around(q.ptr, k) = k /\ k + 1 \in 1..Len(m) /\ Len(m) - RamSize + 1 + k = k + 1 /\ (k + 1) - 1 = k
        BY <3>1, <1>2 DEF Around, Cells
      <4> QED
        BY <4>1, <2>2
    <3>3. Len(m) >= RamSize
      BY <3>1, <1>2
    <3>4. HoldsLog(q, m)
      BY <3>2, <3>3, <3>9 DEF HoldsLog
    <3> QED
      BY <3>4 DEF m
  <2>4. CASE r.ptr # RamSize - 1
    <3>1. q.ptr = Len(m) /\ ~q.wrap
      BY <2>4, <2>1, <1>1, <1>2, <1>3, <1>6
    <3> QED
      BY <3>1, <2>2 DEF HoldsLog, m
  <2> QED
    BY <2>3, <2>4
<1> QED
  BY <1>5, <1>6

(* The newest records of a log, as many as the RAM holds. *)
LEMMA KeptRecords ==
    ASSUME NEW l \in Seq(Records)
    PROVE  /\ Kept(l) \in Seq(Records)
           /\ Len(Kept(l)) = IF Len(l) <= RamSize THEN Len(l) ELSE RamSize
           /\ \A k \in 1..Len(Kept(l)) : Kept(l)[k] = l[Len(l) - Len(Kept(l)) + k]
<1>1. Len(l) \in Nat /\ RamSize \in Nat \ {0}
  BY LenProperties, CaptureAssumption
<1>2. CASE Len(l) <= RamSize
  BY <1>1, <1>2 DEF Kept
<1>3. CASE ~(Len(l) <= RamSize)
  <2> DEFINE f == Len(l) - RamSize + 1
  <2>1. f \in 1..Len(l) + 1 /\ Len(l) - f + 1 = RamSize /\ f <= Len(l) /\ f \in Int
    BY <1>1, <1>3
  <2>2. Kept(l) = SubSeq(l, f, Len(l))
    BY <1>3, <1>1 DEF Kept
  <2> HIDE DEF f
  <2>3. Kept(l) \in Seq(Records) /\ Len(Kept(l)) = RamSize
        /\ \A k \in 1..RamSize : Kept(l)[k] = l[f + k - 1]
    BY <2>1, <2>2, <1>1, SubSeqProperties
  <2>4. \A k \in 1..RamSize : f + k - 1 = Len(l) - RamSize + k
    BY <1>1 DEF f
  <2> QED
    BY <2>3, <2>4, <1>3
<1> QED
  BY <1>2, <1>3

LEMMA KeptGrammatical ==
    ASSUME NEW l \in Seq(Records), Grammatical(l)
    PROVE  Grammatical(Kept(l))
<1> DEFINE m == Kept(l)
<1>0. Len(l) \in Nat /\ RamSize \in Nat
  BY LenProperties, CaptureAssumption
<1>1. Len(m) \in Nat /\ Len(l) \in Nat /\ Len(m) <= Len(l)
  BY <1>0, KeptRecords
<1>9. \A k \in 1..Len(m) : m[k] = l[Len(l) - Len(m) + k]
  BY KeptRecords
<1> HIDE DEF m
<1>2. ASSUME NEW j \in 1..(Len(m) - 1), m[j].kind = "full"
      PROVE  m[j + 1].kind = "value"
  <2> DEFINE i == Len(l) - Len(m) + j
  <2>1. i \in 1..(Len(l) - 1) /\ j \in 1..Len(m) /\ j + 1 \in 1..Len(m) /\ Len(l) - Len(m) + (j + 1) = i + 1
    BY <1>1
  <2>2. m[j] = l[i] /\ m[j + 1] = l[i + 1]
    BY <2>1, <1>9
  <2> QED
    BY <2>1, <2>2, <1>2 DEF Grammatical
<1> QED
  BY <1>2 DEF Grammatical, m

(* Read from its beginning, the RAM gives what is kept of the log. *)
LEMMA RamShowsKept ==
    ASSUME NEW l \in Seq(Records), NEW r, r.ptr \in Cells, r.wrap \in BOOLEAN, HoldsLog(r, l)
    PROVE  /\ Len(Kept(l)) = IF r.wrap THEN RamSize ELSE r.ptr
           /\ \A k \in 0..(Len(Kept(l)) - 1) : r.ram[Around(Start(r), k)] = Kept(l)[k + 1]
<1>1. Len(l) \in Nat /\ RamSize \in Nat \ {0} /\ r.ptr \in 0..(RamSize - 1)
  BY LenProperties, CaptureAssumption DEF Cells
<1>2. CASE r.wrap
  <2>1. Len(l) >= RamSize /\ \A k \in Cells : r.ram[Around(r.ptr, k)] = l[Len(l) - RamSize + 1 + k]
    BY <1>2 DEF HoldsLog
  <2>2. Len(Kept(l)) = RamSize
    BY <2>1, <1>1, KeptRecords
  <2>3. ASSUME NEW k \in 0..(RamSize - 1)
        PROVE  r.ram[Around(r.ptr, k)] = Kept(l)[k + 1]
    <3>1. k + 1 \in 1..RamSize /\ Len(l) - RamSize + (k + 1) = Len(l) - RamSize + 1 + k
      BY <1>1
    <3>2. Kept(l)[k + 1] = l[Len(l) - RamSize + (k + 1)]
      BY <3>1, <2>2, KeptRecords
    <3> QED
      BY <3>1, <3>2, <2>1 DEF Cells
  <2> QED
    BY <2>2, <2>3, <1>2 DEF Start
<1>3. CASE ~r.wrap
  <2>1. r.ptr = Len(l) /\ \A k \in 1..Len(l) : r.ram[k - 1] = l[k]
    BY <1>3 DEF HoldsLog
  <2>2. Kept(l) = l
    BY <2>1, <1>1 DEF Kept
  <2>3. ASSUME NEW k \in 0..(Len(l) - 1) PROVE r.ram[Around(0, k)] = l[k + 1]
    <3>1. Around(0, k) = k /\ k + 1 \in 1..Len(l) /\ (k + 1) - 1 = k
      BY <1>1, <2>1 DEF Around
    <3> QED
      BY <3>1, <2>1
  <2> QED
    BY <2>1, <2>2, <2>3, <1>3 DEF Start
<1> QED
  BY <1>2, <1>3

-----------------------------------------------------------------------------
(* The entries *)

(* There are as many values among the first records as there are places. *)
LEMMA PlaceType ==
    ASSUME NEW l, NEW n \in Nat
    PROVE  IsFiniteSet(Values(l, n)) /\ Place(l, n) \in Nat
<1>1. IsFiniteSet(1..n) /\ Values(l, n) \in SUBSET (1..n)
  BY FS_Interval DEF Values
<1> QED
  BY <1>1, FS_Subset, FS_CardinalityType DEF Place

LEMMA PlaceNone == ASSUME NEW l PROVE Place(l, 0) = 0
<1>1. Values(l, 0) = {}
  BY DEF Values
<1> QED
  BY <1>1, FS_EmptySet DEF Place

LEMMA PlaceNext ==
    ASSUME NEW l, NEW n \in Nat
    PROVE  Place(l, n + 1) = IF l[n + 1].kind = "value" THEN Place(l, n) + 1 ELSE Place(l, n)
<1>1. IsFiniteSet(Values(l, n))
  BY PlaceType
<1>4. n + 1 \notin Values(l, n)
  BY DEF Values
<1>2. CASE l[n + 1].kind = "value"
  <2>1. Values(l, n + 1) = Values(l, n) \cup {n + 1}
    BY <1>2 DEF Values
  <2> QED
    BY <2>1, <1>1, <1>2, <1>4, FS_AddElement DEF Place
<1>3. CASE l[n + 1].kind # "value"
  <2>1. Values(l, n + 1) = Values(l, n)
    BY <1>3 DEF Values
  <2> QED
    BY <2>1, <1>3 DEF Place
<1> QED
  BY <1>2, <1>3

(* The places of the values are in their order. *)
LEMMA PlaceOrder ==
    ASSUME NEW l, NEW n \in Nat, NEW i \in Values(l, n)
    PROVE  /\ i \in 1..n /\ Place(l, i) \in 1..Place(l, n)
           /\ \A v \in Values(l, n) : i < v => Place(l, i) < Place(l, v)
<1>1. i \in 1..n /\ i \in Nat /\ i \in Values(l, i)
  BY DEF Values
<1>2. Values(l, i) \in SUBSET Values(l, n)
  BY <1>1 DEF Values
<1>3. Place(l, i) <= Place(l, n) /\ Place(l, i) \in Nat /\ Place(l, n) \in Nat
  BY <1>1, <1>2, PlaceType, FS_Subset DEF Place
<1>4. Place(l, i) # 0
  BY <1>1, PlaceType, FS_EmptySet DEF Place
<1>5. ASSUME NEW v \in Values(l, n), i < v PROVE Place(l, i) < Place(l, v)
  <2>1. v \in Nat /\ v \notin Values(l, i) /\ Values(l, i) \cup {v} \in SUBSET Values(l, v)
    BY <1>1, <1>5 DEF Values
  <2>4. IsFiniteSet(Values(l, i))
    BY <1>1, PlaceType
  <2>2. Cardinality(Values(l, i) \cup {v}) = Place(l, i) + 1
    BY <2>1, <2>4, FS_AddElement DEF Place
  <2>3. Cardinality(Values(l, i) \cup {v}) <= Place(l, v) /\ Place(l, v) \in Nat
    BY <2>1, PlaceType, FS_Subset DEF Place
  <2> QED
    BY <2>2, <2>3, <1>3
<1> QED
  BY <1>1, <1>3, <1>4, <1>5

(* A value lasts as long as before when another one has followed it. *)
LEMMA LastsAsBefore ==
    ASSUME NEW l, NEW n \in Nat, NEW i \in 1..n, NEW v \in (i + 1)..(n + 1), l[v].kind = "value"
    PROVE  Lasts(l, n + 1, i) = Lasts(l, n, i)
<1>1. More(l, n + 1, i) = More(l, n, i)
  BY DEF More
<1> QED
  BY <1>1 DEF Lasts

(* The last of the values: everything after it lengthens it. *)
LEMMA LastValueLasts ==
    ASSUME NEW l, NEW n \in Nat, NEW v \in 1..n, \A k \in (v + 1)..n : l[k].kind # "value"
    PROVE  /\ More(l, n, v) = (v + 1)..n
           /\ Cardinality((v + 1)..n) = n - v
           /\ Place(l, v) = Place(l, n)
<1>1. More(l, n, v) = (v + 1)..n
  BY DEF More
<1>2. Cardinality((v + 1)..n) = n - v
  <2>1. v + 1 \in Int /\ n \in Int /\ (v + 1 > n => n - v = 0) /\ n - (v + 1) + 1 = n - v
    OBVIOUS
  <2> QED
    BY <2>1, FS_Interval
<1>3. Values(l, v) = Values(l, n)
  BY DEF Values
<1> QED
  BY <1>1, <1>2, <1>3 DEF Place

(* Before anything was read there is nothing to show. *)
LEMMA ShowsNothing == ASSUME NEW l PROVE Shows(l, 0, <<>>) /\ HasFirst(<<>>)
<1>1. Values(l, 0) = {} /\ Pollings(<<>>) = {}
  BY DEF Values, Pollings
<1> QED
  BY <1>1, PlaceNone DEF Shows, HasFirst

(* A value joins the entries. *)
LEMMA ShowsValue ==
    ASSUME NEW l \in Seq(Records), NEW n \in Nat, n < Len(l), NEW E \in Seq(Entries),
           Shows(l, n, E), l[n + 1].kind = "value"
    PROVE  Shows(l, n + 1, Joined(E, l[n + 1]))
<1> DEFINE x == [port |-> l[n + 1].port, state |-> l[n + 1].state, time |-> 1]
           F == Append(E, x)
<1>1. Joined(E, l[n + 1]) = F
  BY DEF Joined
<1>2. n + 1 \in 1..Len(l) /\ l[n + 1] \in Records
  BY LenProperties, ElementOfSeq
<1>3. x \in Entries
  BY <1>2 DEF Records, Entries
<1>4. Len(F) = Len(E) + 1 /\ F[Len(E) + 1] = x /\ \A i \in 1..Len(E) : F[i] = E[i]
  BY <1>3, AppendProperties
<1>5. Len(E) = Place(l, n) /\ Place(l, n + 1) = Place(l, n) + 1
  BY PlaceNext DEF Shows
<1> HIDE DEF F
<1>6. ASSUME NEW i \in Values(l, n + 1)
      PROVE  F[Place(l, i)] = [port |-> l[i].port, state |-> l[i].state, time |-> Lasts(l, n + 1, i)]
  <2>1. CASE i = n + 1
    <3>1. More(l, n + 1, n + 1) = {}
      BY DEF More
    <3>3. Cardinality(More(l, n + 1, n + 1)) = 0 /\ ~\E j \in More(l, n + 1, n + 1) : l[j].kind = "full"
      BY <3>1, FS_EmptySet
    <3>2. Lasts(l, n + 1, n + 1) = 1
      BY <3>3 DEF Lasts
    <3> QED
      BY <2>1, <3>2, <1>4, <1>5
  <2>2. CASE i # n + 1
    <3>1. i \in Values(l, n) /\ i \in 1..n
      BY <2>2 DEF Values
    <3>2. Place(l, i) \in 1..Len(E)
      BY <3>1, <1>5, PlaceOrder
    <3>3. Lasts(l, n + 1, i) = Lasts(l, n, i)
      <4>1. n + 1 \in (i + 1)..(n + 1)
        BY <3>1
      <4> QED
        BY <4>1, <3>1, LastsAsBefore
    <3> QED
      BY <3>1, <3>2, <3>3, <1>4 DEF Shows
  <2> QED
    BY <2>1, <2>2
<1>7. n + 1 \in Values(l, n + 1) /\ \A k \in ((n + 1) + 1)..(n + 1) : l[k].kind # "value"
  BY DEF Values
<1> QED
  BY <1>1, <1>4, <1>5, <1>6, <1>7 DEF Shows

(* A continuation lengthens the entry of the last value. *)
LEMMA ShowsContinuation ==
    ASSUME NEW l \in Seq(Records), Grammatical(l), Len(l) <= RamSize,
           NEW n \in Nat, n < Len(l), NEW E \in Seq(Entries),
           Shows(l, n, E), l[n + 1].kind # "value", E # <<>>
    PROVE  Shows(l, n + 1, Joined(E, l[n + 1]))
<1> DEFINE p == Len(E)
           full == l[n + 1].kind = "full"
           t == IF full THEN Full ELSE (E[p].time + 1) % (Full + 1)
           F == [E EXCEPT ![p].time = t]
<1>0. n + 1 \in 1..Len(l) /\ l[n + 1] \in Records
  BY LenProperties, ElementOfSeq
<1>1. n + 1 \in 1..Len(l) /\ l[n + 1] \in Records /\ l[n + 1].kind \in {"full", "more"}
  BY <1>0 DEF Records
<1>2. Joined(E, l[n + 1]) = F
  BY <1>1 DEF Joined
<1>3. Len(E) \in Nat \ {0} /\ Len(E) = Place(l, n)
  BY EmptySeq DEF Shows
<1>4. n > 0
  BY <1>3, PlaceNone
<1>5. PICK v \in Values(l, n) : \A k \in (v + 1)..n : l[k].kind # "value"
  BY <1>4 DEF Shows
<1>6. v \in 1..n /\ v \in 1..(n + 1) /\ \A k \in (v + 1)..(n + 1) : l[k].kind # "value"
  BY <1>5 DEF Values
<1>7. Place(l, v) = p /\ Place(l, n + 1) = p
  BY <1>3, <1>5, <1>6, LastValueLasts, PlaceNext
<1>8. E[p] = [port |-> l[v].port, state |-> l[v].state, time |-> Lasts(l, n, v)]
  BY <1>5, <1>7 DEF Shows
<1>9. Lasts(l, n + 1, v) = t
  <2>0. n + 1 \in Nat
    OBVIOUS
  <2>1. More(l, n + 1, v) = (v + 1)..(n + 1) /\ Cardinality((v + 1)..(n + 1)) = (n + 1) - v
    BY <2>0, <1>6, LastValueLasts, Zenon
  <2>2. More(l, n, v) = (v + 1)..n /\ Cardinality((v + 1)..n) = n - v
    BY <1>5, <1>6, LastValueLasts
  <2>3. n + 1 \in (v + 1)..(n + 1)
    BY <1>6
  <2>4. CASE full
    BY <2>1, <2>3, <2>4 DEF Lasts
  <2>5. CASE ~full
    <3>1. \A j \in (v + 1)..n : l[j].kind # "full"
      <4> SUFFICES ASSUME NEW j \in (v + 1)..n, l[j].kind = "full" PROVE FALSE
        OBVIOUS
      <4>1. j \in 1..(Len(l) - 1) /\ j + 1 \in (v + 1)..(n + 1)
        BY <1>1, <1>6
      <4> QED
        BY <4>1, <1>6 DEF Grammatical
    <3>2. \A j \in (v + 1)..(n + 1) : l[j].kind # "full"
      <4> SUFFICES ASSUME NEW j \in (v + 1)..(n + 1) PROVE l[j].kind # "full"
        OBVIOUS
      <4>1. j = n + 1 \/ j \in (v + 1)..n
        BY <1>6
      <4> QED
        BY <4>1, <3>1, <2>5
    <3>3. Lasts(l, n, v) = 1 + (n - v) /\ Lasts(l, n + 1, v) = 1 + ((n + 1) - v)
      BY <2>1, <2>2, <3>1, <3>2 DEF Lasts
    <3>4. E[p].time + 1 = 1 + ((n + 1) - v)
      BY <3>3, <1>8, <1>6
    <3>5. 1 + ((n + 1) - v) \in Nat /\ 1 + ((n + 1) - v) <= Full
      <4>1. Len(l) \in Nat /\ RamSize \in Nat /\ Full \in Nat /\ RamSize <= Full
        BY LenProperties, CaptureAssumption
      <4> QED
        BY <4>1, <1>6
    <3>6. \A y, f \in Nat : y <= f => f + 1 \in Nat \ {0} /\ y <= f + 1 /\ y # f + 1
      OBVIOUS
    <3>8. Full + 1 \in Nat \ {0} /\ 1 + ((n + 1) - v) <= Full + 1 /\ 1 + ((n + 1) - v) # Full + 1
      BY <3>5, <3>6, CaptureAssumption, Zenon
    <3>7. (1 + ((n + 1) - v)) % (Full + 1) = 1 + ((n + 1) - v)
      BY <3>5, <3>8, Modulo
    <3> QED
      BY <2>5, <3>3, <3>4, <3>7
  <2> QED
    BY <2>4, <2>5
<1>10. p \in 1..Len(E) /\ DOMAIN E = 1..Len(E) /\ E \in [1..Len(E) -> Entries]
  BY <1>3, LenProperties
<1> HIDE DEF t, p
<1>11. F[p] = [port |-> l[v].port, state |-> l[v].state, time |-> t]
  <2>1. F[p] = [E[p] EXCEPT !.time = t]
    BY <1>10
  <2> QED
    BY <2>1, <1>8
<1>12. \A q \in 1..Len(E) : q # p => F[q] = E[q]
  BY <1>10
<1>13. Len(F) = Len(E)
  BY <1>10
<1> HIDE DEF F
<1>14. ASSUME NEW i \in Values(l, n + 1)
       PROVE  F[Place(l, i)] = [port |-> l[i].port, state |-> l[i].state, time |-> Lasts(l, n + 1, i)]
  <2>1. i \in Values(l, n) /\ i \in 1..n /\ i <= v
    BY <1>1, <1>5, <1>6 DEF Values
  <2>2. CASE i = v
    BY <2>2, <1>7, <1>9, <1>11
  <2>3. CASE i # v
    <3>1. i < v /\ v \in (i + 1)..(n + 1) /\ l[v].kind = "value"
      BY <2>1, <2>3, <1>5, <1>6 DEF Values
    <3>2. Place(l, i) \in 1..Len(E) /\ Place(l, i) # p
      <4>1. Place(l, i) \in 1..Place(l, n) /\ Place(l, i) < Place(l, v)
        BY <2>1, <3>1, <1>5, PlaceOrder
      <4> QED
        BY <4>1, <1>3, <1>7
    <3>3. Lasts(l, n + 1, i) = Lasts(l, n, i)
      BY <2>1, <3>1, LastsAsBefore
    <3> QED
      BY <2>1, <3>2, <3>3, <1>12 DEF Shows
  <2> QED
    BY <2>2, <2>3
<1>15. v \in Values(l, n + 1)
  BY <1>5, <1>6 DEF Values
<1> QED
  BY <1>2, <1>6, <1>7, <1>13, <1>14, <1>15 DEF Shows, p

(* One more record is shown by what it makes of the entries. *)
LEMMA ShowsNext ==
    ASSUME NEW l \in Seq(Records), Grammatical(l), Len(l) <= RamSize,
           NEW n \in Nat, n < Len(l), NEW E \in Seq(Entries), Shows(l, n, E),
           l[n + 1].kind = "value" \/ E # <<>>
    PROVE  Shows(l, n + 1, Joined(E, l[n + 1]))
<1>1. CASE l[n + 1].kind = "value"
  BY <1>1, ShowsValue
<1>2. CASE l[n + 1].kind # "value"
  BY <1>2, ShowsContinuation
<1> QED
  BY <1>1, <1>2

(* The entries stay entries, and keep a first Polling.Active if they have one. *)
LEMMA EntriesNext ==
    ASSUME NEW E \in Seq(Entries), HasFirst(E), NEW x \in Records, x.kind = "value" \/ E # <<>>
    PROVE  Joined(E, x) \in Seq(Entries) /\ HasFirst(Joined(E, x))
<1> DEFINE p == Len(E)
<1>1. CASE x.kind = "value"
  <2> DEFINE e == [port |-> x.port, state |-> x.state, time |-> 1]
             F == Append(E, e)
  <2>1. Joined(E, x) = F
    BY <1>1 DEF Joined
  <2>2. e \in Entries
    BY DEF Records, Entries
  <2>3. F \in Seq(Entries) /\ Len(F) = p + 1 /\ F[p + 1] = e /\ \A i \in 1..p : F[i] = E[i]
    BY <2>2, AppendProperties
  <2>4. p \in Nat
    BY LenProperties
  <2> HIDE DEF F, p
  <2>5. \A i \in Pollings(F) : i \in Pollings(E) \/ i = p + 1
    BY <2>3, <2>4 DEF Pollings, p
  <2>6. \A i \in Pollings(E) : i \in Pollings(F) /\ i <= p
    BY <2>3, <2>4 DEF Pollings, p
  <2>7. HasFirst(F)
    <3>1. CASE Pollings(E) = {}
      BY <3>1, <2>5, <2>4 DEF HasFirst
    <3>2. CASE Pollings(E) # {}
      <4>1. PICK m \in Pollings(E) : \A j \in Pollings(E) : m <= j
        BY <3>2 DEF HasFirst
      <4>2. m \in Pollings(F) /\ m \in Nat /\ m <= p
        BY <4>1, <2>6 DEF Pollings
      <4>3. m <= p + 1
        BY <4>2, <2>4
      <4> QED
        BY <4>1, <4>2, <4>3, <2>5 DEF HasFirst
    <3> QED
      BY <3>1, <3>2
  <2> QED
    BY <2>1, <2>3, <2>7
<1>2. CASE x.kind # "value"
  <2> DEFINE t == IF x.kind = "full" THEN Full ELSE (E[p].time + 1) % (Full + 1)
             F == [E EXCEPT ![p].time = t]
             e == [E[p] EXCEPT !.time = t]
  <2>1. x.kind \in {"full", "more"}
    BY <1>2 DEF Records
  <2>2. Joined(E, x) = F
    BY <1>2, <2>1 DEF Joined
  <2>3. p \in 1..Len(E) /\ E[p] \in Entries
    BY <1>2, EmptySeq, LenProperties, ElementOfSeq
  <2>4. t \in Nat
    <3>0. E[p].time \in Nat /\ Full \in Nat
      BY <2>3, CaptureAssumption DEF Entries
    <3>1. E[p].time + 1 \in Nat /\ Full \in Nat /\ Full + 1 \in Nat \ {0}
      BY <3>0
    <3>2. (E[p].time + 1) % (Full + 1) \in Nat
      <4>1. \A a, b \in Nat : b # 0 => a % b \in Nat
        OBVIOUS
      <4> QED
        BY <4>1, <3>1, Zenon
    <3> QED
      BY <3>1, <3>2
  <2> HIDE DEF t
  <2>5. e \in Entries /\ e.state = E[p].state
    BY <2>3, <2>4 DEF Entries
  <2>6. F = [E EXCEPT ![p] = e]
    BY <2>3
  <2> HIDE DEF p, e, F
  <2>7. F \in Seq(Entries) /\ Len(F) = Len(E) /\ \A j \in 1..Len(E) : F[j] = IF j = p THEN e ELSE E[j]
    BY <2>3, <2>5, <2>6, ExceptSeq
  <2>8. Pollings(F) = Pollings(E)
    BY <2>5, <2>7 DEF Pollings
  <2> QED
    BY <2>2, <2>7, <2>8 DEF HasFirst
<1> QED
  BY <1>1, <1>2

(* The mark is at the first Polling.Active. *)
LEMMA MarkIsFirst ==
    ASSUME NEW E, HasFirst(E), NEW i \in 1..Len(E), E[i].state = "polling", Len(E) \in Nat
    PROVE  FirstPolling(E) \in 1..i
<1>1. i \in Pollings(E) /\ Pollings(E) = {j \in 1..Len(E) : E[j].state = "polling"}
  BY DEF Pollings
<1>2. PICK m \in Pollings(E) : \A j \in Pollings(E) : m <= j
  BY <1>1 DEF HasFirst
<1> DEFINE f == CHOOSE k \in Pollings(E) : \A j \in Pollings(E) : k <= j
<1>3. FirstPolling(E) = f
  BY <1>1 DEF FirstPolling
<1>4. f \in Pollings(E) /\ \A j \in Pollings(E) : f <= j
  BY <1>2, Zenon
<1> QED
  BY <1>1, <1>3, <1>4 DEF Pollings

(* TraceIsCapture of any file. *)
Captured(f) ==
    LET kept   == Kept(f.wrote)
        values == {i \in 1..Len(kept) : kept[i].kind = "value"}
        place(i) == Cardinality({j \in values : j <= i})
    IN  /\ Len(f.lines) = Len(kept)
        /\ \A i \in values : f.lines[place(i)] =
               [port |-> kept[i].port, state |-> kept[i].state, time |-> Lasted(kept, i)]
        /\ \A n \in (Cardinality(values) + 1)..Len(kept) : f.lines[n] = Filler(f.op)
        /\ f.op = "trace" =>
               /\ \A i \in values : kept[i].port = f.port
               /\ \A n \in 1..Cardinality(values) :
                    f.lines[n].state = "polling" => f.mark \in 1..n

(* How long a value of a whole sequence lasted. *)
LEMMA LastedWhole ==
    ASSUME NEW l, Len(l) \in Nat, NEW i \in 1..Len(l)
    PROVE  Lasted(l, i) = Lasts(l, Len(l), i)
<1> DEFINE next == {j \in (i + 1)..Len(l) : l[j].kind = "value"}
           more == {j \in (i + 1)..Len(l) : \A k \in next : j < k}
<1>1. more = More(l, Len(l), i)
  <2>1. ASSUME NEW j \in more PROVE j \in More(l, Len(l), i)
    BY <2>1 DEF More
  <2>2. ASSUME NEW j \in More(l, Len(l), i) PROVE j \in more
    BY <2>2 DEF More
  <2> QED
    BY <2>1, <2>2
<1> QED
  BY <1>1 DEF Lasted, Lasts

LEMMA IntervalSize == ASSUME NEW n \in Nat PROVE IsFiniteSet(1..n) /\ Cardinality(1..n) = n
<1>1. 1 \in Int /\ n \in Int /\ (IF 1 > n THEN 0 ELSE n - 1 + 1) = n
  OBVIOUS
<1> QED
  BY <1>1, FS_Interval

(* Entries with m fillers after them. *)
LEMMA Padded ==
    ASSUME NEW E \in Seq(Entries), NEW e \in Entries, NEW m \in Nat,
           NEW s, s = E \o [i \in 1..m |-> e]
    PROVE  /\ Len(s) = Len(E) + m
           /\ \A i \in 1..Len(E) : s[i] = E[i]
           /\ \A i \in (Len(E) + 1)..(Len(E) + m) : s[i] = e
<1> DEFINE pad == [i \in 1..m |-> e]
<1>1. pad \in Seq(Entries) /\ Len(pad) = m /\ \A i \in 1..m : pad[i] = e
  OBVIOUS
<1>2. s = E \o pad
  OBVIOUS
<1> HIDE DEF pad
<1>3. Len(s) = Len(E) + m /\ \A i \in 1..(Len(E) + m) : s[i] = IF i <= Len(E) THEN E[i] ELSE pad[i - Len(E)]
  BY <1>1, <1>2, ConcatProperties
<1>4. Len(E) \in Nat
  BY LenProperties
<1>5. ASSUME NEW i \in (Len(E) + 1)..(Len(E) + m) PROVE s[i] = e
  <2>1. i - Len(E) \in 1..m /\ i \in 1..(Len(E) + m) /\ ~(i <= Len(E))
    BY <1>4
  <2> QED
    BY <2>1, <1>1, <1>3
<1>6. ASSUME NEW i \in 1..Len(E) PROVE s[i] = E[i]
  <2>1. i \in 1..(Len(E) + m) /\ i <= Len(E)
    BY <1>4
  <2> QED
    BY <2>1, <1>3
<1> QED
  BY <1>3, <1>5, <1>6

(* All the records that are kept, shown with fillers after them. *)
LEMMA ShownIsCaptured ==
    ASSUME NEW f, f.wrote \in Seq(Records), NEW E \in Seq(Entries), HasFirst(E),
           Shows(Kept(f.wrote), Len(Kept(f.wrote)), E),
           f.lines = E \o [i \in 1..(Len(Kept(f.wrote)) - Len(E)) |-> Filler(f.op)],
           f.mark = FirstPolling(E), f.op = "trace" => OfPort(f.wrote, f.port)
    PROVE  Captured(f)
<1> DEFINE l == Kept(f.wrote)
           n == Len(l)
           lines == f.lines
<1>1. l \in Seq(Records) /\ n \in Nat /\ Len(E) \in Nat
  BY KeptRecords, LenProperties
<1>2. OfPort(f.wrote, f.port) => OfPort(l, f.port)
  <2> SUFFICES ASSUME OfPort(f.wrote, f.port), NEW j \in 1..n, l[j].kind = "value" PROVE l[j].port = f.port
    BY DEF OfPort
  <2>1. Len(f.wrote) \in Nat /\ RamSize \in Nat
    BY LenProperties, CaptureAssumption
  <2>2. n <= Len(f.wrote)
    BY <2>1, KeptRecords
  <2>3. l[j] = f.wrote[Len(f.wrote) - n + j]
    BY KeptRecords
  <2>5. \A a, b \in Nat : \A i \in 1..b : b <= a => a - b + i \in 1..a
    OBVIOUS
  <2>4. Len(f.wrote) - n + j \in 1..Len(f.wrote)
    BY <2>1, <2>2, <2>5, <1>1
  <2> QED
    BY <2>3, <2>4 DEF OfPort
<1>3. Shows(l, n, E)
  OBVIOUS
<1>15. n = Len(l)
  OBVIOUS
<1> HIDE DEF l, n
<1>4. Len(E) = Place(l, n) /\ Len(E) <= n
  <2>1. IsFiniteSet(1..n) /\ Cardinality(1..n) = n
    BY <1>1, IntervalSize
  <2>3. Values(l, n) \in SUBSET (1..n)
    BY DEF Values
  <2>2. Place(l, n) <= n
    BY <2>1, <2>3, FS_Subset DEF Place
  <2> QED
    BY <2>2, <1>3 DEF Shows
<1>5. Filler(f.op) \in Entries
  BY DEF Filler, Entries, States
<1>6. n - Len(E) \in Nat /\ Len(E) + (n - Len(E)) = n
  BY <1>1, <1>4
<1>7. lines = E \o [i \in 1..(n - Len(E)) |-> Filler(f.op)]
  BY DEF l, n
<1> HIDE DEF lines
<1>8. /\ Len(lines) = n
      /\ \A i \in 1..Len(E) : lines[i] = E[i]
      /\ \A i \in (Len(E) + 1)..n : lines[i] = Filler(f.op)
  <2> DEFINE m == n - Len(E)
  <2>1. m \in Nat /\ Len(E) + m = n /\ lines = E \o [i \in 1..m |-> Filler(f.op)]
    BY <1>6, <1>7
  <2> HIDE DEF m
  <2>2. /\ Len(lines) = Len(E) + m
        /\ \A i \in 1..Len(E) : lines[i] = E[i]
        /\ \A i \in (Len(E) + 1)..(Len(E) + m) : lines[i] = Filler(f.op)
    BY <2>1, <1>5, Padded
  <2> QED
    BY <2>1, <2>2
<1> DEFINE values == {i \in 1..n : l[i].kind = "value"}
           place(i) == Cardinality({j \in values : j <= i})
<1>11. values = Values(l, n) /\ Cardinality(values) = Len(E)
  BY <1>4 DEF Values, Place
<1>12. ASSUME NEW i \in values
       PROVE  lines[place(i)] = [port |-> l[i].port, state |-> l[i].state, time |-> Lasted(l, i)]
  <2>1. i \in Values(l, n) /\ i \in 1..n
    BY <1>11
  <2>2. {j \in values : j <= i} = Values(l, i)
    BY <2>1, <1>1 DEF Values
  <2>3. place(i) = Place(l, i)
    BY <2>2 DEF Place
  <2>4. Place(l, i) \in 1..Len(E)
    BY <2>1, <1>1, <1>4, PlaceOrder
  <2>5. E[Place(l, i)] = [port |-> l[i].port, state |-> l[i].state, time |-> Lasts(l, n, i)]
    BY <2>1, <1>3 DEF Shows
  <2>6. Lasts(l, n, i) = Lasted(l, i)
    BY <2>1, <1>1, <1>15, LastedWhole
  <2> QED
    BY <2>3, <2>4, <2>5, <2>6, <1>8
<1>13. ASSUME f.op = "trace", NEW i \in values PROVE l[i].port = f.port
  BY <1>13, <1>2, <1>15 DEF OfPort
<1>14. ASSUME NEW i \in 1..Len(E), lines[i].state = "polling" PROVE f.mark \in 1..i
  BY <1>14, <1>1, <1>8, MarkIsFirst
<1> HIDE DEF values, n
<1> QED
  BY <1>8, <1>11, <1>12, <1>13, <1>14, <1>15 DEF Captured, l, values, lines

-----------------------------------------------------------------------------
(* What several steps have in common *)

LEMMA LeftTyped ==
    ASSUME TypeOK, Works \/ Fails \/ Spend("calls") \/ Spend("records")
    PROVE  left' \in Bounds
<1>1. ASSUME NEW what \in {"calls", "records", "faults"}, Spend(what) PROVE left' \in Bounds
  <2>1. left \in Bounds /\ left[what] \in Nat /\ left[what] > 0
    BY <1>1 DEF TypeOK, Bounds, Spend
  <2>2. left' = [left EXCEPT ![what] = left[what] - 1] /\ left[what] - 1 \in Nat
    BY <1>1, <2>1 DEF Spend
  <2> QED
    BY <2>1, <2>2 DEF Bounds
<1>2. CASE Works
  BY <1>2 DEF Works, TypeOK
<1> QED
  BY <1>1, <1>2 DEF Fails

(* Where the recorders and their logs are unchanged, the RAM holds the log still. *)
LEMMA SameRecorders ==
    ASSUME RamHoldsLog, LogsGrammatical, UNCHANGED <<rec, log>>
    PROVE  RamHoldsLog' /\ LogsGrammatical'
  BY DEF RamHoldsLog, LogsGrammatical

LEMMA SameFile ==
    ASSUME TraceIsCapture, UNCHANGED file
    PROVE  TraceIsCapture'
  BY DEF TraceIsCapture

LEMMA IdleTyped == Idle \in Calls
<1>1. Blank \in Records /\ Nowhere \in Int /\ -1 \in Int
  BY DEF Blank, Value, Records, States, Nowhere
<1>2. <<>> \in Seq(Entries) /\ 0 \in Cells
  BY EmptySeq, CaptureAssumption DEF Cells
<1> QED
  BY <1>1, <1>2, ZenonT(40) DEF Idle, Calls, Pcs, Outcomes

(* A call that has returned has nothing to keep. *)
LEMMA ReturnKeeps ==
    ASSUME NEW status \in Outcomes, Return(status)
    PROVE  call' \in Calls /\ CallInv'
<1>1. /\ call'.pc = "idle" /\ call'.op = "none" /\ call'.n = 0 /\ call'.entries = <<>>
  BY DEF Return, Idle
<1>2. call' \in Calls
  BY IdleTyped, ZenonT(40) DEF Return, Calls
<1>3. call'.pc \notin Tracing \cup Reading \cup {"start", "select", "check", "stop", "first", "second"}
  BY <1>1 DEF Tracing, Reading
<1>4. TraceOfPort' /\ StandsStill' /\ Paths'
  BY <1>1, <1>3 DEF TraceOfPort, StandsStill, Paths, Reading
<1>5. ReadsRam' /\ Fresh' /\ NamesTwo'
  BY <1>1, <1>3 DEF ReadsRam, Fresh, NamesTwo
<1> QED
  BY <1>2, <1>4, <1>5 DEF CallInv

(* A step to another place of the call. *)
LEMMA GotoFields ==
    ASSUME call \in Calls, NEW pc \in Pcs, Goto(pc)
    PROVE  /\ call' \in Calls /\ call'.pc = pc /\ call'.op = call.op /\ call'.at = call.at
           /\ call'.port = call.port /\ call'.then = call.then /\ call'.status = call.status
           /\ call'.triggered = call.triggered /\ call'.wrap = call.wrap /\ call'.cur = call.cur
           /\ call'.depth = call.depth /\ call'.n = call.n /\ call'.entries = call.entries
           /\ call'.clean = call.clean /\ call'.modules = call.modules
  BY DEF Goto, Calls

(* A step that leaves all but the call as it is. *)
LEMMA CallSteps ==
    ASSUME IInv, UNCHANGED <<rec, log, config, file>>, left' \in Bounds, call' \in Calls, CallInv'
    PROVE  IInv'
<1>1. TypeOK'
  BY DEF IInv, TypeOK
<1> QED
  BY <1>1, SameRecorders, SameFile DEF IInv

-----------------------------------------------------------------------------
(* The steps of a trace *)

LEMMA CheckProgressKeeps == ASSUME IInv, CheckProgress PROVE IInv'
<1>1. UNCHANGED <<rec, log, config, file>> /\ left' \in Bounds /\ call.pc = "check" /\ call.op = "trace"
  BY LeftTyped DEF CheckProgress, IInv, CallInv, Paths
<1>2. CASE \E status \in Outcomes : Return(status)
  BY <1>1, <1>2, ReturnKeeps, CallSteps
<1>3. CASE Goto("select") /\ ~rec[call.at].running
  <2>1. /\ call' \in Calls /\ call'.pc = "select" /\ call'.op = "trace" /\ call'.at = call.at
        /\ call'.port = call.port /\ call'.n = call.n /\ call'.entries = call.entries
    BY <1>1, <1>3, GotoFields DEF IInv, TypeOK, Pcs
  <2>2. call.at \in Stations /\ call.port \in Ports /\ call.n = 0 /\ call.entries = <<>>
    BY <1>1 DEF IInv, CallInv, TraceOfPort, Fresh
  <2>3. CallInv'
    BY <1>1, <1>3, <2>1, <2>2
       DEF CallInv, TraceOfPort, StandsStill, Paths, ReadsRam, Fresh, NamesTwo, Still, Reading, Tracing
  <2> QED
    BY <1>1, <2>1, <2>3, CallSteps
<1>4. "failed" \in Outcomes /\ "retry" \in Outcomes
  BY DEF Outcomes
<1> QED
  BY <1>2, <1>3, <1>4 DEF CheckProgress

LEMMA LookKeeps == ASSUME IInv, Look PROVE IInv'
<1>1. UNCHANGED <<rec, log, config, file>> /\ left' \in Bounds /\ call.op = "trace" /\ call.pc \in {"poll", "look"}
  BY LeftTyped DEF Look, IsTriggered, IInv, CallInv, Paths
<1>2. CASE Return("failed")
  BY <1>1, <1>2, ReturnKeeps, CallSteps DEF Outcomes
<1>3. ASSUME NEW after \in {"polled", "looked"},
             call' = [call EXCEPT !.triggered = rec[call.at].triggered, !.then = after,
                                  !.pc = IF rec[call.at].triggered /\ rec[call.at].running THEN "stop" ELSE after]
      PROVE  IInv'
  <2>1. /\ call.at \in Stations /\ call.port \in Ports /\ call.n = 0 /\ call.entries = <<>>
        /\ rec[call.at].sel = call.port /\ OfPort(log[call.at], call.port)
    BY <1>1 DEF IInv, CallInv, TraceOfPort, Fresh, Tracing
  <2>2. rec[call.at] \in Recorders /\ call \in Calls
    BY <2>1 DEF IInv, TypeOK
  <2>3. call' \in Calls
    <3> DEFINE pc == IF rec[call.at].triggered /\ rec[call.at].running THEN "stop" ELSE after
               triggered == rec[call.at].triggered
    <3>1. pc \in Pcs /\ triggered \in BOOLEAN
      BY <2>2 DEF Pcs, Recorders
    <3>2. call' = [call EXCEPT !.triggered = triggered, !.then = after, !.pc = pc]
      BY <1>3
    <3> HIDE DEF pc, triggered
    <3> QED
      BY <3>1, <3>2, <2>2, ZenonT(40) DEF Calls
  <2>4. /\ call'.op = "trace" /\ call'.at = call.at /\ call'.port = call.port
        /\ call'.n = 0 /\ call'.entries = <<>> /\ call'.then = after
        /\ call'.pc \in {"stop", after} /\ call'.triggered = rec[call.at].triggered
    BY <1>1, <1>3, <2>1, <2>2, ZenonT(40) DEF Calls
  <2>5. call'.pc # "stop" /\ call'.triggered => ~rec[call.at].running
    BY <1>3, <2>2, ZenonT(40) DEF Calls
  <2>6. TraceOfPort' /\ Fresh' /\ NamesTwo' /\ ReadsRam'
    BY <1>1, <2>1, <2>4 DEF TraceOfPort, Fresh, NamesTwo, ReadsRam, Tracing, Reading
  <2>7. StandsStill' /\ Paths'
    BY <1>1, <2>1, <2>4, <2>5 DEF StandsStill, Paths, Still, Reading
  <2> QED
    BY <1>1, <2>3, <2>6, <2>7, CallSteps DEF CallInv
<1> QED
  BY <1>2, <1>3 DEF Look, IsTriggered

LEMMA PolledKeeps == ASSUME IInv, Polled PROVE IInv'
<1>1. UNCHANGED <<rec, log, config, file>> /\ left' \in Bounds /\ call.op = "trace" /\ call.pc = "polled"
  BY DEF Polled, IInv, CallInv, Paths, TypeOK
<1>2. /\ call.at \in Stations /\ call.port \in Ports /\ call.n = 0 /\ call.entries = <<>>
      /\ rec[call.at].sel = call.port /\ OfPort(log[call.at], call.port)
  BY <1>1 DEF IInv, CallInv, TraceOfPort, Fresh, Tracing
<1>3. call \in Calls
  BY DEF IInv, TypeOK
<1>4. call' \in Calls
  <2> DEFINE pc    == IF call.triggered \/ call.polls = 0 THEN "look" ELSE "poll"
             polls == IF call.polls = 0 THEN 0 ELSE call.polls - 1
  <2>1. pc \in Pcs /\ polls \in Nat
    BY <1>3 DEF Calls, Pcs
  <2>2. call' = [call EXCEPT !.pc = pc, !.polls = polls]
    BY DEF Polled
  <2> HIDE DEF pc, polls
  <2> QED
    BY <2>1, <2>2, <1>3, ZenonT(40) DEF Calls
<1>5. /\ call'.op = "trace" /\ call'.at = call.at /\ call'.port = call.port
      /\ call'.n = 0 /\ call'.entries = <<>> /\ call'.pc \in {"look", "poll"}
  BY <1>1, <1>2, <1>3, ZenonT(40) DEF Polled, Calls
<1>6. CallInv'
  BY <1>1, <1>2, <1>5
     DEF CallInv, TraceOfPort, StandsStill, Paths, ReadsRam, Fresh, NamesTwo, Still, Reading, Tracing
<1> QED
  BY <1>1, <1>4, <1>6, CallSteps

LEMMA LookedKeeps == ASSUME IInv, Looked PROVE IInv'
<1>1. UNCHANGED <<rec, log, config, file>> /\ left' \in Bounds /\ call.op = "trace" /\ call.pc = "looked"
  BY DEF Looked, IInv, CallInv, Paths, TypeOK
<1>2. /\ call.at \in Stations /\ call.port \in Ports /\ call.n = 0 /\ call.entries = <<>>
      /\ rec[call.at].sel = call.port /\ OfPort(log[call.at], call.port)
  BY <1>1 DEF IInv, CallInv, TraceOfPort, Fresh, Tracing
<1>3. call.triggered /\ call.clean => ~rec[call.at].running
  BY <1>1 DEF IInv, CallInv, StandsStill, Still
<1>4. call \in Calls
  BY DEF IInv, TypeOK
<1>5. call' \in Calls
  BY <1>4, ZenonT(40) DEF Looked, Calls, Pcs
<1>6. /\ call'.op = "trace" /\ call'.at = call.at /\ call'.port = call.port
      /\ call'.n = 0 /\ call'.entries = <<>> /\ call'.pc \in {"open", "stop"}
      /\ call'.then = "open" /\ call'.clean = call.clean
      /\ call'.pc = "open" => call.triggered
  BY <1>1, <1>2, <1>4, ZenonT(40) DEF Looked, Calls
<1>7. TraceOfPort' /\ Fresh' /\ NamesTwo' /\ ReadsRam'
  BY <1>1, <1>2, <1>6 DEF TraceOfPort, Fresh, NamesTwo, ReadsRam, Tracing, Reading
<1>8. StandsStill' /\ Paths'
  BY <1>1, <1>2, <1>3, <1>6 DEF StandsStill, Paths, Still, Reading
<1> QED
  BY <1>1, <1>5, <1>7, <1>8, CallSteps DEF CallInv

-----------------------------------------------------------------------------
(* Recorders that are turned to a port, stopped and started *)

(* A recorder holds its log whatever it is turned to, and whether it runs or not. *)
LEMMA HoldsSame ==
    ASSUME NEW l, NEW r, NEW q, HoldsLog(r, l), q.ram = r.ram, q.ptr = r.ptr, q.wrap = r.wrap
    PROVE  HoldsLog(q, l)
  BY DEF HoldsLog

(* The recorders with their logs. *)
RecordersOK ==
    /\ rec \in [Stations -> Recorders] /\ log \in [Stations -> Seq(Records)]
    /\ RamHoldsLog /\ LogsGrammatical

LEMMA SelectRecorder ==
    ASSUME RecordersOK, NEW a \in Stations, NEW p \in Int, rec' = [rec EXCEPT ![a].sel = p], UNCHANGED log
    PROVE  RecordersOK' /\ rec'[a].sel = p /\ \A s \in Stations : rec'[s].running = rec[s].running
<1>1. rec' = [rec EXCEPT ![a] = [rec[a] EXCEPT !.sel = p]] /\ rec[a] \in Recorders
  BY DEF RecordersOK
<1>2. [rec[a] EXCEPT !.sel = p] \in Recorders
  BY <1>1 DEF Recorders
<1>3. rec' \in [Stations -> Recorders] /\ rec'[a] = [rec[a] EXCEPT !.sel = p]
      /\ \A s \in Stations : s # a => rec'[s] = rec[s]
  BY <1>1, <1>2 DEF RecordersOK
<1>4. /\ rec'[a].sel = p /\ rec'[a].ram = rec[a].ram /\ rec'[a].ptr = rec[a].ptr
      /\ rec'[a].wrap = rec[a].wrap /\ rec'[a].running = rec[a].running
  BY <1>1, <1>3 DEF Recorders
<1>5. \A s \in Stations : HoldsLog(rec'[s], log[s])
  BY <1>3, <1>4, HoldsSame DEF RecordersOK, RamHoldsLog
<1> QED
  BY <1>3, <1>4, <1>5 DEF RecordersOK, RamHoldsLog, LogsGrammatical

LEMMA StopsRecorder ==
    ASSUME RecordersOK, NEW a \in Stations, rec' = [rec EXCEPT ![a].running = FALSE], UNCHANGED log
    PROVE  /\ RecordersOK' /\ ~rec'[a].running
           /\ \A s \in Stations : rec'[s].sel = rec[s].sel /\ rec'[s].wrap = rec[s].wrap /\ (s # a => rec'[s] = rec[s])
<1>1. rec' = [rec EXCEPT ![a] = [rec[a] EXCEPT !.running = FALSE]] /\ rec[a] \in Recorders
  BY DEF RecordersOK
<1>2. [rec[a] EXCEPT !.running = FALSE] \in Recorders
  BY <1>1 DEF Recorders
<1>3. rec' \in [Stations -> Recorders] /\ rec'[a] = [rec[a] EXCEPT !.running = FALSE]
      /\ \A s \in Stations : s # a => rec'[s] = rec[s]
  BY <1>1, <1>2 DEF RecordersOK
<1>4. /\ rec'[a].sel = rec[a].sel /\ rec'[a].ram = rec[a].ram /\ rec'[a].ptr = rec[a].ptr
      /\ rec'[a].wrap = rec[a].wrap /\ rec'[a].running = FALSE
  BY <1>1, <1>3 DEF Recorders
<1>5. \A s \in Stations : HoldsLog(rec'[s], log[s])
  BY <1>3, <1>4, HoldsSame DEF RecordersOK, RamHoldsLog
<1> QED
  BY <1>3, <1>4, <1>5 DEF RecordersOK, RamHoldsLog, LogsGrammatical

LEMMA StartsRecorder ==
    ASSUME RecordersOK, NEW a, StartRecorder(a)
    PROVE  /\ RecordersOK'
           /\ a \in Stations => rec'[a].sel = rec[a].sel /\ log'[a] = <<>>
           /\ \A s \in Stations : s # a => rec'[s] = rec[s] /\ log'[s] = log[s]
<1>1. CASE a \notin Stations
  BY <1>1 DEF StartRecorder, RecordersOK, RamHoldsLog, LogsGrammatical
<1>2. CASE a \in Stations
  <2> DEFINE q == [Stopped(rec[a].sel) EXCEPT !.running = TRUE]
  <2>1. rec' = [rec EXCEPT ![a] = q] /\ log' = [log EXCEPT ![a] = <<>>] /\ rec[a] \in Recorders
    BY <1>2 DEF StartRecorder, RecordersOK
  <2>2. Blank \in Records /\ 0 \in Cells
    BY CaptureAssumption DEF Blank, Value, Records, States, Cells
  <2>3. q \in Recorders /\ q.sel = rec[a].sel /\ q.ptr = 0 /\ q.wrap = FALSE
    BY <2>1, <2>2 DEF Recorders, Stopped
  <2> HIDE DEF q
  <2>4. /\ rec' \in [Stations -> Recorders] /\ rec'[a] = q
        /\ \A s \in Stations : s # a => rec'[s] = rec[s]
    BY <1>2, <2>1, <2>3 DEF RecordersOK
  <2>5. /\ log' \in [Stations -> Seq(Records)] /\ log'[a] = <<>>
        /\ \A s \in Stations : s # a => log'[s] = log[s]
    BY <1>2, <2>1, EmptySeq DEF RecordersOK
  <2>6. \A s \in Stations : HoldsLog(rec'[s], log'[s])
    BY <2>3, <2>4, <2>5, HoldsNothing DEF RecordersOK, RamHoldsLog
  <2>7. Grammatical(<<>>)
    <3>1. 1..(Len(<<>>) - 1) = {}
      BY EmptySeq
    <3> QED
      BY <3>1 DEF Grammatical
  <2> QED
    BY <1>2, <2>3, <2>4, <2>5, <2>6, <2>7 DEF RecordersOK, RamHoldsLog, LogsGrammatical
<1> QED
  BY <1>1, <1>2

(* A step that changes recorders but no file. *)
LEMMA RecorderSteps ==
    ASSUME IInv, RecordersOK', UNCHANGED <<config, file>>, left' \in Bounds, call' \in Calls, CallInv'
    PROVE  IInv'
<1>1. TypeOK'
  BY DEF IInv, TypeOK, RecordersOK
<1> QED
  BY <1>1, SameFile DEF IInv, RecordersOK

LEMMA RecordersSame ==
    ASSUME IInv
    PROVE  RecordersOK /\ (UNCHANGED <<rec, log>> => RecordersOK')
<1>1. RecordersOK
  BY DEF IInv, TypeOK, RecordersOK
<1> QED
  BY <1>1, SameRecorders DEF RecordersOK

LEMMA SelectPortKeeps == ASSUME IInv, SelectPort PROVE IInv'
<1>1. /\ UNCHANGED <<log, config, file>> /\ left' \in Bounds /\ call.op = "trace" /\ call.pc = "select"
      /\ call \in Calls
  BY LeftTyped DEF SelectPort, IInv, TypeOK
<1>2. /\ call.at \in Stations /\ call.port \in Ports /\ call.n = 0 /\ call.entries = <<>>
      /\ ~rec[call.at].running /\ call.port \in Int
  BY <1>1, ZenonT(40) DEF IInv, CallInv, TraceOfPort, Fresh, StandsStill, Still, Calls
<1>3. CASE rec' = [rec EXCEPT ![call.at].sel = call.port] /\ Goto("start")
  <2>1. /\ call' \in Calls /\ call'.pc = "start" /\ call'.op = "trace" /\ call'.at = call.at
        /\ call'.port = call.port /\ call'.n = 0 /\ call'.entries = <<>>
    BY <1>1, <1>2, <1>3, GotoFields DEF Pcs
  <2>2. RecordersOK' /\ rec'[call.at].sel = call.port /\ ~rec'[call.at].running
    BY <1>1, <1>2, <1>3, RecordersSame, SelectRecorder
  <2>3. CallInv'
    BY <1>2, <2>1, <2>2
       DEF CallInv, TraceOfPort, StandsStill, Paths, ReadsRam, Fresh, NamesTwo, Still, Reading, Tracing
  <2> QED
    BY <1>1, <2>1, <2>2, <2>3, RecorderSteps
<1>4. CASE UNCHANGED rec /\ call' = [call EXCEPT !.pc = "start", !.status = "failed"]
  <2>1. call' \in Calls
    BY <1>1, <1>4, ZenonT(40) DEF Calls, Pcs, Outcomes
  <2>2. /\ call'.pc = "start" /\ call'.op = "trace" /\ call'.at = call.at
        /\ call'.port = call.port /\ call'.n = 0 /\ call'.entries = <<>> /\ call'.status = "failed"
    BY <1>1, <1>2, <1>4, ZenonT(40) DEF Calls
  <2>3. CallInv'
    BY <1>2, <1>4, <2>2
       DEF CallInv, TraceOfPort, StandsStill, Paths, ReadsRam, Fresh, NamesTwo, Still, Reading, Tracing
  <2> QED
    BY <1>1, <1>4, <2>1, <2>3, CallSteps
<1> QED
  BY <1>3, <1>4 DEF SelectPort

LEMMA StartCaptureKeeps == ASSUME IInv, StartCapture PROVE IInv'
<1>1. /\ UNCHANGED <<config, file>> /\ left' \in Bounds /\ call.op = "trace" /\ call.pc = "start"
      /\ call \in Calls
  BY LeftTyped DEF StartCapture, IInv, TypeOK
<1>2. /\ call.at \in Stations /\ call.port \in Ports /\ call.n = 0 /\ call.entries = <<>>
      /\ call.status = "success" => rec[call.at].sel = call.port
  BY <1>1 DEF IInv, CallInv, TraceOfPort, Fresh
<1>3. CASE Return("failed") /\ (StartRecorder(call.at) \/ UNCHANGED <<rec, log>>)
  BY <1>1, <1>3, RecordersSame, StartsRecorder, ReturnKeeps, RecorderSteps DEF Outcomes
<1>4. CASE StartRecorder(call.at) /\ call.status = "success" /\ Goto("poll")
  <2>1. /\ call' \in Calls /\ call'.pc = "poll" /\ call'.op = "trace" /\ call'.at = call.at
        /\ call'.port = call.port /\ call'.n = 0 /\ call'.entries = <<>>
    BY <1>1, <1>2, <1>4, GotoFields DEF Pcs
  <2>2. RecordersOK' /\ rec'[call.at].sel = call.port /\ log'[call.at] = <<>>
    BY <1>2, <1>4, RecordersSame, StartsRecorder
  <2>3. OfPort(<<>>, call.port)
    BY EmptySeq DEF OfPort
  <2>4. CallInv'
    BY <1>2, <2>1, <2>2, <2>3
       DEF CallInv, TraceOfPort, StandsStill, Paths, ReadsRam, Fresh, NamesTwo, Still, Reading, Tracing
  <2> QED
    BY <1>1, <2>1, <2>2, <2>4, RecorderSteps
<1> QED
  BY <1>3, <1>4 DEF StartCapture

LEMMA StopKeeps == ASSUME IInv, Stop PROVE IInv'
<1>1. /\ UNCHANGED <<log, config, file>> /\ left' \in Bounds /\ call.pc = "stop" /\ call \in Calls
      /\ call.op \in {"trace", "poll", "stop"}
  BY LeftTyped DEF Stop, IInv, TypeOK, CallInv, Paths
<1>2. PICK ok \in BOOLEAN :
        /\ IF ok THEN Works /\ StopRecorder(call.at) ELSE Fails /\ UNCHANGED rec
        /\ IF call.op = "stop" THEN Return("success")
           ELSE call' = [call EXCEPT !.pc = call.then, !.clean = call.clean /\ ok]
  BY DEF Stop
<1>3. /\ RecordersOK' /\ \A s \in Stations : rec'[s].sel = rec[s].sel
      /\ ok /\ call.at \in Stations => ~rec'[call.at].running
  <2>1. CASE ok /\ call.at \in Stations
    <3>1. rec' = [rec EXCEPT ![call.at].running = FALSE]
      BY <1>2, <2>1 DEF StopRecorder
    <3> QED
      BY <1>1, <2>1, <3>1, RecordersSame, StopsRecorder
  <2>2. CASE ~(ok /\ call.at \in Stations)
    <3>1. UNCHANGED <<rec, log>>
      BY <1>1, <1>2, <2>2 DEF StopRecorder
    <3> QED
      BY <2>2, <3>1, RecordersSame
  <2> QED
    BY <2>1, <2>2
<1>4. CASE call.op = "stop"
  BY <1>1, <1>2, <1>3, <1>4, ReturnKeeps, RecorderSteps DEF Outcomes
<1>5. CASE call.op # "stop"
  <2>1. call' = [call EXCEPT !.pc = call.then, !.clean = call.clean /\ ok]
    BY <1>2, <1>5
  <2>2. /\ call.op = "trace" => call.then \in {"polled", "looked", "open"}
        /\ call.op = "poll" => call.then = "second"
    BY <1>1 DEF IInv, CallInv, Paths
  <2>3. call' \in Calls
    <3> DEFINE clean == call.clean /\ ok
    <3>1. call.then \in Pcs /\ clean \in BOOLEAN
      BY <1>1, <1>5, <2>2, ZenonT(40) DEF Pcs, Calls
    <3>2. call' = [call EXCEPT !.pc = call.then, !.clean = clean]
      BY <2>1
    <3> HIDE DEF clean
    <3> QED
      BY <1>1, <3>1, <3>2, ZenonT(40) DEF Calls
  <2>4. /\ call'.pc = call.then /\ call'.op = call.op /\ call'.at = call.at /\ call'.port = call.port
        /\ call'.n = call.n /\ call'.entries = call.entries /\ call'.clean = (call.clean /\ ok)
    BY <1>1, <2>1, ZenonT(40) DEF Calls
  <2>5. call.n = 0 /\ call.entries = <<>>
    BY <1>1 DEF IInv, CallInv, Fresh, Tracing
  <2>6. CASE call.op = "poll"
    BY <1>1, <1>3, <2>2, <2>3, <2>4, <2>5, <2>6, RecorderSteps
       DEF CallInv, TraceOfPort, StandsStill, Paths, ReadsRam, Fresh, NamesTwo, Reading, Tracing
  <2>7. CASE call.op = "trace"
    <3>1. /\ call.at \in Stations /\ call.port \in Ports
          /\ rec[call.at].sel = call.port /\ OfPort(log[call.at], call.port)
      BY <1>1, <2>7 DEF IInv, CallInv, TraceOfPort, Tracing
    <3>2. call'.clean => Still(call.at)'
      BY <1>3, <2>4, <3>1 DEF Still
    <3>3. TraceOfPort' /\ Fresh' /\ NamesTwo' /\ ReadsRam'
      BY <1>1, <1>3, <2>2, <2>4, <2>5, <2>7, <3>1 DEF TraceOfPort, Fresh, NamesTwo, ReadsRam, Tracing, Reading
    <3>4. StandsStill' /\ Paths'
      BY <2>2, <2>4, <2>7, <3>2 DEF StandsStill, Paths, Reading
    <3> QED
      BY <1>1, <1>3, <2>3, <3>3, <3>4, RecorderSteps DEF CallInv
  <2> QED
    BY <1>1, <1>5, <2>6, <2>7
<1> QED
  BY <1>4, <1>5

-----------------------------------------------------------------------------
(* The read-out *)

LEMMA OpenFileKeeps == ASSUME IInv, OpenFile PROVE IInv'
<1>1. /\ UNCHANGED <<rec, log, config, file>> /\ left' \in Bounds /\ call.pc = "open" /\ call \in Calls
      /\ call.op \in {"trace", "dump"} /\ call.n = 0 /\ call.entries = <<>>
  BY LeftTyped DEF OpenFile, IInv, TypeOK, CallInv, Paths, Fresh, Tracing, Reading
<1>2. CASE Return("file")
  BY <1>1, <1>2, ReturnKeeps, CallSteps DEF Outcomes
<1>3. CASE Goto("wrap")
  <2>1. /\ call' \in Calls /\ call'.pc = "wrap" /\ call'.op = call.op /\ call'.at = call.at
        /\ call'.port = call.port /\ call'.n = 0 /\ call'.entries = <<>> /\ call'.clean = call.clean
    BY <1>1, <1>3, GotoFields DEF Pcs
  <2>2. TraceOfPort' /\ Fresh' /\ NamesTwo' /\ ReadsRam'
    BY <1>1, <2>1 DEF IInv, CallInv, TraceOfPort, Fresh, NamesTwo, ReadsRam, Tracing, Reading
  <2>3. StandsStill' /\ Paths'
    BY <1>1, <2>1 DEF IInv, CallInv, StandsStill, Paths, Still, Reading
  <2> QED
    BY <1>1, <2>1, <2>2, <2>3, CallSteps DEF CallInv
<1>4. CASE call.op # "trace" /\ Goto("wild")
  <2>1. call' \in Calls /\ call'.pc = "wild" /\ call'.op = "dump"
    BY <1>1, <1>4, GotoFields DEF Pcs
  <2>2. CallInv'
    BY <2>1 DEF CallInv, TraceOfPort, Fresh, NamesTwo, ReadsRam, StandsStill, Paths, Tracing, Reading
  <2> QED
    BY <1>1, <2>1, <2>2, CallSteps
<1> QED
  BY <1>2, <1>3, <1>4 DEF OpenFile

LEMMA ReadWrapKeeps == ASSUME IInv, ReadWrap PROVE IInv'
<1>1. /\ UNCHANGED <<rec, log, config, file>> /\ left' \in Bounds /\ call.pc = "wrap" /\ call \in Calls
      /\ call.op \in {"trace", "dump"} /\ call.n = 0 /\ call.entries = <<>>
  BY LeftTyped DEF ReadWrap, IInv, TypeOK, CallInv, Paths, Fresh, Tracing, Reading
<1>2. CASE Return("failed")
  BY <1>1, <1>2, ReturnKeeps, CallSteps DEF Outcomes
<1>3. ASSUME NEW w \in BOOLEAN, NEW clean \in BOOLEAN,
             call' = [call EXCEPT !.pc = "pointer", !.wrap = w, !.clean = clean],
             clean => Still(call.at) /\ w = rec[call.at].wrap
      PROVE  IInv'
  <2>1. call' \in Calls
    BY <1>1, <1>3, ZenonT(40) DEF Calls, Pcs
  <2>2. /\ call'.pc = "pointer" /\ call'.op = call.op /\ call'.at = call.at /\ call'.port = call.port
        /\ call'.n = 0 /\ call'.entries = <<>> /\ call'.clean = clean /\ call'.wrap = w
    BY <1>1, <1>3, ZenonT(40) DEF Calls
  <2>3. TraceOfPort' /\ Fresh' /\ NamesTwo' /\ ReadsRam'
    BY <1>1, <1>3, <2>2 DEF IInv, CallInv, TraceOfPort, Fresh, NamesTwo, ReadsRam, Tracing, Reading
  <2>4. StandsStill' /\ Paths'
    BY <1>1, <1>3, <2>2 DEF IInv, CallInv, StandsStill, Paths, Still, Reading
  <2> QED
    BY <1>1, <2>1, <2>3, <2>4, CallSteps DEF CallInv
<1>4. CASE \E w \in Wrapped(call.at) :
             call' = [call EXCEPT !.pc = "pointer", !.wrap = w,
                                  !.clean = call.clean /\ (call.op = "trace" \/ InProgress(call.at) = {FALSE})]
  <2>1. PICK w \in Wrapped(call.at) :
             call' = [call EXCEPT !.pc = "pointer", !.wrap = w,
                                  !.clean = call.clean /\ (call.op = "trace" \/ InProgress(call.at) = {FALSE})]
    BY <1>4
  <2> DEFINE clean == call.clean /\ (call.op = "trace" \/ InProgress(call.at) = {FALSE})
  <2>2. call.at \in Stations => rec[call.at].wrap \in BOOLEAN /\ rec[call.at].running \in BOOLEAN
    BY DEF IInv, TypeOK, Recorders
  <2>3. w \in BOOLEAN /\ clean \in BOOLEAN
    BY <1>1, <2>1, <2>2, ZenonT(40) DEF Wrapped, Calls
  <2>4. clean => Still(call.at)
    <3>1. CASE call.op = "trace"
      BY <1>1, <3>1 DEF IInv, CallInv, StandsStill, Reading
    <3>2. CASE call.op # "trace"
      BY <3>2 DEF InProgress, Still
    <3> QED
      BY <3>1, <3>2
  <2>5. call.at \in Stations => w = rec[call.at].wrap
    BY <2>1 DEF Wrapped
  <2>6. call' = [call EXCEPT !.pc = "pointer", !.wrap = w, !.clean = clean]
    BY <2>1
  <2> HIDE DEF clean
  <2> QED
    BY <2>3, <2>4, <2>5, <2>6, <1>3 DEF Still
<1>5. CASE \E w \in BOOLEAN : call' = [call EXCEPT !.pc = "pointer", !.wrap = w, !.clean = FALSE]
  BY <1>3, <1>5
<1> QED
  BY <1>2, <1>4, <1>5 DEF ReadWrap

(* The read-out begins at the oldest record. *)
LEMMA ReadFromKeeps ==
    ASSUME IInv, UNCHANGED <<rec, log, config, file>>, left' \in Bounds, call.pc = "pointer",
           NEW ptr \in Cells, NEW clean \in BOOLEAN, clean => call.at \in Stations /\ ptr = rec[call.at].ptr,
           ReadFrom(ptr, clean)
    PROVE  IInv'
<1>1. /\ call \in Calls /\ call.op \in {"trace", "dump"} /\ call.n = 0 /\ call.entries = <<>>
  BY DEF IInv, TypeOK, CallInv, Paths, Fresh, Tracing, Reading
<1>2. CASE \E status \in Outcomes : Return(status)
  BY <1>2, ReturnKeeps, CallSteps
<1>3. CASE call' = [call EXCEPT !.pc = "cells", !.cur = Extent(ptr, call.wrap).cur,
                                !.depth = Extent(ptr, call.wrap).depth, !.clean = call.clean /\ clean]
  <2> DEFINE cur   == Extent(ptr, call.wrap).cur
             depth == Extent(ptr, call.wrap).depth
             both  == call.clean /\ clean
  <2>1. /\ cur = IF call.wrap THEN ptr ELSE 0
        /\ depth = IF call.wrap THEN RamSize ELSE ptr
    BY DEF Extent
  <2>r. RamSize \in Nat \ {0}
    BY CaptureAssumption
  <2>c. call.wrap \in BOOLEAN /\ call.clean \in BOOLEAN
    BY <1>1 DEF Calls
  <2>2. cur \in Cells /\ cur \in Nat /\ depth \in Nat /\ both \in BOOLEAN
    BY <2>1, <2>r, <2>c DEF Cells
  <2>3. call' = [call EXCEPT !.pc = "cells", !.cur = cur, !.depth = depth, !.clean = both]
    BY <1>3
  <2> HIDE DEF cur, depth, both
  <2>4. call' \in Calls
    BY <2>2, <2>3, <1>1, ZenonT(40) DEF Calls, Pcs
  <2>5. /\ call'.pc = "cells" /\ call'.op = call.op /\ call'.at = call.at /\ call'.port = call.port
        /\ call'.n = 0 /\ call'.entries = <<>> /\ call'.clean = both /\ call'.wrap = call.wrap
        /\ call'.cur = cur /\ call'.depth = depth
    BY <2>2, <2>3, <1>1, ZenonT(40) DEF Calls
  <2>6. TraceOfPort' /\ Fresh' /\ NamesTwo'
    BY <2>5, <1>1 DEF IInv, CallInv, TraceOfPort, Fresh, NamesTwo, Tracing, Reading
  <2>7. StandsStill' /\ Paths'
    BY <2>5, <1>1 DEF IInv, CallInv, StandsStill, Paths, Still, Reading, both
  <2>8. ReadsRam'
    <3>1. HasFirst(<<>>)
      BY ShowsNothing
    <3>2. ASSUME both
          PROVE  /\ depth = Len(Kept(log[call.at])) /\ 0 <= depth
                 /\ cur = Around(Start(rec[call.at]), 0)
                 /\ Shows(Kept(log[call.at]), 0, <<>>)
                 /\ call.wrap = rec[call.at].wrap
      <4> DEFINE r == rec[call.at]
      <4>1. call.at \in Stations /\ ptr = r.ptr /\ call.wrap = r.wrap
        BY <3>2 DEF both, IInv, CallInv, ReadsRam
      <4>2. log[call.at] \in Seq(Records) /\ r \in Recorders /\ HoldsLog(r, log[call.at])
        BY <4>1 DEF IInv, TypeOK, RamHoldsLog
      <4>3. r.ptr \in Cells /\ r.wrap \in BOOLEAN
        BY <4>2 DEF Recorders
      <4>4. Len(Kept(log[call.at])) = IF r.wrap THEN RamSize ELSE r.ptr
        BY <4>2, <4>3, RamShowsKept
      <4>5. Around(Start(r), 0) = IF r.wrap THEN r.ptr ELSE 0
        BY <4>3, CaptureAssumption DEF Around, Start, Cells
      <4> QED
        BY <4>1, <4>4, <4>5, <2>1, <2>2, ShowsNothing
    <3> QED
      BY <2>5, <3>1, <3>2 DEF ReadsRam
  <2> QED
    BY <2>4, <2>6, <2>7, <2>8, CallSteps DEF CallInv
<1>4. "failed" \in Outcomes /\ "success" \in Outcomes
  BY DEF Outcomes
<1> QED
  BY <1>2, <1>3, <1>4 DEF ReadFrom

LEMMA ReadPointerKeeps == ASSUME IInv, ReadPointer PROVE IInv'
<1>1. UNCHANGED <<rec, log, config, file>> /\ left' \in Bounds /\ call.pc = "pointer" /\ call \in Calls
  BY LeftTyped DEF ReadPointer, IInv, TypeOK
<1>2. CASE Return("failed")
  BY <1>1, <1>2, ReturnKeeps, CallSteps DEF Outcomes
<1>3. CASE call.at \in Stations /\ ReadFrom(rec[call.at].ptr, TRUE)
  <2>1. rec[call.at].ptr \in Cells
    BY <1>3 DEF IInv, TypeOK, Recorders
  <2> QED
    BY <1>1, <1>3, <2>1, ReadFromKeeps
<1>4. CASE \E ptr \in Cells : ReadFrom(ptr, FALSE)
  BY <1>1, <1>4, ReadFromKeeps
<1>5. CASE Goto("wild") /\ (call.op = "dump" \/ call.at \notin Stations)
  <2>1. call' \in Calls /\ call'.pc = "wild" /\ call'.op = call.op /\ call'.at = call.at
    BY <1>1, <1>5, GotoFields DEF Pcs
  <2>2. call.op = "dump"
    BY <1>1, <1>5 DEF IInv, CallInv, Paths, TraceOfPort, Reading
  <2>3. CallInv'
    BY <2>1, <2>2 DEF CallInv, TraceOfPort, Fresh, NamesTwo, ReadsRam, StandsStill, Paths, Tracing, Reading
  <2> QED
    BY <1>1, <2>1, <2>3, CallSteps
<1> QED
  BY <1>2, <1>3, <1>4, <1>5 DEF ReadPointer

(* A step of the read-out with what it does to the file. *)
LEMMA FileSteps ==
    ASSUME IInv, UNCHANGED <<rec, log, config>>, left' \in Bounds, call' \in Calls, CallInv', TraceIsCapture'
    PROVE  IInv'
<1>1. TypeOK'
  BY DEF IInv, TypeOK
<1> QED
  BY <1>1, SameRecorders DEF IInv

(* The record of the next cell is the next of those that are kept. *)
LEMMA NextRecord ==
    ASSUME IInv, call.pc = "cells", call.n < call.depth, call.clean, call.at \in Stations,
           NEW r, r = rec[call.at].ram[call.cur], r.kind = "value" \/ call.entries # <<>>
    PROVE  /\ call.n + 1 <= call.depth
           /\ NextCell(call.cur) = Around(Start(rec[call.at]), call.n + 1)
           /\ Shows(Kept(log[call.at]), call.n + 1, Joined(call.entries, r))
<1> DEFINE R == rec[call.at]
           L == log[call.at]
           l == Kept(L)
           n == call.n
           E == call.entries
<1>1. /\ L \in Seq(Records) /\ R \in Recorders /\ HoldsLog(R, L) /\ Grammatical(L)
      /\ n \in Nat /\ call.depth \in Nat /\ E \in Seq(Entries)
  BY DEF IInv, TypeOK, RamHoldsLog, LogsGrammatical, Calls
<1>2. /\ call.depth = Len(l) /\ call.cur = Around(Start(R), n) /\ Shows(l, n, E)
  BY DEF IInv, CallInv, ReadsRam
<1> HIDE DEF R, L, n, E
<1>3. R.ptr \in Cells /\ R.wrap \in BOOLEAN /\ R.ptr \in Nat /\ RamSize \in Nat \ {0}
  <2>1. R.ptr \in Cells /\ R.wrap \in BOOLEAN
    BY <1>1 DEF Recorders
  <2>2. RamSize \in Nat \ {0}
    BY CaptureAssumption
  <2> QED
    BY <2>1, <2>2 DEF Cells
<1>4. l \in Seq(Records) /\ Grammatical(l)
  BY <1>1, KeptRecords, KeptGrammatical
<1>5. Len(l) <= RamSize
  <2>1. Len(l) = IF Len(L) <= RamSize THEN Len(L) ELSE RamSize
    BY <1>1, KeptRecords
  <2>2. Len(L) \in Nat
    BY <1>1, LenProperties
  <2> QED
    BY <2>1, <2>2, <1>3
<1>6. \A k \in 0..(Len(l) - 1) : R.ram[Around(Start(R), k)] = l[k + 1]
  BY <1>1, <1>3, RamShowsKept
<1>7. Len(l) \in Nat
  BY <1>4, LenProperties
<1>8. n < Len(l)
  BY <1>2 DEF n
<1> HIDE DEF l
<1>9. n \in 0..(Len(l) - 1) /\ n \in Cells /\ n + 1 \in Nat
  BY <1>1, <1>3, <1>5, <1>7, <1>8 DEF Cells
<1>10. r = l[n + 1]
  BY <1>2, <1>6, <1>9 DEF R
<1>11. Start(R) \in Cells
  BY <1>3 DEF Start, Cells
<1>12. Around(Start(R), n + 1) = NextCell(call.cur)
  BY <1>2, <1>9, <1>11, AroundStep
<1>13. Shows(l, n + 1, Joined(E, l[n + 1]))
  <2>1. l[n + 1].kind = "value" \/ E # <<>>
    BY <1>10 DEF E
  <2> QED
    BY <1>1, <1>2, <1>4, <1>5, <1>8, <2>1, ShowsNext
<1>14. n + 1 <= call.depth
  BY <1>1, <1>2, <1>8, <1>7
<1> QED
  BY <1>10, <1>12, <1>13, <1>14 DEF l, n, E, R, L

LEMMA TakeKeeps ==
    ASSUME IInv, UNCHANGED <<rec, log, config>>, left' \in Bounds, call.pc = "cells", call.n < call.depth,
           NEW r \in Records, NEW clean \in BOOLEAN,
           clean => call.at \in Stations /\ r = rec[call.at].ram[call.cur],
           Take(r, clean)
    PROVE  IInv'
<1>1. CASE Leave(<<>>, 0) /\ Return("success")
  <2>1. file'.lines = <<>>
    BY <1>1 DEF Leave
  <2>2. TraceIsCapture'
    BY <2>1 DEF TraceIsCapture
  <2>3. call' \in Calls /\ CallInv'
    BY <1>1, ReturnKeeps DEF Outcomes
  <2> QED
    BY <2>2, <2>3, FileSteps
<1>2. ASSUME r.kind = "value" \/ call.entries # <<>>, UNCHANGED file,
             call' = [call EXCEPT !.entries = Joined(call.entries, r), !.prev = r, !.cur = NextCell(call.cur),
                                  !.n = call.n + 1, !.clean = call.clean /\ clean]
      PROVE  IInv'
  <2> DEFINE E    == Joined(call.entries, r)
             cur  == NextCell(call.cur)
             n    == call.n + 1
             both == call.clean /\ clean
  <2>1. /\ call \in Calls /\ call.op \in {"trace", "dump"} /\ HasFirst(call.entries)
        /\ call.entries \in Seq(Entries) /\ call.cur \in Cells /\ call.n \in Nat /\ call.clean \in BOOLEAN
    BY DEF IInv, TypeOK, CallInv, Paths, ReadsRam, Reading, Calls
  <2>2. E \in Seq(Entries) /\ HasFirst(E)
    BY <1>2, <2>1, EntriesNext
  <2>3. cur \in Cells
    BY <2>1, CellsNext
  <2>4. n \in Nat /\ both \in BOOLEAN
    BY <2>1
  <2>5. both => /\ n <= call.depth /\ cur = Around(Start(rec[call.at]), n)
                /\ Shows(Kept(log[call.at]), n, E)
    BY <1>2, NextRecord
  <2>6. call' = [call EXCEPT !.entries = E, !.prev = r, !.cur = cur, !.n = n, !.clean = both]
    BY <1>2
  <2>12. both => call.clean
    OBVIOUS
  <2> HIDE DEF E, cur, n, both
  <2>7. call' \in Calls
    BY <2>1, <2>2, <2>3, <2>4, <2>6, ZenonT(40) DEF Calls
  <2>8. /\ call'.pc = "cells" /\ call'.op = call.op /\ call'.at = call.at /\ call'.port = call.port
        /\ call'.n = n /\ call'.entries = E /\ call'.clean = both /\ call'.wrap = call.wrap
        /\ call'.cur = cur /\ call'.depth = call.depth
    BY <2>1, <2>2, <2>3, <2>4, <2>6, ZenonT(40) DEF Calls
  <2>9. TraceOfPort' /\ Fresh' /\ NamesTwo'
    BY <2>8, <2>1 DEF IInv, CallInv, TraceOfPort, Fresh, NamesTwo, Tracing, Reading
  <2>10. StandsStill' /\ Paths'
    BY <2>8, <2>12, <2>1 DEF IInv, CallInv, StandsStill, Paths, Still, Reading
  <2>11. ReadsRam'
    <3>1. both => call.wrap = rec[call.at].wrap /\ call.depth = Len(Kept(log[call.at]))
      BY <2>12 DEF IInv, CallInv, ReadsRam
    <3> QED
      BY <2>2, <2>5, <2>8, <3>1 DEF ReadsRam
  <2> QED
    BY <1>2, <2>7, <2>9, <2>10, <2>11, SameFile, FileSteps DEF CallInv, IInv
<1> QED
  BY <1>1, <1>2 DEF Take

LEMMA ReadCellKeeps == ASSUME IInv, ReadCell PROVE IInv'
<1>1. UNCHANGED <<rec, log, config>> /\ left' \in Bounds /\ call.pc = "cells" /\ call.n < call.depth /\ call \in Calls
  BY LeftTyped DEF ReadCell, IInv, TypeOK
<1>2. CASE call.at \in Stations /\ Take(rec[call.at].ram[call.cur], TRUE)
  <2>1. rec[call.at] \in Recorders /\ call.cur \in Cells
    BY <1>1, <1>2, ZenonT(40) DEF IInv, TypeOK, Calls
  <2>2. rec[call.at].ram[call.cur] \in Records
    BY <2>1 DEF Recorders
  <2> QED
    BY <1>1, <1>2, <2>2, TakeKeeps
<1>3. CASE Take(call.prev, FALSE)
  <2>1. call.prev \in Records
    BY <1>1, ZenonT(40) DEF Calls
  <2> QED
    BY <1>1, <1>3, <2>1, TakeKeeps
<1>4. CASE \E r \in {Blank, Continuation(TRUE)} : Take(r, FALSE)
  <2>1. Blank \in Records /\ Continuation(TRUE) \in Records
    BY DEF Blank, Value, Continuation, Records, States
  <2> QED
    BY <1>1, <1>4, <2>1, TakeKeeps
<1> QED
  BY <1>2, <1>3, <1>4 DEF ReadCell

LEMMA PrintLinesKeeps == ASSUME IInv, PrintLines PROVE IInv'
<1>1. /\ UNCHANGED <<rec, log, config, left>> /\ call.pc = "cells" /\ call.n = call.depth
      /\ Leave(call.entries \o Padding, FirstPolling(call.entries)) /\ Return("success")
      /\ call \in Calls /\ left' \in Bounds
  BY DEF PrintLines, IInv, TypeOK
<1>2. call' \in Calls /\ CallInv'
  BY <1>1, ReturnKeeps DEF Outcomes
<1>3. /\ file'.op = call.op /\ file'.port = call.port /\ file'.mark = FirstPolling(call.entries)
      /\ file'.lines = call.entries \o [i \in 1..(call.depth - Len(call.entries)) |-> Filler(call.op)]
      /\ file'.clean = call.clean
      /\ file'.wrote = IF call.at \in Stations THEN log[call.at] ELSE <<>>
  BY <1>1 DEF Leave, Padding
<1>4. ASSUME call.clean PROVE Captured(file')
  <2>1. /\ call.at \in Stations /\ call.depth = Len(Kept(log[call.at]))
        /\ Shows(Kept(log[call.at]), call.depth, call.entries) /\ HasFirst(call.entries)
    BY <1>1, <1>4 DEF IInv, CallInv, StandsStill, Still, ReadsRam
  <2>2. log[call.at] \in Seq(Records) /\ call.entries \in Seq(Entries)
    BY <1>1, <2>1, ZenonT(40) DEF IInv, TypeOK, Calls
  <2>3. call.op = "trace" => OfPort(log[call.at], call.port)
    BY <1>1 DEF IInv, CallInv, TraceOfPort, Tracing, Reading
  <2> DEFINE f == file'
  <2>4. f.wrote = log[call.at] /\ f.op = call.op /\ f.port = call.port /\ f.mark = FirstPolling(call.entries)
        /\ f.lines = call.entries \o [i \in 1..(call.depth - Len(call.entries)) |-> Filler(call.op)]
    BY <1>3, <2>1
  <2> HIDE DEF f
  <2>5. Captured(f)
    BY <2>1, <2>2, <2>3, <2>4, ShownIsCaptured
  <2> QED
    BY <2>5 DEF f
<1>5. TraceIsCapture'
  BY <1>3, <1>4 DEF TraceIsCapture, Captured
<1> QED
  BY <1>1, <1>2, <1>5, FileSteps

-----------------------------------------------------------------------------
(* The steps of the recorders *)

LEMMA WithTyped ==
    ASSUME NEW q \in Recorders, NEW r \in Records
    PROVE  LET w == With(q, r)
           IN  /\ w \in Recorders /\ w.running = q.running /\ w.sel = q.sel
               /\ w.ram = [q.ram EXCEPT ![q.ptr] = r] /\ w.ptr = NextCell(q.ptr)
               /\ w.wrap = (q.wrap \/ q.ptr = RamSize - 1)
<1> DEFINE ram       == [q.ram EXCEPT ![q.ptr] = r]
           ptr       == NextCell(q.ptr)
           wrap      == q.wrap \/ q.ptr = RamSize - 1
           triggered == q.triggered \/ r.state = "polling"
<1>1. ram \in [Cells -> Records] /\ ptr \in Cells /\ wrap \in BOOLEAN /\ triggered \in BOOLEAN
  BY CellsNext DEF Recorders
<1>2. With(q, r) = [q EXCEPT !.ram = ram, !.ptr = ptr, !.wrap = wrap, !.triggered = triggered]
  BY DEF With, Recorders
<1> HIDE DEF ram, ptr, wrap, triggered
<1>3. /\ With(q, r) \in Recorders /\ With(q, r).running = q.running /\ With(q, r).sel = q.sel
      /\ With(q, r).ram = ram /\ With(q, r).ptr = ptr /\ With(q, r).wrap = wrap
  BY <1>1, <1>2 DEF Recorders
<1> QED
  BY <1>3 DEF ram, ptr, wrap

(* A record may follow what is not full, a value anything. *)
LEMMA GrammaticalNext ==
    ASSUME NEW l \in Seq(Records), Grammatical(l), NEW x \in Records,
           x.kind = "value" \/ (l # <<>> /\ Last(l).kind # "full")
    PROVE  Append(l, x) \in Seq(Records) /\ Grammatical(Append(l, x))
<1> DEFINE m == Append(l, x)
<1>1. m \in Seq(Records) /\ Len(m) = Len(l) + 1 /\ m[Len(l) + 1] = x /\ \A i \in 1..Len(l) : m[i] = l[i]
  BY AppendProperties
<1>2. Len(l) \in Nat
  BY LenProperties
<1> HIDE DEF m
<1>3. ASSUME NEW j \in 1..(Len(m) - 1), m[j].kind = "full"
      PROVE  m[j + 1].kind = "value"
  <2>1. j \in 1..Len(l) /\ m[j] = l[j]
    BY <1>1, <1>2
  <2>2. CASE j = Len(l)
    <3>1. Last(l).kind = "full"
      BY <1>3, <2>1, <2>2 DEF Last
    <3> QED
      BY <3>1, <2>2, <1>1
  <2>3. CASE j # Len(l)
    <3>1. j \in 1..(Len(l) - 1) /\ j + 1 \in 1..Len(l)
      BY <2>1, <2>3, <1>2
    <3> QED
      BY <3>1, <2>1, <1>1, <1>3 DEF Grammatical
  <2> QED
    BY <2>2, <2>3
<1> QED
  BY <1>1, <1>3 DEF Grammatical, m

LEMMA OfPortNext ==
    ASSUME NEW l \in Seq(Records), NEW x, NEW p, OfPort(l, p), x.kind = "value" => x.port = p
    PROVE  OfPort(Append(l, x), p)
<1>1. Len(Append(l, x)) = Len(l) + 1 /\ Append(l, x)[Len(l) + 1] = x /\ \A i \in 1..Len(l) : Append(l, x)[i] = l[i]
  BY AppendProperties
<1>2. Len(l) \in Nat
  BY LenProperties
<1> QED
  BY <1>1, <1>2 DEF OfPort

(* A running recorder writes a record. *)
LEMMA RecordKeeps ==
    ASSUME IInv, NEW s \in Stations, NEW r \in Records, Record(s, r),
           r.kind = "value" => r.port = rec[s].sel,
           r.kind = "value" \/ (log[s] # <<>> /\ Last(log[s]).kind # "full")
    PROVE  IInv'
<1>1. UNCHANGED <<config, call, file>> /\ left' \in Bounds /\ rec[s].running
  BY LeftTyped DEF Record, IInv
<1> DEFINE q == With(rec[s], r)
           m == Append(log[s], r)
<1>2. /\ rec \in [Stations -> Recorders] /\ log \in [Stations -> Seq(Records)] /\ rec[s] \in Recorders
      /\ log[s] \in Seq(Records) /\ HoldsLog(rec[s], log[s]) /\ Grammatical(log[s]) /\ call \in Calls
  BY DEF IInv, TypeOK, RamHoldsLog, LogsGrammatical
<1>3. /\ q \in Recorders /\ q.running = rec[s].running /\ q.sel = rec[s].sel
  BY <1>2, WithTyped
<1>4. m \in Seq(Records) /\ Grammatical(m)
  BY <1>2, GrammaticalNext
<1>5. HoldsLog(q, m)
  <2>1. rec[s].ram \in [Cells -> Records] /\ rec[s].ptr \in Cells /\ rec[s].wrap \in BOOLEAN
    BY <1>2 DEF Recorders
  <2>2. /\ q.ram = [rec[s].ram EXCEPT ![rec[s].ptr] = r] /\ q.ptr = NextCell(rec[s].ptr)
        /\ q.wrap = (rec[s].wrap \/ rec[s].ptr = RamSize - 1)
    BY <1>2, WithTyped
  <2> QED
    BY <1>2, <2>1, <2>2, HoldsOneMore
<1>6. rec' = [rec EXCEPT ![s] = q] /\ log' = [log EXCEPT ![s] = m]
  BY <1>2 DEF Record
<1>7. \A p : OfPort(log[s], p) /\ rec[s].sel = p => OfPort(m, p)
  BY <1>2, OfPortNext
<1> HIDE DEF q, m
<1>8. /\ rec' \in [Stations -> Recorders] /\ rec'[s] = q /\ \A t \in Stations : t # s => rec'[t] = rec[t]
  BY <1>2, <1>3, <1>6
<1>9. /\ log' \in [Stations -> Seq(Records)] /\ log'[s] = m /\ \A t \in Stations : t # s => log'[t] = log[t]
  BY <1>2, <1>4, <1>6
<1>10. RecordersOK'
  BY <1>4, <1>5, <1>8, <1>9 DEF IInv, RecordersOK, RamHoldsLog, LogsGrammatical
<1>11. \A t \in Stations : rec'[t].running = rec[t].running /\ rec'[t].sel = rec[t].sel
  BY <1>3, <1>8
<1>12. TraceOfPort'
  <2>1. ASSUME call.op = "trace", call.pc \in Tracing
        PROVE  rec'[call.at].sel = call.port /\ OfPort(log'[call.at], call.port)
    <3>1. call.pc # "idle"
      BY <2>1 DEF Tracing, Reading
    <3>2. call.at \in Stations /\ rec[call.at].sel = call.port /\ OfPort(log[call.at], call.port)
      BY <2>1, <3>1 DEF IInv, CallInv, TraceOfPort
    <3> QED
      BY <3>2, <1>7, <1>9, <1>11
  <2> QED
    BY <2>1, <1>1, <1>11 DEF IInv, CallInv, TraceOfPort
<1>13. StandsStill'
  BY <1>1, <1>11 DEF IInv, CallInv, StandsStill, Still
<1>14. Paths' /\ Fresh' /\ NamesTwo'
  BY <1>1 DEF IInv, CallInv, Paths, Fresh, NamesTwo
<1>15. ReadsRam'
  <2>1. call.pc \in {"pointer", "cells"} /\ call.clean => rec'[call.at] = rec[call.at] /\ log'[call.at] = log[call.at]
    BY <1>1, <1>8, <1>9 DEF IInv, CallInv, StandsStill, Still
  <2> QED
    BY <1>1, <2>1 DEF IInv, CallInv, ReadsRam
<1> QED
  BY <1>1, <1>2, <1>10, <1>12, <1>13, <1>14, <1>15, RecorderSteps DEF CallInv

LEMMA StopsItselfKeeps == ASSUME IInv, NEW s \in Stations, StopsItself(s) PROVE IInv'
<1>1. /\ UNCHANGED <<log, config, call, file, left>> /\ rec[s].running /\ left' \in Bounds /\ call' \in Calls
      /\ rec' = [rec EXCEPT ![s].running = FALSE]
  BY DEF StopsItself, IInv, TypeOK
<1>2. /\ RecordersOK' /\ ~rec'[s].running
      /\ \A t \in Stations : rec'[t].sel = rec[t].sel /\ rec'[t].wrap = rec[t].wrap /\ (t # s => rec'[t] = rec[t])
  BY <1>1, RecordersSame, StopsRecorder
<1>3. \A t : Still(t) => Still(t)' /\ rec'[t] = rec[t]
  BY <1>1, <1>2 DEF Still
<1>4. TraceOfPort'
  BY <1>1, <1>2 DEF IInv, CallInv, TraceOfPort, Tracing, Reading
<1>5. StandsStill'
  BY <1>1, <1>3 DEF IInv, CallInv, StandsStill
<1>6. Paths' /\ Fresh' /\ NamesTwo'
  BY <1>1 DEF IInv, CallInv, Paths, Fresh, NamesTwo
<1>7. ReadsRam'
  <2>1. call.pc \in {"pointer", "cells"} /\ call.clean => rec'[call.at] = rec[call.at]
    BY <1>3 DEF IInv, CallInv, StandsStill
  <2> QED
    BY <1>1, <2>1 DEF IInv, CallInv, ReadsRam
<1> QED
  BY <1>1, <1>2, <1>4, <1>5, <1>6, <1>7, RecorderSteps DEF CallInv

LEMMA RecorderKeeps == ASSUME IInv, Recorder PROVE IInv'
<1>1. PICK s \in Stations :
         \/ \E v \in LinkStates : Record(s, Value(rec[s].sel, v))
         \/ \E full \in BOOLEAN : Continue(s, full)
         \/ StopsItself(s)
  BY DEF Recorder
<1>2. ASSUME NEW v \in LinkStates, Record(s, Value(rec[s].sel, v)) PROVE IInv'
  <2> DEFINE r == Value(rec[s].sel, v)
  <2>1. rec[s].sel \in Int
    BY DEF IInv, TypeOK, Recorders
  <2>2. r \in Records /\ r.kind = "value" /\ r.port = rec[s].sel
    BY <2>1 DEF Value, Records, States
  <2> QED
    BY <1>2, <2>2, RecordKeeps
<1>3. ASSUME NEW full \in BOOLEAN, Continue(s, full) PROVE IInv'
  <2> DEFINE r == Continuation(full)
  <2>2. r \in Records /\ r.kind # "value"
    BY DEF Continuation, Records, States
  <2> QED
    BY <1>3, <2>2, RecordKeeps DEF Continue
<1> QED
  BY <1>1, <1>2, <1>3, StopsItselfKeeps

-----------------------------------------------------------------------------
(* The commands, and the steps of the Aladin menu *)

LEMMA CommandSteps ==
    ASSUME IInv, UNCHANGED <<rec, log, file>>, config' \in Stations \cup {0, Nowhere}, left' \in Bounds,
           call' \in Calls, CallInv'
    PROVE  IInv'
<1>1. TypeOK'
  BY DEF IInv, TypeOK
<1> QED
  BY <1>1, SameRecorders, SameFile DEF IInv

LEMMA StationsAreNumbers == Stations \cup {0, Nowhere} \subseteq Int
  BY CaptureAssumption DEF Nowhere

LEMMA BeginTraceKeeps ==
    ASSUME IInv, NEW p \in Ports, NEW polls \in 0..left.polls, BeginTrace(p, polls)
    PROVE  IInv'
<1>1. UNCHANGED <<rec, log, config, file>> /\ left' \in Bounds
  BY LeftTyped DEF BeginTrace, IInv
<1>2. polls \in Nat /\ p \in Nat /\ p \in Int
  BY CaptureAssumption DEF IInv, TypeOK, Bounds
<1>3. p \div PerStation \in Int
  <2>1. \A a \in Nat, b \in Nat \ {0} : a \div b \in Int
    OBVIOUS
  <2>2. PerStation \in Nat \ {0}
    BY CaptureAssumption
  <2> QED
    BY <1>2, <2>1, <2>2, Zenon
<1>4. p \in Enabled => p \div PerStation \in Stations
  BY CaptureAssumption
<1> DEFINE pc     == IF p \in Enabled THEN "check" ELSE "idle"
           status == IF p \in Enabled THEN "success" ELSE "invalid port"
           at     == p \div PerStation
<1>5. call' = [Idle EXCEPT !.pc = pc, !.op = "trace", !.at = at, !.port = p, !.polls = polls, !.status = status]
  BY DEF BeginTrace
<1>6. pc \in {"check", "idle"} /\ status \in Outcomes /\ at \in Int /\ (pc = "check" => at \in Stations)
  BY <1>3, <1>4 DEF Outcomes
<1> HIDE DEF pc, status, at
<1>7. call' \in Calls
  BY <1>2, <1>5, <1>6, IdleTyped, ZenonT(40) DEF Calls, Pcs
<1>8. /\ call'.pc = pc /\ call'.op = "trace" /\ call'.at = at /\ call'.port = p
      /\ call'.n = 0 /\ call'.entries = <<>>
  BY <1>5 DEF Idle
<1>9. CallInv'
  BY <1>1, <1>6, <1>8
     DEF CallInv, TraceOfPort, StandsStill, Paths, ReadsRam, Fresh, NamesTwo, Reading, Tracing
<1> QED
  BY <1>1, <1>7, <1>9, CallSteps

LEMMA ConfigureFailsKeeps == ASSUME IInv, ConfigureFails PROVE IInv'
<1>1. UNCHANGED <<rec, log, file>> /\ left' \in Bounds /\ config' \in Stations \cup {0, Nowhere}
  BY LeftTyped DEF ConfigureFails, IInv
<1>2. call' \in Calls
  BY IdleTyped, ZenonT(40) DEF ConfigureFails, Calls, Outcomes
<1>3. call'.pc = "idle" /\ call'.op = "configure" /\ call'.n = 0 /\ call'.entries = <<>>
  BY DEF ConfigureFails, Idle
<1>4. CallInv'
  BY <1>3 DEF CallInv, TraceOfPort, StandsStill, Paths, ReadsRam, Fresh, NamesTwo, Reading, Tracing
<1> QED
  BY <1>1, <1>2, <1>4, CommandSteps

LEMMA ConfigureKeeps ==
    ASSUME IInv, NEW s \in Stations \cup {Nowhere}, NEW p \in Enabled, NEW modules \in Named \X Named,
           Configure(s, p, modules)
    PROVE  IInv'
<1>1. UNCHANGED <<rec, log, file>> /\ left' \in Bounds /\ config' \in Stations \cup {0, Nowhere}
  BY LeftTyped DEF Configure, IInv
<1>2. s \in Int /\ p \in Int
  BY StationsAreNumbers, CaptureAssumption
<1>3. call' \in Calls
  BY <1>2, IdleTyped, ZenonT(40) DEF Configure, Calls, Pcs
<1>4. /\ call'.pc = "select" /\ call'.op = "configure" /\ call'.n = 0 /\ call'.entries = <<>>
      /\ call'.modules = modules
  BY DEF Configure, Idle
<1>5. CallInv'
  BY <1>4 DEF CallInv, TraceOfPort, StandsStill, Paths, ReadsRam, Fresh, NamesTwo, Reading, Tracing
<1> QED
  BY <1>1, <1>3, <1>5, CommandSteps

LEMMA MenuKeeps ==
    ASSUME IInv, NEW op, NEW pc, <<op, pc>> \in {<<"poll", "first">>, <<"stop", "stop">>, <<"dump", "open">>},
           Menu(op, pc)
    PROVE  IInv'
<1>1. UNCHANGED <<rec, log, config, file>> /\ left' \in Bounds /\ config \in Int
  BY LeftTyped, StationsAreNumbers DEF Menu, IInv, TypeOK
<1>2. /\ op \in {"poll", "stop", "dump"} /\ pc \in {"first", "stop", "open"}
      /\ (pc = "first" <=> op = "poll") /\ (pc = "stop" <=> op = "stop") /\ (pc = "open" <=> op = "dump")
  OBVIOUS
<1>3. call' \in Calls
  BY <1>1, <1>2, IdleTyped, ZenonT(40) DEF Menu, Calls, Pcs
<1>4. /\ call'.pc = pc /\ call'.op = op /\ call'.n = 0 /\ call'.entries = <<>>
  BY DEF Menu, Idle
<1>5. CallInv'
  BY <1>2, <1>4 DEF CallInv, TraceOfPort, StandsStill, Paths, ReadsRam, Fresh, NamesTwo, Reading, Tracing
<1> QED
  BY <1>1, <1>3, <1>5, CallSteps

LEMMA CommandsKeep == ASSUME IInv, Commands PROVE IInv'
<1>1. ASSUME NEW s \in Stations \cup {Nowhere}, NEW p \in Enabled, NEW a \in left.modules,
             NEW b \in left.modules, Configure(s, p, <<a, b>>)
      PROVE  IInv'
  <2>1. <<a, b>> \in Named \X Named
    BY DEF IInv, TypeOK, Bounds
  <2> QED
    BY <1>1, <2>1, ConfigureKeeps
<1>2. ASSUME Menu("poll", "first") \/ Menu("stop", "stop") \/ Menu("dump", "open") PROVE IInv'
  BY <1>2, MenuKeeps
<1> QED
  BY <1>1, <1>2, BeginTraceKeeps, ConfigureFailsKeeps DEF Commands

LEMMA SelectProbeKeeps == ASSUME IInv, SelectProbe PROVE IInv'
<1>1. /\ UNCHANGED <<log, config, file>> /\ left' \in Bounds /\ call.op = "configure" /\ call.pc = "select"
      /\ call \in Calls /\ call.port \in Int
  BY LeftTyped, ZenonT(40) DEF SelectProbe, IInv, TypeOK, Calls
<1>2. RecordersOK'
  <2>1. CASE call.at \in Stations /\ rec' = [rec EXCEPT ![call.at].sel = call.port]
    BY <1>1, <2>1, RecordersSame, SelectRecorder
  <2>2. CASE UNCHANGED rec
    BY <1>1, <2>2, RecordersSame
  <2> QED
    BY <2>1, <2>2 DEF SelectProbe
<1>3. call' \in Calls
  BY <1>1, ZenonT(40) DEF SelectProbe, Calls, Pcs
<1>4. call'.pc = "start" /\ call'.op = "configure" /\ call'.n = call.n /\ call'.entries = call.entries
  BY <1>1, ZenonT(40) DEF SelectProbe, Calls
<1>5. CallInv'
  BY <1>1, <1>4 DEF IInv, CallInv, TraceOfPort, StandsStill, Paths, ReadsRam, Fresh, NamesTwo, Reading, Tracing
<1> QED
  BY <1>1, <1>2, <1>3, <1>5, RecorderSteps

LEMMA StartProbeKeeps == ASSUME IInv, StartProbe PROVE IInv'
<1>1. UNCHANGED <<config, file>> /\ left' \in Bounds /\ Return("success")
  BY LeftTyped DEF StartProbe, IInv
<1>2. RecordersOK'
  <2>1. CASE StartRecorder(call.at)
    BY <2>1, RecordersSame, StartsRecorder
  <2>2. CASE UNCHANGED <<rec, log>>
    BY <2>2, RecordersSame
  <2> QED
    BY <2>1, <2>2 DEF StartProbe
<1> QED
  BY <1>1, <1>2, ReturnKeeps, RecorderSteps DEF Outcomes

LEMMA FirstLookKeeps == ASSUME IInv, FirstLook PROVE IInv'
<1>1. /\ UNCHANGED <<rec, log, config, file>> /\ left' \in Bounds /\ call.pc = "first" /\ call \in Calls
      /\ call.op = "poll" /\ call.n = 0 /\ call.entries = <<>>
  BY LeftTyped DEF FirstLook, IInv, TypeOK, CallInv, Paths, Fresh
<1>2. InProgress(call.at) \subseteq BOOLEAN /\ Triggered(call.at) \subseteq BOOLEAN
  BY DEF InProgress, Triggered, IInv, TypeOK, Recorders
<1>3. PICK r \in BOOLEAN, t \in BOOLEAN : Seen(r, t)
  BY <1>2 DEF FirstLook
<1> DEFINE status == IF r THEN "in progress" ELSE "none"
           pc     == IF r /\ t THEN "stop" ELSE "second"
<1>4. call' = [call EXCEPT !.status = status, !.triggered = t, !.then = "second", !.pc = pc]
  BY <1>3 DEF Seen
<1>5. status \in Outcomes /\ pc \in {"stop", "second"}
  BY DEF Outcomes
<1> HIDE DEF status, pc
<1>6. call' \in Calls
  BY <1>1, <1>4, <1>5, ZenonT(40) DEF Calls, Pcs
<1>7. /\ call'.pc = pc /\ call'.op = "poll" /\ call'.n = 0 /\ call'.entries = <<>> /\ call'.then = "second"
  BY <1>1, <1>4, ZenonT(40) DEF Calls
<1>8. CallInv'
  BY <1>5, <1>7 DEF CallInv, TraceOfPort, StandsStill, Paths, ReadsRam, Fresh, NamesTwo, Reading, Tracing
<1> QED
  BY <1>1, <1>6, <1>8, CallSteps

LEMMA SecondLookKeeps == ASSUME IInv, SecondLook PROVE IInv'
<1>1. UNCHANGED <<rec, log, config, file>> /\ left' \in Bounds /\ call \in Calls
  BY LeftTyped DEF SecondLook, IInv, TypeOK
<1>2. call.status \in Outcomes /\ "triggered" \in Outcomes
  BY <1>1, ZenonT(40) DEF Calls, Outcomes
<1>3. \E status \in Outcomes : Return(status)
  BY <1>2 DEF SecondLook
<1> QED
  BY <1>1, <1>3, ReturnKeeps, CallSteps

-----------------------------------------------------------------------------
(* The theorems *)

LEMMA InitKeeps == ASSUME Init PROVE IInv
<1>1. /\ rec = [s \in Stations |-> Stopped(s * PerStation)] /\ log = [s \in Stations |-> <<>>]
      /\ config = 0 /\ call = Idle /\ file = NoFile /\ left \in Limits
  BY DEF Init
<1>2. left \in Bounds /\ config \in Stations \cup {0, Nowhere}
  BY <1>1, CaptureAssumption DEF Bounds
<1>3. ASSUME NEW s \in Stations PROVE Stopped(s * PerStation) \in Recorders /\ HoldsLog(Stopped(s * PerStation), <<>>)
  <2> DEFINE p == s * PerStation
  <2>1. p \in Int
    BY CaptureAssumption
  <2> HIDE DEF p
  <2>2. Blank \in Records /\ 0 \in Cells
    BY CaptureAssumption DEF Blank, Value, Records, States, Cells
  <2>3. Stopped(p) \in Recorders /\ Stopped(p).ptr = 0 /\ Stopped(p).wrap = FALSE
    BY <2>1, <2>2 DEF Stopped, Recorders
  <2>4. HoldsLog(Stopped(p), <<>>)
    BY <2>3, HoldsNothing
  <2> QED
    BY <2>3, <2>4 DEF p
<1>4. TypeOK
  BY <1>1, <1>2, <1>3, IdleTyped, EmptySeq DEF TypeOK
<1>5. RamHoldsLog
  BY <1>1, <1>3 DEF RamHoldsLog
<1>6. LogsGrammatical
  <2>1. 1..(Len(<<>>) - 1) = {}
    BY EmptySeq
  <2> QED
    BY <1>1, <2>1 DEF LogsGrammatical, Grammatical
<1>7. call.pc = "idle" /\ call.n = 0 /\ call.entries = <<>> /\ call.op = "none"
  BY <1>1 DEF Idle
<1>8. CallInv
  BY <1>7 DEF CallInv, TraceOfPort, StandsStill, Paths, ReadsRam, Fresh, NamesTwo, Reading, Tracing
<1>9. TraceIsCapture
  <2>1. file.lines = <<>>
    BY <1>1 DEF NoFile
  <2> QED
    BY <2>1 DEF TraceIsCapture
<1> QED
  BY <1>4, <1>5, <1>6, <1>8, <1>9 DEF IInv

LEMMA LibraryKeeps == ASSUME IInv, Library PROVE IInv'
<1>1. CASE CheckProgress \/ SelectPort \/ StartCapture
  BY <1>1, CheckProgressKeeps, SelectPortKeeps, StartCaptureKeeps
<1>2. CASE Look \/ Polled \/ Looked \/ Stop
  BY <1>2, LookKeeps, PolledKeeps, LookedKeeps, StopKeeps
<1>3. CASE OpenFile \/ ReadWrap \/ ReadPointer \/ ReadCell \/ PrintLines
  BY <1>3, OpenFileKeeps, ReadWrapKeeps, ReadPointerKeeps, ReadCellKeeps, PrintLinesKeeps
<1>4. CASE SelectProbe \/ StartProbe \/ FirstLook \/ SecondLook
  BY <1>4, SelectProbeKeeps, StartProbeKeeps, FirstLookKeeps, SecondLookKeeps
<1> QED
  BY <1>1, <1>2, <1>3, <1>4 DEF Library

LEMMA Invariance == Spec => []IInv
<1>1. Init => IInv
  BY InitKeeps
<1>2. IInv /\ [Next]_vars => IInv'
  <2> SUFFICES ASSUME IInv, [Next]_vars PROVE IInv'
    OBVIOUS
  <2>1. CASE Next
    BY <2>1, RecorderKeeps, CommandsKeep, LibraryKeeps DEF Next
  <2>2. CASE UNCHANGED vars
    <3>1. UNCHANGED <<rec, log, config, file>> /\ UNCHANGED call /\ left' \in Bounds /\ call' \in Calls
      BY <2>2 DEF vars, IInv, TypeOK
    <3>2. CallInv'
      BY <3>1 DEF IInv, CallInv, TraceOfPort, StandsStill, Paths, ReadsRam, Fresh, NamesTwo, Still
    <3> QED
      BY <3>1, <3>2, CallSteps
  <2> QED
    BY <2>1, <2>2
<1> QED
  BY <1>1, <1>2, PTL DEF Spec

(* Every variable keeps its type: the pointer of a recorder and the cell that is
   read stay in the RAM. *)
THEOREM TypeCorrect == Spec => []TypeOK
<1>1. IInv => TypeOK
  BY DEF IInv
<1> QED
  BY <1>1, Invariance, PTL

(* The RAM holds the newest records a recorder wrote since it was started, from the
   first cell or from the pointer round and round. *)
THEOREM RamIsLog == Spec => []RamHoldsLog
<1>1. IInv => RamHoldsLog
  BY DEF IInv
<1> QED
  BY <1>1, Invariance, PTL

(* The lines of a trace, or of the dump of a stopped recorder, are the newest
   records of the capture, each value once with the time it lasted
   (sltStopAndGetLtssm, satcDumpAladinData). *)
THEOREM LinesAreCapture == Spec => []TraceIsCapture
<1>1. IInv => TraceIsCapture
  BY DEF IInv
<1> QED
  BY <1>1, Invariance, PTL

LEMMA ModulesApart ==
    /\ DOMAIN Phydll = {"phy", "dll", "sops"} /\ DOMAIN Tic = {"accm", "tic", "inch", "ticHdr"}
    /\ DOMAIN Tec = {"sqm", "rdr", "sch", "reset", "dma", "tecHdr"}
    /\ DOMAIN Phydll \cap DOMAIN Tic = {} /\ DOMAIN Phydll \cap DOMAIN Tec = {} /\ DOMAIN Tic \cap DOMAIN Tec = {}
<1>1. /\ DOMAIN Phydll = {"phy", "dll", "sops"} /\ DOMAIN Tic = {"accm", "tic", "inch", "ticHdr"}
      /\ DOMAIN Tec = {"sqm", "rdr", "sch", "reset", "dma", "tecHdr"}
  BY DEF Phydll, Tic, Tec
<1> QED
  BY <1>1

LEMMA SettingOf ==
    ASSUME NEW m \in Modules
    PROVE  /\ m \in DOMAIN Phydll => Setting(m) = Mux(0, 0, Phydll[m])
           /\ m \in DOMAIN Tic => Setting(m) = Mux(0, Tic[m], Unset)
           /\ m \in DOMAIN Tec => Setting(m) = Mux(Tec[m], Unset, Unset)
  BY ModulesApart DEF Setting

(* The multiplexers of a module show it, if those before pass on the last one. *)
LEMMA ModuleIsShown ==
    ASSUME NEW m \in Modules, NEW tec, NEW tic, NEW phydll,
           tec = Setting(m)["tec"],
           Setting(m)["tic"] # Unset => tic = Setting(m)["tic"],
           Setting(m)["phydll"] # Unset => phydll = Setting(m)["phydll"]
    PROVE  Shown(tec, tic, phydll) = {m}
<1>1. CASE m \in DOMAIN Phydll
  <2>1. Setting(m) = Mux(0, 0, Phydll[m])
    BY <1>1, SettingOf
  <2>2. Phydll[m] # Unset /\ {n \in DOMAIN Phydll : Phydll[n] = Phydll[m]} = {m}
    BY <1>1 DEF Phydll, Unset
  <2>3. tec = 0 /\ tic = 0 /\ phydll = Phydll[m]
    BY <2>1, <2>2 DEF Mux, Unset
  <2> QED
    BY <2>2, <2>3 DEF Shown
<1>2. CASE m \in DOMAIN Tic
  <2>1. Setting(m) = Mux(0, Tic[m], Unset)
    BY <1>2, SettingOf
  <2>2. Tic[m] # Unset /\ Tic[m] # 0 /\ {n \in DOMAIN Tic : Tic[n] = Tic[m]} = {m}
    BY <1>2 DEF Tic, Unset
  <2>3. tec = 0 /\ tic = Tic[m]
    BY <2>1, <2>2 DEF Mux
  <2> QED
    BY <2>2, <2>3 DEF Shown
<1>3. CASE m \in DOMAIN Tec
  <2>1. Setting(m) = Mux(Tec[m], Unset, Unset)
    BY <1>3, SettingOf
  <2>2. Tec[m] # 0 /\ {n \in DOMAIN Tec : Tec[n] = Tec[m]} = {m}
    BY <1>3 DEF Tec
  <2>3. tec = Tec[m]
    BY <2>1 DEF Mux
  <2> QED
    BY <2>2, <2>3 DEF Shown
<1> QED
  BY <1>1, <1>2, <1>3 DEF Modules

(* A value of a module is set, or there is none for it. *)
LEMMA SettingOfTec == ASSUME NEW m \in Modules PROVE Setting(m)["tec"] # Unset
<1>1. CASE m \in DOMAIN Phydll \cup DOMAIN Tic
  BY <1>1, SettingOf DEF Mux, Unset
<1>2. CASE m \in DOMAIN Tec
  <2>1. Setting(m) = Mux(Tec[m], Unset, Unset) /\ Tec[m] # Unset
    BY <1>2, SettingOf DEF Tec, Unset
  <2> QED
    BY <2>1 DEF Mux
<1> QED
  BY <1>1, <1>2 DEF Modules

(* While a configuration is written, each bus shows the module the file names for
   it, whatever the other shows (satcPrepTmuxsettings). *)
THEOREM BusesAreApart == Spec => []BusesShowTheirModules
<1>1. IInv => BusesShowTheirModules
  <2> DEFINE Apart(a, b) ==
               LET mux == PrepTmuxsettings(a, b)
               IN  /\ a \in Modules => Shown(mux["tec"].a, mux["tic"].a, mux["phydll"].a) = {a}
                   /\ b \in Modules => Shown(mux["tec"].b, mux["tic"].b, mux["phydll"].b) = {b}
  <2>0. (\A a, b : Apart(a, b)) => BusesShowTheirModules
    <3>1. BusesShowTheirModules <=> (call.pc = "select" /\ call.op = "configure" =>
                                        Apart(call.modules[1], call.modules[2]))
      BY Zenon DEF BusesShowTheirModules
    <3> HIDE DEF Apart
    <3> QED
      BY <3>1
  <2> SUFFICES ASSUME NEW a, NEW b PROVE Apart(a, b)
    BY <2>0, Zenon
  <2> DEFINE mux == PrepTmuxsettings(a, b)
  <2>1. \A x \in {"tec", "tic", "phydll"} :
           /\ mux[x].a = Setting(a)[x]
           /\ Setting(b)[x] # Unset => mux[x].b = Setting(b)[x]
    BY DEF PrepTmuxsettings
  <2> HIDE DEF mux
  <2>2. a \in Modules => Shown(mux["tec"].a, mux["tic"].a, mux["phydll"].a) = {a}
    BY <2>1, ModuleIsShown
  <2>3. b \in Modules => Shown(mux["tec"].b, mux["tic"].b, mux["phydll"].b) = {b}
    <3> SUFFICES ASSUME b \in Modules PROVE Shown(mux["tec"].b, mux["tic"].b, mux["phydll"].b) = {b}
      OBVIOUS
    <3> DEFINE tec    == mux["tec"].b
               tic    == mux["tic"].b
               phydll == mux["phydll"].b
    <3>1. /\ tec = Setting(b)["tec"]
          /\ Setting(b)["tic"] # Unset => tic = Setting(b)["tic"]
          /\ Setting(b)["phydll"] # Unset => phydll = Setting(b)["phydll"]
      BY <2>1, SettingOfTec
    <3> HIDE DEF tec, tic, phydll
    <3>2. Shown(tec, tic, phydll) = {b}
      BY <3>1, ModuleIsShown
    <3> QED
      BY <3>2 DEF tec, tic, phydll
  <2> QED
    BY <2>2, <2>3 DEF mux
<1> QED
  BY <1>1, Invariance, PTL

LEMMA PrefixOfNext ==
    ASSUME NEW l \in Seq(Records), NEW x \in Records
    PROVE  IsPrefix(l, l) /\ IsPrefix(l, Append(l, x))
<1> DEFINE m == Append(l, x)
           n == Len(l)
<1>1. m \in Seq(Records) /\ Len(m) = n + 1 /\ \A i \in 1..n : m[i] = l[i]
  BY AppendProperties
<1>2. n \in Nat
  BY LenProperties
<1>3. SubSeq(l, 1, n) = SubSeq(m, 1, n)
  <2>1. SubSeq(l, 1, n) = [i \in 1..n |-> l[i]] /\ SubSeq(m, 1, n) = [i \in 1..n |-> m[i]]
    BY <1>1, <1>2
  <2> QED
    BY <1>1, <2>1
<1> HIDE DEF m
<1>4. IsPrefix(l, l)
  BY <1>2 DEF IsPrefix
<1>5. IsPrefix(l, m)
  BY <1>1, <1>2, <1>3 DEF IsPrefix
<1> QED
  BY <1>4, <1>5 DEF m

(* A trace neither turns the multiplexers of a recorder that runs nor starts it
   again (sltLtssmSetup, against an Aladin capture that the user started). *)
THEOREM RunningIsSpared == Spec => TraceSparesRunning
<1> DEFINE Spared == \A s \in Stations : rec[s].running /\ call.op = "trace" =>
                         rec'[s].sel = rec[s].sel /\ IsPrefix(log[s], log'[s])
<1>1. IInv /\ [Next]_vars => [Spared]_vars
  <2> SUFFICES ASSUME IInv, Next PROVE Spared
    OBVIOUS
  <2>1. \A s \in Stations : log[s] \in Seq(Records) /\ IsPrefix(log[s], log[s])
    <3> SUFFICES ASSUME NEW s \in Stations PROVE log[s] \in Seq(Records) /\ IsPrefix(log[s], log[s])
      OBVIOUS
    <3>1. log[s] \in Seq(Records)
      BY DEF IInv, TypeOK
    <3>2. Blank \in Records
      BY DEF Blank, Value, Records, States
    <3> QED
      BY <3>1, <3>2, PrefixOfNext
  <2>2. CASE UNCHANGED <<rec, log>>
    BY <2>1, <2>2
  <2>3. ASSUME NEW s \in Stations, NEW r \in Records, Record(s, r) PROVE Spared
    <3>1. /\ rec \in [Stations -> Recorders] /\ log \in [Stations -> Seq(Records)] /\ rec[s] \in Recorders
      BY DEF IInv, TypeOK
    <3>2. rec' = [rec EXCEPT ![s] = With(rec[s], r)] /\ log' = [log EXCEPT ![s] = Append(log[s], r)]
      BY <3>1, <2>3 DEF Record
    <3>3. With(rec[s], r).sel = rec[s].sel
      BY <3>1, WithTyped
    <3>4. IsPrefix(log[s], Append(log[s], r))
      BY <2>1, PrefixOfNext
    <3>5. \A t \in Stations : rec'[t].sel = rec[t].sel
      BY <3>1, <3>2, <3>3
    <3>6. \A t \in Stations : IsPrefix(log[t], log'[t])
      BY <3>1, <3>2, <3>4, <2>1
    <3> QED
      BY <3>5, <3>6
  <2>4. CASE Recorder
    <3>1. ASSUME NEW s \in Stations, NEW v \in LinkStates PROVE Value(rec[s].sel, v) \in Records
      BY DEF IInv, TypeOK, Recorders, Value, Records, States
    <3>2. \A full \in BOOLEAN : Continuation(full) \in Records
      BY DEF Continuation, Records, States
    <3>3. ASSUME NEW s \in Stations, StopsItself(s) PROVE Spared
      <4>1. \A t \in Stations : rec'[t].sel = rec[t].sel
        BY <3>3, RecordersSame, StopsRecorder DEF StopsItself
      <4> QED
        BY <3>3, <4>1, <2>1 DEF StopsItself
    <3> QED
      BY <2>3, <2>4, <3>1, <3>2, <3>3 DEF Recorder, Continue
  <2>5. CASE Commands
    <3>1. UNCHANGED <<rec, log>>
      BY <2>5 DEF Commands, BeginTrace, ConfigureFails, Configure, Menu
    <3> QED
      BY <3>1, <2>2
  <2>6. CASE SelectProbe \/ StartProbe
    BY <2>6 DEF SelectProbe, StartProbe
  <2>7. CASE FirstLook \/ SecondLook \/ CheckProgress \/ Look \/ Polled \/ Looked
    <3>1. UNCHANGED <<rec, log>>
      BY <2>7 DEF FirstLook, SecondLook, CheckProgress, Look, Polled, Looked
    <3> QED
      BY <3>1, <2>2
  <2>8. CASE OpenFile \/ ReadWrap \/ ReadPointer \/ ReadCell \/ PrintLines
    <3>1. UNCHANGED <<rec, log>>
      BY <2>8 DEF OpenFile, ReadWrap, ReadPointer, ReadCell, PrintLines
    <3> QED
      BY <3>1, <2>2
  <2>9. CASE SelectPort
    <3>1. call.op = "trace" /\ call.pc = "select" /\ UNCHANGED log
      BY <2>9 DEF SelectPort
    <3>2. call.at \in Stations /\ ~rec[call.at].running
      BY <3>1 DEF IInv, CallInv, StandsStill, Still
    <3>3. \A s \in Stations : s # call.at => rec'[s] = rec[s]
      BY <2>9 DEF SelectPort, IInv, TypeOK
    <3> QED
      BY <3>1, <3>2, <3>3, <2>1
  <2>10. CASE StartCapture
    <3>1. call.op = "trace" /\ call.pc = "start" /\ (StartRecorder(call.at) \/ UNCHANGED <<rec, log>>)
      BY <2>10 DEF StartCapture
    <3>2. call.at \in Stations /\ ~rec[call.at].running
      BY <3>1 DEF IInv, CallInv, StandsStill, Still
    <3>3. \A s \in Stations : s # call.at => rec'[s] = rec[s] /\ log'[s] = log[s]
      BY <3>1, RecordersSame, StartsRecorder
    <3> QED
      BY <3>2, <3>3, <2>1
  <2>11. CASE Stop
    <3>1. UNCHANGED log /\ (StopRecorder(call.at) \/ UNCHANGED rec)
      BY <2>11 DEF Stop
    <3>2. \A s \in Stations : rec'[s].sel = rec[s].sel
      <4>1. CASE call.at \in Stations /\ rec' = [rec EXCEPT ![call.at].running = FALSE]
        BY <3>1, <4>1, RecordersSame, StopsRecorder
      <4> QED
        BY <3>1, <4>1 DEF StopRecorder
    <3> QED
      BY <3>1, <3>2, <2>1
  <2> QED
    BY <2>4, <2>5, <2>6, <2>7, <2>8, <2>9, <2>10, <2>11 DEF Next, Library
<1> QED
  BY <1>1, Invariance, PTL DEF Spec, TraceSparesRunning

===============================================================================
