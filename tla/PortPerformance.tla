-------------------------- MODULE PortPerformance --------------------------
(***************************************************************************)
(* The performance monitor of a switch.  It is started, read and stopped   *)
(* station by station and port by port, one register access after the      *)
(* other, while the ports carry traffic.  A station hands out its counters *)
(* through one register, each read the next one of a fixed order.  The     *)
(* statistics are made of the differences of two such read-outs.           *)
(*                                                                         *)
(* Rates are the totals over the time and are left out.                    *)
(***************************************************************************)
EXTENDS Naturals, SequencesExt, FiniteSetsExt, TLC

CONSTANTS
    Switches,       \* the switches, by index
    NumStations,    \* ATLAS_MAX_STN
    PerStation,     \* ATLAS_MAX_PORT_PER_STN
    ChipPorts,      \* the number of ports the chip id tells
    X1Ports,        \* the management ports beyond those
    MaxWidth,       \* the most lanes of the port that starts at a number; 0: none does
    Speeds,         \* the generations a link may have negotiated
    CounterMod,     \* 2^32
    FirstCounts,    \* what the counters may have come to at the first read-out
    Tlps,           \* what the ports carry: [port, dir, kind, payload]
    MaxTlps,        \* bound: packets during one command
    MaxFailures     \* bound: failing accesses

Stations == 0 .. NumStations - 1
Ports == 0 .. NumStations * PerStation - 1
StationOf(p) == p \div PerStation

Directions == {"ingress", "egress"}
TlpFields == <<"PH", "PDW", "NPH", "NPDW", "CplH", "CplDW">>
Fields == ToSet(TlpFields) \union {"DLLP"}
Kinds == {"P", "NP", "Cpl", "DLLP"}
Counters == Ports \X Directions \X Fields

KindOf == [PH |-> "P", PDW |-> "P", NPH |-> "NP", NPDW |-> "NP", CplH |-> "Cpl", CplDW |-> "Cpl", DLLP |-> "DLLP"]
HeaderOf == [PDW |-> "PH", NPDW |-> "NPH", CplDW |-> "CplH"]

TLP_OH_DW == 2          \* PCIE_PERF_TLP_OH_DW
TLP_DW == 3 + TLP_OH_DW \* PCIE_PERF_TLP_DW: header and overhead

ASSUME PerformanceAssumption ==
    /\ NumStations \in Nat \ {0} /\ PerStation \in Nat \ {0}
    /\ ChipPorts \in Ports /\ X1Ports \subseteq Ports
    /\ \A t \in Tlps : t.port \in Ports /\ t.dir \in Directions /\ t.kind \in Kinds /\ t.payload \in Nat
    /\ FirstCounts \subseteq Nat /\ MaxTlps \in Nat
    \* as with 32 bits: the total of a port does not come round in twice as many bits
    /\ CounterMod \in Nat /\ CounterMod > 20
    /\ \A p \in Ports : MaxWidth[p] \in Nat
    \* no counter comes round twice between two read-outs, which the difference of the two could not tell
    /\ \A t \in Tlps : MaxTlps * (TLP_DW + t.payload) < CounterMod

VARIABLES
    pm,         \* the call in progress: [pc, op, dev, at, pass, statistic, elapsed, status]
    monitor,    \* of each switch: the stations and ports at work
    pointer,    \* the read pointer of each station
    count,      \* what each counter has counted
    temp,       \* ptrTempBuf
    data,       \* PortPerfData: [valid, speed, pre, cur, stats]
    carried,    \* history: the packets that were counted, and the dwords of their payload
    mark,       \* history: what had been counted and carried when a counter was read, for both passes
    tlps, failures

perfVars == << pm, monitor, pointer, count, carried, temp, data, mark, tlps >>

Off == [ram |-> {}, tic |-> {}, running |-> {}, egress |-> {}]
NoCall == [pc |-> "none", op |-> "none", dev |-> 0, at |-> 0, pass |-> 1,
           statistic |-> FALSE, elapsed |-> 0, status |-> "none"]
NoData == [valid |-> {}, speed |-> <<>>, pre |-> <<>>, cur |-> <<>>, stats |-> <<>>]
Nothing == [c \in Counters |-> 0]
NoPackets == [k \in Ports \X Directions \X Kinds |-> [packets |-> 0, payload |-> 0]]
NotRead == [c \in Counters |-> [count |-> 0, of |-> [packets |-> 0, payload |-> 0]]]
NoMark == [pre |-> NotRead, cur |-> NotRead]

PerfInit ==
    /\ pm = NoCall /\ monitor = [d \in Switches |-> Off]
    /\ pointer = [s \in Stations |-> 0] /\ count = Nothing
    /\ carried = NoPackets /\ temp = <<>> /\ data = NoData /\ mark = NoMark /\ tlps = 0

(***************************************************************************)
(* The hardware.                                                           *)
(***************************************************************************)
\* The order in which a station hands out its counters.
OfPorts(s, dir, fields) ==
    [n \in 1 .. PerStation * Len(fields) |->
        <<s * PerStation + ((n - 1) \div Len(fields)), dir, fields[((n - 1) % Len(fields)) + 1]>>]
StationOrder ==
    [s \in Stations |->
        OfPorts(s, "ingress", TlpFields) \o OfPorts(s, "egress", TlpFields)
            \o OfPorts(s, "ingress", <<"DLLP">>) \o OfPorts(s, "egress", <<"DLLP">>)]

\* The packets a counter is about.
Traced(c) == <<c[1], c[2], KindOf[c[3]]>>

\* The ingress counters count the overhead of a packet among its dwords, the egress ones do not.
Adds(t, c) ==
    IF Traced(c) # <<t.port, t.dir, t.kind>> THEN 0
    ELSE IF c[3] \in DOMAIN HeaderOf THEN (IF t.dir = "ingress" THEN TLP_DW ELSE 3) + t.payload
    ELSE 1

\* A packet passes while its port is monitored.
Traffic ==
    /\ pm.pc \in {"rewind", "drain", "sleep"} /\ tlps < MaxTlps
    /\ \E t \in Tlps :
          /\ StationOf(t.port) \in monitor[pm.dev].running
          /\ t.dir = "egress" => t.port \in monitor[pm.dev].egress
          /\ count' = [c \in Counters |-> count[c] + Adds(t, c)]
          /\ carried' = [carried EXCEPT ![<<t.port, t.dir, t.kind>>] =
                            [packets |-> @.packets + 1, payload |-> @.payload + t.payload]]
    /\ tlps' = tlps + 1
    /\ UNCHANGED << pm, monitor, pointer, temp, data, mark, failures >>

(***************************************************************************)
(* A call: Begin opens it, and its status is there when pc is "done".      *)
(***************************************************************************)
Finish(status) == pm' = [pm EXCEPT !.pc = "done", !.status = status]
Goto(pc, at) == pm' = [pm EXCEPT !.pc = pc, !.at = at]

\* Any access may fail; the call ends where it is, and the stations and ports already set stay as they are.
AccessFails ==
    /\ pm.pc \in {"init", "control", "rewind", "drain"} /\ failures < MaxFailures
    /\ failures' = failures + 1
    /\ Finish("failed") /\ temp' = <<>>
    /\ UNCHANGED << monitor, pointer, count, carried, data, mark, tlps >>

FirstPc(op) == CASE op = "START" -> "init" [] op = "READ" -> "rewind" [] op = "STOP" -> "control"

SppGetPciePortPerformance(op, d, statistic, elapsed) ==
    /\ pm' = [pc |-> FirstPc(op), op |-> op, dev |-> d, at |-> 0, pass |-> 1,
              statistic |-> statistic, elapsed |-> elapsed, status |-> "none"]
    /\ UNCHANGED << monitor, pointer, count, carried, temp, data, mark, tlps, failures >>

\* START looks for the ports: it steps over the lanes of each one it finds.
PortExists(p) == p < ChipPorts \/ p \in X1Ports
SppGetPciePortPerformanceInit ==
    /\ pm.pc = "init"
    /\ IF pm.at \notin Ports
       THEN /\ Goto("control", 0)
            /\ \E n \in FirstCounts : count' = [c \in Counters |-> n]
            /\ UNCHANGED data
       ELSE /\ UNCHANGED count
            /\ IF PortExists(pm.at) /\ MaxWidth[pm.at] > 0
               THEN /\ \E speed \in Speeds :
                          data' = [data EXCEPT !.valid = @ \union {pm.at}, !.speed = (pm.at :> speed) @@ @]
                    /\ Goto("init", pm.at + MaxWidth[pm.at])
               ELSE UNCHANGED data /\ Goto("init", pm.at + 1)
    /\ UNCHANGED << monitor, pointer, carried, temp, mark, tlps, failures >>

(***************************************************************************)
(* sppPerfMonControl: the memory and the clock of each station and the     *)
(* egress counters of each port; then each station starts or is reset.     *)
(***************************************************************************)
OfPort(op, p) ==
    LET s == StationOf(p)
    IN (IF p % PerStation # 0 THEN <<>>
        ELSE IF op = "START" THEN << <<"ram", s>>, <<"tic", s>> >> ELSE << <<"tic", s>> >>)
       \o << <<"egress", p>> >>

Writes(op) ==
    FlattenSeq([i \in 1 .. NumStations * PerStation |-> OfPort(op, i - 1)])
        \o [i \in 1 .. NumStations |-> <<"running", i - 1>>]

SppPerfMonControl ==
    /\ pm.pc = "control"
    /\ LET register == Writes(pm.op)[pm.at + 1]
           turned(set) == IF pm.op = "START" THEN set \union {register[2]} ELSE set \ {register[2]}
       IN /\ monitor' = [monitor EXCEPT ![pm.dev][register[1]] = turned(@)]
          /\ pointer' = IF register[1] = "ram" THEN [pointer EXCEPT ![register[2]] = 0] ELSE pointer
    /\ IF pm.at + 1 < Len(Writes(pm.op)) THEN Goto("control", pm.at + 1) ELSE Finish("success")
    /\ UNCHANGED << count, carried, temp, data, mark, tlps, failures >>

(***************************************************************************)
(* sppPerfGetCountersBuf: all stations are rewound, then each is read as   *)
(* often as it has counters.                                               *)
(***************************************************************************)
PerPort == 2 * Len(TlpFields) + 2   \* PCIE_PERF_COUNTERS_PER_PORT
OneStation == PerPort * PerStation

RewindStations ==
    /\ pm.pc = "rewind"
    /\ IF pm.at \notin Stations THEN Goto("drain", 0) /\ UNCHANGED << monitor, pointer >>
       ELSE /\ pointer' = [pointer EXCEPT ![pm.at] = 0]
            /\ monitor' = [monitor EXCEPT ![pm.dev].ram = @ \union {pm.at}]
            /\ Goto("rewind", pm.at + 1)
    /\ UNCHANGED << count, carried, temp, data, mark, tlps, failures >>

Pass == IF pm.pass = 1 THEN "pre" ELSE "cur"

DrainStation ==
    /\ pm.pc = "drain" /\ pm.at < NumStations * OneStation
    /\ LET s == pm.at \div OneStation
           c == StationOrder[s][pointer[s] + 1]
       IN /\ temp' = Append(temp, count[c] % CounterMod)
          /\ pointer' = [pointer EXCEPT ![s] = (@ + 1) % OneStation]
          /\ mark' = [mark EXCEPT ![Pass][c] = [count |-> count[c], of |-> carried[Traced(c)]]]
    /\ Goto("drain", pm.at + 1)
    /\ UNCHANGED << monitor, count, carried, data, tlps, failures >>

\* The words as the structure PCIE_PERF_MONITOR_READ_FIFO_ONE_STN lays them out.
Offset == [PH |-> 0, PDW |-> 1, NPH |-> 2, NPDW |-> 3, CplH |-> 4, CplDW |-> 5]
EgressArea == PerStation * Len(TlpFields)
DllpArea == 2 * EgressArea
Word(words, p, offset) == words[StationOf(p) * OneStation + offset + 1]
Tlp(words, p, area, f) == Word(words, p, area + (p % PerStation) * Len(TlpFields) + Offset[f])

IngressCounters(words, p) ==
    [f \in Fields |-> IF f = "DLLP" THEN Word(words, p, DllpArea + (p % PerStation))
                      ELSE Tlp(words, p, 0, f)]

\* The overhead of a packet is added to its dwords, in 32 bits.
EgressCounters(words, p) ==
    LET raw(f) == Tlp(words, p, EgressArea, f)
    IN [f \in Fields |->
          CASE f = "DLLP" -> Word(words, p, DllpArea + PerStation + (p % PerStation))
            [] f \in DOMAIN HeaderOf -> (raw(f) + raw(HeaderOf[f]) * TLP_OH_DW) % CounterMod
            [] OTHER -> raw(f)]

PortCounters(words) ==
    [p \in data.valid |-> [ingress |-> IngressCounters(words, p), egress |-> EgressCounters(words, p)]]

(***************************************************************************)
(* The statistics of a port, in 64 bits.  A counter that came round is put *)
(* right first.                                                            *)
(***************************************************************************)
LongMod == CounterMod * CounterMod

\* Mutant: a counter that came round is not put right.
GrowthUnwrapped(new, old) == [f \in Fields |-> (LongMod + new[f] - old[f]) % LongMod]
Growth(new, old) ==
    [f \in Fields |-> IF new[f] < old[f] THEN new[f] + CounterMod - old[f] ELSE new[f] - old[f]]

Long(n) == n % LongMod
Payload(dw, headers) ==
    IF Long(dw * 4) < Long(headers * TLP_DW * 4) THEN 0 ELSE Long(dw * 4) - Long(headers * TLP_DW * 4)

\* Posted headers that are too many for the dwords are taken down to packets of one dword.
PostedHeaders(g) == IF Long(g.PH * TLP_DW) > g.PDW THEN g.PDW \div (TLP_DW + 1) ELSE g.PH

Statistics(g) ==
    LET write == Payload(g.PDW, PostedHeaders(g))
        read == Payload(g.CplDW, g.CplH)
        packets == Long(PostedHeaders(g) + g.CplH)
    IN [write |-> write, read |-> read,
        average |-> IF packets = 0 THEN 0 ELSE Long(write + read) \div packets,
        total |-> Long((g.PDW + g.NPDW + g.CplDW) * 4 + g.DLLP * 8)]

IngressStatistics(new, old) == Statistics(Growth(new.ingress, old.ingress))
EgressStatistics(new, old) == Statistics(Growth(new.egress, old.egress))

\* Only the first four generations have a bandwidth; the first port without one ends the call.
HasBandwidth(p) == data.speed[p] \in 1 .. 4
SppPerfCalcStatisticsOnePort(cur, p) ==
    [ingress |-> IngressStatistics(cur[p], data.pre[p]), egress |-> EgressStatistics(cur[p], data.pre[p])]

SppPerfGetCounters ==
    /\ pm.pc = "drain" /\ pm.at = NumStations * OneStation
    /\ LET counters == PortCounters(temp) IN
       CASE ~pm.statistic ->
              data' = [data EXCEPT !.cur = counters] /\ Finish("success")
         [] pm.statistic /\ pm.elapsed = 0 ->
              data' = [data EXCEPT !.cur = counters] /\ Finish("invalid")
         [] pm.statistic /\ pm.elapsed # 0 /\ pm.pass = 1 ->
              data' = [data EXCEPT !.cur = counters, !.pre = counters]
              /\ pm' = [pm EXCEPT !.pc = "sleep"]
         [] OTHER ->
              IF \A p \in data.valid : HasBandwidth(p)
              THEN data' = [data EXCEPT !.cur = counters,
                               !.stats = [p \in data.valid |-> SppPerfCalcStatisticsOnePort(counters, p)]]
                   /\ Finish("success")
              ELSE data' = [data EXCEPT !.cur = counters] /\ Finish("failed")
    /\ temp' = <<>>
    /\ UNCHANGED << monitor, pointer, count, carried, mark, tlps, failures >>

Sleep ==
    /\ pm.pc = "sleep"
    /\ pm' = [pm EXCEPT !.pc = "rewind", !.at = 0, !.pass = 2]
    /\ UNCHANGED << monitor, pointer, count, carried, temp, data, mark, tlps, failures >>

PerfNext ==
    \/ Traffic \/ AccessFails
    \/ SppGetPciePortPerformanceInit
    \/ SppPerfMonControl
    \/ RewindStations \/ DrainStation
    \/ SppPerfGetCounters \/ Sleep

(***************************************************************************)
(* Properties.                                                             *)
(***************************************************************************)
\* What a counter had come to, the egress overhead included, at its read in a pass.
Value(pass, c) ==
    mark[pass][c].count
    + (IF c[2] = "egress" /\ c[3] \in DOMAIN HeaderOf
       THEN TLP_OH_DW * mark[pass][<<c[1], c[2], HeaderOf[c[3]]>>].count ELSE 0)
Grew(c) == Value("cur", c) - Value("pre", c)

\* No packet of the kind passed between the reads of its two counters.
Together(p, dir, f) ==
    \A pass \in {"pre", "cur"} :
        mark[pass][<<p, dir, f>>].of = mark[pass][<<p, dir, HeaderOf[f]>>].of
Brought(p, dir, f) ==
    mark.cur[<<p, dir, f>>].of.payload - mark.pre[<<p, dir, f>>].of.payload

(* The statistics of a port are the traffic that passed between the two reads of
   each counter, also when a counter came round in between: the total of all that
   was counted, and the payload whenever header and dwords speak of the same packets. *)
TrafficCounted ==
    pm.pc = "done" /\ pm.op = "READ" /\ pm.statistic /\ pm.status = "success" =>
        \A p \in data.valid, dir \in Directions :
            LET shown == data.stats[p][dir]
                grew(f) == Grew(<<p, dir, f>>)
            IN /\ shown.total = 4 * (grew("PDW") + grew("NPDW") + grew("CplDW")) + 8 * grew("DLLP")
               /\ Together(p, dir, "PDW") => shown.write = 4 * Brought(p, dir, "PDW")
               /\ Together(p, dir, "CplDW") => shown.read = 4 * Brought(p, dir, "CplDW")

=============================================================================
