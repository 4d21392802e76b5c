-------------------------- MODULE TestProgram_proofs --------------------------
(***************************************************************************)
(* Proofs about the test program and the performance monitor, for every    *)
(* number of stations, ports, packets and failing accesses: the statistics *)
(* of a port are the traffic that passed between the two reads of each     *)
(* counter, and a command leaves the other devices as they are.            *)
(***************************************************************************)
EXTENDS TestProgram, SequenceTheorems, TLAPS

(***************************************************************************)
(* The invariant.                                                          *)
(***************************************************************************)
Stages == {"none", "init", "control", "rewind", "drain", "sleep", "done"}
Traces == Ports \X Directions \X Kinds
Packets == [packets : Nat, payload : Nat]
ReadOuts == [Counters -> [count : Nat, of : Packets]]

PerfTyped ==
    /\ pm \in [pc : Stages, op : {"none", "START", "READ", "STOP"}, dev : {pm.dev}, at : Nat, pass : {1, 2},
               statistic : BOOLEAN, elapsed : {pm.elapsed}, status : {pm.status}]
    /\ data \in [valid : SUBSET Ports, speed : {data.speed}, pre : {data.pre}, cur : {data.cur},
                 stats : {data.stats}]
    /\ pointer \in [Stations -> Nat] /\ temp \in Seq(Nat)
    /\ count \in [Counters -> Nat] /\ carried \in [Traces -> Packets]
    /\ mark \in [pre : ReadOuts, cur : ReadOuts]
    /\ tlps \in 0 .. MaxTlps

(* The stages of a call; the monitor is at work only for a command that waits for it. *)
Course ==
    /\ pc # "performing" => pm = NoCall
    /\ pm.pc # "drain" => temp = <<>>
    /\ pm.statistic => pm.op = "READ"
    /\ pm.op = "READ" => pm.pc \in {"rewind", "drain", "sleep", "done"}
    /\ pm.pass = 2 => pm.statistic
    /\ pm.pc \in {"rewind", "drain"} => pm.op = "READ"
    /\ pm.pc = "sleep" => pm.statistic

(* The read-out comes to the counters of the stations one after the other, and those of
   a station in the order of the structure they are copied to. *)
Area(c) ==
    IF c[3] = "DLLP"
    THEN DllpArea + (IF c[2] = "egress" THEN PerStation ELSE 0) + (c[1] % PerStation)
    ELSE (IF c[2] = "egress" THEN EgressArea ELSE 0) + ((c[1] % PerStation) * Len(TlpFields)) + Offset[c[3]]
Position(c) == (StationOf(c[1]) * OneStation) + Area(c)

(* Stations that were rewound are at their first counter, but for the one that is read. *)
Rewound ==
    /\ pm.pc = "rewind" => \A s \in Stations : s < pm.at => pointer[s] = 0
    /\ pm.pc = "drain" =>
          /\ pm.at <= NumStations * OneStation
          /\ \A s \in Stations : pointer[s] = IF s = pm.at \div OneStation THEN pm.at % OneStation ELSE 0

(* What is in the buffer is what the counters had come to. *)
Copied ==
    pm.pc = "drain" =>
        /\ Len(temp) = pm.at
        /\ \A c \in Counters : Position(c) < pm.at =>
               temp[Position(c) + 1] = mark[Pass][c].count % CounterMod

(* What packets bring to a counter. *)
Load(c, of) ==
    IF c[3] \in DOMAIN HeaderOf
    THEN ((IF c[2] = "ingress" THEN TLP_DW ELSE 3) * of.packets) + of.payload
    ELSE of.packets

(* A counter came from one count to another by what was carried between. *)
Follows(c, early, late) ==
    /\ early.of.packets <= late.of.packets /\ early.of.payload <= late.of.payload
    /\ late.count + Load(c, early.of) = early.count + Load(c, late.of)

Now(c) == [count |-> count[c], of |-> carried[Traced(c)]]

(* The counters that were read in the first and in the second pass of this call. *)
First(c) ==
    /\ pm.statistic
    /\ \/ pm.pass = 1 /\ pm.pc = "drain" /\ Position(c) < pm.at
       \/ pm.pc = "sleep"
       \/ pm.pass = 2 /\ pm.pc \in {"rewind", "drain"}
Second(c) == pm.pass = 2 /\ pm.pc = "drain" /\ Position(c) < pm.at

History ==
    \A c \in Counters :
        /\ First(c) => Follows(c, mark.pre[c], Now(c))
        /\ Second(c) =>
              /\ Follows(c, mark.pre[c], mark.cur[c])
              /\ mark.cur[c].of.packets <= carried[Traced(c)].packets
              /\ mark.cur[c].of.payload <= carried[Traced(c)].payload

(* The counters of the first pass are kept through the second one. *)
Remembered ==
    pm.pc = "sleep" \/ (pm.pass = 2 /\ pm.pc \in {"rewind", "drain"}) =>
        \A p \in data.valid, dir \in Directions, f \in Fields :
            data.pre[p][dir][f] = Value("pre", <<p, dir, f>>) % CounterMod

(* The packets of a command are too few for a counter to come round. *)
Most == IF MaxTlps = 0 THEN 0 ELSE (CounterMod - 1) \div MaxTlps
Tally == \A t \in Traces : (TLP_DW * carried[t].packets) + carried[t].payload <= tlps * Most

(* A command works on the device that was selected. *)
Commanded == {"asking", "calling", "performing", "returned", "refused"}
Others ==
    /\ memory = [d \in Devices |-> memory[d]] /\ selector = [d \in Devices |-> selector[d]]
    /\ monitor = [d \in Switches |-> monitor[d]]
    /\ pc = "performing" => pm.dev = sel
    /\ pc \in Commanded => OthersUntouched

PerfInv == PerfTyped /\ Course /\ Rewound /\ Copied /\ History /\ Remembered /\ Tally /\ TrafficCounted
IInv == PerfInv /\ Others

-----------------------------------------------------------------------------
(***************************************************************************)
(* Division with remainder.                                                *)
(***************************************************************************)
LEMMA DivMod ==
    ASSUME NEW m \in Nat \ {0}, NEW a \in Nat
    PROVE  /\ a % m \in 0 .. m - 1 /\ a \div m \in Nat
           /\ a = (m * (a \div m)) + (a % m)
<1>1. a % m \in Nat /\ a % m < m
  OBVIOUS
<1>2. a \div m \in Nat
  OBVIOUS
<1>3. a = (m * (a \div m)) + (a % m)
  OBVIOUS
<1> QED
  BY <1>1, <1>2, <1>3

LEMMA Quotient ==
    ASSUME NEW m \in Nat \ {0}, NEW q \in Nat, NEW r \in 0 .. m - 1
    PROVE  /\ ((m * q) + r) \div m = q
           /\ ((m * q) + r) % m = r
<1>1. r \in Nat /\ r < m
  OBVIOUS
<1> QED
  BY <1>1

(* Two numbers that are less than m apart have the same quotient or neighbouring ones. *)
LEMMA Apart ==
    ASSUME NEW m \in Nat \ {0}, NEW p \in Nat, NEW q \in Nat, NEW r \in Nat, NEW s \in Nat, r < m, s < m,
           (m * q) + s <= (m * p) + r, ((m * p) + r) - ((m * q) + s) < m
    PROVE  p = q \/ (p = q + 1 /\ r < s)
  OBVIOUS

(* The growth of a counter that is less than what it can show, when it came round once or not. *)
LEMMA Difference ==
    ASSUME NEW m \in Nat \ {0}, NEW x \in Nat, NEW y \in Nat, y <= x, x - y < m
    PROVE  (IF x % m < y % m THEN ((x % m) + m) - (y % m) ELSE (x % m) - (y % m)) = x - y
<1> DEFINE p == x \div m  q == y \div m  r == x % m  s == y % m
<1>1. x = (m * p) + r /\ r \in Nat /\ r < m /\ p \in Nat
  BY DivMod
<1>2. y = (m * q) + s /\ s \in Nat /\ s < m /\ q \in Nat
  BY DivMod
<1> HIDE DEF p, q, r, s
<1>3. p = q \/ (p = q + 1 /\ r < s)
  BY <1>1, <1>2, Apart
<1>4. CASE p = q
  BY <1>1, <1>2, <1>4 DEF r, s
<1>5. CASE p = q + 1 /\ r < s
  <2>1. m * p = (m * q) + m
    BY <1>5, <1>2
  <2> QED
    BY <1>1, <1>2, <1>5, <2>1 DEF r, s
<1> QED
  BY <1>3, <1>4, <1>5

LEMMA Multiples ==
    ASSUME NEW m \in Nat \ {0}, NEW a \in Nat, NEW b \in Nat
    PROVE  (a + (m * b)) % m = a % m
<1> DEFINE q == a \div m  r == a % m
<1>1. a = (m * q) + r /\ r \in Nat /\ r < m /\ q \in Nat
  BY DivMod
<1> HIDE DEF q, r
<1>2. a + (m * b) = (m * (q + b)) + r
  BY <1>1
<1>3. ((m * (q + b)) + r) % m = r
  BY <1>1
<1> QED
  BY <1>2, <1>3 DEF r

(* Adding up before or after a counter came round is the same. *)
LEMMA Sums ==
    ASSUME NEW m \in Nat \ {0}, NEW a \in Nat, NEW b \in Nat
    PROVE  ((a % m) + ((b % m) * 2)) % m = (a + (2 * b)) % m
<1> DEFINE p == a \div m  q == b \div m  r == a % m  s == b % m
<1>1. a = (m * p) + r /\ r \in Nat /\ r < m /\ p \in Nat
  BY DivMod
<1>2. b = (m * q) + s /\ s \in Nat /\ s < m /\ q \in Nat
  BY DivMod
<1> HIDE DEF p, q, r, s
<1>3. a + (2 * b) = (r + (s * 2)) + (m * (p + (2 * q))) /\ r + (s * 2) \in Nat /\ p + (2 * q) \in Nat
  BY <1>1, <1>2
<1>4. ((r + (s * 2)) + (m * (p + (2 * q)))) % m = (r + (s * 2)) % m
  BY <1>3, Multiples
<1> QED
  BY <1>3, <1>4 DEF r, s

(* The next number has the next remainder, or remainder 0 with the next quotient. *)
LEMMA NextUp ==
    ASSUME NEW m \in Nat \ {0}, NEW a \in Nat
    PROVE  IF (a % m) + 1 = m THEN (a + 1) \div m = (a \div m) + 1 /\ (a + 1) % m = 0
                              ELSE (a + 1) \div m = a \div m /\ (a + 1) % m = (a % m) + 1
<1> DEFINE q == a \div m  r == a % m
<1>1. a = (m * q) + r /\ r \in 0 .. m - 1 /\ q \in Nat
  BY DivMod
<1> HIDE DEF q, r
<1>2. CASE r + 1 = m
  <2> DEFINE z == 0
  <2>1. a + 1 = (m * (q + 1)) + z /\ z \in 0 .. m - 1 /\ q + 1 \in Nat
    BY <1>1, <1>2
  <2> HIDE DEF z
  <2>3. (a + 1) \div m = q + 1 /\ (a + 1) % m = z
    BY <2>1, Quotient
  <2>2. (a + 1) \div m = q + 1 /\ (a + 1) % m = 0
    BY <2>3 DEF z
  <2> QED
    BY <2>2, <1>2 DEF q, r
<1>3. CASE r + 1 # m
  <2>1. a + 1 = (m * q) + (r + 1) /\ r + 1 \in 0 .. m - 1
    BY <1>1, <1>3
  <2>2. (a + 1) \div m = q /\ (a + 1) % m = r + 1
    BY <2>1, <1>1, Quotient
  <2> QED
    BY <2>2, <1>3 DEF q, r
<1> QED
  BY <1>2, <1>3 DEF r

-----------------------------------------------------------------------------
(***************************************************************************)
(* Where the counters are.                                                 *)
(***************************************************************************)
LEMMA Sizes ==
    /\ NumStations \in Nat \ {0} /\ PerStation \in Nat \ {0} /\ CounterMod \in Nat \ {0} /\ CounterMod > 20
    /\ MaxTlps \in Nat
    /\ Len(TlpFields) = 6 /\ PerPort = 14 /\ OneStation = 14 * PerStation /\ OneStation \in Nat \ {0}
    /\ EgressArea = 6 * PerStation /\ DllpArea = 12 * PerStation
<1>1. NumStations \in Nat \ {0} /\ PerStation \in Nat \ {0} /\ CounterMod \in Nat /\ CounterMod > 20 /\ MaxTlps \in Nat
  BY PerformanceAssumption
<1>2. Len(TlpFields) = 6
  BY DEF TlpFields
<1>3. PerPort = 14
  BY <1>2 DEF PerPort
<1> QED
  BY <1>1, <1>2, <1>3 DEF OneStation, EgressArea, DllpArea

(* The port of a station. *)
LEMMA PortPlace ==
    ASSUME NEW p \in Ports
    PROVE  /\ StationOf(p) \in Stations /\ p % PerStation \in 0 .. PerStation - 1
           /\ p = (PerStation * StationOf(p)) + (p % PerStation)
<1>1. p \in Nat /\ p < NumStations * PerStation
  BY Sizes DEF Ports
<1>2. p % PerStation \in 0 .. PerStation - 1 /\ StationOf(p) \in Nat /\ p = (PerStation * StationOf(p)) + (p % PerStation)
  BY <1>1, Sizes, DivMod DEF StationOf
<1>3. StationOf(p) < NumStations
  <2>1. \A n, q, s \in Nat : s * q < n * s => q < n
    OBVIOUS
  <2>2. PerStation * StationOf(p) < NumStations * PerStation
    <3>1. PerStation * StationOf(p) \in Nat /\ NumStations * PerStation \in Nat
      BY <1>2, Sizes
    <3> QED
      BY <1>1, <1>2, <3>1
  <2> QED
    BY <2>1, <2>2, <1>2, Sizes
<1> QED
  BY <1>2, <1>3, Sizes DEF Stations

LEMMA StationPort ==
    ASSUME NEW s \in Stations, NEW n \in 0 .. PerStation - 1
    PROVE  /\ (s * PerStation) + n \in Ports
           /\ StationOf((s * PerStation) + n) = s
           /\ ((s * PerStation) + n) % PerStation = n
<1>1. s \in Nat /\ s < NumStations /\ n \in Nat /\ n < PerStation
  BY Sizes DEF Stations
<1>2. s * PerStation = PerStation * s /\ PerStation * s \in Nat
  BY <1>1, Sizes
<1>3. StationOf((s * PerStation) + n) = s /\ ((s * PerStation) + n) % PerStation = n
  BY <1>1, <1>2, Sizes, Quotient DEF StationOf
<1>4. (s * PerStation) + n < NumStations * PerStation
  <2>1. \A a, b, c \in Nat : a < b => (c * a) + c <= b * c
    OBVIOUS
  <2>2. (PerStation * s) + PerStation <= NumStations * PerStation
    BY <2>1, <1>1, Sizes
  <2>3. NumStations * PerStation \in Nat
    BY Sizes
  <2> QED
    BY <2>2, <2>3, <1>1, <1>2, Sizes
<1> QED
  BY <1>1, <1>2, <1>3, <1>4, Sizes DEF Ports

(* A block of a station's counters: port after port the same fields. *)
IsBlock(part, s, dir, fields, width, F) ==
    /\ part \in Seq(Nat \X Directions \X F)
    /\ Len(part) = PerStation * width
    /\ \A n \in 0 .. PerStation - 1, i \in 1 .. width :
          /\ (width * n) + i \in 1 .. PerStation * width
          /\ part[(width * n) + i] = <<(s * PerStation) + n, dir, fields[i]>>

LEMMA Block ==
    ASSUME NEW s \in Stations, NEW dir \in Directions, NEW fields, NEW width \in Nat \ {0}, NEW F,
           Len(fields) = width, \A i \in 1 .. width : fields[i] \in F
    PROVE  IsBlock(OfPorts(s, dir, fields), s, dir, fields, width, F)
<1> DEFINE K == PerStation * width
           at(k) == <<(s * PerStation) + ((k - 1) \div width), dir, fields[((k - 1) % width) + 1]>>
<1>1. K \in Nat /\ s \in Nat
  BY Sizes DEF Stations
<1>2. OfPorts(s, dir, fields) = [k \in 1 .. K |-> at(k)]
  BY DEF OfPorts
<1>3. ASSUME NEW k \in 1 .. K PROVE at(k) \in Nat \X Directions \X F
  <2>1. k - 1 \in Nat
    BY <1>1
  <2>2. (k - 1) \div width \in Nat /\ (k - 1) % width \in 0 .. width - 1
    BY <2>1, DivMod
  <2>3. ((k - 1) % width) + 1 \in 1 .. width
    BY <2>2
  <2>4. (s * PerStation) + ((k - 1) \div width) \in Nat
    BY <2>2, <1>1, Sizes
  <2> QED
    BY <2>3, <2>4
<1>4. [k \in 1 .. K |-> at(k)] \in Seq(Nat \X Directions \X F)
  <2> DEFINE T == Nat \X Directions \X F
  <2>1. \A k \in 1 .. K : at(k) \in T
    BY <1>3
  <2> HIDE DEF at, K, T
  <2>2. [k \in 1 .. K |-> at(k)] \in Seq(T)
    BY <1>1, <2>1, IsASeq
  <2> QED
    BY <2>2 DEF T
<1>5. Len([k \in 1 .. K |-> at(k)]) = K
  <2> HIDE DEF at, K
  <2> QED
    BY <1>1
<1>6. ASSUME NEW n \in 0 .. PerStation - 1, NEW i \in 1 .. width
      PROVE  /\ (width * n) + i \in 1 .. K
             /\ at((width * n) + i) = <<(s * PerStation) + n, dir, fields[i]>>
  <2>1. n \in Nat /\ n < PerStation /\ i \in Nat /\ 1 <= i /\ i <= width /\ i - 1 \in 0 .. width - 1 /\ width * n \in Nat
    BY Sizes
  <2>2. \A a, b, c \in Nat : a < b => (c * a) + c <= b * c
    OBVIOUS
  <2>3. (width * n) + width <= K
    BY <2>1, <2>2, Sizes
  <2>4. ((width * n) + (i - 1)) \div width = n /\ ((width * n) + (i - 1)) % width = i - 1
    BY <2>1, Quotient
  <2>5. ((width * n) + i) - 1 = (width * n) + (i - 1)
    BY <2>1
  <2>6. (width * n) + i \in 1 .. K
    BY <2>1, <2>3, <1>1
  <2> QED
    BY <2>1, <2>4, <2>5, <2>6
<1> QED
  <2> HIDE DEF at, K
  <2>1. \A n \in 0 .. PerStation - 1, i \in 1 .. width : (width * n) + i \in 1 .. K
    BY <1>6
  <2>2. \A n \in 0 .. PerStation - 1, i \in 1 .. width :
            OfPorts(s, dir, fields)[(width * n) + i] = at((width * n) + i)
    BY <2>1, <1>2
  <2> QED
    BY <1>2, <1>4, <1>5, <1>6, <2>2 DEF K, IsBlock

(* Four sequences one after the other. *)
Joined(whole, a, b, c, d) ==
    /\ \A i \in 1 .. Len(a) : whole[i] = a[i]
    /\ \A i \in 1 .. Len(b) : whole[Len(a) + i] = b[i]
    /\ \A i \in 1 .. Len(c) : whole[Len(a) + Len(b) + i] = c[i]
    /\ \A i \in 1 .. Len(d) : whole[Len(a) + Len(b) + Len(c) + i] = d[i]

LEMMA FourParts ==
    ASSUME NEW S, NEW a \in Seq(S), NEW b \in Seq(S), NEW c \in Seq(S), NEW d \in Seq(S)
    PROVE  Joined(a \o b \o c \o d, a, b, c, d)
<1>1. Len(a) \in Nat /\ Len(b) \in Nat /\ Len(c) \in Nat /\ Len(d) \in Nat
  BY LenProperties
<1> DEFINE ab == a \o b  abc == ab \o c
<1>2. ab \in Seq(S) /\ Len(ab) = Len(a) + Len(b)
      /\ \A i \in 1 .. Len(a) + Len(b) : ab[i] = IF i <= Len(a) THEN a[i] ELSE b[i - Len(a)]
  BY ConcatProperties
<1>3. abc \in Seq(S) /\ Len(abc) = Len(ab) + Len(c)
      /\ \A i \in 1 .. Len(ab) + Len(c) : abc[i] = IF i <= Len(ab) THEN ab[i] ELSE c[i - Len(ab)]
  <2> HIDE DEF ab
  <2>1. ab \in Seq(S)
    BY <1>2
  <2>2. abc = ab \o c
    OBVIOUS
  <2> HIDE DEF abc
  <2> QED
    BY <2>1, <2>2, ConcatProperties
<1>5. (a \o b \o c \o d) = abc \o d
  OBVIOUS
<1> HIDE DEF ab, abc
<1>4. \A i \in 1 .. Len(abc) + Len(d) : (abc \o d)[i] = IF i <= Len(abc) THEN abc[i] ELSE d[i - Len(abc)]
  BY <1>3, ConcatProperties
<1>6. ASSUME NEW i \in 1 .. Len(a) PROVE (abc \o d)[i] = a[i]
  BY <1>1, <1>2, <1>3, <1>4
<1>7. ASSUME NEW i \in 1 .. Len(b) PROVE (abc \o d)[Len(a) + i] = b[i]
  BY <1>1, <1>2, <1>3, <1>4
<1>8. ASSUME NEW i \in 1 .. Len(c) PROVE (abc \o d)[Len(a) + Len(b) + i] = c[i]
  <2> DEFINE j == Len(a) + Len(b) + i
  <2>1. j \in 1 .. Len(abc) + Len(d) /\ j <= Len(abc)
    BY <1>1, <1>2, <1>3
  <2>2. j \in 1 .. Len(ab) + Len(c) /\ ~(j <= Len(ab)) /\ j - Len(ab) = i
    BY <1>1, <1>2
  <2> HIDE DEF j
  <2>3. (abc \o d)[j] = c[i]
    BY <2>1, <2>2, <1>3, <1>4
  <2> QED
    BY <2>3 DEF j
<1>9. ASSUME NEW i \in 1 .. Len(d) PROVE (abc \o d)[Len(a) + Len(b) + Len(c) + i] = d[i]
  <2> DEFINE j == Len(a) + Len(b) + Len(c) + i
  <2>1. Len(abc) = Len(a) + Len(b) + Len(c)
    BY <1>1, <1>2, <1>3
  <2>2. j \in 1 .. Len(abc) + Len(d) /\ ~(j <= Len(abc)) /\ j - Len(abc) = i
    BY <1>1, <2>1
  <2> HIDE DEF j
  <2>3. (abc \o d)[j] = d[i]
    BY <2>2, <1>4
  <2> QED
    BY <2>3 DEF j
<1> QED
  BY <1>5, <1>6, <1>7, <1>8, <1>9 DEF Joined

(* What a station hands out at a place. *)
LEMMA Order ==
    ASSUME NEW s \in Stations, NEW n \in 0 .. PerStation - 1
    PROVE  /\ \A i \in 1 .. 6 :
                 /\ StationOrder[s][(6 * n) + i] = <<(s * PerStation) + n, "ingress", TlpFields[i]>>
                 /\ StationOrder[s][(6 * PerStation) + (6 * n) + i]
                        = <<(s * PerStation) + n, "egress", TlpFields[i]>>
           /\ StationOrder[s][(12 * PerStation) + n + 1] = <<(s * PerStation) + n, "ingress", "DLLP">>
           /\ StationOrder[s][(13 * PerStation) + n + 1] = <<(s * PerStation) + n, "egress", "DLLP">>
<1> DEFINE a == OfPorts(s, "ingress", TlpFields)  b == OfPorts(s, "egress", TlpFields)
           c == OfPorts(s, "ingress", <<"DLLP">>)  d == OfPorts(s, "egress", <<"DLLP">>)
           S == Nat \X Directions \X Fields
<1>0. "ingress" \in Directions /\ "egress" \in Directions /\ Len(<<"DLLP">>) = 1 /\ PerStation \in Nat \ {0} /\ n \in Nat
  BY Sizes DEF Directions
<1>1. (\A i \in 1 .. 6 : TlpFields[i] \in Fields) /\ \A i \in 1 .. 1 : <<"DLLP">>[i] \in Fields
  BY DEF Fields, TlpFields, ToSet
<1>2. /\ a \in Seq(S) /\ Len(a) = PerStation * 6
      /\ \A i \in 1 .. 6 : (6 * n) + i \in 1 .. PerStation * 6
                           /\ a[(6 * n) + i] = <<(s * PerStation) + n, "ingress", TlpFields[i]>>
  <2> DEFINE w == Len(TlpFields)
  <2>1. w = 6 /\ w \in Nat \ {0} /\ \A i \in 1 .. w : TlpFields[i] \in Fields
    BY <1>1, Sizes
  <2> HIDE DEF w
  <2>2. Len(TlpFields) = w
    BY DEF w
  <2>3. IsBlock(a, s, "ingress", TlpFields, w, Fields)
    BY <1>0, <2>1, <2>2, Block
  <2> HIDE DEF a
  <2> QED
    BY <1>0, <2>1, <2>3 DEF IsBlock
<1>3. /\ b \in Seq(S) /\ Len(b) = PerStation * 6
      /\ \A i \in 1 .. 6 : (6 * n) + i \in 1 .. PerStation * 6
                           /\ b[(6 * n) + i] = <<(s * PerStation) + n, "egress", TlpFields[i]>>
  <2> DEFINE w == Len(TlpFields)
  <2>1. w = 6 /\ w \in Nat \ {0} /\ \A i \in 1 .. w : TlpFields[i] \in Fields
    BY <1>1, Sizes
  <2> HIDE DEF w
  <2>2. Len(TlpFields) = w
    BY DEF w
  <2>3. IsBlock(b, s, "egress", TlpFields, w, Fields)
    BY <1>0, <2>1, <2>2, Block
  <2> HIDE DEF b
  <2> QED
    BY <1>0, <2>1, <2>3 DEF IsBlock
<1>4. /\ c \in Seq(S) /\ Len(c) = PerStation /\ n + 1 \in 1 .. Len(c)
      /\ c[n + 1] = <<(s * PerStation) + n, "ingress", "DLLP">>
  <2> DEFINE w == 1
  <2>1. w = 1 /\ w \in Nat \ {0} /\ Len(<<"DLLP">>) = w /\ \A i \in 1 .. w : <<"DLLP">>[i] \in Fields
    BY <1>0, <1>1
  <2> HIDE DEF w
  <2>3. IsBlock(c, s, "ingress", <<"DLLP">>, w, Fields)
    BY <1>0, <2>1, Block
  <2> HIDE DEF c
  <2>4. w \in 1 .. w /\ (w * n) + w = n + 1 /\ PerStation * w = PerStation /\ <<"DLLP">>[w] = "DLLP"
    BY <1>0, <2>1
  <2> QED
    BY <1>0, <2>1, <2>3, <2>4 DEF IsBlock
<1>5. /\ d \in Seq(S) /\ Len(d) = PerStation /\ n + 1 \in 1 .. Len(d)
      /\ d[n + 1] = <<(s * PerStation) + n, "egress", "DLLP">>
  <2> DEFINE w == 1
  <2>1. w = 1 /\ w \in Nat \ {0} /\ Len(<<"DLLP">>) = w /\ \A i \in 1 .. w : <<"DLLP">>[i] \in Fields
    BY <1>0, <1>1
  <2> HIDE DEF w
  <2>3. IsBlock(d, s, "egress", <<"DLLP">>, w, Fields)
    BY <1>0, <2>1, Block
  <2> HIDE DEF d
  <2>4. w \in 1 .. w /\ (w * n) + w = n + 1 /\ PerStation * w = PerStation /\ <<"DLLP">>[w] = "DLLP"
    BY <1>0, <2>1
  <2> QED
    BY <1>0, <2>1, <2>3, <2>4 DEF IsBlock
<1>6. StationOrder[s] = a \o b \o c \o d
  BY DEF StationOrder
<1> HIDE DEF a, b, c, d, S
<1>7. /\ \A i \in 1 .. Len(a) : StationOrder[s][i] = a[i]
      /\ \A i \in 1 .. Len(b) : StationOrder[s][Len(a) + i] = b[i]
      /\ \A i \in 1 .. Len(c) : StationOrder[s][Len(a) + Len(b) + i] = c[i]
      /\ \A i \in 1 .. Len(d) : StationOrder[s][Len(a) + Len(b) + Len(c) + i] = d[i]
  <2>1. a \in Seq(S) /\ b \in Seq(S) /\ c \in Seq(S) /\ d \in Seq(S)
    BY <1>2, <1>3, <1>4, <1>5
  <2>2. Joined(a \o b \o c \o d, a, b, c, d)
    BY <2>1, FourParts
  <2> QED
    BY <2>2, <1>6 DEF Joined
<1>71. Len(a) = 6 * PerStation /\ Len(b) = 6 * PerStation /\ Len(c) = PerStation /\ Len(d) = PerStation
  <2>1. Len(a) = PerStation * 6 /\ Len(b) = PerStation * 6 /\ Len(c) = PerStation /\ Len(d) = PerStation
    BY <1>2, <1>3, <1>4, <1>5
  <2> QED
    BY <2>1, <1>0
<1>8. ASSUME NEW i \in 1 .. 6
      PROVE  /\ StationOrder[s][(6 * n) + i] = <<(s * PerStation) + n, "ingress", TlpFields[i]>>
             /\ StationOrder[s][(6 * PerStation) + (6 * n) + i]
                    = <<(s * PerStation) + n, "egress", TlpFields[i]>>
  <2>1. StationOrder[s][(6 * n) + i] = a[(6 * n) + i]
    BY <1>2, <1>7
  <2>2. StationOrder[s][Len(a) + ((6 * n) + i)] = b[(6 * n) + i]
    BY <1>3, <1>7
  <2>3. Len(a) + ((6 * n) + i) = (6 * PerStation) + (6 * n) + i
    BY <1>0, <1>71
  <2> QED
    BY <2>1, <2>2, <2>3, <1>2, <1>3
<1>9. StationOrder[s][(12 * PerStation) + n + 1] = <<(s * PerStation) + n, "ingress", "DLLP">>
  <2>1. StationOrder[s][Len(a) + Len(b) + (n + 1)] = c[n + 1]
    BY <1>4, <1>7
  <2>2. Len(a) + Len(b) + (n + 1) = (12 * PerStation) + n + 1
    BY <1>0, <1>71
  <2> QED
    BY <2>1, <2>2, <1>4
<1>10. StationOrder[s][(13 * PerStation) + n + 1] = <<(s * PerStation) + n, "egress", "DLLP">>
  <2>1. StationOrder[s][Len(a) + Len(b) + Len(c) + (n + 1)] = d[n + 1]
    BY <1>5, <1>7
  <2>2. Len(a) + Len(b) + Len(c) + (n + 1) = (13 * PerStation) + n + 1
    BY <1>0, <1>71
  <2> QED
    BY <2>1, <2>2, <1>5
<1> QED
  BY <1>8, <1>9, <1>10

LEMMA FieldPlaces ==
    /\ \A i \in 1 .. 6 : TlpFields[i] \in Fields \ {"DLLP"} /\ Offset[TlpFields[i]] = i - 1
    /\ \A f \in Fields \ {"DLLP"} : /\ Offset[f] \in 0 .. 5 /\ TlpFields[Offset[f] + 1] = f
    /\ "DLLP" \in Fields
<1>1. \A i \in 1 .. 6 : TlpFields[i] \in Fields \ {"DLLP"} /\ Offset[TlpFields[i]] = i - 1
  BY DEF Fields, TlpFields, Offset, ToSet
<1>2. \A f \in Fields \ {"DLLP"} : \E i \in 1 .. 6 : f = TlpFields[i]
  BY DEF Fields, TlpFields, ToSet
<1>3. \A f \in Fields \ {"DLLP"} : /\ Offset[f] \in 0 .. 5 /\ TlpFields[Offset[f] + 1] = f
  <2> SUFFICES ASSUME NEW f \in Fields \ {"DLLP"} PROVE Offset[f] \in 0 .. 5 /\ TlpFields[Offset[f] + 1] = f
    OBVIOUS
  <2>1. PICK i \in 1 .. 6 : f = TlpFields[i]
    BY <1>2
  <2>2. Offset[f] = i - 1
    BY <1>1, <2>1
  <2>3. Offset[f] + 1 = i
    BY <2>2
  <2> QED
    BY <2>1, <2>2, <2>3
<1> QED
  BY <1>1, <1>3 DEF Fields

(* A counter is at its place, and what is at a place is the counter that belongs there. *)
LEMMA Located ==
    ASSUME NEW c \in Counters
    PROVE  /\ Area(c) \in 0 .. OneStation - 1
           /\ StationOrder[StationOf(c[1])][Area(c) + 1] = c
<1> DEFINE p == c[1]  s == StationOf(p)  n == p % PerStation
<1>1. p \in Ports /\ c[2] \in Directions /\ c[3] \in Fields /\ c = <<p, c[2], c[3]>>
  BY DEF Counters
<1>2. s \in Stations /\ n \in 0 .. PerStation - 1 /\ p = (PerStation * s) + n
  BY <1>1, PortPlace
<1>3. n \in Nat /\ n < PerStation /\ PerStation \in Nat \ {0} /\ (s * PerStation) + n = p
  BY <1>2, Sizes DEF Stations
<1>4. c[2] = "ingress" \/ c[2] = "egress"
  BY <1>1 DEF Directions
<1> HIDE DEF s, n
<1>5. CASE c[3] = "DLLP"
  <2>1. Area(c) = DllpArea + (IF c[2] = "egress" THEN PerStation ELSE 0) + n
    BY <1>5 DEF Area, n
  <2>2. CASE c[2] = "ingress"
    <3>1. Area(c) = (12 * PerStation) + n
      BY <2>1, <2>2, <1>3, Sizes
    <3>2. StationOrder[s][(12 * PerStation) + n + 1] = c
      BY <1>1, <1>2, <1>3, <1>5, <2>2, Order
    <3> QED
      BY <3>1, <3>2, <1>3, Sizes DEF s
  <2>3. CASE c[2] = "egress"
    <3>1. Area(c) = (13 * PerStation) + n
      BY <2>1, <2>3, <1>3, Sizes
    <3>2. StationOrder[s][(13 * PerStation) + n + 1] = c
      BY <1>1, <1>2, <1>3, <1>5, <2>3, Order
    <3> QED
      BY <3>1, <3>2, <1>3, Sizes DEF s
  <2> QED
    BY <2>2, <2>3, <1>4
<1>6. CASE c[3] # "DLLP"
  <2> DEFINE o == Offset[c[3]]
  <2>1. o \in 0 .. 5 /\ TlpFields[o + 1] = c[3] /\ o + 1 \in 1 .. 6
    BY <1>1, <1>6, FieldPlaces
  <2>2. Area(c) = (IF c[2] = "egress" THEN 6 * PerStation ELSE 0) + (n * 6) + o
    BY <1>6, Sizes DEF Area, n
  <2> HIDE DEF o
  <2>0. n \in Nat /\ PerStation \in Nat /\ n < PerStation
    BY <1>3
  <2>3. CASE c[2] = "ingress"
    <3>1. Area(c) = (6 * n) + o /\ (6 * n) + (o + 1) = Area(c) + 1 /\ Area(c) \in 0 .. (14 * PerStation) - 1
      <4>1. Area(c) = (n * 6) + o
        BY <2>0, <2>1, <2>2, <2>3
      <4> QED
        BY <4>1, <2>0, <2>1
    <3>2. StationOrder[s][(6 * n) + (o + 1)] = c
      <4>1. StationOrder[s][(6 * n) + (o + 1)] = <<(s * PerStation) + n, "ingress", TlpFields[o + 1]>>
        BY <1>2, <2>1, Order, Zenon
      <4> QED
        BY <4>1, <1>1, <1>3, <2>1, <2>3, Zenon
    <3>3. OneStation = 14 * PerStation
      BY Sizes
    <3> QED
      BY <3>1, <3>2, <3>3 DEF s
  <2>4. CASE c[2] = "egress"
    <3>1. /\ (6 * PerStation) + (6 * n) + (o + 1) = Area(c) + 1
          /\ Area(c) \in 0 .. (14 * PerStation) - 1
      <4>1. Area(c) = (6 * PerStation) + (n * 6) + o
        BY <2>2, <2>4
      <4> QED
        BY <4>1, <2>0, <2>1
    <3>2. StationOrder[s][(6 * PerStation) + (6 * n) + (o + 1)] = c
      <4>1. StationOrder[s][(6 * PerStation) + (6 * n) + (o + 1)]
                = <<(s * PerStation) + n, "egress", TlpFields[o + 1]>>
        BY <1>2, <2>1, Order, Zenon
      <4> QED
        BY <4>1, <1>1, <1>3, <2>1, <2>4, Zenon
    <3>3. OneStation = 14 * PerStation
      BY Sizes
    <3> QED
      BY <3>1, <3>2, <3>3 DEF s
  <2> QED
    BY <2>3, <2>4, <1>4
<1> QED
  BY <1>5, <1>6

LEMMA EveryPlace ==
    ASSUME NEW s \in Stations, NEW i \in 0 .. OneStation - 1
    PROVE  \E c \in Counters : StationOf(c[1]) = s /\ Area(c) = i
<1>0. /\ PerStation \in Nat \ {0} /\ i \in Nat /\ i < 14 * PerStation
      /\ "ingress" \in Directions /\ "egress" \in Directions
  BY Sizes DEF Directions
<1>1. ASSUME NEW n \in 0 .. PerStation - 1, NEW dir \in Directions, NEW f \in Fields
      PROVE  LET c == <<(s * PerStation) + n, dir, f>> IN
             /\ c \in Counters /\ StationOf(c[1]) = s /\ c[1] % PerStation = n /\ c[2] = dir /\ c[3] = f
  BY StationPort DEF Counters
<1>2. ASSUME i < 12 * PerStation, NEW j \in Nat, NEW dir \in Directions, j < 6 * PerStation,
             i = (IF dir = "egress" THEN 6 * PerStation ELSE 0) + j
      PROVE  \E c \in Counters : StationOf(c[1]) = s /\ Area(c) = i
  <2> DEFINE n == j \div 6  o == j % 6
  <2>1. n \in Nat /\ o \in 0 .. 6 - 1 /\ j = (6 * n) + o
    BY <1>2, DivMod
  <2> HIDE DEF n, o
  <2>2. n \in 0 .. PerStation - 1 /\ o + 1 \in 1 .. 6 /\ (n * 6) + o = j
    BY <2>1, <1>2, <1>0
  <2> DEFINE f == TlpFields[o + 1]
  <2>3. f \in Fields /\ f # "DLLP" /\ Offset[f] = o
    <3>1. f \in Fields \ {"DLLP"} /\ Offset[f] = (o + 1) - 1
      BY <2>2, FieldPlaces
    <3> QED
      BY <3>1, <2>1
  <2> HIDE DEF f
  <2> DEFINE c == <<(s * PerStation) + n, dir, f>>
  <2>4. /\ c \in Counters /\ StationOf(c[1]) = s /\ c[1] % PerStation = n /\ c[2] = dir /\ c[3] = f
    BY <1>1, <2>2, <2>3
  <2> HIDE DEF c
  <2>5. Area(c) = (IF dir = "egress" THEN 6 * PerStation ELSE 0) + (n * 6) + o
    BY <2>3, <2>4, Sizes DEF Area
  <2>6. Area(c) = i
    BY <2>1, <2>2, <2>5, <1>0, <1>2
  <2> QED
    BY <2>4, <2>6
<1>3. ASSUME NEW n \in 0 .. PerStation - 1, NEW dir \in Directions,
             i = (IF dir = "egress" THEN 13 * PerStation ELSE 12 * PerStation) + n
      PROVE  \E c \in Counters : StationOf(c[1]) = s /\ Area(c) = i
  <2> DEFINE c == <<(s * PerStation) + n, dir, "DLLP">>
  <2>1. /\ c \in Counters /\ StationOf(c[1]) = s /\ c[1] % PerStation = n /\ c[2] = dir /\ c[3] = "DLLP"
    BY <1>1, FieldPlaces
  <2> HIDE DEF c
  <2>2. Area(c) = (12 * PerStation) + (IF dir = "egress" THEN PerStation ELSE 0) + n
    BY <2>1, Sizes DEF Area
  <2>3. Area(c) = i
    BY <2>2, <1>0, <1>3
  <2> QED
    BY <2>1, <2>3
<1>4. CASE i < 6 * PerStation
  BY <1>0, <1>4, <1>2
<1>5. CASE 6 * PerStation <= i /\ i < 12 * PerStation
  <2>1. i - (6 * PerStation) \in Nat /\ i - (6 * PerStation) < 6 * PerStation
        /\ i = (6 * PerStation) + (i - (6 * PerStation))
    BY <1>0, <1>5
  <2> QED
    BY <2>1, <1>0, <1>5, <1>2
<1>6. CASE 12 * PerStation <= i /\ i < 13 * PerStation
  <2>1. i - (12 * PerStation) \in 0 .. PerStation - 1 /\ i = (12 * PerStation) + (i - (12 * PerStation))
    BY <1>0, <1>6
  <2> QED
    BY <2>1, <1>0, <1>3
<1>7. CASE 13 * PerStation <= i
  <2>1. i - (13 * PerStation) \in 0 .. PerStation - 1 /\ i = (13 * PerStation) + (i - (13 * PerStation))
    BY <1>0, <1>7
  <2> QED
    BY <2>1, <1>0, <1>3
<1> QED
  BY <1>0, <1>4, <1>5, <1>6, <1>7

LEMMA PositionOf ==
    ASSUME NEW c \in Counters
    PROVE  /\ Position(c) \in Nat /\ Position(c) < NumStations * OneStation
           /\ Position(c) \div OneStation = StationOf(c[1]) /\ Position(c) % OneStation = Area(c)
           /\ StationOf(c[1]) \in Stations
<1> DEFINE s == StationOf(c[1])
<1>1. s \in Stations
  BY PortPlace DEF Counters
<1>2. Area(c) \in 0 .. OneStation - 1
  BY Located
<1>3. s \in Nat /\ s < NumStations
  BY <1>1, Sizes DEF Stations
<1>4. Position(c) = (OneStation * s) + Area(c)
  BY <1>2, <1>3, Sizes DEF Position
<1> HIDE DEF s
<1>5. Position(c) \div OneStation = s /\ Position(c) % OneStation = Area(c)
  <2>1. ((OneStation * s) + Area(c)) \div OneStation = s /\ ((OneStation * s) + Area(c)) % OneStation = Area(c)
    BY <1>2, <1>3, Sizes, Quotient
  <2> QED
    BY <2>1, <1>4
<1>6. (OneStation * s) + OneStation <= NumStations * OneStation
  <2>1. \A x, y, z \in Nat : x < y => (z * x) + z <= y * z
    OBVIOUS
  <2> QED
    BY <2>1, <1>3, Sizes
<1>7. OneStation * s \in Nat /\ NumStations * OneStation \in Nat /\ OneStation \in Nat
  BY <1>3, Sizes
<1>8. Position(c) \in Nat /\ Position(c) < NumStations * OneStation
  BY <1>2, <1>4, <1>6, <1>7
<1> QED
  BY <1>1, <1>5, <1>8 DEF s

(* The counter that is read next, and no other one, has the number of the read. *)
LEMMA NextRead ==
    ASSUME NEW k \in Nat, k < NumStations * OneStation
    PROVE  LET s == k \div OneStation
               c == StationOrder[s][(k % OneStation) + 1]
           IN /\ s \in Stations /\ k % OneStation \in 0 .. OneStation - 1
              /\ c \in Counters /\ \A other \in Counters : Position(other) = k <=> other = c
<1> DEFINE s == k \div OneStation  i == k % OneStation
<1>1. s \in Nat /\ i \in 0 .. OneStation - 1 /\ k = (OneStation * s) + i
  BY Sizes, DivMod
<1>2. s < NumStations
  <2>1. \A x, y, z \in Nat : z * x < y * z => x < y
    OBVIOUS
  <2>2. OneStation * s \in Nat /\ NumStations * OneStation \in Nat /\ OneStation \in Nat
    BY <1>1, Sizes
  <2>3. OneStation * s < NumStations * OneStation
    BY <1>1, <2>2
  <2> QED
    BY <2>1, <2>3, <1>1, Sizes
<1>3. s \in Stations
  BY <1>1, <1>2, Sizes DEF Stations
<1>4. PICK c \in Counters : StationOf(c[1]) = s /\ Area(c) = i
  <2> HIDE DEF s, i
  <2> QED
    BY <1>1, <1>3, EveryPlace
<1>5. StationOrder[s][i + 1] = c
  BY <1>4, Located
<1>6. Position(c) = k
  BY <1>4, <1>1, Sizes DEF Position
<1>7. ASSUME NEW other \in Counters, Position(other) = k PROVE other = c
  <2>1. StationOf(other[1]) = s /\ Area(other) = i
    BY <1>7, PositionOf
  <2>2. StationOrder[StationOf(other[1])][Area(other) + 1] = other
    BY Located
  <2> QED
    BY <2>1, <2>2, <1>5
<1> QED
  BY <1>1, <1>3, <1>5, <1>6, <1>7

-----------------------------------------------------------------------------
(***************************************************************************)
(* The read-out and the statistics.                                        *)
(***************************************************************************)
(* The words of a read-out, taken for the structure, are what the counters had come to. *)
LEMMA Decoded ==
    ASSUME PerfTyped, NEW words, NEW pass \in {"pre", "cur"},
           \A c \in Counters : words[Position(c) + 1] = mark[pass][c].count % CounterMod,
           NEW p \in Ports, NEW f \in Fields
    PROVE  /\ IngressCounters(words, p)[f] = Value(pass, <<p, "ingress", f>>) % CounterMod
           /\ EgressCounters(words, p)[f] = Value(pass, <<p, "egress", f>>) % CounterMod
<1> DEFINE I(g) == <<p, "ingress", g>>  E(g) == <<p, "egress", g>>
<1>1. /\ "ingress" \in Directions /\ "egress" \in Directions /\ CounterMod \in Nat \ {0}
      /\ StationOf(p) \in Nat /\ p % PerStation \in Nat /\ OneStation \in Nat /\ PerStation \in Nat
  BY PortPlace, Sizes DEF Directions, Stations
<1>2. \A g \in Fields : I(g) \in Counters /\ E(g) \in Counters
  BY <1>1 DEF Counters
<1>3. \A c \in Counters : mark[pass][c].count \in Nat
  BY DEF PerfTyped, ReadOuts
<1>7. DOMAIN HeaderOf = {"PDW", "NPDW", "CplDW"} /\ \A g \in DOMAIN HeaderOf : HeaderOf[g] \in Fields \ {"DLLP"} /\ g \in Fields \ {"DLLP"}
  BY DEF HeaderOf, Fields, TlpFields, ToSet
<1>4. \A g \in Fields \ {"DLLP"} :
          /\ Tlp(words, p, 0, g) = mark[pass][I(g)].count % CounterMod
          /\ Tlp(words, p, EgressArea, g) = mark[pass][E(g)].count % CounterMod
  <2> SUFFICES ASSUME NEW g \in Fields \ {"DLLP"}
               PROVE  /\ Tlp(words, p, 0, g) = mark[pass][I(g)].count % CounterMod
                      /\ Tlp(words, p, EgressArea, g) = mark[pass][E(g)].count % CounterMod
    OBVIOUS
  <2>1. Offset[g] \in Nat
    BY FieldPlaces
  <2>2. Area(I(g)) = 0 + ((p % PerStation) * Len(TlpFields)) + Offset[g]
    BY DEF Area
  <2>3. Area(E(g)) = EgressArea + ((p % PerStation) * Len(TlpFields)) + Offset[g]
    BY DEF Area
  <2>4. Tlp(words, p, 0, g) = words[Position(I(g)) + 1]
    BY <2>2 DEF Tlp, Word, Position
  <2>5. Tlp(words, p, EgressArea, g) = words[Position(E(g)) + 1]
    BY <2>3 DEF Tlp, Word, Position
  <2> QED
    BY <1>2, <2>4, <2>5
<1>5. IngressCounters(words, p)["DLLP"] = mark[pass][I("DLLP")].count % CounterMod
  <2>1. Area(I("DLLP")) = DllpArea + 0 + (p % PerStation)
    BY DEF Area
  <2>2. Area(I("DLLP")) = DllpArea + (p % PerStation)
    BY <2>1, <1>1, Sizes
  <2>3. Word(words, p, DllpArea + (p % PerStation)) = words[Position(I("DLLP")) + 1]
    BY <2>2 DEF Word, Position
  <2> QED
    BY <2>3, <1>2, FieldPlaces DEF IngressCounters
<1>6. EgressCounters(words, p)["DLLP"] = mark[pass][E("DLLP")].count % CounterMod
  <2>1. Area(E("DLLP")) = DllpArea + PerStation + (p % PerStation)
    BY DEF Area
  <2>2. Word(words, p, DllpArea + PerStation + (p % PerStation)) = words[Position(E("DLLP")) + 1]
    BY <2>1 DEF Word, Position
  <2>3. EgressCounters(words, p)["DLLP"] = Word(words, p, DllpArea + PerStation + (p % PerStation))
    BY <1>7, FieldPlaces DEF EgressCounters
  <2> QED
    BY <2>2, <2>3, <1>2, FieldPlaces
<1>8. IngressCounters(words, p)[f] = Value(pass, I(f)) % CounterMod
  <2>1. Value(pass, I(f)) = mark[pass][I(f)].count + 0
    BY DEF Value
  <2>2. Value(pass, I(f)) = mark[pass][I(f)].count
    <3>1. mark[pass][I(f)].count \in Nat
      BY <1>2, <1>3
    <3> QED
      BY <2>1, <3>1
  <2>3. CASE f = "DLLP"
    BY <2>2, <2>3, <1>5
  <2>4. CASE f # "DLLP"
    BY <2>2, <2>4, <1>4 DEF IngressCounters
  <2> QED
    BY <2>3, <2>4
<1>9. EgressCounters(words, p)[f] = Value(pass, E(f)) % CounterMod
  <2>1. CASE f \notin DOMAIN HeaderOf
    <3>1. Value(pass, E(f)) = mark[pass][E(f)].count + 0
      BY <2>1 DEF Value
    <3>2. Value(pass, E(f)) = mark[pass][E(f)].count
      <4>1. mark[pass][E(f)].count \in Nat
        BY <1>2, <1>3
      <4> QED
        BY <3>1, <4>1
    <3>3. CASE f = "DLLP"
      BY <3>2, <3>3, <1>6
    <3>4. CASE f # "DLLP"
      <4>1. EgressCounters(words, p)[f] = Tlp(words, p, EgressArea, f)
        BY <2>1, <3>4 DEF EgressCounters
      <4> QED
        BY <3>2, <3>4, <4>1, <1>4
    <3> QED
      BY <3>3, <3>4
  <2>2. CASE f \in DOMAIN HeaderOf
    <3> DEFINE d == mark[pass][E(f)].count  h == mark[pass][E(HeaderOf[f])].count
    <3>1. Value(pass, E(f)) = d + (2 * h)
      BY <2>2 DEF Value, TLP_OH_DW
    <3>2. EgressCounters(words, p)[f] = (Tlp(words, p, EgressArea, f) + (Tlp(words, p, EgressArea, HeaderOf[f]) * 2)) % CounterMod
      BY <2>2, <1>7 DEF EgressCounters, TLP_OH_DW
    <3>3. EgressCounters(words, p)[f] = ((d % CounterMod) + ((h % CounterMod) * 2)) % CounterMod
      BY <3>2, <1>4, <1>7, <2>2
    <3>4. d \in Nat /\ h \in Nat
      BY <1>2, <1>3, <1>7, <2>2
    <3> HIDE DEF d, h
    <3>5. ((d % CounterMod) + ((h % CounterMod) * 2)) % CounterMod = (d + (2 * h)) % CounterMod
      BY <1>1, <3>4, Sums
    <3> QED
      BY <3>1, <3>3, <3>5
  <2> QED
    BY <2>1, <2>2
<1> QED
  BY <1>8, <1>9

(* Packets are light enough that no counter grows by what it can show. *)
LEMMA Light ==
    /\ Most \in Nat /\ MaxTlps * Most < CounterMod
    /\ MaxTlps > 0 => \A t \in Tlps : TLP_DW + t.payload <= Most
<1>1. CASE MaxTlps = 0
  BY <1>1, Sizes DEF Most
<1>2. CASE MaxTlps # 0
  <2>1. MaxTlps \in Nat \ {0} /\ CounterMod - 1 \in Nat
    BY <1>2, Sizes
  <2> DEFINE r == (CounterMod - 1) % MaxTlps
  <2>2. Most = (CounterMod - 1) \div MaxTlps
    BY <1>2 DEF Most
  <2>3. Most \in Nat /\ r \in 0 .. MaxTlps - 1 /\ CounterMod - 1 = (MaxTlps * Most) + r
    BY <2>1, <2>2, DivMod
  <2> HIDE DEF r
  <2>4. MaxTlps * Most \in Nat
    BY <2>1, <2>3
  <2>5. ASSUME NEW t \in Tlps PROVE TLP_DW + t.payload <= Most
    <3> DEFINE w == TLP_DW + t.payload
    <3>1. w \in Nat /\ MaxTlps * w < CounterMod
      BY PerformanceAssumption DEF TLP_DW, TLP_OH_DW
    <3> HIDE DEF w
    <3>2. \A x, y, z \in Nat : x > y => (z * y) + z <= z * x
      OBVIOUS
    <3>3. w > Most => (MaxTlps * Most) + MaxTlps <= MaxTlps * w
      BY <3>1, <3>2, <2>1, <2>3
    <3>4. MaxTlps * w \in Nat
      BY <3>1, <2>1
    <3>5. w <= Most
      BY <3>1, <3>3, <3>4, <2>1, <2>3, <2>4, Sizes
    <3> QED
      BY <3>5 DEF w
  <2> QED
    BY <2>1, <2>3, <2>4, <2>5, Sizes
<1> QED
  BY <1>1, <1>2

LEMMA NeverRound ==
    ASSUME PerfTyped, Tally, NEW t \in Traces
    PROVE  /\ carried[t].packets \in Nat /\ carried[t].payload \in Nat
           /\ (5 * carried[t].packets) + carried[t].payload < CounterMod
<1>1. carried[t].packets \in Nat /\ carried[t].payload \in Nat /\ tlps \in Nat /\ tlps <= MaxTlps
  <2>1. carried[t] \in Packets /\ tlps \in 0 .. MaxTlps
    BY DEF PerfTyped
  <2> QED
    BY <2>1, Sizes DEF Packets
<1>2. (5 * carried[t].packets) + carried[t].payload <= tlps * Most
  BY DEF Tally, TLP_DW, TLP_OH_DW
<1>3. tlps * Most <= MaxTlps * Most
  <2>1. \A x, y, z \in Nat : x <= y => x * z <= y * z
    OBVIOUS
  <2> QED
    BY <1>1, <2>1, Light, Sizes
<1>4. tlps * Most \in Nat /\ MaxTlps * Most \in Nat
  BY <1>1, Light, Sizes
<1> QED
  BY <1>1, <1>2, <1>3, <1>4, Light, Sizes

(* What a counter grew by between its two reads is what the packets brought that were
   carried between, and less than it can show. *)
LEMMA Grown ==
    ASSUME PerfTyped, Tally, NEW c \in Counters,
           \A d \in Counters :
               /\ Follows(d, mark.pre[d], mark.cur[d])
               /\ mark.cur[d].of.packets <= carried[Traced(d)].packets
               /\ mark.cur[d].of.payload <= carried[Traced(d)].payload
    PROVE  /\ Value("pre", c) \in Nat /\ Value("cur", c) \in Nat
           /\ Value("pre", c) <= Value("cur", c) /\ Grew(c) < CounterMod
           /\ c[3] \in {"PH", "CplH"} => Grew(c) = mark.cur[c].of.packets - mark.pre[c].of.packets
           /\ c[3] \in {"PDW", "CplDW"} /\ Together(c[1], c[2], c[3]) =>
                 Grew(c) = (5 * (mark.cur[c].of.packets - mark.pre[c].of.packets))
                           + (mark.cur[c].of.payload - mark.pre[c].of.payload)
<1>1. c = <<c[1], c[2], c[3]>> /\ c[1] \in Ports /\ c[2] \in Directions /\ c[3] \in Fields
  BY DEF Counters
<1>2. \A f \in Fields : KindOf[f] \in Kinds
  BY DEF Fields, TlpFields, ToSet, KindOf, Kinds
<1>3. \A d \in Counters : Traced(d) \in Traces
  BY <1>2 DEF Traced, Counters, Traces
<1>4. \A d \in Counters :
          /\ mark.pre[d].count \in Nat /\ mark.pre[d].of.packets \in Nat /\ mark.pre[d].of.payload \in Nat
          /\ mark.cur[d].count \in Nat /\ mark.cur[d].of.packets \in Nat /\ mark.cur[d].of.payload \in Nat
  BY DEF PerfTyped, ReadOuts, Packets
<1>5. DOMAIN HeaderOf = {"PDW", "NPDW", "CplDW"} /\ \A g \in DOMAIN HeaderOf : HeaderOf[g] \in Fields \ DOMAIN HeaderOf
  BY DEF HeaderOf, Fields, TlpFields, ToSet
<1>6. c[2] = "ingress" \/ c[2] = "egress"
  BY <1>1 DEF Directions
<1> DEFINE t == Traced(c)
           n == carried[t].packets  b == carried[t].payload
           a1 == mark.pre[c].count  k1 == mark.pre[c].of.packets  b1 == mark.pre[c].of.payload
           a2 == mark.cur[c].count  k2 == mark.cur[c].of.packets  b2 == mark.cur[c].of.payload
<1>7. /\ n \in Nat /\ b \in Nat /\ (5 * n) + b < CounterMod /\ CounterMod \in Nat
      /\ a1 \in Nat /\ a2 \in Nat /\ k1 \in Nat /\ k2 \in Nat /\ b1 \in Nat /\ b2 \in Nat
      /\ k1 <= k2 /\ b1 <= b2 /\ k2 <= n /\ b2 <= b
  BY <1>3, <1>4, NeverRound, Sizes DEF Follows
<1>8. a2 + Load(c, mark.pre[c].of) = a1 + Load(c, mark.cur[c].of)
  BY DEF Follows
<1>9. CASE c[3] \notin DOMAIN HeaderOf
  <2>1. Value("pre", c) = a1 + 0 /\ Value("cur", c) = a2 + 0
    BY <1>9 DEF Value
  <2>2. a2 + k1 = a1 + k2
    BY <1>8, <1>9 DEF Load
  <2> HIDE DEF n, b, a1, k1, b1, a2, k2, b2, t
  <2>3. /\ Value("pre", c) \in Nat /\ Value("cur", c) \in Nat /\ Value("pre", c) <= Value("cur", c)
        /\ Grew(c) = k2 - k1 /\ Grew(c) < CounterMod
    BY <1>7, <2>1, <2>2 DEF Grew
  <2> QED
    BY <2>3, <1>5, <1>9 DEF k2, k1
<1>10. CASE c[3] \in DOMAIN HeaderOf /\ c[2] = "ingress"
  <2>1. Value("pre", c) = a1 + 0 /\ Value("cur", c) = a2 + 0
    BY <1>10 DEF Value
  <2>2. a2 + ((5 * k1) + b1) = a1 + ((5 * k2) + b2)
    BY <1>8, <1>10 DEF Load, TLP_DW, TLP_OH_DW
  <2> HIDE DEF n, b, a1, k1, b1, a2, k2, b2, t
  <2>3. /\ Value("pre", c) \in Nat /\ Value("cur", c) \in Nat /\ Value("pre", c) <= Value("cur", c)
        /\ Grew(c) = (5 * (k2 - k1)) + (b2 - b1) /\ Grew(c) < CounterMod
    BY <1>7, <2>1, <2>2 DEF Grew
  <2> QED
    BY <2>3, <1>5, <1>10 DEF k2, k1, b2, b1
<1>11. CASE c[3] \in DOMAIN HeaderOf /\ c[2] = "egress"
  <2> DEFINE h == <<c[1], c[2], HeaderOf[c[3]]>>
             x1 == mark.pre[h].count  m1 == mark.pre[h].of.packets
             x2 == mark.cur[h].count  m2 == mark.cur[h].of.packets
  <2>1. h \in Counters /\ h[3] \notin DOMAIN HeaderOf
    BY <1>1, <1>5, <1>11 DEF Counters
  <2>2. Traced(h) = t
    BY <1>5, <1>11 DEF Traced, KindOf, HeaderOf
  <2>3. /\ x1 \in Nat /\ x2 \in Nat /\ m1 \in Nat /\ m2 \in Nat /\ m1 <= m2 /\ m2 <= n
        /\ x2 + m1 = x1 + m2
    <3>1. Follows(h, mark.pre[h], mark.cur[h]) /\ m2 <= n
      BY <2>1, <2>2
    <3> QED
      BY <2>1, <3>1, <1>4 DEF Follows, Load
  <2>4. Value("pre", c) = a1 + (2 * x1) /\ Value("cur", c) = a2 + (2 * x2)
    BY <1>11 DEF Value, TLP_OH_DW
  <2>5. a2 + ((3 * k1) + b1) = a1 + ((3 * k2) + b2)
    BY <1>8, <1>11 DEF Load
  <2>6. c[3] \in {"PDW", "CplDW"} /\ Together(c[1], c[2], c[3]) => m1 = k1 /\ m2 = k2
    BY <1>1 DEF Together
  <2>7. c[3] \notin {"PH", "CplH"}
    BY <1>5, <1>11
  <2> HIDE DEF n, b, a1, k1, b1, a2, k2, b2, t, x1, x2, m1, m2, h
  <2>8. /\ Value("pre", c) \in Nat /\ Value("cur", c) \in Nat /\ Value("pre", c) <= Value("cur", c)
        /\ Grew(c) = (3 * (k2 - k1)) + (b2 - b1) + (2 * (m2 - m1)) /\ Grew(c) < CounterMod
    BY <1>7, <2>3, <2>4, <2>5 DEF Grew
  <2>9. m1 = k1 /\ m2 = k2 => Grew(c) = (5 * (k2 - k1)) + (b2 - b1)
    BY <2>8, <1>7
  <2> QED
    BY <2>6, <2>7, <2>8, <2>9 DEF k2, k1, b2, b1
<1> QED
  BY <1>6, <1>9, <1>10, <1>11

(* The statistics of counters that grew by less than they can show. *)
LEMMA StatisticsRight ==
    ASSUME NEW g \in [Fields -> Nat], \A f \in Fields : g[f] < CounterMod
    PROVE  /\ Statistics(g).total = (4 * (g["PDW"] + g["NPDW"] + g["CplDW"])) + (8 * g["DLLP"])
           /\ \A x \in Nat : g["PDW"] = (5 * g["PH"]) + x => Statistics(g).write = 4 * x
           /\ \A x \in Nat : g["CplDW"] = (5 * g["CplH"]) + x => Statistics(g).read = 4 * x
<1> DEFINE a == g["PDW"]  b == g["NPDW"]  c == g["CplDW"]  d == g["DLLP"]  h == g["PH"]  k == g["CplH"]
<1>1. {"PDW", "NPDW", "CplDW", "DLLP", "PH", "CplH"} \subseteq Fields
  BY DEF Fields, TlpFields, ToSet
<1>2. /\ a \in Nat /\ a < CounterMod /\ b \in Nat /\ b < CounterMod /\ c \in Nat /\ c < CounterMod
      /\ d \in Nat /\ d < CounterMod /\ h \in Nat /\ h < CounterMod /\ k \in Nat /\ k < CounterMod
  BY <1>1
<1>3. LongMod \in Nat \ {0} /\ \A n \in Nat : n < 20 * CounterMod => n < LongMod
  <2>1. \A x, y \in Nat : 20 < y => 20 * y < y * y
    OBVIOUS
  <2>2. 20 * CounterMod < LongMod /\ LongMod \in Nat
    BY <2>1, Sizes DEF LongMod
  <2> QED
    BY <2>2, Sizes
<1>4. \A n \in Nat : n < 20 * CounterMod => Long(n) = n
  <2>1. \A n, m \in Nat : n < m => n % m = n
    OBVIOUS
  <2> QED
    BY <1>3, <2>1 DEF Long
<1>5. Statistics(g).total = Long(((a + b + c) * 4) + (d * 8))
  BY DEF Statistics
<1>6. Statistics(g).write = Payload(a, PostedHeaders(g))
  BY DEF Statistics
<1>7. Statistics(g).read = Payload(c, k)
  BY DEF Statistics
<1>8. PostedHeaders(g) = IF Long(h * 5) > a THEN a \div 6 ELSE h
  BY DEF PostedHeaders, TLP_DW, TLP_OH_DW
<1>9. \A w, y : Payload(w, y) = IF Long(w * 4) < Long(y * 5 * 4) THEN 0 ELSE Long(w * 4) - Long(y * 5 * 4)
  BY DEF Payload, TLP_DW, TLP_OH_DW
<1> HIDE DEF a, b, c, d, h, k
<1>10. ASSUME NEW w \in Nat, NEW y \in Nat, NEW x \in Nat, w < CounterMod, w = (5 * y) + x
       PROVE  Payload(w, y) = 4 * x
  <2>1. w * 4 \in Nat /\ w * 4 < 20 * CounterMod /\ y * 5 * 4 \in Nat /\ y * 5 * 4 < 20 * CounterMod
    BY <1>10, Sizes
  <2>2. Long(w * 4) = w * 4 /\ Long(y * 5 * 4) = y * 5 * 4
    BY <2>1, <1>4
  <2>3. (w * 4) - (y * 5 * 4) = 4 * x /\ ~(w * 4 < y * 5 * 4)
    BY <1>10
  <2> QED
    BY <2>2, <2>3, <1>9
<1>11. Statistics(g).total = (4 * (a + b + c)) + (8 * d)
  <2>1. ((a + b + c) * 4) + (d * 8) \in Nat /\ ((a + b + c) * 4) + (d * 8) < 20 * CounterMod
    BY <1>2, Sizes
  <2>2. ((a + b + c) * 4) + (d * 8) = (4 * (a + b + c)) + (8 * d)
    BY <1>2
  <2> QED
    BY <2>1, <2>2, <1>4, <1>5
<1>12. ASSUME NEW x \in Nat, a = (5 * h) + x PROVE Statistics(g).write = 4 * x
  <2>1. h * 5 \in Nat /\ h * 5 < 20 * CounterMod /\ ~(h * 5 > a)
    BY <1>2, <1>12, Sizes
  <2>2. PostedHeaders(g) = h
    BY <2>1, <1>4, <1>8
  <2> QED
    BY <2>2, <1>2, <1>6, <1>10, <1>12
<1>13. ASSUME NEW x \in Nat, c = (5 * k) + x PROVE Statistics(g).read = 4 * x
  BY <1>2, <1>7, <1>10, <1>13
<1> QED
  BY <1>11, <1>12, <1>13 DEF a, b, c, d, h, k

(* What TrafficCounted says of the statistics of one port in one direction. *)
AsCarried(stat, p, dir) ==
    /\ stat.total = (4 * (Grew(<<p, dir, "PDW">>) + Grew(<<p, dir, "NPDW">>) + Grew(<<p, dir, "CplDW">>)))
                     + (8 * Grew(<<p, dir, "DLLP">>))
    /\ Together(p, dir, "PDW") => stat.write = 4 * Brought(p, dir, "PDW")
    /\ Together(p, dir, "CplDW") => stat.read = 4 * Brought(p, dir, "CplDW")

(* At the end of the second read-out the growth of every counter is what it counted in
   between, and the statistics made of it are those of the packets. *)
LEMMA Shown ==
    ASSUME PerfTyped, Course, Copied, History, Remembered, Tally,
           pm.pc = "drain", pm.at = NumStations * OneStation, pm.pass = 2,
           NEW p \in data.valid, NEW dir \in Directions
    PROVE  AsCarried(SppPerfCalcStatisticsOnePort(PortCounters(temp), p)[dir], p, dir)
<1>1. p \in Ports /\ (dir = "ingress" \/ dir = "egress")
  BY DEF PerfTyped, Directions
<1>2. \A c \in Counters : Position(c) < pm.at
  BY PositionOf
<1>3. \A c \in Counters : temp[Position(c) + 1] = mark["cur"][c].count % CounterMod
  BY <1>2 DEF Copied, Pass
<1>4. \A c \in Counters :
          /\ Follows(c, mark.pre[c], mark.cur[c])
          /\ mark.cur[c].of.packets <= carried[Traced(c)].packets
          /\ mark.cur[c].of.payload <= carried[Traced(c)].payload
  BY <1>2 DEF History, Second
<1> DEFINE C(f) == <<p, dir, f>>
<1>5. \A f \in Fields : C(f) \in Counters
  BY <1>1 DEF Counters
<1>6. \A f \in Fields :
          /\ Value("pre", C(f)) \in Nat /\ Value("cur", C(f)) \in Nat
          /\ Value("pre", C(f)) <= Value("cur", C(f)) /\ Grew(C(f)) < CounterMod
  BY <1>4, <1>5, Grown
<1> DEFINE new == PortCounters(temp)[p][dir]  old == data.pre[p][dir]
           g == Growth(new, old)
<1>7. \A f \in Fields : new[f] = Value("cur", C(f)) % CounterMod
  <2> SUFFICES ASSUME NEW f \in Fields PROVE new[f] = Value("cur", C(f)) % CounterMod
    OBVIOUS
  <2>1. new = IF dir = "ingress" THEN IngressCounters(temp, p) ELSE EgressCounters(temp, p)
    BY <1>1 DEF PortCounters
  <2>2. /\ IngressCounters(temp, p)[f] = Value("cur", <<p, "ingress", f>>) % CounterMod
        /\ EgressCounters(temp, p)[f] = Value("cur", <<p, "egress", f>>) % CounterMod
    BY <1>1, <1>3, Decoded
  <2> QED
    BY <2>1, <2>2, <1>1
<1>8. \A f \in Fields : old[f] = Value("pre", C(f)) % CounterMod
  BY DEF Remembered
<1>9. \A f \in Fields : g[f] = Grew(C(f)) /\ Grew(C(f)) \in Nat
  <2> SUFFICES ASSUME NEW f \in Fields PROVE g[f] = Grew(C(f)) /\ Grew(C(f)) \in Nat
    OBVIOUS
  <2> DEFINE x == Value("cur", C(f))  y == Value("pre", C(f))
  <2>1. x \in Nat /\ y \in Nat /\ y <= x /\ x - y < CounterMod
    BY <1>6 DEF Grew
  <2>2. new[f] = x % CounterMod /\ old[f] = y % CounterMod
    BY <1>7, <1>8
  <2>3. g[f] = IF new[f] < old[f] THEN new[f] + (CounterMod - old[f]) ELSE new[f] - old[f]
    <3> HIDE DEF new, old
    <3> QED
      BY DEF Growth
  <2>4. Grew(C(f)) = x - y
    BY DEF Grew
  <2> HIDE DEF x, y, g, new, old, C
  <2>5. (IF x % CounterMod < y % CounterMod THEN ((x % CounterMod) + CounterMod) - (y % CounterMod)
         ELSE (x % CounterMod) - (y % CounterMod)) = x - y
    <3>1. CounterMod \in Nat \ {0}
      BY Sizes
    <3> QED
      BY <2>1, <3>1, Difference, Zenon
  <2>6. g[f] = x - y
    BY <2>1, <2>2, <2>3, <2>5, Sizes
  <2> QED
    BY <2>1, <2>4, <2>6
<1>10. SppPerfCalcStatisticsOnePort(PortCounters(temp), p)[dir] = Statistics(g)
  BY <1>1 DEF SppPerfCalcStatisticsOnePort, IngressStatistics, EgressStatistics
<1>11. g \in [Fields -> Nat]
  <2>1. g = [f \in Fields |-> g[f]]
    BY DEF Growth
  <2> HIDE DEF g
  <2> QED
    BY <2>1, <1>9
<1>12. \A f \in Fields : g[f] < CounterMod
  BY <1>6, <1>9
<1>13. {"PH", "PDW", "NPDW", "CplH", "CplDW", "DLLP"} \subseteq Fields
  BY DEF Fields, TlpFields, ToSet
<1> HIDE DEF g, new, old
<1>14. /\ Statistics(g).total = (4 * (g["PDW"] + g["NPDW"] + g["CplDW"])) + (8 * g["DLLP"])
       /\ \A x \in Nat : g["PDW"] = (5 * g["PH"]) + x => Statistics(g).write = 4 * x
       /\ \A x \in Nat : g["CplDW"] = (5 * g["CplH"]) + x => Statistics(g).read = 4 * x
  BY <1>11, <1>12, StatisticsRight
<1>15. ASSUME NEW f \in {"PDW", "CplDW"}, Together(p, dir, f)
       PROVE  Brought(p, dir, f) \in Nat /\ g[f] = (5 * g[HeaderOf[f]]) + Brought(p, dir, f)
  <2> DEFINE h == HeaderOf[f]
  <2>1. h \in {"PH", "CplH"} /\ h \in Fields /\ f \in Fields
    BY <1>13 DEF HeaderOf
  <2>2. Grew(C(h)) = mark.cur[C(h)].of.packets - mark.pre[C(h)].of.packets
    BY <2>1, <1>4, <1>5, Grown
  <2>3. Grew(C(f)) = (5 * (mark.cur[C(f)].of.packets - mark.pre[C(f)].of.packets))
                     + (mark.cur[C(f)].of.payload - mark.pre[C(f)].of.payload)
    BY <2>1, <1>4, <1>5, <1>15, Grown
  <2>4. mark.pre[C(f)].of = mark.pre[C(h)].of /\ mark.cur[C(f)].of = mark.cur[C(h)].of
    BY <1>15 DEF Together
  <2>5. Brought(p, dir, f) = mark.cur[C(f)].of.payload - mark.pre[C(f)].of.payload
    BY DEF Brought
  <2>6. /\ mark.cur[C(f)].of.payload \in Nat /\ mark.pre[C(f)].of.payload \in Nat
        /\ mark.pre[C(f)].of.payload <= mark.cur[C(f)].of.payload
    BY <2>1, <1>4, <1>5 DEF PerfTyped, ReadOuts, Packets, Follows
  <2>7. g[f] = Grew(C(f)) /\ g[h] = Grew(C(h))
    BY <2>1, <1>9
  <2> HIDE DEF h, C
  <2>8. g[f] = (5 * g[h]) + Brought(p, dir, f)
    BY <2>2, <2>3, <2>4, <2>5, <2>7
  <2> QED
    BY <2>5, <2>6, <2>8 DEF h
<1>16. HeaderOf["PDW"] = "PH" /\ HeaderOf["CplDW"] = "CplH"
  BY DEF HeaderOf
<1>17. Statistics(g).total = (4 * (Grew(C("PDW")) + Grew(C("NPDW")) + Grew(C("CplDW")))) + (8 * Grew(C("DLLP")))
  BY <1>9, <1>13, <1>14
<1>18. Together(p, dir, "PDW") => Statistics(g).write = 4 * Brought(p, dir, "PDW")
  BY <1>14, <1>15, <1>16
<1>19. Together(p, dir, "CplDW") => Statistics(g).read = 4 * Brought(p, dir, "CplDW")
  BY <1>14, <1>15, <1>16
<1> QED
  BY <1>10, <1>17, <1>18, <1>19 DEF AsCarried

-----------------------------------------------------------------------------
(***************************************************************************)
(* The steps of the performance monitor.                                   *)
(***************************************************************************)
LEMMA TracedTrace ==
    ASSUME NEW c \in Counters
    PROVE  Traced(c) \in Traces /\ (c[2] = "ingress" \/ c[2] = "egress")
<1>1. \A f \in Fields : KindOf[f] \in Kinds
  BY DEF Fields, TlpFields, ToSet, KindOf, Kinds
<1> QED
  BY <1>1 DEF Traced, Counters, Traces, Directions

LEMMA FollowsOn ==
    ASSUME NEW c \in Counters,
           NEW a \in [count : Nat, of : Packets], NEW b \in [count : Nat, of : Packets],
           NEW d \in [count : Nat, of : Packets], Follows(c, a, b), Follows(c, b, d)
    PROVE  Follows(c, a, d)
<1> DEFINE k == IF c[2] = "ingress" THEN 5 ELSE 3
<1>1. k \in {3, 5}
  OBVIOUS
<1>2. \A of : Load(c, of) = IF c[3] \in DOMAIN HeaderOf THEN (k * of.packets) + of.payload ELSE of.packets
  BY DEF Load, TLP_DW, TLP_OH_DW
<1>3. /\ a.count \in Nat /\ a.of.packets \in Nat /\ a.of.payload \in Nat
      /\ b.count \in Nat /\ b.of.packets \in Nat /\ b.of.payload \in Nat
      /\ d.count \in Nat /\ d.of.packets \in Nat /\ d.of.payload \in Nat
  BY DEF Packets
<1> HIDE DEF k
<1>4. a.of.packets <= d.of.packets /\ a.of.payload <= d.of.payload
  BY <1>3 DEF Follows
<1>5. b.count + Load(c, a.of) = a.count + Load(c, b.of) /\ d.count + Load(c, b.of) = b.count + Load(c, d.of)
  BY DEF Follows
<1>6. Load(c, a.of) \in Nat /\ Load(c, b.of) \in Nat /\ Load(c, d.of) \in Nat
  BY <1>1, <1>2, <1>3
<1>7. d.count + Load(c, a.of) = a.count + Load(c, d.of)
  BY <1>3, <1>5, <1>6
<1> QED
  BY <1>4, <1>7 DEF Follows

(* A packet brings to a counter what it adds to the load of its packets. *)
LEMMA Passed ==
    ASSUME PerfTyped, Tally, Traffic
    PROVE  /\ count' \in [Counters -> Nat] /\ carried' \in [Traces -> Packets]
           /\ tlps' \in 0 .. MaxTlps /\ Tally'
           /\ \A c \in Counters : Follows(c, Now(c), [count |-> count'[c], of |-> carried'[Traced(c)]])
           /\ \A k \in Traces : carried[k].packets <= carried'[k].packets /\ carried[k].payload <= carried'[k].payload
<1>1. PICK t \in Tlps :
          /\ count' = [c \in Counters |-> count[c] + Adds(t, c)]
          /\ carried' = [carried EXCEPT ![<<t.port, t.dir, t.kind>>] =
                            [packets |-> @.packets + 1, payload |-> @.payload + t.payload]]
  BY DEF Traffic
<1> DEFINE at == <<t.port, t.dir, t.kind>>
<1>2. at \in Traces /\ t.payload \in Nat
  BY PerformanceAssumption DEF Traces
<1>3. /\ tlps \in Nat /\ MaxTlps \in Nat /\ tlps < MaxTlps /\ tlps' = tlps + 1
      /\ \A c \in Counters : count[c] \in Nat
      /\ \A k \in Traces : carried[k].packets \in Nat /\ carried[k].payload \in Nat
  <2>1. tlps \in Nat /\ MaxTlps \in Nat /\ tlps < MaxTlps /\ tlps' = tlps + 1
    BY Sizes DEF PerfTyped, Traffic
  <2>2. \A c \in Counters : count[c] \in Nat
    BY DEF PerfTyped
  <2>3. \A k \in Traces : carried[k].packets \in Nat /\ carried[k].payload \in Nat
    BY DEF PerfTyped, Packets
  <2> QED
    BY <2>1, <2>2, <2>3
<1> DEFINE more == [packets |-> carried[at].packets + 1, payload |-> carried[at].payload + t.payload]
<1>4. carried'[at] = more /\ \A k \in Traces : k # at => carried'[k] = carried[k]
  BY <1>1, <1>2 DEF PerfTyped
<1>13. carried'[at].packets = carried[at].packets + 1 /\ carried'[at].payload = carried[at].payload + t.payload
  BY <1>4
<1>5. \A c : Adds(t, c) = IF Traced(c) # at THEN 0
                          ELSE IF c[3] \in DOMAIN HeaderOf THEN (IF t.dir = "ingress" THEN 5 ELSE 3) + t.payload
                          ELSE 1
  BY DEF Adds, TLP_DW, TLP_OH_DW
<1> HIDE DEF at, more
<1>6. \A c \in Counters : Adds(t, c) \in Nat
  BY <1>2, <1>5
<1>7. count' \in [Counters -> Nat]
  BY <1>1, <1>3, <1>6
<1>8. \A k \in Traces : /\ carried'[k].packets \in Nat /\ carried'[k].payload \in Nat
                        /\ carried[k].packets <= carried'[k].packets /\ carried[k].payload <= carried'[k].payload
  <2> SUFFICES ASSUME NEW k \in Traces
               PROVE  /\ carried'[k].packets \in Nat /\ carried'[k].payload \in Nat
                      /\ carried[k].packets <= carried'[k].packets /\ carried[k].payload <= carried'[k].payload
    OBVIOUS
  <2>1. CASE k = at
    BY <1>2, <1>3, <1>13, <2>1
  <2>2. CASE k # at
    BY <1>3, <1>4, <2>2
  <2> QED
    BY <2>1, <2>2
<1>9. carried' \in [Traces -> Packets]
  <2>1. \A k \in Traces : carried'[k] \in Packets
    <3>1. more \in Packets
      BY <1>2, <1>3 DEF more, Packets
    <3>2. \A k \in Traces : carried[k] \in Packets
      BY DEF PerfTyped
    <3> QED
      BY <1>4, <3>1, <3>2
  <2>2. carried' = [k \in Traces |-> carried'[k]]
    BY <1>1 DEF PerfTyped
  <2> QED
    BY <2>1, <2>2
<1>10. tlps' \in 0 .. MaxTlps
  BY <1>3
<1>11. Tally'
  <2>1. Most \in Nat /\ 5 + t.payload <= Most
    BY <1>3, Light DEF TLP_DW, TLP_OH_DW
  <2>2. tlps' * Most = (tlps * Most) + Most /\ tlps * Most \in Nat
    BY <1>3, <2>1
  <2> SUFFICES ASSUME NEW k \in Traces
               PROVE  (5 * carried'[k].packets) + carried'[k].payload <= tlps' * Most
    BY DEF Tally, TLP_DW, TLP_OH_DW, Most
  <2>3. (5 * carried[k].packets) + carried[k].payload <= tlps * Most
    BY DEF Tally, TLP_DW, TLP_OH_DW
  <2>4. CASE k = at
    <3>1. carried'[k].packets = carried[k].packets + 1 /\ carried'[k].payload = carried[k].payload + t.payload
      BY <1>13, <2>4
    <3> QED
      BY <1>2, <1>3, <2>1, <2>2, <2>3, <3>1
  <2>5. CASE k # at
    <3>1. carried'[k] = carried[k]
      BY <1>4, <2>5
    <3> QED
      BY <1>3, <2>1, <2>2, <2>3, <3>1
  <2> QED
    BY <2>4, <2>5
<1>12. ASSUME NEW c \in Counters
       PROVE  Follows(c, Now(c), [count |-> count'[c], of |-> carried'[Traced(c)]])
  <2>1. Traced(c) \in Traces /\ (c[2] = "ingress" \/ c[2] = "egress")
    BY TracedTrace
  <2> DEFINE x == count[c]  k == carried[Traced(c)].packets  b == carried[Traced(c)].payload
             y == count'[c]  m == carried'[Traced(c)].packets  e == carried'[Traced(c)].payload
  <2>2. x \in Nat /\ k \in Nat /\ b \in Nat /\ y = x + Adds(t, c)
    BY <1>1, <1>3, <2>1
  <2>3. CASE Traced(c) = at
    <3>1. m = k + 1 /\ e = b + t.payload
      BY <1>13, <2>1, <2>3
    <3>2. t.dir = c[2]
      BY <2>3 DEF at, Traced
    <3>3. Adds(t, c) = IF c[3] \in DOMAIN HeaderOf THEN (IF c[2] = "ingress" THEN 5 ELSE 3) + t.payload ELSE 1
      BY <1>5, <2>3, <3>2
    <3>4. /\ Load(c, carried[Traced(c)]) = IF c[3] \in DOMAIN HeaderOf
                                           THEN ((IF c[2] = "ingress" THEN 5 ELSE 3) * k) + b ELSE k
          /\ Load(c, carried'[Traced(c)]) = IF c[3] \in DOMAIN HeaderOf
                                            THEN ((IF c[2] = "ingress" THEN 5 ELSE 3) * m) + e ELSE m
      BY DEF Load, TLP_DW, TLP_OH_DW
    <3>5. y + Load(c, carried[Traced(c)]) = x + Load(c, carried'[Traced(c)])
      <4> HIDE DEF x, k, b, y, m, e
      <4> QED
        BY <1>2, <2>1, <2>2, <3>1, <3>3, <3>4
    <3> QED
      BY <1>8, <2>1, <3>5 DEF Follows, Now
  <2>4. CASE Traced(c) # at
    <3>1. carried'[Traced(c)] = carried[Traced(c)]
      BY <1>4, <2>1, <2>4
    <3>2. y = x
      BY <1>5, <2>2, <2>4
    <3> QED
      BY <1>8, <2>1, <3>1, <3>2 DEF Follows, Now
  <2> QED
    BY <2>3, <2>4
<1> QED
  BY <1>7, <1>8, <1>9, <1>10, <1>11, <1>12

LEMMA SameReadOuts ==
    ASSUME Remembered, TrafficCounted, UNCHANGED << pm, data, mark >>
    PROVE  Remembered' /\ TrafficCounted'
<1>0. pm' = pm /\ data' = data /\ mark' = mark
  OBVIOUS
<1>1. \A pass, c : Value(pass, c)' = Value(pass, c)
  BY <1>0 DEF Value
<1>2. \A c : Grew(c)' = Grew(c)
  BY <1>1 DEF Grew
<1>3. \A p, dir, f : Together(p, dir, f)' = Together(p, dir, f) /\ Brought(p, dir, f)' = Brought(p, dir, f)
  BY <1>0 DEF Together, Brought
<1>4. Remembered'
  BY <1>0, <1>1 DEF Remembered
<1>5. TrafficCounted'
  BY <1>0, <1>2, <1>3 DEF TrafficCounted
<1> QED
  BY <1>4, <1>5

LEMMA TrafficStep ==
    ASSUME PerfInv, Traffic, UNCHANGED pc
    PROVE  PerfInv'
<1> USE DEF PerfInv
<1>1. UNCHANGED << pm, monitor, pointer, temp, data, mark >>
  BY DEF Traffic
<1>2. PerfTyped' /\ Tally'
  BY <1>1, Passed DEF PerfTyped
<1>3. Course' /\ Rewound' /\ Copied'
  BY <1>1 DEF Course, Rewound, Copied, Pass
<1>4. Remembered' /\ TrafficCounted'
  BY <1>1, SameReadOuts
<1>6. History'
  <2> SUFFICES ASSUME NEW c \in Counters
               PROVE  /\ First(c) => Follows(c, mark.pre[c], Now(c)')
                      /\ Second(c) =>
                            /\ Follows(c, mark.pre[c], mark.cur[c])
                            /\ mark.cur[c].of.packets <= carried'[Traced(c)].packets
                            /\ mark.cur[c].of.payload <= carried'[Traced(c)].payload
    BY <1>1 DEF History, First, Second, Follows, Load, Now
  <2>1. Traced(c) \in Traces
    BY TracedTrace
  <2>2. Now(c)' = [count |-> count'[c], of |-> carried'[Traced(c)]]
    BY DEF Now
  <2>3. Now(c) \in [count : Nat, of : Packets] /\ Now(c)' \in [count : Nat, of : Packets]
    BY <2>1, <2>2, Passed DEF Now, PerfTyped
  <2>4. mark.pre[c] \in [count : Nat, of : Packets] /\ mark.cur[c] \in [count : Nat, of : Packets]
    BY DEF PerfTyped, ReadOuts
  <2>5. Follows(c, Now(c), Now(c)')
    BY <2>2, Passed
  <2>6. First(c) => Follows(c, mark.pre[c], Now(c)')
    BY <2>3, <2>4, <2>5, FollowsOn DEF History
  <2>7. /\ carried[Traced(c)].packets <= carried'[Traced(c)].packets
        /\ carried[Traced(c)].payload <= carried'[Traced(c)].payload
        /\ carried[Traced(c)] \in Packets /\ carried'[Traced(c)] \in Packets
    BY <2>1, Passed DEF PerfTyped
  <2> QED
    BY <2>4, <2>6, <2>7 DEF History, Packets
<1> QED
  BY <1>2, <1>3, <1>4, <1>6

(* Where a call goes it keeps what it is about. *)
LEMMA Went ==
    ASSUME PerfTyped, NEW q \in Stages, NEW n \in Nat, Goto(q, n)
    PROVE  /\ pm'.pc = q /\ pm'.at = n /\ pm'.op = pm.op /\ pm'.pass = pm.pass /\ pm'.statistic = pm.statistic
           /\ pm'.status = pm.status /\ pm'.elapsed = pm.elapsed /\ pm'.dev = pm.dev
           /\ pm' \in [pc : Stages, op : {"none", "START", "READ", "STOP"}, dev : {pm'.dev}, at : Nat, pass : {1, 2},
                       statistic : BOOLEAN, elapsed : {pm'.elapsed}, status : {pm'.status}]
  BY DEF PerfTyped, Goto

LEMMA Ended ==
    ASSUME PerfTyped, NEW status, Finish(status)
    PROVE  /\ pm'.pc = "done" /\ pm'.status = status
           /\ pm'.at = pm.at /\ pm'.op = pm.op /\ pm'.pass = pm.pass /\ pm'.statistic = pm.statistic
           /\ pm'.elapsed = pm.elapsed /\ pm'.dev = pm.dev
           /\ pm' \in [pc : Stages, op : {"none", "START", "READ", "STOP"}, dev : {pm'.dev}, at : Nat, pass : {1, 2},
                       statistic : BOOLEAN, elapsed : {pm'.elapsed}, status : {pm'.status}]
  BY DEF PerfTyped, Finish, Stages

(* When a call is over nothing is left to say but TrafficCounted. *)
LEMMA Over ==
    ASSUME PerfInv, NEW status, Finish(status), temp' = <<>>, pc = "performing", pc' = pc,
           UNCHANGED << pointer, count, carried, mark, tlps >>,
           data' \in [valid : SUBSET Ports, speed : {data'.speed}, pre : {data'.pre}, cur : {data'.cur},
                      stats : {data'.stats}],
           TrafficCounted'
    PROVE  PerfInv'
<1> USE DEF PerfInv
<1>1. /\ pm'.pc = "done" /\ pm'.op = pm.op /\ pm'.pass = pm.pass /\ pm'.statistic = pm.statistic
      /\ pm' \in [pc : Stages, op : {"none", "START", "READ", "STOP"}, dev : {pm'.dev}, at : Nat, pass : {1, 2},
                  statistic : BOOLEAN, elapsed : {pm'.elapsed}, status : {pm'.status}]
  BY Ended
<1>2. PerfTyped'
  BY <1>1 DEF PerfTyped
<1>3. Course'
  BY <1>1 DEF Course
<1>4. Rewound' /\ Copied' /\ Remembered'
  BY <1>1 DEF Rewound, Copied, Remembered
<1>5. History'
  BY <1>1 DEF History, First, Second
<1>6. Tally'
  BY DEF Tally
<1> QED
  BY <1>2, <1>3, <1>4, <1>5, <1>6

LEMMA AccessFailsStep ==
    ASSUME PerfInv, AccessFails, pc = "performing", pc' = pc
    PROVE  PerfInv'
<1>1. PerfTyped /\ Finish("failed") /\ temp' = <<>> /\ UNCHANGED << pointer, count, carried, data, mark, tlps >>
  BY DEF PerfInv, AccessFails
<1>2. TrafficCounted'
  <2>1. pm'.status = "failed"
    BY <1>1, Ended
  <2> QED
    BY <2>1 DEF TrafficCounted
<1>3. data' \in [valid : SUBSET Ports, speed : {data'.speed}, pre : {data'.pre}, cur : {data'.cur},
                 stats : {data'.stats}]
  BY <1>1 DEF PerfTyped
<1> QED
  BY <1>1, <1>2, <1>3, Over

(* Outside of a read-out there is nothing to say about the counters. *)
LEMMA Beside ==
    ASSUME PerfInv, pm'.pc \in {"init", "control"}, pm'.op # "READ", ~pm'.statistic, pm'.pass = 1, temp' = temp,
           pm.pc \in {"init", "control"}, pc = "performing", pc' = pc, PerfTyped', UNCHANGED << carried, tlps >>
    PROVE  PerfInv'
<1> USE DEF PerfInv
<1>1. Course'
  BY DEF Course
<1>2. Rewound' /\ Copied' /\ Remembered' /\ TrafficCounted'
  BY DEF Rewound, Copied, Remembered, TrafficCounted
<1>3. History'
  BY DEF History, First, Second
<1>4. Tally'
  BY DEF Tally
<1> QED
  BY <1>1, <1>2, <1>3, <1>4

LEMMA InitStep ==
    ASSUME PerfInv, SppGetPciePortPerformanceInit, pc = "performing", pc' = pc
    PROVE  PerfInv'
<1> USE DEF PerfInv
<1>1. pm.pc = "init" /\ UNCHANGED << pointer, carried, temp, mark, tlps >>
  BY DEF SppGetPciePortPerformanceInit
<1>2. pm.op # "READ" /\ pm.statistic = FALSE /\ pm.pass = 1
  BY <1>1 DEF Course, PerfTyped
<1>3. PICK q \in {"init", "control"} : \E n \in Nat : Goto(q, n)
  <2>1. \A p \in Ports : MaxWidth[p] \in Nat /\ p \in Nat
    BY PerformanceAssumption DEF Ports
  <2>2. CASE pm.at \notin Ports
    BY <2>2 DEF SppGetPciePortPerformanceInit
  <2>3. CASE pm.at \in Ports
    <3>1. pm.at + MaxWidth[pm.at] \in Nat /\ pm.at + 1 \in Nat
      BY <2>1, <2>3
    <3>2. Goto("init", pm.at + MaxWidth[pm.at]) \/ Goto("init", pm.at + 1)
      BY <2>3 DEF SppGetPciePortPerformanceInit
    <3> QED
      BY <3>1, <3>2
  <2> QED
    BY <2>2, <2>3
<1>4. count' \in [Counters -> Nat]
  BY PerformanceAssumption DEF SppGetPciePortPerformanceInit, PerfTyped
<1>5. data' \in [valid : SUBSET Ports, speed : {data'.speed}, pre : {data'.pre}, cur : {data'.cur},
                 stats : {data'.stats}]
  <2>1. CASE data' = data
    BY <2>1 DEF PerfTyped
  <2>2. CASE pm.at \in Ports /\ \E s : data' = [data EXCEPT !.valid = @ \union {pm.at}, !.speed = s]
    <3>1. PICK s : data' = [data EXCEPT !.valid = @ \union {pm.at}, !.speed = s]
      BY <2>2
    <3>2. data.valid \union {pm.at} \in SUBSET Ports
      BY <2>2 DEF PerfTyped
    <3> QED
      BY <3>1, <3>2 DEF PerfTyped
  <2> QED
    BY <2>1, <2>2 DEF SppGetPciePortPerformanceInit
<1>6. /\ pm'.pc \in {"init", "control"} /\ pm'.op = pm.op /\ pm'.pass = pm.pass /\ pm'.statistic = pm.statistic
      /\ pm' \in [pc : Stages, op : {"none", "START", "READ", "STOP"}, dev : {pm'.dev}, at : Nat, pass : {1, 2},
                  statistic : BOOLEAN, elapsed : {pm'.elapsed}, status : {pm'.status}]
  BY <1>3, Went DEF Stages
<1>7. PerfTyped'
  BY <1>1, <1>4, <1>5, <1>6 DEF PerfTyped
<1> QED
  BY <1>1, <1>2, <1>6, <1>7, Beside

LEMMA ControlStep ==
    ASSUME PerfInv, SppPerfMonControl, pc = "performing", pc' = pc
    PROVE  PerfInv'
<1> USE DEF PerfInv
<1>1. pm.pc = "control" /\ UNCHANGED << count, carried, temp, data, mark, tlps >>
  BY DEF SppPerfMonControl
<1>2. pm.op # "READ" /\ pm.statistic = FALSE /\ pm.pass = 1 /\ temp = <<>>
  BY <1>1 DEF Course, PerfTyped
<1>3. pointer' \in [Stations -> Nat]
  BY DEF SppPerfMonControl, PerfTyped
<1>4. CASE Goto("control", pm.at + 1)
  <2>1. pm.at + 1 \in Nat /\ "control" \in Stages
    BY DEF PerfTyped, Stages
  <2>2. /\ pm'.pc = "control" /\ pm'.op = pm.op /\ pm'.pass = pm.pass /\ pm'.statistic = pm.statistic
        /\ pm' \in [pc : Stages, op : {"none", "START", "READ", "STOP"}, dev : {pm'.dev}, at : Nat, pass : {1, 2},
                    statistic : BOOLEAN, elapsed : {pm'.elapsed}, status : {pm'.status}]
    BY <1>4, <2>1, Went
  <2>3. PerfTyped'
    BY <1>1, <1>3, <2>2 DEF PerfTyped
  <2> QED
    BY <1>1, <1>2, <2>2, <2>3, Beside
<1>5. CASE Finish("success")
  <2>1. /\ pm'.pc = "done" /\ pm'.op = pm.op /\ pm'.pass = pm.pass /\ pm'.statistic = pm.statistic
        /\ pm' \in [pc : Stages, op : {"none", "START", "READ", "STOP"}, dev : {pm'.dev}, at : Nat, pass : {1, 2},
                    statistic : BOOLEAN, elapsed : {pm'.elapsed}, status : {pm'.status}]
    BY <1>5, Ended
  <2>2. PerfTyped'
    BY <1>1, <1>3, <2>1 DEF PerfTyped
  <2>3. Course'
    BY <1>1, <1>2, <2>1 DEF Course
  <2>4. Rewound' /\ Copied' /\ Remembered' /\ TrafficCounted'
    BY <1>2, <2>1 DEF Rewound, Copied, Remembered, TrafficCounted
  <2>5. History'
    BY <1>2, <2>1 DEF History, First, Second
  <2>6. Tally'
    BY <1>1 DEF Tally
  <2> QED
    BY <2>2, <2>3, <2>4, <2>5, <2>6
<1> QED
  BY <1>4, <1>5 DEF SppPerfMonControl

LEMMA SameHistory ==
    ASSUME History, UNCHANGED << mark, count, carried >>,
           \A c \in Counters : (First(c)' => First(c)) /\ (Second(c)' => Second(c))
    PROVE  History'
<1> SUFFICES ASSUME NEW c \in Counters
             PROVE  /\ First(c)' => Follows(c, mark'.pre[c], Now(c)')
                    /\ Second(c)' =>
                          /\ Follows(c, mark'.pre[c], mark'.cur[c])
                          /\ mark'.cur[c].of.packets <= carried'[Traced(c)].packets
                          /\ mark'.cur[c].of.payload <= carried'[Traced(c)].payload
  BY DEF History, Follows, Load
<1>1. mark' = mark /\ carried' = carried /\ Now(c)' = Now(c)
  BY DEF Now
<1> QED
  BY <1>1 DEF History

SecondAhead == pm.pc = "sleep" \/ (pm.pass = 2 /\ pm.pc \in {"rewind", "drain"})

LEMMA SameRemembered ==
    ASSUME Remembered, data' = data, mark'["pre"] = mark["pre"], SecondAhead' => SecondAhead
    PROVE  Remembered'
<1> SUFFICES ASSUME SecondAhead', NEW p \in data.valid, NEW dir \in Directions, NEW f \in Fields
             PROVE  data.pre[p][dir][f] = Value("pre", <<p, dir, f>>)' % CounterMod
  BY DEF Remembered, SecondAhead
<1>1. \A c : Value("pre", c)' = Value("pre", c)
  BY DEF Value
<1> QED
  BY <1>1 DEF Remembered, SecondAhead

LEMMA RewindStep ==
    ASSUME PerfInv, RewindStations, pc = "performing", pc' = pc
    PROVE  PerfInv'
<1> USE DEF PerfInv
<1>1. /\ pm.pc = "rewind" /\ pm.op = "READ" /\ temp = <<>> /\ pm.at \in Nat
      /\ UNCHANGED << count, carried, temp, data, mark, tlps >>
  BY DEF RewindStations, Course, PerfTyped
<1>2. PICK q \in {"rewind", "drain"}, n \in Nat :
          /\ Goto(q, n)
          /\ q = "rewind" => /\ n = pm.at + 1 /\ pm.at \in Stations
                             /\ pointer' = [pointer EXCEPT ![pm.at] = 0]
          /\ q = "drain" => n = 0 /\ pm.at \notin Stations /\ pointer' = pointer
  <2>1. CASE pm.at \in Stations
    <3>1. Goto("rewind", pm.at + 1) /\ pointer' = [pointer EXCEPT ![pm.at] = 0] /\ pm.at + 1 \in Nat
      BY <1>1, <2>1 DEF RewindStations
    <3> QED
      BY <2>1, <3>1
  <2>2. CASE pm.at \notin Stations
    BY <2>2 DEF RewindStations
  <2> QED
    BY <2>1, <2>2
<1>3. /\ pm'.pc = q /\ pm'.at = n /\ pm'.op = pm.op /\ pm'.pass = pm.pass /\ pm'.statistic = pm.statistic
      /\ pm' \in [pc : Stages, op : {"none", "START", "READ", "STOP"}, dev : {pm'.dev}, at : Nat, pass : {1, 2},
                  statistic : BOOLEAN, elapsed : {pm'.elapsed}, status : {pm'.status}]
  <2>1. q \in Stages
    BY DEF Stages
  <2> QED
    BY <1>2, <2>1, Went
<1>4. PerfTyped'
  BY <1>1, <1>2, <1>3 DEF PerfTyped
<1>5. Course'
  BY <1>1, <1>3 DEF Course
<1>6. Rewound'
  <2>1. CASE q = "rewind"
    <3>1. \A s \in Stations : s \in Nat
      BY DEF Stations
    <3>2. pm'.pc = "rewind" /\ pm'.at = pm.at + 1 /\ pm.at \in Stations
          /\ pointer' = [pointer EXCEPT ![pm.at] = 0]
      BY <1>2, <1>3, <2>1
    <3>3. ASSUME NEW s \in Stations, s < pm.at + 1 PROVE pointer'[s] = 0
      <4>1. pointer \in [Stations -> Nat]
        BY DEF PerfTyped
      <4>2. CASE s = pm.at
        BY <3>2, <4>1, <4>2
      <4>3. CASE s # pm.at
        <5>1. s < pm.at
          BY <1>1, <3>1, <3>3, <4>3
        <5>2. pointer[s] = 0
          BY <1>1, <5>1 DEF Rewound
        <5> QED
          BY <3>2, <4>1, <4>3, <5>2
      <4> QED
        BY <4>2, <4>3
    <3> QED
      BY <3>2, <3>3 DEF Rewound
  <2>2. CASE q = "drain"
    <3>1. \A s \in Stations : pointer[s] = 0
      <4>1. \A s \in Stations : s < pm.at
        BY <1>1, <1>2, <2>2, Sizes DEF Stations
      <4> QED
        BY <4>1, <1>1 DEF Rewound
    <3>2. 0 % OneStation = 0 /\ 0 <= NumStations * OneStation
      <4>1. NumStations * OneStation \in Nat
        BY Sizes
      <4> QED
        BY <4>1, Sizes
    <3> QED
      BY <1>2, <1>3, <2>2, <3>1, <3>2 DEF Rewound
  <2> QED
    BY <2>1, <2>2
<1>7. Copied'
  <2>1. \A c \in Counters : Position(c) \in Nat
    BY PositionOf
  <2>2. pm'.pc = "drain" => pm'.at = 0 /\ Len(temp') = 0
    BY <1>1, <1>2, <1>3
  <2> QED
    BY <2>1, <2>2 DEF Copied
<1>8. History'
  <2>1. \A c \in Counters : Position(c) \in Nat
    BY PositionOf
  <2>2. \A c \in Counters : (First(c)' => First(c)) /\ (Second(c)' => Second(c))
    BY <1>1, <1>2, <1>3, <2>1 DEF First, Second
  <2> QED
    BY <1>1, <2>2, SameHistory
<1>9. Remembered'
  <2>1. SecondAhead' => SecondAhead
    BY <1>1, <1>3 DEF SecondAhead
  <2> QED
    BY <1>1, <2>1, SameRemembered
<1>10. TrafficCounted' /\ Tally'
  BY <1>1, <1>3 DEF TrafficCounted, Tally
<1> QED
  BY <1>4, <1>5, <1>6, <1>7, <1>8, <1>9, <1>10

LEMMA SleepStep ==
    ASSUME PerfInv, Sleep, pc = "performing", pc' = pc
    PROVE  PerfInv'
<1> USE DEF PerfInv
<1>1. /\ pm.pc = "sleep" /\ pm.op = "READ" /\ pm.statistic /\ temp = <<>>
      /\ UNCHANGED << pointer, count, carried, temp, data, mark, tlps >>
  BY DEF Sleep, Course
<1>2. /\ pm'.pc = "rewind" /\ pm'.at = 0 /\ pm'.op = pm.op /\ pm'.pass = 2 /\ pm'.statistic = pm.statistic
      /\ pm' \in [pc : Stages, op : {"none", "START", "READ", "STOP"}, dev : {pm'.dev}, at : Nat, pass : {1, 2},
                  statistic : BOOLEAN, elapsed : {pm'.elapsed}, status : {pm'.status}]
  BY DEF Sleep, PerfTyped, Stages
<1>3. PerfTyped'
  BY <1>1, <1>2 DEF PerfTyped
<1>4. Course'
  BY <1>1, <1>2 DEF Course
<1>5. Rewound' /\ Copied' /\ TrafficCounted' /\ Tally'
  <2>1. \A s \in Stations : s \in Nat
    BY DEF Stations
  <2> QED
    BY <1>1, <1>2, <2>1 DEF Rewound, Copied, TrafficCounted, Tally
<1>6. History'
  <2>1. \A c \in Counters : (First(c)' => First(c)) /\ (Second(c)' => Second(c))
    BY <1>1, <1>2 DEF First, Second
  <2> QED
    BY <1>1, <2>1, SameHistory
<1>7. Remembered'
  <2>1. SecondAhead
    BY <1>1 DEF SecondAhead
  <2> QED
    BY <1>1, <2>1, SameRemembered
<1> QED
  BY <1>3, <1>4, <1>5, <1>6, <1>7

LEMMA DrainStep ==
    ASSUME PerfInv, DrainStation, pc = "performing", pc' = pc
    PROVE  PerfInv'
<1> USE DEF PerfInv
<1> DEFINE k == pm.at  s == k \div OneStation  i == k % OneStation
           c == StationOrder[s][i + 1]
           read == [count |-> count[c], of |-> carried[Traced(c)]]
<1>1. /\ pm.pc = "drain" /\ k < NumStations * OneStation /\ k \in Nat /\ pm.op = "READ"
      /\ UNCHANGED << count, carried, data, tlps >>
  BY DEF DrainStation, Course, PerfTyped
<1>2. s \in Stations /\ i \in 0 .. OneStation - 1 /\ c \in Counters
      /\ \A other \in Counters : Position(other) = k <=> other = c
  <2> HIDE DEF k
  <2> QED
    BY <1>1, NextRead
<1>3. pointer[s] = i
  BY <1>1, <1>2 DEF Rewound
<1>4. /\ temp' = Append(temp, count[c] % CounterMod)
      /\ pointer' = [pointer EXCEPT ![s] = (i + 1) % OneStation]
      /\ mark' = [mark EXCEPT ![Pass][c] = read]
      /\ Goto("drain", k + 1)
  BY <1>3 DEF DrainStation
<1> HIDE DEF c, s, i
<1>5. /\ pm'.pc = "drain" /\ pm'.at = k + 1 /\ pm'.op = pm.op /\ pm'.pass = pm.pass /\ pm'.statistic = pm.statistic
      /\ pm' \in [pc : Stages, op : {"none", "START", "READ", "STOP"}, dev : {pm'.dev}, at : Nat, pass : {1, 2},
                  statistic : BOOLEAN, elapsed : {pm'.elapsed}, status : {pm'.status}]
  <2>1. "drain" \in Stages /\ k + 1 \in Nat
    BY <1>1 DEF Stages
  <2> QED
    BY <1>4, <2>1, Went
<1>6. Traced(c) \in Traces /\ count[c] \in Nat /\ carried[Traced(c)] \in Packets
      /\ Len(temp) = k /\ temp \in Seq(Nat) /\ count[c] % CounterMod \in Nat
  <2>1. Traced(c) \in Traces /\ count[c] \in Nat
    BY <1>2, TracedTrace DEF PerfTyped
  <2>2. carried[Traced(c)] \in Packets /\ Len(temp) = k /\ temp \in Seq(Nat)
    BY <1>1, <2>1 DEF PerfTyped, Copied
  <2> QED
    BY <2>1, <2>2, Sizes
<1>7. read \in [count : Nat, of : Packets] /\ Now(c) = read
  BY <1>6 DEF Now
<1> HIDE DEF read
<1>8. Pass \in {"pre", "cur"} /\ Pass' = Pass /\ (pm.pass = 1 <=> Pass = "pre") /\ (pm.pass = 2 <=> Pass = "cur")
  BY <1>5 DEF Pass, PerfTyped
<1>9. /\ mark' \in [pre : ReadOuts, cur : ReadOuts]
      /\ mark'[Pass][c] = read
      /\ \A pass \in {"pre", "cur"}, d \in Counters : pass # Pass \/ d # c => mark'[pass][d] = mark[pass][d]
      /\ \A pass \in {"pre", "cur"} : pass # Pass => mark'[pass] = mark[pass]
  <2>1. mark \in [pre : ReadOuts, cur : ReadOuts]
    BY DEF PerfTyped
  <2>2. mark.pre \in ReadOuts /\ mark.cur \in ReadOuts
    BY <2>1
  <2>3. \A r \in ReadOuts : /\ [r EXCEPT ![c] = read] \in ReadOuts /\ [r EXCEPT ![c] = read][c] = read
                            /\ \A d \in Counters : d # c => [r EXCEPT ![c] = read][d] = r[d]
    BY <1>2, <1>7 DEF ReadOuts
  <2>4. CASE Pass = "pre"
    <3>1. mark' = [mark EXCEPT !.pre = [mark.pre EXCEPT ![c] = read]]
      BY <1>4, <2>1, <2>4
    <3>2. mark'["pre"] = [mark["pre"] EXCEPT ![c] = read] /\ mark'["cur"] = mark["cur"]
          /\ mark' \in [pre : {mark'["pre"]}, cur : {mark'["cur"]}]
      BY <2>1, <3>1
    <3>3. mark' \in [pre : ReadOuts, cur : ReadOuts]
      BY <2>2, <2>3, <3>2
    <3>4. mark'[Pass][c] = read
      BY <2>2, <2>3, <2>4, <3>2
    <3>5. \A d \in Counters : d # c => mark'["pre"][d] = mark["pre"][d]
      BY <2>2, <2>3, <3>2
    <3> QED
      BY <2>4, <3>2, <3>3, <3>4, <3>5
  <2>5. CASE Pass = "cur"
    <3>1. mark' = [mark EXCEPT !.cur = [mark.cur EXCEPT ![c] = read]]
      BY <1>4, <2>1, <2>5
    <3>2. mark'["cur"] = [mark["cur"] EXCEPT ![c] = read] /\ mark'["pre"] = mark["pre"]
          /\ mark' \in [pre : {mark'["pre"]}, cur : {mark'["cur"]}]
      BY <2>1, <3>1
    <3>3. mark' \in [pre : ReadOuts, cur : ReadOuts]
      BY <2>2, <2>3, <3>2
    <3>4. mark'[Pass][c] = read
      BY <2>2, <2>3, <2>5, <3>2
    <3>5. \A d \in Counters : d # c => mark'["cur"][d] = mark["cur"][d]
      BY <2>2, <2>3, <3>2
    <3> QED
      BY <2>5, <3>2, <3>3, <3>4, <3>5
  <2> QED
    BY <1>8, <2>4, <2>5
<1>10. PerfTyped'
  <2>1. pointer' \in [Stations -> Nat]
    <3>1. (i + 1) % OneStation \in Nat
      BY <1>2, Sizes
    <3> QED
      BY <1>4, <3>1 DEF PerfTyped
  <2>2. temp' \in Seq(Nat)
    BY <1>4, <1>6
  <2> QED
    BY <1>1, <1>5, <1>9, <2>1, <2>2 DEF PerfTyped
<1>11. Course'
  BY <1>1, <1>5 DEF Course
<1>12. Rewound'
  <2>1. k + 1 <= NumStations * OneStation
    <3>1. NumStations * OneStation \in Nat
      BY Sizes
    <3> QED
      BY <1>1, <3>1
  <2>2. \A z \in Stations : pointer[z] = IF z = s THEN i ELSE 0
    BY <1>1 DEF Rewound, s, i
  <2>3. \A z \in Stations : pointer'[z] = IF z = s THEN (i + 1) % OneStation ELSE 0
    BY <1>2, <1>4, <2>2 DEF PerfTyped
  <2>4. IF i + 1 = OneStation THEN (k + 1) \div OneStation = s + 1 /\ (k + 1) % OneStation = 0
                              ELSE (k + 1) \div OneStation = s /\ (k + 1) % OneStation = i + 1
    <3> HIDE DEF k
    <3> QED
      BY <1>1, NextUp, Sizes DEF s, i
  <2>5. \A z \in Stations : pointer'[z] = IF z = (k + 1) \div OneStation THEN (k + 1) % OneStation ELSE 0
    <3>1. CASE i + 1 = OneStation
      <4>1. (i + 1) % OneStation = 0
        BY <3>1, Sizes
      <4> QED
        BY <2>3, <2>4, <3>1, <4>1
    <3>2. CASE i + 1 # OneStation
      <4>1. (i + 1) % OneStation = i + 1
        BY <1>2, <3>2, Sizes
      <4> QED
        BY <2>3, <2>4, <3>2, <4>1
    <3> QED
      BY <3>1, <3>2
  <2> QED
    BY <1>5, <2>1, <2>5 DEF Rewound
<1>13. Copied'
  <2>1. Len(temp') = k + 1 /\ temp'[k + 1] = count[c] % CounterMod
        /\ \A n \in 1 .. k : temp'[n] = temp[n]
    BY <1>4, <1>6
  <2>2. ASSUME NEW d \in Counters, Position(d) < k + 1
        PROVE  temp'[Position(d) + 1] = mark'[Pass][d].count % CounterMod
    <3>1. Position(d) \in Nat
      BY PositionOf
    <3>2. CASE d = c
      <4>1. Position(d) = k /\ read.count = count[c]
        BY <1>2, <3>2 DEF read
      <4> QED
        BY <1>9, <2>1, <3>2, <4>1
    <3>3. CASE d # c
      <4>1. Position(d) # k
        BY <1>2, <3>3
      <4>2. Position(d) < k /\ Position(d) + 1 \in 1 .. k
        BY <1>1, <2>2, <3>1, <4>1
      <4>3. temp[Position(d) + 1] = mark[Pass][d].count % CounterMod
        BY <1>1, <4>2 DEF Copied
      <4>4. mark'[Pass][d] = mark[Pass][d]
        BY <1>8, <1>9, <3>3
      <4> QED
        BY <2>1, <4>2, <4>3, <4>4
    <3> QED
      BY <3>2, <3>3
  <2> QED
    BY <1>5, <1>8, <2>1, <2>2 DEF Copied
<1>14. \A d \in Counters : Now(d)' = Now(d) /\ Now(d).of = carried[Traced(d)]
  BY <1>1 DEF Now
<1>15. \A d \in Counters : Position(d) < k + 1 => d = c \/ Position(d) < k
  <2>1. \A d \in Counters : Position(d) \in Nat
    BY PositionOf
  <2> QED
    BY <1>1, <1>2, <2>1
<1>16. History'
  <2> SUFFICES ASSUME NEW d \in Counters
               PROVE  /\ First(d)' => Follows(d, mark'.pre[d], Now(d))
                      /\ Second(d)' =>
                            /\ Follows(d, mark'.pre[d], mark'.cur[d])
                            /\ mark'.cur[d].of.packets <= carried[Traced(d)].packets
                            /\ mark'.cur[d].of.payload <= carried[Traced(d)].payload
    BY <1>1, <1>14 DEF History, Follows, Load
  <2>1. CASE pm.pass = 1
    <3>1. ~Second(d)' /\ Pass = "pre" /\ (First(d)' => pm.statistic /\ (d = c \/ First(d)))
      BY <1>1, <1>5, <1>8, <1>15, <2>1 DEF First, Second
    <3>2. CASE d = c
      <4>1. mark'.pre[d] = Now(d)
        BY <1>7, <1>9, <3>1, <3>2
      <4>2. Follows(d, Now(d), Now(d))
        BY <1>6, <3>2 DEF Follows, Now, Packets
      <4> QED
        BY <3>1, <4>1, <4>2
    <3>3. CASE d # c
      <4>1. mark'.pre[d] = mark.pre[d]
        BY <1>9, <3>3
      <4> QED
        BY <3>1, <3>3, <4>1 DEF History
    <3> QED
      BY <3>2, <3>3
  <2>2. CASE pm.pass = 2
    <3>1. /\ Pass = "cur" /\ (First(d)' => First(d)) /\ (Second(d)' => d = c \/ Second(d))
          /\ mark'.pre = mark.pre /\ (Second(d)' => First(d))
      BY <1>1, <1>5, <1>8, <1>9, <1>15, <2>2 DEF First, Second, Course
    <3>2. CASE d = c
      <4>1. mark'.cur[d] = Now(d) /\ Now(d).of = carried[Traced(d)]
        BY <1>7, <1>9, <1>14, <3>1, <3>2
      <4>2. carried[Traced(d)].packets \in Nat /\ carried[Traced(d)].payload \in Nat
        BY <1>6, <3>2 DEF Packets
      <4> QED
        BY <3>1, <4>1, <4>2 DEF History
    <3>3. CASE d # c
      <4>1. mark'.cur[d] = mark.cur[d]
        BY <1>9, <3>3
      <4> QED
        BY <3>1, <3>3, <4>1 DEF History
    <3> QED
      BY <3>2, <3>3
  <2> QED
    BY <2>1, <2>2 DEF PerfTyped
<1>17. Remembered'
  <2>1. CASE pm.pass = 2
    <3>1. mark'["pre"] = mark["pre"]
      BY <1>8, <1>9, <2>1
    <3>2. SecondAhead
      BY <1>1, <2>1 DEF SecondAhead
    <3> QED
      BY <1>1, <3>1, <3>2, SameRemembered
  <2>2. CASE pm.pass # 2
    BY <1>5, <2>2 DEF Remembered
  <2> QED
    BY <2>1, <2>2
<1>18. TrafficCounted' /\ Tally'
  BY <1>1, <1>5 DEF TrafficCounted, Tally
<1> QED
  BY <1>10, <1>11, <1>12, <1>13, <1>16, <1>17, <1>18

(* The end of a read-out: the first of two is remembered, the second one shows what was
   carried; the others leave no statistics that count as a success. *)
LEMMA GetCountersStep ==
    ASSUME PerfInv, SppPerfGetCounters, pc = "performing", pc' = pc
    PROVE  PerfInv'
<1> USE DEF PerfInv
<1> DEFINE counters == PortCounters(temp)
<1>1. /\ pm.pc = "drain" /\ pm.at = NumStations * OneStation /\ temp' = <<>> /\ pm.op = "READ"
      /\ mark' = mark /\ carried' = carried /\ count' = count /\ pointer' = pointer /\ tlps' = tlps
  BY DEF SppPerfGetCounters, Course
<1>2. /\ data \in [valid : SUBSET Ports, speed : {data.speed}, pre : {data.pre}, cur : {data.cur},
                   stats : {data.stats}]
      /\ pm.statistic \in BOOLEAN /\ pm.pass \in {1, 2}
  BY DEF PerfTyped
<1>3. CASE pm.statistic /\ pm.elapsed # 0 /\ pm.pass = 1
  <2>1. data' = [data EXCEPT !.cur = counters, !.pre = counters] /\ pm' = [pm EXCEPT !.pc = "sleep"]
    BY <1>3 DEF SppPerfGetCounters
  <2>2. /\ pm'.pc = "sleep" /\ pm'.op = pm.op /\ pm'.pass = 1 /\ pm'.statistic = pm.statistic
        /\ pm' \in [pc : Stages, op : {"none", "START", "READ", "STOP"}, dev : {pm'.dev}, at : Nat, pass : {1, 2},
                    statistic : BOOLEAN, elapsed : {pm'.elapsed}, status : {pm'.status}]
    BY <1>3, <2>1 DEF PerfTyped, Stages
  <2>3. /\ data'.valid = data.valid /\ data'.pre = counters
        /\ data' \in [valid : SUBSET Ports, speed : {data'.speed}, pre : {data'.pre}, cur : {data'.cur},
                      stats : {data'.stats}]
    <3> HIDE DEF counters
    <3> QED
      BY <1>2, <2>1
  <2>4. PerfTyped'
    BY <1>1, <2>2, <2>3 DEF PerfTyped
  <2>5. Course'
    BY <1>1, <1>3, <2>2 DEF Course
  <2>6. Rewound' /\ Copied' /\ TrafficCounted' /\ Tally'
    BY <1>1, <2>2 DEF Rewound, Copied, TrafficCounted, Tally
  <2>7. \A c \in Counters : Position(c) < pm.at
    BY <1>1, PositionOf
  <2>8. History'
    <3>1. \A c \in Counters : (First(c)' => First(c)) /\ (Second(c)' => Second(c))
      BY <1>1, <1>3, <2>2, <2>7 DEF First, Second
    <3> QED
      BY <1>1, <3>1, SameHistory
  <2>9. Remembered'
    <3> SUFFICES ASSUME NEW p \in data.valid, NEW dir \in Directions, NEW f \in Fields
                 PROVE  counters[p][dir][f] = Value("pre", <<p, dir, f>>)' % CounterMod
      <4> SUFFICES ASSUME NEW p \in data'.valid, NEW dir \in Directions, NEW f \in Fields
                   PROVE  data'.pre[p][dir][f] = Value("pre", <<p, dir, f>>)' % CounterMod
        BY Zenon DEF Remembered
      <4> HIDE DEF counters
      <4> QED
        BY <2>3, Zenon
    <3>1. \A c \in Counters : temp[Position(c) + 1] = mark["pre"][c].count % CounterMod
      <4>1. Pass = "pre"
        BY <1>3 DEF Pass
      <4>2. \A c \in Counters : temp[Position(c) + 1] = mark[Pass][c].count % CounterMod
        BY <1>1, <2>7, Zenon DEF Copied
      <4> QED
        BY <4>1, <4>2, Zenon
    <3>2. p \in Ports
      BY <1>2
    <3>3. /\ IngressCounters(temp, p)[f] = Value("pre", <<p, "ingress", f>>) % CounterMod
          /\ EgressCounters(temp, p)[f] = Value("pre", <<p, "egress", f>>) % CounterMod
      BY <3>1, <3>2, Decoded
    <3>4. counters[p][dir] = IF dir = "ingress" THEN IngressCounters(temp, p) ELSE EgressCounters(temp, p)
      BY DEF PortCounters, Directions
    <3>5. \A c : Value("pre", c)' = Value("pre", c)
      BY <1>1 DEF Value
    <3> HIDE DEF counters
    <3> QED
      BY <3>3, <3>4, <3>5 DEF Directions
  <2> QED
    BY <2>4, <2>5, <2>6, <2>8, <2>9
<1>4. CASE ~(pm.statistic /\ pm.elapsed # 0 /\ pm.pass = 1)
  <2> SUFFICES ASSUME NEW status, Finish(status),
                      /\ data'.valid = data.valid
                      /\ data' \in [valid : SUBSET Ports, speed : {data'.speed}, pre : {data'.pre}, cur : {data'.cur},
                                    stats : {data'.stats}],
                      pm.statistic /\ status = "success" =>
                          /\ pm.pass = 2
                          /\ data'.stats = [p \in data.valid |-> SppPerfCalcStatisticsOnePort(counters, p)]
               PROVE  PerfInv'
    <3> HIDE DEF counters
    <3>1. CASE data' = [data EXCEPT !.cur = counters] /\ Finish("success") /\ ~pm.statistic
      BY <1>2, <3>1
    <3>2. CASE data' = [data EXCEPT !.cur = counters] /\ (Finish("invalid") \/ Finish("failed"))
      BY <1>2, <3>2
    <3>3. CASE /\ pm.pass = 2 /\ Finish("success")
               /\ data' = [data EXCEPT !.cur = counters,
                               !.stats = [p \in data.valid |-> SppPerfCalcStatisticsOnePort(counters, p)]]
      <4> DEFINE stats == [p \in data.valid |-> SppPerfCalcStatisticsOnePort(counters, p)]
      <4>1. data' = [data EXCEPT !.cur = counters, !.stats = stats]
        BY <3>3
      <4> HIDE DEF stats
      <4>2. /\ data'.valid = data.valid /\ data'.stats = stats
            /\ data' \in [valid : SUBSET Ports, speed : {data'.speed}, pre : {data'.pre}, cur : {data'.cur},
                          stats : {data'.stats}]
        BY <1>2, <4>1
      <4> QED
        BY <3>3, <4>2 DEF stats
    <3> QED
      BY <1>2, <1>4, <3>1, <3>2, <3>3 DEF SppPerfGetCounters, counters
  <2>1. TrafficCounted'
    <3>1. pm'.status = status /\ pm'.statistic = pm.statistic
      BY Ended
    <3>2. CASE ~(pm.statistic /\ status = "success")
      BY <3>1, <3>2 DEF TrafficCounted
    <3>3. CASE pm.statistic /\ status = "success"
      <4>1. \A p \in data.valid, dir \in Directions :
                AsCarried(SppPerfCalcStatisticsOnePort(counters, p)[dir], p, dir)
        BY <1>1, <3>3, Shown
      <4>2. \A p \in data'.valid, dir \in Directions : AsCarried(data'.stats[p][dir], p, dir)
        <5> HIDE DEF counters
        <5> QED
          BY <3>3, <4>1
      <4>3. \A pass, c : Value(pass, c)' = Value(pass, c)
        BY <1>1 DEF Value
      <4>4. \A c : Grew(c)' = Grew(c)
        BY <4>3 DEF Grew
      <4>5. \A p, dir, f : Together(p, dir, f)' = Together(p, dir, f) /\ Brought(p, dir, f)' = Brought(p, dir, f)
        BY <1>1 DEF Together, Brought
      <4> QED
        BY <4>2, <4>4, <4>5 DEF TrafficCounted, AsCarried
    <3> QED
      BY <3>2, <3>3
  <2> QED
    BY <1>1, <2>1, Over
<1> QED
  BY <1>3, <1>4

LEMMA PerfStep ==
    ASSUME PerfInv, PerfNext, pc = "performing", pc' = pc
    PROVE  PerfInv'
<1>1. CASE Traffic
  BY <1>1, TrafficStep
<1>2. CASE AccessFails
  BY <1>2, AccessFailsStep
<1>3. CASE SppGetPciePortPerformanceInit
  BY <1>3, InitStep
<1>4. CASE SppPerfMonControl
  BY <1>4, ControlStep
<1>5. CASE RewindStations
  BY <1>5, RewindStep
<1>6. CASE DrainStation
  BY <1>6, DrainStep
<1>7. CASE SppPerfGetCounters
  BY <1>7, GetCountersStep
<1>8. CASE Sleep
  BY <1>8, SleepStep
<1> QED
  BY <1>1, <1>2, <1>3, <1>4, <1>5, <1>6, <1>7, <1>8 DEF PerfNext

-----------------------------------------------------------------------------
(***************************************************************************)
(* The program around it.                                                  *)
(***************************************************************************)
LEMMA Blanks ==
    /\ NoCall \in [pc : Stages, op : {"none", "START", "READ", "STOP"}, dev : {NoCall.dev}, at : Nat, pass : {1, 2},
                   statistic : BOOLEAN, elapsed : {NoCall.elapsed}, status : {NoCall.status}]
    /\ NoCall.pc = "none" /\ NoCall.op = "none" /\ NoCall.pass = 1 /\ NoCall.statistic = FALSE
    /\ NoData \in [valid : SUBSET Ports, speed : {NoData.speed}, pre : {NoData.pre}, cur : {NoData.cur},
                   stats : {NoData.stats}]
    /\ [s \in Stations |-> 0] \in [Stations -> Nat] /\ <<>> \in Seq(Nat)
    /\ Nothing \in [Counters -> Nat] /\ NoPackets \in [Traces -> Packets]
    /\ NoMark \in [pre : ReadOuts, cur : ReadOuts]
    /\ 0 \in 0 .. MaxTlps
    /\ \A t \in Traces : (TLP_DW * NoPackets[t].packets) + NoPackets[t].payload <= 0 * Most
<1>1. NoMark \in [pre : ReadOuts, cur : ReadOuts]
  <2>1. NotRead \in ReadOuts
    BY DEF NotRead, ReadOuts, Packets
  <2> QED
    BY <2>1 DEF NoMark
<1>2. NoPackets \in [Traces -> Packets]
  BY DEF NoPackets, Traces, Packets
<1>3. \A t \in Traces : (TLP_DW * NoPackets[t].packets) + NoPackets[t].payload <= 0 * Most
  <2> SUFFICES ASSUME NEW t \in Traces
               PROVE  (TLP_DW * NoPackets[t].packets) + NoPackets[t].payload <= 0 * Most
    OBVIOUS
  <2>1. NoPackets[t] = [packets |-> 0, payload |-> 0]
    BY DEF NoPackets, Traces
  <2>2. NoPackets[t].packets = 0 /\ NoPackets[t].payload = 0
    BY <2>1
  <2> QED
    BY <2>2, Light DEF TLP_DW, TLP_OH_DW
<1>4. 0 \in 0 .. MaxTlps
  BY Sizes
<1>5. NoData \in [valid : SUBSET Ports, speed : {NoData.speed}, pre : {NoData.pre}, cur : {NoData.cur},
                  stats : {NoData.stats}]
  BY DEF NoData
<1> QED
  BY <1>1, <1>2, <1>3, <1>4, <1>5 DEF NoCall, Stages, Nothing

(* Between two calls of the monitor there is nothing to say about the counters. *)
LEMMA AtRest ==
    ASSUME pm' = NoCall, temp' = <<>>, PerfTyped', Tally'
    PROVE  PerfInv'
<1>1. pm'.pc = "none" /\ pm'.op = "none" /\ pm'.pass = 1 /\ pm'.statistic = FALSE
  BY Blanks
<1>2. Course'
  BY <1>1 DEF Course
<1>3. Rewound' /\ Copied' /\ Remembered' /\ TrafficCounted'
  BY <1>1 DEF Rewound, Copied, Remembered, TrafficCounted
<1>4. History'
  BY <1>1 DEF History, First, Second
<1> QED
  BY <1>2, <1>3, <1>4 DEF PerfInv

LEMMA Resting ==
    ASSUME PerfInv, pc # "performing", UNCHANGED << pm, pointer, count, carried, temp, data, mark, tlps >>
    PROVE  PerfInv'
<1>1. pm = NoCall /\ temp = <<>>
  BY Blanks DEF PerfInv, Course
<1>2. PerfTyped' /\ Tally'
  BY DEF PerfInv, PerfTyped, Tally
<1> QED
  BY <1>1, <1>2, AtRest

LEMMA BeginStep ==
    ASSUME PerfInv, BeginPerformance
    PROVE  PerfInv'
<1> USE DEF PerfInv
<1>1. pc = "calling" /\ pc' = "performing" /\ This.api \in DOMAIN PerfOp
      /\ UNCHANGED << pointer, count, carried, temp, data, mark, tlps >>
  BY DEF BeginPerformance, Calling, SppGetPciePortPerformance
<1>2. temp = <<>>
  BY <1>1, Blanks DEF Course
<1>3. \E op \in {"START", "READ", "STOP"}, counts \in BOOLEAN : \E d, elapsed :
          /\ pm' = [pc |-> FirstPc(op), op |-> op, dev |-> d, at |-> 0, pass |-> 1,
                    statistic |-> counts, elapsed |-> elapsed, status |-> "none"]
          /\ counts => op = "READ"
  <2>1. PerfOp[This.api] \in {"START", "READ", "STOP"} /\ (This.api = "perfread" => PerfOp[This.api] = "READ")
    BY <1>1 DEF PerfOp
  <2> DEFINE counts == This.api = "perfread" /\ request["statistic"] # 0
             elapsed == IF counts THEN request["stattime"] ELSE 0
  <2>2. pm' = [pc |-> FirstPc(PerfOp[This.api]), op |-> PerfOp[This.api], dev |-> sel, at |-> 0, pass |-> 1,
               statistic |-> counts, elapsed |-> elapsed, status |-> "none"]
    BY DEF BeginPerformance, SppGetPciePortPerformance
  <2>3. counts \in BOOLEAN /\ (counts => PerfOp[This.api] = "READ")
    BY <2>1
  <2> HIDE DEF counts, elapsed
  <2> QED
    BY <2>1, <2>2, <2>3
<1>4. /\ pm' \in [pc : Stages, op : {"none", "START", "READ", "STOP"}, dev : {pm'.dev}, at : Nat, pass : {1, 2},
                  statistic : BOOLEAN, elapsed : {pm'.elapsed}, status : {pm'.status}]
      /\ pm'.pass = 1 /\ pm'.at = 0 /\ pm'.pc \in {"init", "rewind", "control"}
      /\ (pm'.pc = "rewind" <=> pm'.op = "READ") /\ (pm'.statistic => pm'.op = "READ")
  BY <1>3 DEF FirstPc, Stages
<1>5. PerfTyped' /\ Tally'
  BY <1>1, <1>4 DEF PerfTyped, Tally
<1>6. Course'
  BY <1>1, <1>2, <1>4 DEF Course
<1>7. Rewound' /\ Copied' /\ Remembered' /\ TrafficCounted'
  <2>1. \A s \in Stations : s \in Nat
    BY DEF Stations
  <2> QED
    BY <1>4, <2>1 DEF Rewound, Copied, Remembered, TrafficCounted
<1>8. History'
  BY <1>4 DEF History, First, Second
<1> QED
  BY <1>5, <1>6, <1>7, <1>8

LEMMA EndStep ==
    ASSUME PerfInv, EndPerformance
    PROVE  PerfInv'
<1>1. pm.pc = "done" /\ pm' = NoCall /\ UNCHANGED << pointer, count, carried, temp, data, mark, tlps >>
  BY DEF EndPerformance
<1>2. temp' = <<>>
  BY <1>1 DEF PerfInv, Course
<1>3. PerfTyped' /\ Tally'
  BY <1>1, Blanks DEF PerfInv, PerfTyped, Tally
<1> QED
  BY <1>1, <1>2, <1>3, AtRest

LEMMA LeaveStep ==
    ASSUME PerfInv, Leave
    PROVE  PerfInv'
<1>1. pc # "performing" /\ pm' = pm /\ temp' = temp
      /\ pointer' = [s \in Stations |-> 0] /\ count' = Nothing /\ carried' = NoPackets
      /\ data' = NoData /\ mark' = NoMark /\ tlps' = 0
  BY DEF Leave
<1>2. pm' = NoCall /\ temp' = <<>>
  BY <1>1, Blanks DEF PerfInv, Course
<1>3. PerfTyped' /\ Tally'
  BY <1>1, <1>2, Blanks DEF PerfTyped, Tally
<1> QED
  BY <1>2, <1>3, AtRest

-----------------------------------------------------------------------------
(***************************************************************************)
(* The other devices.                                                      *)
(***************************************************************************)
(* What a step may change of the devices: what belongs to the one selected. *)
OnlyAt(new, old, S, d) == new = [e \in S |-> new[e]] /\ \A e \in S \ {d} : new[e] = old[e]
OnlySelected ==
    /\ OnlyAt(memory', memory, Devices, sel) /\ OnlyAt(selector', selector, Devices, sel)
    /\ OnlyAt(monitor', monitor, Switches, sel)

LEMMA Changed ==
    ASSUME NEW S, NEW f, f = [d \in S |-> f[d]], NEW e, NEW x
    PROVE  OnlyAt([f EXCEPT ![e] = x], f, S, e)
<1>1. DOMAIN f = S
  OBVIOUS
<1>2. [f EXCEPT ![e] = x] = [d \in S |-> IF d = e THEN x ELSE f[d]]
  BY <1>1
<1> QED
  BY <1>2 DEF OnlyAt

LEMMA Kept ==
    ASSUME NEW S, NEW f, f = [d \in S |-> f[d]], NEW e
    PROVE  OnlyAt(f, f, S, e)
  BY DEF OnlyAt

(* The devices of the others are as they were before the command as long as its steps
   change those of the selected one only. *)
LEMMA StillOthers ==
    ASSUME Others, OnlySelected, UNCHANGED << sel, before >>, pc \in Commanded,
           pc' = "performing" => pm'.dev = sel
    PROVE  Others'
<1>1. OthersUntouched'
  <2> SUFFICES ASSUME NEW d \in Devices \ {sel}
               PROVE  /\ memory'[d] = before.memory[d] /\ selector'[d] = before.selector[d]
                      /\ d \in Switches => monitor'[d] = before.monitor[d]
    BY DEF OthersUntouched, Untouched
  <2>1. /\ memory[d] = before.memory[d] /\ selector[d] = before.selector[d]
        /\ d \in Switches => monitor[d] = before.monitor[d]
    BY DEF Others, OthersUntouched, Untouched
  <2>2. /\ memory'[d] = memory[d] /\ selector'[d] = selector[d]
        /\ d \in Switches => monitor'[d] = monitor[d]
    BY DEF OnlySelected, OnlyAt
  <2> QED
    BY <2>1, <2>2
<1> QED
  BY <1>1 DEF Others, OnlySelected, OnlyAt

LEMMA QuietDevices ==
    ASSUME Others, UNCHANGED << memory, selector, monitor >>
    PROVE  OnlySelected
  BY Kept DEF Others, OnlySelected

(* Between two commands, and when one is given, the devices are remembered anew. *)
LEMMA OutsideCommand ==
    ASSUME Others, UNCHANGED << memory, selector, monitor >>, pc' # "performing",
           pc' \in Commanded =>
               before' = [memory |-> memory, selector |-> selector, monitor |-> monitor]
    PROVE  Others'
<1>1. memory' = memory /\ selector' = selector /\ monitor' = monitor
  OBVIOUS
<1>2. pc' \in Commanded => OthersUntouched'
  <2> SUFFICES ASSUME pc' \in Commanded, NEW d \in Devices
               PROVE  /\ memory'[d] = before'.memory[d] /\ selector'[d] = before'.selector[d]
                      /\ d \in Switches => monitor'[d] = before'.monitor[d]
    BY DEF OthersUntouched, Untouched
  <2> QED
    BY <1>1
<1> QED
  BY <1>1, <1>2 DEF Others

(* The steps of the monitor work on the device of the call. *)
LEMMA PerfWorksOnOne ==
    ASSUME PerfInv, PerfNext, monitor = [d \in Switches |-> monitor[d]]
    PROVE  OnlyAt(monitor', monitor, Switches, pm.dev) /\ pm'.dev = pm.dev
<1>0. pm'.dev = pm.dev
  <2>1. pm \in [pc : Stages, op : {"none", "START", "READ", "STOP"}, dev : {pm.dev}, at : Nat, pass : {1, 2},
                statistic : BOOLEAN, elapsed : {pm.elapsed}, status : {pm.status}]
    BY DEF PerfInv, PerfTyped
  <2>2. CASE Traffic \/ AccessFails
    BY <2>1, <2>2 DEF Traffic, AccessFails, Finish
  <2>3. CASE SppGetPciePortPerformanceInit
    BY <2>1, <2>3 DEF SppGetPciePortPerformanceInit, Goto
  <2>4. CASE SppPerfMonControl
    BY <2>1, <2>4 DEF SppPerfMonControl, Finish, Goto
  <2>5. CASE RewindStations
    BY <2>1, <2>5 DEF RewindStations, Goto
  <2>6. CASE DrainStation
    BY <2>1, <2>6 DEF DrainStation, Goto
  <2>7. CASE SppPerfGetCounters \/ Sleep
    BY <2>1, <2>7 DEF SppPerfGetCounters, Sleep, Finish, Goto
  <2> QED
    BY <2>2, <2>3, <2>4, <2>5, <2>6, <2>7 DEF PerfNext
<1>1. ASSUME monitor' = monitor PROVE OnlyAt(monitor', monitor, Switches, pm.dev)
  <2>1. OnlyAt(monitor, monitor, Switches, pm.dev)
    BY Kept
  <2> QED
    BY <1>1, <2>1, Zenon
<1>2. ASSUME NEW x, monitor' = [monitor EXCEPT ![pm.dev] = x]
      PROVE  OnlyAt(monitor', monitor, Switches, pm.dev)
  BY <1>2, Changed
<1>3. monitor' = monitor \/ \E x : monitor' = [monitor EXCEPT ![pm.dev] = x]
  BY DEF PerfNext, Traffic, AccessFails, SppGetPciePortPerformanceInit, SppPerfMonControl,
         RewindStations, DrainStation, SppPerfGetCounters, Sleep
<1> QED
  BY <1>0, <1>1, <1>2, <1>3

LEMMA ResetStep ==
    ASSUME Others, Reset
    PROVE  Others'
<1>1. pc = "calling" /\ pc' \in {"returned", "calling"} /\ memory' = memory /\ UNCHANGED << sel, before >>
  BY DEF Reset, Calling, Answer, requestVars
<1>2. OnlyAt(selector', selector, Devices, sel) /\ OnlyAt(monitor', monitor, Switches, sel)
  <2>1. CASE selector' = selector /\ monitor' = monitor
    BY <2>1, Kept DEF Others
  <2>2. ASSUME NEW x, NEW y, selector' = [selector EXCEPT ![sel] = x], monitor' = [monitor EXCEPT ![sel] = y]
        PROVE  OnlyAt(selector', selector, Devices, sel) /\ OnlyAt(monitor', monitor, Switches, sel)
    BY <2>2, Changed DEF Others
  <2>3. \/ selector' = selector /\ monitor' = monitor
        \/ \E x, y : selector' = [selector EXCEPT ![sel] = x] /\ monitor' = [monitor EXCEPT ![sel] = y]
    BY DEF Reset
  <2> QED
    BY <2>1, <2>2, <2>3
<1>3. OnlySelected
  BY <1>1, <1>2, Kept DEF OnlySelected, Others
<1> QED
  BY <1>1, <1>3, StillOthers DEF Commanded

LEMMA WriteStep ==
    ASSUME Others, WriteMemory
    PROVE  Others'
<1>1. pc = "calling" /\ pc' \in {"returned", "calling", "ended"} /\ selector' = selector /\ monitor' = monitor
      /\ UNCHANGED << sel, before >>
  BY DEF WriteMemory, Calling, Answer, requestVars, perfVars
<1>2. OnlyAt(memory', memory, Devices, sel)
  <2>1. CASE memory' = memory
    BY <2>1, Kept DEF Others
  <2>2. ASSUME NEW x, memory' = [memory EXCEPT ![sel] = x]
        PROVE  OnlyAt(memory', memory, Devices, sel)
    BY <2>2, Changed DEF Others
  <2>3. memory' = memory \/ \E x : memory' = [memory EXCEPT ![sel] = x]
    BY DEF WriteMemory
  <2> QED
    BY <2>1, <2>2, <2>3
<1>3. OnlySelected
  BY <1>1, <1>2, Kept DEF OnlySelected, Others
<1> QED
  BY <1>1, <1>3, StillOthers DEF Commanded

LEMMA SelectorStep ==
    ASSUME Others, Selector
    PROVE  Others'
<1>1. pc = "calling" /\ pc' \in {"returned", "calling"} /\ memory' = memory /\ monitor' = monitor
      /\ UNCHANGED << sel, before >>
  BY DEF Selector, Calling, Answer, requestVars, perfVars
<1>2. OnlyAt(selector', selector, Devices, sel)
  <2>1. CASE selector' = selector
    BY <2>1, Kept DEF Others
  <2>2. ASSUME NEW x, selector' = [selector EXCEPT ![sel] = x]
        PROVE  OnlyAt(selector', selector, Devices, sel)
    BY <2>2, Changed DEF Others
  <2>3. selector' = selector \/ \E r, x : selector' = [selector EXCEPT ![sel][r] = x]
    BY DEF Selector
  <2>4. \A r, x : [selector EXCEPT ![sel][r] = x] = [selector EXCEPT ![sel] = [selector[sel] EXCEPT ![r] = x]]
    OBVIOUS
  <2> QED
    BY <2>1, <2>2, <2>3, <2>4
<1>3. OnlySelected
  BY <1>1, <1>2, Kept DEF OnlySelected, Others
<1> QED
  BY <1>1, <1>3, StillOthers DEF Commanded

LEMMA PerformStep ==
    ASSUME IInv, Perform
    PROVE  IInv'
<1>1. pc = "performing" /\ pc' = pc /\ PerfNext /\ PerfInv /\ Others
      /\ UNCHANGED << sel, before, memory, selector >>
  BY DEF Perform, IInv, requestVars, deviceVars
<1>2. PerfInv'
  BY <1>1, PerfStep
<1>3. pm.dev = sel /\ monitor = [d \in Switches |-> monitor[d]]
  BY <1>1 DEF Others
<1>4. OnlyAt(monitor', monitor, Switches, sel) /\ pm'.dev = sel
  BY <1>1, <1>3, PerfWorksOnOne
<1>5. OnlySelected
  BY <1>1, <1>4, Kept DEF OnlySelected, Others
<1>6. Others'
  BY <1>1, <1>4, <1>5, StillOthers DEF Commanded
<1> QED
  BY <1>2, <1>6 DEF IInv

LEMMA BeginPerformanceStep ==
    ASSUME IInv, BeginPerformance
    PROVE  IInv'
<1>1. PerfInv'
  BY BeginStep DEF IInv
<1>2. pc = "calling" /\ UNCHANGED << sel, before, memory, selector, monitor >> /\ pm'.dev = sel
  BY DEF BeginPerformance, Calling, SppGetPciePortPerformance, requestVars, deviceVars
<1>3. Others'
  BY <1>2, QuietDevices, StillOthers DEF IInv, Commanded
<1> QED
  BY <1>1, <1>3 DEF IInv

LEMMA EndPerformanceStep ==
    ASSUME IInv, EndPerformance
    PROVE  IInv'
<1>1. PerfInv'
  BY EndStep DEF IInv
<1>2. pc = "performing" /\ pc' \in {"returned", "calling"} /\ UNCHANGED << sel, before, memory, selector, monitor >>
  BY DEF EndPerformance, Answer, requestVars, deviceVars
<1>3. Others'
  BY <1>2, QuietDevices, StillOthers DEF IInv, Commanded
<1> QED
  BY <1>1, <1>3 DEF IInv

(* The steps of a call that is not one of the monitor. *)
LEMMA CallStep ==
    ASSUME IInv, Refuse \/ OtherCall \/ Reset \/ ReadMemory \/ WriteMemory \/ Selector \/ GetTemperature
    PROVE  IInv'
<1>1. pc = "calling" /\ UNCHANGED << pm, pointer, count, carried, temp, data, mark, tlps >>
  BY DEF Refuse, OtherCall, Reset, ReadMemory, WriteMemory, Selector, GetTemperature, Calling, perfVars
<1>2. PerfInv'
  BY <1>1, Resting DEF IInv
<1>3. CASE Refuse \/ OtherCall \/ ReadMemory \/ GetTemperature
  <2>1. pc' \in {"returned", "calling"} /\ UNCHANGED << sel, before, memory, selector, monitor >>
    BY <1>3 DEF Refuse, OtherCall, ReadMemory, GetTemperature, Answer, requestVars, deviceVars, perfVars
  <2> QED
    BY <1>1, <1>2, <2>1, QuietDevices, StillOthers DEF IInv, Commanded
<1>4. CASE Reset \/ WriteMemory \/ Selector
  BY <1>2, <1>4, ResetStep, WriteStep, SelectorStep DEF IInv
<1> QED
  BY <1>3, <1>4

(* The steps of the program itself. *)
LEMMA ProgramStep ==
    ASSUME IInv, Start \/ ParseLine \/ ChooseCommand \/ Ask
    PROVE  IInv'
<1>1. /\ pc # "performing" /\ pc' # "performing"
      /\ UNCHANGED << pm, pointer, count, carried, temp, data, mark, tlps, memory, selector, monitor >>
  BY DEF Start, ParseLine, ChooseCommand, Ask, perfVars, deviceVars
<1>2. PerfInv'
  BY <1>1, Resting DEF IInv
<1>3. CASE Start \/ ParseLine \/ ChooseCommand
  <2>1. pc' \in Commanded => before' = [memory |-> memory, selector |-> selector, monitor |-> monitor]
    BY <1>3 DEF Start, ParseLine, ChooseCommand, Remember, Commanded
  <2> QED
    BY <1>1, <1>2, <2>1, OutsideCommand DEF IInv
<1>4. CASE Ask
  <2>1. pc = "asking" /\ UNCHANGED << sel, before >>
    BY <1>4 DEF Ask
  <2> QED
    BY <1>1, <1>2, <2>1, QuietDevices, StillOthers DEF IInv, Commanded
<1> QED
  BY <1>3, <1>4

LEMMA LeavingStep ==
    ASSUME IInv, Leave
    PROVE  IInv'
<1>1. PerfInv'
  BY LeaveStep DEF IInv
<1>2. pc' \in {"menu", "ended"} /\ UNCHANGED << memory, selector, monitor >>
  BY DEF Leave, deviceVars
<1>3. Others'
  BY <1>2, OutsideCommand DEF IInv, Commanded
<1> QED
  BY <1>1, <1>3 DEF IInv

LEMMA Initially == Init => IInv
<1> SUFFICES ASSUME Init PROVE IInv
  OBVIOUS
<1>1. /\ pm = NoCall /\ pointer = [s \in Stations |-> 0] /\ count = Nothing /\ carried = NoPackets
      /\ temp = <<>> /\ data = NoData /\ mark = NoMark /\ tlps = 0 /\ pc = "shell"
  BY DEF Init, PerfInit
<1>2. PerfTyped /\ Tally
  BY <1>1, Blanks DEF PerfTyped, Tally
<1>3. pm.pc = "none" /\ pm.op = "none" /\ pm.pass = 1 /\ pm.statistic = FALSE
  BY <1>1, Blanks
<1>4. Course /\ Rewound /\ Copied /\ Remembered /\ TrafficCounted
  BY <1>1, <1>3 DEF Course, Rewound, Copied, Remembered, TrafficCounted
<1>5. History
  BY <1>3 DEF History, First, Second
<1>6. Others
  <2>1. /\ memory = [d \in Devices |-> [a \in 0 .. MemorySize - 1 |-> 0]]
        /\ selector = [d \in Devices |-> Unselected] /\ monitor = [d \in Switches |-> Off]
    BY DEF Init, PerfInit
  <2> QED
    BY <1>1, <2>1 DEF Others, Commanded
<1> QED
  BY <1>2, <1>4, <1>5, <1>6 DEF IInv, PerfInv

LEMMA Inductive == IInv /\ [Next]_vars => IInv'
<1> SUFFICES ASSUME IInv, [Next]_vars PROVE IInv'
  OBVIOUS
<1>1. CASE UNCHANGED vars
  <2>1. /\ UNCHANGED << pc, sel, before, memory, selector, monitor >>
        /\ UNCHANGED << pm, pointer, count, carried, temp, data, mark, tlps >>
    BY <1>1 DEF vars, requestVars, deviceVars, perfVars
  <2>2. Others'
    BY <2>1 DEF IInv, Others, OthersUntouched, Untouched
  <2>3. PerfTyped' /\ Course' /\ Rewound' /\ Copied' /\ Tally'
    BY <2>1 DEF IInv, PerfInv, PerfTyped, Course, Rewound, Copied, Pass, Tally
  <2>4. History'
    <3>1. \A c \in Counters : First(c)' = First(c) /\ Second(c)' = Second(c)
      BY <2>1 DEF First, Second
    <3> QED
      BY <2>1, <3>1, SameHistory DEF IInv, PerfInv
  <2>5. Remembered' /\ TrafficCounted'
    BY <2>1, SameReadOuts DEF IInv, PerfInv
  <2> QED
    BY <2>2, <2>3, <2>4, <2>5 DEF IInv, PerfInv
<1>2. CASE Start \/ ParseLine \/ ChooseCommand \/ Ask
  BY <1>2, ProgramStep
<1>3. CASE Leave
  BY <1>3, LeavingStep
<1>4. CASE Refuse \/ OtherCall \/ Reset \/ ReadMemory \/ WriteMemory \/ Selector \/ GetTemperature
  BY <1>4, CallStep
<1>5. CASE BeginPerformance
  BY <1>5, BeginPerformanceStep
<1>6. CASE Perform
  BY <1>6, PerformStep
<1>7. CASE EndPerformance
  BY <1>7, EndPerformanceStep
<1> QED
  BY <1>1, <1>2, <1>3, <1>4, <1>5, <1>6, <1>7 DEF Next

-----------------------------------------------------------------------------
(* The invariant holds in every state the program can reach. *)
THEOREM Invariance == Spec => []IInv
BY Initially, Inductive, PTL DEF Spec

(* The statistics of a port that the program shows for a command that succeeded are the
   traffic that passed between the two reads of each counter, for every number of stations
   and ports, whatever packets pass between the accesses and whether or not a counter of
   32 bits came round in between. *)
THEOREM TrafficIsCounted == Spec => []TrafficCounted
<1>1. IInv => TrafficCounted
  BY DEF IInv, PerfInv
<1> QED
  BY <1>1, Invariance, PTL

(* From the moment a command is given to its end, failed or not, the memory, the selecting
   registers and the monitor of every device but the selected one are what they were. *)
THEOREM OthersAreUntouched == Spec => [](pc \in Commanded => OthersUntouched)
<1>1. IInv => (pc \in Commanded => OthersUntouched)
  BY DEF IInv, Others
<1> QED
  BY <1>1, Invariance, PTL

===============================================================================
