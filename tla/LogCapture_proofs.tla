--------------------------- MODULE LogCapture_proofs ---------------------------
(***************************************************************************)
(* Proofs about LogCapture, for every list of devices, size of the regions *)
(* and of the transfers, and any number of calls and failing accesses: a   *)
(* log is saved whole, a failure keeps no other log from being saved, and  *)
(* the size that a call names is enough for the next one.                  *)
(***************************************************************************)
EXTENDS LogCapture, SequenceTheorems, FiniteSetTheorems, TLAPS

(* The pieces, the calls and the types of the state. *)
Marks    == {Blank, Erased, Header, Beyond}
Pieces   == Marks \cup {Piece(d, r, i) : d \in Index, r \in Regions, i \in Nat}
Statuses == {"untried", "success", "failed", "unsupported", "nocoredump", "toosmall"}
Flags    == {"trace", "health", "dump", "cli"}
Captures == [kind : {"capture"}, flags : SUBSET Flags]
Gets     == [kind : {"get"}, log : Logs, room : Nat, again : BOOLEAN]
Erasures == [kind : {"erase"}, log : {"dump"}]
Calls    == {[kind |-> "none"]} \cup Captures \cup Gets \cup Erasures

TypeOK ==
    /\ store \in [Index -> [Regions -> Seq(Pieces)]]
    /\ pc \in {"idle", "device", "log", "step", "retry"}
    /\ call \in Calls
    /\ result \in {"none", "success"}
    /\ dev \in Nat /\ todo \in Seq(Logs) /\ buf \in Seq(Pieces) /\ total \in Nat
    /\ saved \in [Index -> [Logs -> Seq(Pieces) \cup {None}]]
    /\ outcome \in [Index -> [Logs -> Statuses]]
    /\ needed \in Nat /\ grown \in Nat

(* What a device keeps: blanks come last and only in the regions of the health log
   and of the dump, which are as long as they are; an erase begins at the front. *)
BlankLast(s) == \E m \in 0..Len(s) : \A i \in 1..Len(s) : s[i] = Blank <=> i > m
Keeps(s, r) ==
    /\ BlankLast(s)
    /\ \A i \in 1..Len(s) : s[i] \notin {Header, Beyond}
    /\ r \notin {"health", "dump"} => \A i \in 1..Len(s) : s[i] # Blank
    /\ r # "dump" => \A i \in 1..Len(s) : s[i] # Erased
    /\ r = "dump" => Len(s) = Slots /\ \A i \in 1..Len(s) : s[i] = Erased => s[1] = Erased
StoreOK == \A d \in Index, r \in Regions : Keeps(store[d][r], r)

(* What may be left of the steps for a log. *)
Dumps == {"dump", "rawdump"}
Stages(kind, d, log) ==
    IF kind = "erase" THEN {<<"size", "erase">>, <<"erase">>}
    ELSE IF kind = "capture" THEN
        CASE log \in Dumps ->
                {<<"table", "upload", "validate", "open", "write">>, <<"upload", "validate", "open", "write">>,
                 <<"validate", "open", "write">>, <<"open", "write">>, <<"write">>}
          [] log = "cli" -> {<<"send", "open", "stream">>, <<"open", "stream">>, <<"stream">>}
          [] log = "decoded" /\ ~SG(d) -> {<<"open", "refuse">>, <<"refuse">>}
          [] FromMemory(d, log) -> {<<"open", "table", "upload", "write">>, <<"table", "upload", "write">>,
                                    <<"upload", "write">>, <<"write">>}
          [] OTHER -> {<<"open", "size", "upload", "write">>, <<"size", "upload", "write">>,
                       <<"upload", "write">>, <<"write">>}
    ELSE
        CASE log \in Dumps -> {<<"table", "upload", "validate", "copy">>, <<"upload", "validate", "copy">>,
                               <<"validate", "copy">>, <<"copy">>}
          [] log = "cli" -> {<<"send", "stream">>, <<"stream">>}
          [] log = "decoded" /\ ~SG(d) -> {<<"refuse">>}
          [] FromMemory(d, log) -> {<<"table", "upload", "copy">>, <<"upload", "copy">>, <<"copy">>}
          [] OTHER -> {<<"size", "upload", "copy">>, <<"upload", "copy">>, <<"copy">>}
Unopened(s) == \E i \in DOMAIN s : s[i] = "open"

(* Where a call can be. *)
Course ==
    /\ pc \in {"log", "step", "retry"} => dev \in Index
    /\ pc \in {"device", "log"} => call.kind = "capture"
    /\ pc # "step" => buf = <<>> /\ total = 0
    /\ pc = "step" => /\ call.kind \in {"capture", "get", "erase"}
                      /\ call.kind = "capture" => todo # <<>>
                      /\ steps \in Stages(call.kind, dev, Log)
    /\ pc = "retry" => call.kind = "get" /\ ~call.again
    /\ call.kind = "get" =>
          /\ dev \in Index
          /\ pc \in {"idle", "step", "retry"}
          /\ \A d \in Index, log \in Logs : <<d, log>> # <<dev, call.log>> => outcome[d][log] = "untried"
          /\ pc = "step" => outcome[dev][call.log] = IF call.again THEN "toosmall" ELSE "untried"
          /\ pc = "retry" => outcome[dev][call.log] = "toosmall"
    /\ result = "success" => call.kind = "capture" /\ pc = "idle"

(* A capture tries the logs in their order. *)
Once(s)  == \A i, j \in 1..Len(s) : s[i] = s[j] => i = j
Tried(d) == \A log \in ToSet(LogsOf(d, call.flags)) : outcome[d][log] # "untried"
Capturing ==
    /\ \A d \in Index, log \in Logs : outcome[d][log] = "failed" => <<d, log>> \in hit
    /\ call.kind = "capture" =>
          /\ Once(todo)
          /\ dev \in Index => \A i \in 1..Len(todo) : outcome[dev][todo[i]] = "untried"
          /\ \A d \in Index, log \in Logs : d > dev => outcome[d][log] = "untried"
          /\ \A d \in Index : d < dev => Tried(d)
          /\ pc = "device" /\ dev \in Index => Tried(dev)
          /\ pc \in {"log", "step"} =>
                \A log \in ToSet(LogsOf(dev, call.flags)) : outcome[dev][log] = "untried" => log \in ToSet(todo)
          /\ result = "success" => \A d \in Index : Tried(d)

(* What is in the buffer, and in the file, at each step. *)
Output(d) == store[d]["cli"]
AtWork(d, log, step) ==
    /\ step \in {"size", "table", "send"} => buf = <<>>
    /\ step = "upload" => /\ total = Len(Source(d, log)) /\ Len(buf) <= total
                          /\ buf = SubSeq(Source(d, log), 1, Len(buf))
    /\ step \in {"validate", "copy", "write"} => buf = Source(d, log)
    /\ step = "open" => buf = IF log \in Dumps THEN Source(d, log) ELSE <<>>
    /\ log \in Dumps /\ step \in {"open", "copy", "write"} => ~Unsigned(store[d]["dump"])
    /\ call.kind = "capture" /\ ~Unopened(steps) /\ log # "cli" => saved[d][log] = <<>>
    /\ log = "cli" /\ step \in {"send", "open"} => total = 0
    /\ step = "stream" =>
          /\ total <= Len(Output(d)) /\ (call.kind = "get" => total <= call.room)
          /\ saved[d]["cli"] \in Seq(Pieces)
          /\ <<d, log>> \notin lost => saved[d]["cli"] = SubSeq(Output(d), 1, total)
    /\ step = "erase" =>
          /\ total = Slots /\ Len(buf) <= total
          /\ buf # <<>> /\ store[d]["dump"][1] # Blank => store[d]["dump"][1] = Erased
Working == pc = "step" => AtWork(dev, Log, steps[1])

(* A size is enough for whatever is made of the log, or for what the trace was. *)
Enough(d, log, room) ==
    IF log = "trace" THEN Len(store[d]["trace"]) + Extra <= room + grown
    ELSE \A text \in Texts(log, Source(d, log)) : Len(text) <= room
Told ==
    call.kind = "get" /\ call.log # "rawdump" =>
        /\ pc = "retry" => Enough(dev, call.log, needed)
        /\ pc = "step" /\ call.again => Enough(dev, call.log, call.room)

IInv == TypeOK /\ StoreOK /\ Course /\ Capturing /\ Working /\ Told /\ SavedWhole /\ SizeToldSuffices

-----------------------------------------------------------------------------
(* Facts about sequences *)

(* When the pieces that stay are those from place a to place b, they are what is
   left. *)
LEMMA WithoutRange ==
    ASSUME NEW S, NEW s \in Seq(S), NEW out, NEW a \in Nat \ {0}, NEW b \in Nat,
           a <= b + 1, b <= Len(s), \A i \in 1..Len(s) : s[i] \notin out <=> a <= i /\ i <= b
    PROVE  Without(s, out) = SubSeq(s, a, b)
<1>1. Len(s) \in Nat /\ DOMAIN s = 1..Len(s)
  BY LenProperties
<1> DEFINE kept == {i \in DOMAIN s : s[i] \notin out}
           n    == b - a + 1
<1>2. kept = a..b
  BY <1>1
<1>3. n \in Nat /\ Cardinality(kept) = n
  <2>1. Cardinality(a..b) = IF a > b THEN 0 ELSE b - a + 1
    BY FS_Interval
  <2>2. Cardinality(a..b) = n /\ n \in Nat
    BY <2>1
  <2> HIDE DEF kept, n
  <2> QED
    BY <1>2, <2>2
<1>4. ASSUME NEW k \in 1..n
      PROVE  (CHOOSE i \in kept : Cardinality({j \in kept : j <= i}) = k) = a + k - 1
  <2>1. ASSUME NEW i \in a..b PROVE Cardinality({j \in kept : j <= i}) = i - a + 1
    <3>1. {j \in kept : j <= i} = a..i
      BY <1>2
    <3>2. Cardinality(a..i) = IF a > i THEN 0 ELSE i - a + 1
      BY FS_Interval
    <3>3. Cardinality(a..i) = i - a + 1
      BY <3>2
    <3> DEFINE upto == {j \in kept : j <= i}
    <3> HIDE DEF upto
    <3>4. upto = a..i
      BY <3>1 DEF upto
    <3>5. Cardinality(upto) = i - a + 1
      BY <3>3, <3>4
    <3> QED
      BY <3>5 DEF upto
  <2>2. a + k - 1 \in a..b
    BY <1>3
  <2>3. \A i \in a..b : Cardinality({j \in kept : j <= i}) = k <=> i = a + k - 1
    BY <2>1
  <2> HIDE DEF kept, n
  <2> QED
    BY <1>2, <2>2, <2>3
<1>5. Without(s, out) = [k \in 1..n |-> s[a + k - 1]]
  <2>1. Without(s, out) = [k \in 1..Cardinality(kept) |->
                             s[CHOOSE i \in kept : Cardinality({j \in kept : j <= i}) = k]]
    BY DEF Without
  <2> HIDE DEF kept, n
  <2> QED
    BY <1>3, <1>4, <2>1
<1>6. /\ SubSeq(s, a, b) \in Seq(S) /\ Len(SubSeq(s, a, b)) = n
      /\ \A k \in 1..n : SubSeq(s, a, b)[k] = s[a + k - 1]
  <2>1. \A i \in a..b : s[i] \in S
    BY <1>1, ElementOfSeq
  <2> QED
    BY <2>1, <1>3, SubSeqProperties
<1>7. SubSeq(s, a, b) = [k \in 1..n |-> SubSeq(s, a, b)[k]]
  BY <1>6, LenProperties
<1> QED
  BY <1>5, <1>6, <1>7

(* Nothing to take out, or only the end. *)
LEMMA WithoutNone ==
    ASSUME NEW S, NEW s \in Seq(S), NEW out, \A i \in 1..Len(s) : s[i] \notin out
    PROVE  Without(s, out) = s
<1>1. Len(s) \in Nat
  BY LenProperties
<1>2. \A i \in 1..Len(s) : s[i] \notin out <=> 1 <= i /\ i <= Len(s)
  BY <1>1
<1>3. 1 \in Nat \ {0} /\ 1 <= Len(s) + 1 /\ Len(s) <= Len(s)
  BY <1>1
<1>4. Without(s, out) = SubSeq(s, 1, Len(s))
  BY <1>1, <1>2, <1>3, WithoutRange
<1> QED
  BY <1>4, SubSeqFull

(* The entries of a health log whose first m pieces are none of them blank. *)
LEMMA EntriesAre ==
    ASSUME NEW S, NEW s \in Seq(S), NEW m \in 0..Len(s),
           \A i \in 1..m : s[i] # Blank, m = Len(s) \/ s[m + 1] = Blank
    PROVE  Entries(s) = SubSeq(s, 1, m)
<1>0. DOMAIN s = 1..Len(s)
  BY LenProperties
<1>1. Len(s) \in Nat /\ m \in Nat
  BY LenProperties
<1> DEFINE before == {i \in DOMAIN s : \A j \in 1..i : s[j] # Blank}
<1>2. before = 1..m
  <2>1. ASSUME NEW i \in 1..Len(s), i > m, \A j \in 1..i : s[j] # Blank PROVE FALSE
    <3>1. m + 1 \in 1..i /\ m # Len(s)
      BY <1>1, <2>1
    <3> QED
      BY <2>1, <3>1
  <2>2. ASSUME NEW i \in 1..Len(s), \A j \in 1..i : s[j] # Blank PROVE i \in 1..m
    BY <1>1, <2>1, <2>2
  <2>3. \A i \in 1..m : i \in 1..Len(s) /\ \A j \in 1..i : j \in 1..m
    BY <1>1
  <2>4. \A i \in 1..m : i \in before
    BY <1>0, <2>3, Zenon
  <2>5. \A i \in before : i \in 1..m
    BY <1>0, <2>2, Zenon
  <2> HIDE DEF before
  <2> QED
    BY <2>4, <2>5
<1>3. 1 \in Int /\ m \in Int
  BY <1>1
<1>4. Cardinality(1..m) = IF 1 > m THEN 0 ELSE m - 1 + 1
  BY <1>3, FS_Interval
<1>5. Cardinality(1..m) = m
  BY <1>1, <1>4
<1>6. Entries(s) = SubSeq(s, 1, Cardinality(before))
  BY DEF Entries
<1> HIDE DEF before
<1> QED
  BY <1>2, <1>5, <1>6

(* The beginning of a sequence. *)
LEMMA Beginning ==
    ASSUME NEW S, NEW s \in Seq(S), NEW m \in 0..Len(s)
    PROVE  /\ SubSeq(s, 1, m) \in Seq(S) /\ Len(SubSeq(s, 1, m)) = m
           /\ \A i \in 1..m : SubSeq(s, 1, m)[i] = s[i]
<1>1. Len(s) \in Nat /\ m \in Nat /\ \A i \in 1..m : s[i] \in S
  BY LenProperties, ElementOfSeq
<1>2. /\ SubSeq(s, 1, m) \in Seq(S)
      /\ Len(SubSeq(s, 1, m)) = IF 1 <= m THEN m - 1 + 1 ELSE 0
      /\ \A i \in 1..(m - 1 + 1) : SubSeq(s, 1, m)[i] = s[1 + i - 1]
  BY <1>1, SubSeqProperties
<1> QED
  BY <1>1, <1>2

(* A piece in front, or behind. *)
LEMMA PieceInFront ==
    ASSUME NEW S, NEW x \in S, NEW s \in Seq(S)
    PROVE  /\ <<x>> \o s \in Seq(S) /\ Len(<<x>> \o s) = Len(s) + 1
           /\ (<<x>> \o s)[1] = x /\ \A i \in 1..Len(s) : (<<x>> \o s)[i + 1] = s[i]
           /\ Tail(<<x>> \o s) = s
<1>1. <<x>> \in Seq(S) /\ Len(<<x>>) = 1 /\ <<x>>[1] = x /\ Len(s) \in Nat
  BY LenProperties
<1> DEFINE t == <<x>> \o s
<1>2. /\ t \in Seq(S) /\ Len(t) = 1 + Len(s)
      /\ \A i \in 1..(1 + Len(s)) : t[i] = IF i <= 1 THEN <<x>>[i] ELSE s[i - 1]
  BY <1>1, ConcatProperties
<1> HIDE DEF t
<1>3. t[1] = x /\ \A i \in 1..Len(s) : t[i + 1] = s[i]
  BY <1>1, <1>2
<1>4. t # <<>>
  BY <1>1, <1>2
<1>5. Tail(t) \in Seq(S) /\ Len(Tail(t)) = Len(t) - 1 /\ \A i \in 1..Len(Tail(t)) : Tail(t)[i] = t[i + 1]
  BY <1>2, <1>4, HeadTailProperties
<1>6. Len(Tail(t)) = Len(s) /\ \A i \in 1..Len(s) : Tail(t)[i] = s[i]
  BY <1>1, <1>2, <1>3, <1>5
<1>7. Tail(t) = s
  BY <1>5, <1>6, SeqEqual
<1> QED
  BY <1>1, <1>2, <1>3, <1>7 DEF t

LEMMA PieceBehind ==
    ASSUME NEW S, NEW x \in S, NEW s \in Seq(S)
    PROVE  /\ s \o <<x>> \in Seq(S) /\ Len(s \o <<x>>) = Len(s) + 1
           /\ \A i \in 1..Len(s) : (s \o <<x>>)[i] = s[i]
           /\ (s \o <<x>>)[Len(s) + 1] = x
<1>1. <<x>> \in Seq(S) /\ Len(<<x>>) = 1 /\ <<x>>[1] = x /\ Len(s) \in Nat
  BY LenProperties
<1>2. /\ s \o <<x>> \in Seq(S) /\ Len(s \o <<x>>) = Len(s) + 1
      /\ \A i \in 1..(Len(s) + 1) : (s \o <<x>>)[i] = IF i <= Len(s) THEN s[i] ELSE <<x>>[i - Len(s)]
  BY <1>1, ConcatProperties
<1> QED
  BY <1>1, <1>2

(* What a transfer adds to the beginning of a sequence makes a longer beginning. *)
LEMMA LongerBeginning ==
    ASSUME NEW S, NEW s \in Seq(S), NEW m \in 0..Len(s), NEW n \in m..Len(s)
    PROVE  SubSeq(s, 1, m) \o SubSeq(s, m + 1, n) = SubSeq(s, 1, n)
<1>1. Len(s) \in Nat
  BY LenProperties
<1>2. 1 \in 1..(Len(s) + 1) /\ m \in (1 - 1)..Len(s) /\ n \in m..Len(s)
  BY <1>1
<1> QED
  BY <1>2, ConcatAdjacentSubSeq

-----------------------------------------------------------------------------
(* The pieces and what is made of them *)

LEMMA MarksDiffer ==
    /\ Blank # Erased /\ Blank # Header /\ Blank # Beyond /\ Erased # Header /\ Erased # Beyond
    /\ Header # Beyond
    /\ Marks \subseteq Pieces
    /\ \A d, r, i : Piece(d, r, i) \notin Marks
BY DEF Blank, Erased, Header, Beyond, Marks, Pieces, Piece

LEMMA RegionsAre ==
    /\ Regions = {"trace", "decoded", "cli", "health", "dump"}
    /\ Region("trace") = "trace" /\ Region("decoded") = "decoded" /\ Region("cli") = "cli"
    /\ Region("raw") = "health" /\ Region("memread") = "health"
    /\ Region("dump") = "dump" /\ Region("rawdump") = "dump"
<1>1. /\ Region("trace") = "trace" /\ Region("decoded") = "decoded" /\ Region("cli") = "cli"
      /\ Region("raw") = "health" /\ Region("memread") = "health"
      /\ Region("dump") = "dump" /\ Region("rawdump") = "dump"
  BY DEF Region
<1>2. \A r : r \in Regions <=> r \in {"trace", "decoded", "cli", "health", "dump"}
  <2>1. ASSUME NEW r \in Regions PROVE r \in {"trace", "decoded", "cli", "health", "dump"}
    <3>1. PICK log \in Logs : r = Region(log)
      BY DEF Regions
    <3> QED
      BY <1>1, <3>1 DEF Logs
  <2>2. Region("trace") \in Regions /\ Region("decoded") \in Regions /\ Region("cli") \in Regions
        /\ Region("raw") \in Regions /\ Region("dump") \in Regions
    BY DEF Regions, Logs
  <2> QED
    BY <1>1, <2>1, <2>2
<1> QED
  BY <1>1, <1>2

(* The beginning of a log that is not blank. *)
LEMMA NotBlank ==
    ASSUME NEW h \in Seq(Pieces), NEW m \in 0..Len(h),
           \A i \in 1..Len(h) : h[i] = Blank <=> i > m,
           \A i \in 1..Len(h) : h[i] \notin {Header, Beyond}
    PROVE  /\ Without(h, {Blank}) = SubSeq(h, 1, m)
           /\ SubSeq(h, 1, m) \in Seq(Pieces) /\ Len(SubSeq(h, 1, m)) = m
           /\ \A i \in 1..m : SubSeq(h, 1, m)[i] = h[i] /\ SubSeq(h, 1, m)[i] \notin {Header, Beyond, Blank}
           /\ Without(SubSeq(h, 1, m), {Header, Beyond}) = SubSeq(h, 1, m)
<1>1. Len(h) \in Nat /\ m \in Nat /\ m <= Len(h)
  BY LenProperties
<1>2. \A i \in 1..Len(h) : h[i] \notin {Blank} <=> 1 <= i /\ i <= m
  BY <1>1
<1>3. Without(h, {Blank}) = SubSeq(h, 1, m)
  <2>1. 1 \in Nat \ {0} /\ 1 <= m + 1
    BY <1>1
  <2> QED
    BY <1>1, <1>2, <2>1, WithoutRange
<1> DEFINE b == SubSeq(h, 1, m)
<1>4. b \in Seq(Pieces) /\ Len(b) = m /\ \A i \in 1..m : b[i] = h[i]
  BY Beginning
<1> HIDE DEF b
<1>5. \A i \in 1..m : i \in 1..Len(h)
  BY <1>1
<1>6. \A i \in 1..m : h[i] \notin {Header, Beyond, Blank}
  BY <1>1, <1>5
<1>7. \A i \in 1..Len(b) : b[i] \notin {Header, Beyond}
  BY <1>4, <1>6
<1>8. Without(b, {Header, Beyond}) = b
  BY <1>4, <1>7, WithoutNone
<1> QED
  BY <1>3, <1>4, <1>6, <1>8 DEF b

(* What is made of a health log with m entries. *)
LEMMA HealthText ==
    ASSUME NEW h \in Seq(Pieces), NEW m \in 0..Len(h),
           \A i \in 1..Len(h) : h[i] = Blank <=> i > m,
           \A i \in 1..Len(h) : h[i] \notin {Header, Beyond}
    PROVE  LET b == SubSeq(h, 1, m) IN
           /\ Entries(h) = b
           /\ Entries(<<Header>> \o h) \in Seq(Pieces)
           /\ Without(Entries(<<Header>> \o h), {Header, Beyond}) = b
           /\ \A x \in {Beyond, Blank} :
                 LET e == Entries(h \o <<x>>)
                 IN  e \in Seq(Pieces) /\ Len(e) \in {m, m + 1} /\ Without(e, {Header, Beyond}) = b
<1> DEFINE b == SubSeq(h, 1, m)
<1>0. Len(h) \in Nat /\ m \in Nat /\ m <= Len(h) /\ Header \in Pieces /\ Beyond \in Pieces /\ Blank \in Pieces
  BY LenProperties, MarksDiffer DEF Marks
<1>1. b \in Seq(Pieces) /\ Len(b) = m /\ \A i \in 1..m : b[i] = h[i] /\ b[i] \notin {Header, Beyond, Blank}
  BY NotBlank
<1>2. Without(b, {Header, Beyond}) = b
  BY NotBlank
<1>3. \A i \in 1..m : h[i] # Blank
  BY <1>0
<1>4. m = Len(h) \/ h[m + 1] = Blank
  <2>1. m # Len(h) => m + 1 \in 1..Len(h) /\ m + 1 > m
    BY <1>0
  <2> QED
    BY <2>1
<1>5. Entries(h) = b
  BY <1>3, <1>4, EntriesAre
<1> DEFINE f == <<Header>> \o h
           g == <<Header>> \o b
<1> HIDE DEF b
<1>6. /\ f \in Seq(Pieces) /\ Len(f) = Len(h) + 1 /\ f[1] = Header /\ \A i \in 1..Len(h) : f[i + 1] = h[i]
  BY <1>0, PieceInFront
<1>7. /\ g \in Seq(Pieces) /\ Len(g) = Len(b) + 1 /\ g[1] = Header /\ \A i \in 1..Len(b) : g[i + 1] = b[i]
      /\ Tail(g) = b
  BY <1>0, <1>1, PieceInFront
<1> HIDE DEF f, g
<1>8. Entries(f) = SubSeq(f, 1, m + 1)
  <2>1. ASSUME NEW i \in 1..(m + 1) PROVE f[i] # Blank
    <3>1. CASE i = 1
      BY <3>1, <1>6, MarksDiffer
    <3>2. CASE i # 1
      <4>1. i - 1 \in 1..m /\ i - 1 \in 1..Len(h) /\ (i - 1) + 1 = i
        BY <1>0, <3>2
      <4>2. f[(i - 1) + 1] = h[i - 1]
        BY <4>1, <1>6
      <4>3. h[i - 1] # Blank
        BY <4>1, <1>3
      <4> QED
        BY <4>1, <4>2, <4>3
    <3> QED
      BY <3>1, <3>2
  <2>2. m + 1 = Len(f) \/ f[(m + 1) + 1] = Blank
    <3>1. m # Len(h) => m + 1 \in 1..Len(h)
      BY <1>0
    <3> QED
      BY <3>1, <1>4, <1>6, <1>0
  <2>3. m + 1 \in 0..Len(f)
    BY <1>0, <1>6
  <2> QED
    BY <1>6, <2>1, <2>2, <2>3, EntriesAre
<1>9. /\ SubSeq(f, 1, m + 1) \in Seq(Pieces) /\ Len(SubSeq(f, 1, m + 1)) = m + 1
      /\ \A i \in 1..(m + 1) : SubSeq(f, 1, m + 1)[i] = f[i]
  <2>1. m + 1 \in 0..Len(f)
    BY <1>0, <1>6
  <2> QED
    BY <1>6, <2>1, Beginning
<1> DEFINE e == SubSeq(f, 1, m + 1)
<1>10. e = g
  <2>1. ASSUME NEW i \in 1..(m + 1) PROVE f[i] = g[i]
    <3>1. CASE i = 1
      BY <3>1, <1>6, <1>7
    <3>2. CASE i # 1
      <4>1. i - 1 \in 1..m /\ i - 1 \in 1..Len(h) /\ (i - 1) + 1 = i
        BY <1>0, <3>2
      <4>2. f[(i - 1) + 1] = h[i - 1] /\ g[(i - 1) + 1] = b[i - 1] /\ b[i - 1] = h[i - 1]
        BY <4>1, <1>1, <1>6, <1>7
      <4> QED
        BY <4>1, <4>2
    <3> QED
      BY <3>1, <3>2
  <2>2. Len(e) = m + 1 /\ Len(g) = m + 1
    BY <1>1, <1>7, <1>9
  <2>3. \A i \in 1..Len(e) : e[i] = g[i]
    BY <2>1, <2>2, <1>9
  <2>4. e \in Seq(Pieces)
    BY <1>9
  <2> HIDE DEF e
  <2> QED
    BY <1>7, <2>2, <2>3, <2>4, SeqEqual
<1>11. Without(g, {Header, Beyond}) = b
  <2>1. ASSUME NEW i \in 1..Len(g) PROVE g[i] \notin {Header, Beyond} <=> 2 <= i /\ i <= Len(g)
    <3>1. CASE i = 1
      BY <3>1, <1>7
    <3>2. CASE i # 1
      <4>1. i - 1 \in 1..m /\ (i - 1) + 1 = i /\ 2 <= i /\ i <= Len(g)
        BY <1>0, <1>1, <1>7, <3>2
      <4>2. g[(i - 1) + 1] = b[i - 1] /\ b[i - 1] \notin {Header, Beyond}
        BY <4>1, <1>1, <1>7
      <4> QED
        BY <4>1, <4>2
    <3> QED
      BY <3>1, <3>2
  <2>2. 2 \in Nat \ {0} /\ Len(g) \in Nat /\ 2 <= Len(g) + 1 /\ Len(g) <= Len(g)
    BY <1>0, <1>1, <1>7
  <2>3. Without(g, {Header, Beyond}) = SubSeq(g, 2, Len(g))
    <3>1. g \in Seq(Pieces)
      BY <1>7
    <3>2. \A i \in 1..Len(g) : g[i] \notin {Header, Beyond} <=> 2 <= i /\ i <= Len(g)
      BY <2>1
    <3> QED
      BY <2>2, <3>1, <3>2, WithoutRange
  <2>4. g # <<>>
    BY <1>0, <1>1, <1>7, EmptySeq
  <2>5. Tail(g) = SubSeq(g, 2, Len(g))
    BY <1>7, <2>4, TailIsSubSeq
  <2> QED
    BY <1>7, <2>3, <2>5
<1>12. ASSUME NEW x \in {Beyond, Blank}
       PROVE  LET y == Entries(h \o <<x>>)
              IN  y \in Seq(Pieces) /\ Len(y) \in {m, m + 1} /\ Without(y, {Header, Beyond}) = b
  <2> DEFINE z == h \o <<x>>
  <2>0. x \in Pieces
    BY <1>0
  <2>1. z \in Seq(Pieces) /\ Len(z) = Len(h) + 1 /\ \A i \in 1..Len(h) : z[i] = h[i]
    BY <2>0, PieceBehind
  <2>2. z[Len(h) + 1] = x
    BY <2>0, PieceBehind
  <2>3. \A i \in 1..m : z[i] = h[i] /\ z[i] # Blank /\ i \in 1..Len(z)
    BY <1>0, <1>3, <2>1
  <2> HIDE DEF z
  <2>4. CASE m # Len(h) \/ x = Blank
    <3>1. z[m + 1] = Blank
      <4>1. CASE m = Len(h)
        BY <4>1, <2>2, <2>4
      <4>2. CASE m # Len(h)
        <5>1. m + 1 \in 1..Len(h)
          BY <1>0, <4>2
        <5> QED
          BY <5>1, <4>2, <1>4, <2>1
      <4> QED
        BY <4>1, <4>2
    <3>2. m \in 0..Len(z) /\ \A i \in 1..m : z[i] # Blank
      BY <1>0, <2>1, <2>3
    <3>3. Entries(z) = SubSeq(z, 1, m)
      BY <2>1, <3>1, <3>2, EntriesAre
    <3>4. SubSeq(z, 1, m) \in Seq(Pieces) /\ Len(SubSeq(z, 1, m)) = m /\ \A i \in 1..m : SubSeq(z, 1, m)[i] = z[i]
      BY <2>1, <3>2, Beginning
    <3>5. \A i \in 1..m : SubSeq(z, 1, m)[i] = b[i]
      BY <1>1, <2>3, <3>4
    <3>6. SubSeq(z, 1, m) = b
      <4> DEFINE u == SubSeq(z, 1, m)
      <4>1. u \in Seq(Pieces) /\ Len(u) = Len(b) /\ \A i \in 1..Len(u) : u[i] = b[i]
        BY <1>1, <3>4, <3>5
      <4> HIDE DEF u
      <4>2. u = b
        BY <1>1, <4>1, SeqEqual
      <4> QED
        BY <4>2 DEF u
    <3> QED
      BY <1>1, <1>2, <3>3, <3>6 DEF z
  <2>5. CASE m = Len(h) /\ x = Beyond
    <3>1. \A i \in 1..Len(z) : z[i] # Blank
      <4>1. \A i \in 1..Len(z) : i \in 1..m \/ i = Len(h) + 1
        BY <1>0, <2>1, <2>5
      <4> QED
        BY <4>1, <2>2, <2>3, <2>5, MarksDiffer
    <3>2. Len(z) \in Nat /\ Len(z) \in 0..Len(z) /\ Len(z) = m + 1
      BY <1>0, <2>1, <2>5
    <3>3. Entries(z) = SubSeq(z, 1, Len(z))
      BY <2>1, <3>1, <3>2, EntriesAre
    <3>4. Entries(z) = z
      BY <2>1, <3>3, SubSeqFull
    <3>5. ASSUME NEW i \in 1..Len(z) PROVE z[i] \notin {Header, Beyond} <=> 1 <= i /\ i <= m
      <4>1. CASE i \in 1..m
        BY <4>1, <1>0, <1>1, <2>3
      <4>2. CASE i = Len(h) + 1
        BY <4>2, <1>0, <2>2, <2>5
      <4> QED
        BY <4>1, <4>2, <1>0, <2>1, <2>5
    <3>6. 1 \in Nat \ {0} /\ 1 <= m + 1 /\ m <= Len(z)
      BY <1>0, <3>2
    <3>7. Without(z, {Header, Beyond}) = SubSeq(z, 1, m)
      BY <1>0, <2>1, <3>5, <3>6, WithoutRange
    <3>8. m \in 0..Len(z)
      BY <1>0, <3>2
    <3>9. SubSeq(z, 1, m) \in Seq(Pieces) /\ Len(SubSeq(z, 1, m)) = m /\ \A i \in 1..m : SubSeq(z, 1, m)[i] = z[i]
      BY <2>1, <3>8, Beginning
    <3>10. SubSeq(z, 1, m) = b
      <4> DEFINE u == SubSeq(z, 1, m)
      <4>1. u \in Seq(Pieces) /\ Len(u) = Len(b) /\ \A i \in 1..Len(u) : u[i] = b[i]
        BY <1>1, <2>3, <3>9
      <4> HIDE DEF u
      <4>2. u = b
        BY <1>1, <4>1, SeqEqual
      <4> QED
        BY <4>2 DEF u
    <3> QED
      BY <2>1, <3>2, <3>4, <3>7, <3>10 DEF z
  <2> QED
    BY <2>4, <2>5, <1>0
<1> QED
  BY <1>2, <1>5, <1>7, <1>8, <1>10, <1>11, <1>12 DEF b, f, e

(* The logs as the devices give them. *)
LEMMA SourceIs ==
    ASSUME TypeOK, NEW d \in Index, NEW log \in Logs
    PROVE  /\ Region(log) \in Regions /\ store[d][Region(log)] \in Seq(Pieces)
           /\ Source(d, log) = IF FromMemory(d, log) THEN <<Header>> \o store[d][Region(log)]
                                                     ELSE store[d][Region(log)]
           /\ Source(d, log) \in Seq(Pieces) /\ Len(Source(d, log)) \in Nat
<1>1. Region(log) \in Regions
  BY DEF Regions
<1>2. store[d][Region(log)] \in Seq(Pieces)
  BY <1>1 DEF TypeOK
<1>3. Header \in Pieces
  BY MarksDiffer DEF Marks
<1>4. <<Header>> \o store[d][Region(log)] \in Seq(Pieces)
  BY <1>2, <1>3, PieceInFront
<1>5. <<>> \o store[d][Region(log)] = store[d][Region(log)]
  BY <1>2, ConcatEmptySeq
<1>6. Source(d, log) = IF FromMemory(d, log) THEN <<Header>> \o store[d][Region(log)]
                                             ELSE store[d][Region(log)]
  BY <1>5 DEF Source
<1>7. Source(d, log) \in Seq(Pieces)
  BY <1>2, <1>4, <1>6
<1> QED
  BY <1>1, <1>2, <1>6, <1>7, LenProperties

LEMMA StoreKeeps ==
    ASSUME TypeOK, StoreOK, NEW d \in Index, NEW r \in Regions
    PROVE  store[d][r] \in Seq(Pieces) /\ Keeps(store[d][r], r)
BY DEF TypeOK, StoreOK

(* What is saved of a log when its text is: all that is kept, nothing erased. *)
Wanted(d, log) == IF log = "rawdump" THEN store[d]["dump"] ELSE Without(store[d][Region(log)], {Blank})
Fits(d, log, text) ==
    /\ text \in Seq(Pieces)
    /\ Without(text, {Header, Beyond}) = Wanted(d, log)
    /\ \A i \in DOMAIN Wanted(d, log) : Wanted(d, log)[i] # Erased

(* A region without blank pieces as it is. *)
LEMMA PlainText ==
    ASSUME NEW s \in Seq(Pieces), NEW r, r \in {"trace", "decoded", "cli"}, Keeps(s, r)
    PROVE  Without(s, {Blank}) = s /\ Without(s, {Header, Beyond}) = s /\ \A i \in DOMAIN s : s[i] # Erased
<1>1. \A i \in 1..Len(s) : s[i] \notin {Header, Beyond} /\ s[i] # Blank /\ s[i] # Erased
  BY DEF Keeps
<1>2. Without(s, {Blank}) = s
  BY <1>1, WithoutNone
<1>3. Without(s, {Header, Beyond}) = s
  BY <1>1, WithoutNone
<1>4. DOMAIN s = 1..Len(s)
  BY LenProperties
<1> QED
  BY <1>1, <1>2, <1>3, <1>4

LEMMA HealthTexts ==
    ASSUME TypeOK, StoreOK, NEW d \in Index, NEW log \in {"raw", "memread"},
           NEW text \in Texts(log, Source(d, log))
    PROVE  /\ Fits(d, log, text)
           /\ \A other \in Texts(log, Source(d, log)) :
                 Len(other) \in Nat /\ Len(text) \in Nat /\ Len(other) <= Len(text) + 1
<1> DEFINE h == store[d]["health"]
<1>1. /\ "health" \in Regions /\ Region(log) = "health" /\ log \in Logs
      /\ h \in Seq(Pieces) /\ Keeps(h, "health")
  BY StoreKeeps, RegionsAre DEF Logs
<1> HIDE DEF h
<1>2. PICK m \in 0..Len(h) : \A i \in 1..Len(h) : h[i] = Blank <=> i > m
  BY <1>1 DEF Keeps, BlankLast
<1>3. \A i \in 1..Len(h) : h[i] \notin {Header, Beyond} /\ h[i] # Erased
  BY <1>1 DEF Keeps
<1> DEFINE b == SubSeq(h, 1, m)
<1>4. /\ Without(h, {Blank}) = b /\ b \in Seq(Pieces) /\ Len(b) = m
      /\ \A i \in 1..m : b[i] = h[i]
      /\ Without(b, {Header, Beyond}) = b
  BY <1>1, <1>2, <1>3, NotBlank
<1>5. /\ Entries(h) = b
      /\ Entries(<<Header>> \o h) \in Seq(Pieces)
      /\ Without(Entries(<<Header>> \o h), {Header, Beyond}) = b
      /\ \A x \in {Beyond, Blank} :
            LET e == Entries(h \o <<x>>)
            IN  e \in Seq(Pieces) /\ Len(e) \in {m, m + 1} /\ Without(e, {Header, Beyond}) = b
  BY <1>1, <1>2, <1>3, HealthText
<1> HIDE DEF b
<1>6. Wanted(d, log) = b
  BY <1>1, <1>4 DEF Wanted, h
<1>7. \A i \in DOMAIN Wanted(d, log) : Wanted(d, log)[i] # Erased
  <2>1. DOMAIN b = 1..m
    BY <1>4, LenProperties
  <2>2. \A i \in 1..m : i \in 1..Len(h)
    BY <1>1, <1>2, LenProperties
  <2> QED
    BY <1>3, <1>4, <1>6, <2>1, <2>2
<1>8. Source(d, log) = IF FromMemory(d, log) THEN <<Header>> \o h ELSE h
  BY <1>1, SourceIs DEF h
<1>9. CASE log = "raw"
  <2>1. Texts(log, Source(d, log)) = {Entries(Source(d, log))}
    BY <1>9 DEF Texts
  <2>2. Entries(Source(d, log)) \in Seq(Pieces) /\ Without(Entries(Source(d, log)), {Header, Beyond}) = b
    BY <1>4, <1>5, <1>8
  <2>3. Len(Entries(Source(d, log))) \in Nat
    BY <2>2, LenProperties
  <2>4. text = Entries(Source(d, log)) /\ \A other \in Texts(log, Source(d, log)) : other = text
    BY <2>1
  <2>5. Len(text) <= Len(text) + 1
    BY <2>3, <2>4
  <2> QED
    BY <1>6, <1>7, <2>2, <2>3, <2>4, <2>5 DEF Fits
<1>10. CASE log = "memread"
  <2>1. Source(d, log) = <<Header>> \o h /\ Header \in Pieces
    BY <1>8, <1>10, MarksDiffer DEF FromMemory, Marks
  <2>2. Tail(Source(d, log)) = h
    BY <1>1, <2>1, PieceInFront
  <2>3. Texts(log, Source(d, log)) = {Entries(h \o <<x>>) : x \in {Beyond, Blank}}
    BY <1>10, <2>2 DEF Texts
  <2>4. m \in Nat
    BY <1>1, <1>2, LenProperties
  <2>5. \A other \in Texts(log, Source(d, log)) :
           /\ other \in Seq(Pieces) /\ Len(other) \in {m, m + 1}
           /\ Without(other, {Header, Beyond}) = b
    BY <1>5, <2>3
  <2>6. \A other \in Texts(log, Source(d, log)) :
           Len(other) \in Nat /\ Len(text) \in Nat /\ Len(other) <= Len(text) + 1
    BY <2>4, <2>5
  <2> QED
    BY <1>6, <1>7, <2>5, <2>6 DEF Fits
<1> QED
  BY <1>9, <1>10

LEMMA DumpTexts ==
    ASSUME TypeOK, StoreOK, NEW d \in Index, NEW log \in Dumps, ~Unsigned(store[d]["dump"]),
           NEW text \in Texts(log, Source(d, log))
    PROVE  Fits(d, log, text)
<1> DEFINE s == store[d]["dump"]
<1>1. /\ "dump" \in Regions /\ Region(log) = "dump" /\ log \in Logs
      /\ s \in Seq(Pieces) /\ Keeps(s, "dump")
  BY StoreKeeps, RegionsAre DEF Logs, Dumps
<1>2. Source(d, log) = s
  BY <1>1, SourceIs DEF FromMemory, Dumps
<1>3. s[1] # Erased
  BY DEF Unsigned
<1> HIDE DEF s
<1>4. \A i \in 1..Len(s) : s[i] \notin {Header, Beyond} /\ s[i] # Erased
  BY <1>1, <1>3 DEF Keeps
<1>5. DOMAIN s = 1..Len(s)
  BY <1>1, LenProperties
<1>6. CASE log = "rawdump"
  <2>1. text = s
    BY <1>2, <1>6 DEF Texts
  <2>2. Wanted(d, log) = s
    BY <1>6 DEF Wanted, s
  <2>3. Without(s, {Header, Beyond}) = s
    BY <1>1, <1>4, WithoutNone
  <2> QED
    BY <1>1, <1>4, <1>5, <2>1, <2>2, <2>3 DEF Fits
<1>7. CASE log = "dump"
  <2>1. PICK m \in 0..Len(s) : \A i \in 1..Len(s) : s[i] = Blank <=> i > m
    BY <1>1 DEF Keeps, BlankLast
  <2> DEFINE b == SubSeq(s, 1, m)
  <2>2. /\ Without(s, {Blank}) = b /\ b \in Seq(Pieces) /\ Len(b) = m
        /\ \A i \in 1..m : b[i] = s[i]
        /\ Without(b, {Header, Beyond}) = b
    BY <1>1, <1>4, <2>1, NotBlank
  <2> HIDE DEF b
  <2>3. text = b
    BY <1>2, <1>7, <2>2 DEF Texts
  <2>4. Wanted(d, log) = b
    BY <1>1, <1>7, <2>2 DEF Wanted, s
  <2>5. DOMAIN b = 1..m
    BY <2>2, LenProperties
  <2>6. \A i \in 1..m : i \in 1..Len(s)
    BY <1>1, <2>1, LenProperties
  <2> QED
    BY <1>4, <2>2, <2>3, <2>4, <2>5, <2>6 DEF Fits
<1> QED
  BY <1>6, <1>7 DEF Dumps

LEMMA TextsFit ==
    ASSUME TypeOK, StoreOK, NEW d \in Index, NEW log \in Logs, log # "cli",
           log \in Dumps => ~Unsigned(store[d]["dump"]),
           NEW text \in Texts(log, Source(d, log))
    PROVE  Fits(d, log, text)
<1>1. CASE log \in {"raw", "memread"}
  BY <1>1, HealthTexts
<1>2. CASE log \in Dumps
  BY <1>2, DumpTexts
<1>3. CASE log \in {"trace", "decoded"}
  <2> DEFINE s == store[d][log]
  <2>1. log \in Regions /\ Region(log) = log /\ ~FromMemory(d, log)
    BY <1>3, RegionsAre DEF FromMemory
  <2>2. s \in Seq(Pieces) /\ Keeps(s, log)
    BY <2>1, StoreKeeps
  <2>3. Source(d, log) = s
    BY <2>1, SourceIs
  <2>4. Texts(log, s) = {s}
    BY <1>3 DEF Texts
  <2>5. Wanted(d, log) = Without(s, {Blank})
    BY <1>3, <2>1 DEF Wanted
  <2> HIDE DEF s
  <2>6. Without(s, {Blank}) = s /\ Without(s, {Header, Beyond}) = s /\ \A i \in DOMAIN s : s[i] # Erased
    BY <1>3, <2>2, PlainText
  <2> QED
    BY <2>2, <2>3, <2>4, <2>5, <2>6 DEF Fits
<1> QED
  BY <1>1, <1>2, <1>3 DEF Logs, Dumps

(* What is made of a log differs by one piece at most. *)
LEMMA TextsDiffer ==
    ASSUME TypeOK, StoreOK, NEW d \in Index, NEW log \in Logs,
           log \in Dumps => ~Unsigned(store[d]["dump"]), log # "cli",
           NEW text \in Texts(log, Source(d, log)), NEW other \in Texts(log, Source(d, log))
    PROVE  /\ Len(text) \in Nat /\ Len(other) \in Nat
           /\ Len(other) <= Len(text) + (IF log \in {"raw", "memread"} THEN 1 ELSE 0)
<1>1. text \in Seq(Pieces) /\ other \in Seq(Pieces)
  BY TextsFit DEF Fits
<1>2. Len(text) \in Nat /\ Len(other) \in Nat
  BY <1>1, LenProperties
<1>3. CASE log \in {"raw", "memread"}
  BY <1>3, <1>2, HealthTexts
<1>4. CASE log \notin {"raw", "memread"}
  <2>1. text = other
    BY <1>4 DEF Texts, Logs
  <2> QED
    BY <1>2, <1>4, <2>1
<1> QED
  BY <1>3, <1>4


-----------------------------------------------------------------------------
(* The logs of a device and the steps for one *)

LEMMA AddedOnce ==
    ASSUME NEW s \in Seq(Logs), Once(s), NEW x \in Logs, \A i \in 1..Len(s) : s[i] # x,
           NEW t, t = <<x>> \/ t = <<>>
    PROVE  /\ s \o t \in Seq(Logs) /\ Once(s \o t)
           /\ \A i \in 1..Len(s \o t) : (s \o t)[i] = x \/ \E j \in 1..Len(s) : (s \o t)[i] = s[j]
<1>1. CASE t = <<>>
  <2>1. s \o t = s
    BY <1>1, ConcatEmptySeq
  <2> QED
    BY <2>1
<1>2. CASE t = <<x>>
  <2> DEFINE u == s \o <<x>>
  <2>1. u \in Seq(Logs) /\ Len(u) = Len(s) + 1 /\ (\A i \in 1..Len(s) : u[i] = s[i]) /\ u[Len(s) + 1] = x
    BY PieceBehind
  <2>2. Len(s) \in Nat
    BY LenProperties
  <2> HIDE DEF u
  <2>3. \A i \in 1..Len(u) : i = Len(s) + 1 \/ i \in 1..Len(s)
    BY <2>1, <2>2
  <2>4. Once(u)
    BY <2>1, <2>3 DEF Once
  <2> QED
    BY <1>2, <2>1, <2>3, <2>4 DEF u
<1> QED
  BY <1>1, <1>2

(* No log is asked for twice. *)
LEMMA ThreeOnce ==
    ASSUME NEW a \in Logs, NEW b \in Logs, NEW c \in Logs, a # b, a # c, b # c,
           NEW s, s = <<a>> \/ s = <<>>, NEW t, t = <<b>> \/ t = <<>>, NEW u, u = <<c>> \/ u = <<>>
    PROVE  /\ (s \o t) \o u \in Seq(Logs) /\ Once((s \o t) \o u)
           /\ \A i \in 1..Len((s \o t) \o u) : ((s \o t) \o u)[i] \in {a, b, c}
<1>1. s \in Seq(Logs) /\ Once(s) /\ \A i \in 1..Len(s) : s[i] = a
  <2>1. CASE s = <<a>>
    <3>1. s \in Seq(Logs) /\ Len(s) = 1 /\ s[1] = a
      BY <2>1
    <3> QED
      BY <3>1 DEF Once
  <2>2. CASE s = <<>>
    <3>1. s \in Seq(Logs) /\ Len(s) = 0
      BY <2>2
    <3> QED
      BY <3>1 DEF Once
  <2> QED
    BY <2>1, <2>2
<1> DEFINE v == s \o t
           w == v \o u
<1>2. \A i \in 1..Len(s) : s[i] # b
  BY <1>1
<1>3. /\ v \in Seq(Logs) /\ Once(v)
      /\ \A i \in 1..Len(v) : v[i] = b \/ \E j \in 1..Len(s) : v[i] = s[j]
  BY <1>1, <1>2, AddedOnce
<1> HIDE DEF v
<1>4. \A i \in 1..Len(v) : v[i] \in {a, b}
  BY <1>1, <1>3
<1>5. \A i \in 1..Len(v) : v[i] # c
  BY <1>4
<1>6. /\ w \in Seq(Logs) /\ Once(w)
      /\ \A i \in 1..Len(w) : w[i] = c \/ \E j \in 1..Len(v) : w[i] = v[j]
  BY <1>3, <1>5, AddedOnce
<1> HIDE DEF w
<1>7. \A i \in 1..Len(w) : w[i] \in {a, b, c}
  BY <1>4, <1>6
<1> QED
  BY <1>6, <1>7 DEF v, w

LEMMA LogsAreOnce ==
    ASSUME NEW d \in Index, NEW flags
    PROVE  LogsOf(d, flags) \in Seq(Logs) /\ Once(LogsOf(d, flags))
<1> DEFINE If(flag, log) == IF flag \in flags THEN <<log>> ELSE <<>>
<1>1. \A flag, log : If(flag, log) = <<log>> \/ If(flag, log) = <<>>
  OBVIOUS
<1>2. LogsOf(d, flags) = IF Devices[d].family = "expander"
         THEN ((If("trace", "trace") \o If("health", "decoded")) \o If("dump", "dump")) \o If("cli", "cli")
         ELSE (If("trace", "trace") \o If("dump", "dump")) \o If("health", "raw")
  BY DEF LogsOf
<1>3. /\ "trace" \in Logs /\ "decoded" \in Logs /\ "dump" \in Logs /\ "cli" \in Logs /\ "raw" \in Logs
  BY DEF Logs
<1> DEFINE trace   == If("trace", "trace")
           decoded == If("health", "decoded")
           dump    == If("dump", "dump")
           cli     == If("cli", "cli")
           raw     == If("health", "raw")
<1>4. /\ trace = <<"trace">> \/ trace = <<>>
      /\ decoded = <<"decoded">> \/ decoded = <<>>
      /\ dump = <<"dump">> \/ dump = <<>>
      /\ cli = <<"cli">> \/ cli = <<>>
      /\ raw = <<"raw">> \/ raw = <<>>
  BY <1>1
<1> DEFINE s == (trace \o decoded) \o dump
           t == (trace \o dump) \o raw
<1>5. LogsOf(d, flags) = IF Devices[d].family = "expander" THEN s \o cli ELSE t
  BY <1>2
<1> HIDE DEF If, trace, decoded, dump, cli, raw
<1>6. s \in Seq(Logs) /\ Once(s) /\ \A i \in 1..Len(s) : s[i] \in {"trace", "decoded", "dump"}
  BY <1>3, <1>4, ThreeOnce
<1>7. t \in Seq(Logs) /\ Once(t)
  BY <1>3, <1>4, ThreeOnce
<1> HIDE DEF s, t
<1>8. \A i \in 1..Len(s) : s[i] # "cli"
  BY <1>6
<1>9. s \o cli \in Seq(Logs) /\ Once(s \o cli)
  BY <1>3, <1>4, <1>6, <1>8, AddedOnce
<1> QED
  BY <1>5, <1>7, <1>9

(* The first log and the others. *)
LEMMA NextOfLogs ==
    ASSUME NEW s \in Seq(Logs), s # <<>>, Once(s)
    PROVE  /\ s[1] \in Logs /\ Tail(s) \in Seq(Logs) /\ Once(Tail(s))
           /\ \A i \in 1..Len(Tail(s)) : Tail(s)[i] # s[1] /\ i + 1 \in 1..Len(s) /\ Tail(s)[i] = s[i + 1]
           /\ \A log \in ToSet(s) : log = s[1] \/ log \in ToSet(Tail(s))
<1> DEFINE t == Tail(s)
<1>1. Len(s) \in Nat \ {0} /\ s[1] \in Logs
  BY EmptySeq, LenProperties, ElementOfSeq
<1>2. t \in Seq(Logs) /\ Len(t) = Len(s) - 1 /\ \A i \in 1..Len(t) : t[i] = s[i + 1]
  BY HeadTailProperties
<1> HIDE DEF t
<1>3. 1 \in 1..Len(s) /\ \A i \in 1..Len(t) : i + 1 \in 1..Len(s) /\ i + 1 # 1
  BY <1>1, <1>2
<1>4. \A i \in 1..Len(t) : t[i] # s[1]
  BY <1>2, <1>3 DEF Once
<1>5. Once(t)
  <2>1. ASSUME NEW i \in 1..Len(t), NEW j \in 1..Len(t), t[i] = t[j] PROVE i = j
    <3>1. i + 1 \in 1..Len(s) /\ j + 1 \in 1..Len(s) /\ s[i + 1] = s[j + 1]
      BY <1>2, <1>3, <2>1
    <3>2. i + 1 = j + 1
      BY <3>1 DEF Once
    <3> QED
      BY <3>2
  <2> QED
    BY <2>1 DEF Once
<1>6. ASSUME NEW log \in ToSet(s) PROVE log = s[1] \/ log \in ToSet(t)
  <2>1. PICK i \in DOMAIN s : log = s[i]
    BY DEF ToSet
  <2>2. i \in 1..Len(s)
    BY LenProperties
  <2>3. CASE i # 1
    <3>1. i - 1 \in 1..Len(t) /\ (i - 1) + 1 = i
      BY <1>1, <1>2, <2>2, <2>3
    <3>2. t[i - 1] = log
      BY <1>2, <2>1, <3>1
    <3>3. i - 1 \in DOMAIN t
      BY <1>2, <3>1, LenProperties
    <3> QED
      BY <3>2, <3>3 DEF ToSet
  <2> QED
    BY <2>1, <2>3
<1> QED
  BY <1>1, <1>2, <1>3, <1>4, <1>5, <1>6 DEF t

(* What comes after a step. *)
Leading == {"open", "size", "table", "upload", "validate", "send"}
Doings  == Leading \cup {"refuse", "write", "copy", "stream", "erase"}
Follows(kind, d, log, s) ==
    LET next == Tail(s)[1]
    IN  /\ s # <<>>
        /\ s[1] \in Leading => Tail(s) \in Stages(kind, d, log)
        /\ s[1] = "open" => /\ kind = "capture"
                            /\ next = CASE log \in Dumps -> "write"
                                        [] log = "cli" -> "stream"
                                        [] log = "decoded" /\ ~SG(d) -> "refuse"
                                        [] FromMemory(d, log) -> "table"
                                        [] OTHER -> "size"
        /\ s[1] = "size" => next = (IF kind = "erase" THEN "erase" ELSE "upload")
        /\ s[1] = "table" => kind # "erase" /\ log # "cli" /\ next = "upload"
        /\ s[1] = "upload" => /\ kind # "erase" /\ log # "cli"
                              /\ next = IF log \in Dumps THEN "validate"
                                        ELSE IF kind = "capture" THEN "write" ELSE "copy"
        /\ s[1] = "validate" => log \in Dumps /\ next = (IF kind = "capture" THEN "open" ELSE "copy")
        /\ s[1] = "send" => log = "cli" /\ next = (IF kind = "capture" THEN "open" ELSE "stream")
        /\ s[1] = "write" => kind = "capture" /\ log # "cli"
        /\ s[1] = "copy" => kind = "get" /\ log # "cli"
        /\ s[1] = "stream" => log = "cli" /\ kind # "erase"
        /\ s[1] = "erase" => kind = "erase"
        /\ s[1] \notin Leading => Tail(s) = <<>>
        /\ s \in Seq(Doings) /\ s[1] \in Doings

LEMMA StagesOfErasure ==
    ASSUME NEW d, NEW log, NEW s \in Stages("erase", d, log)
    PROVE  Follows("erase", d, log, s)
<1>1. Stages("erase", d, log) = {<<"size", "erase">>, <<"erase">>}
  BY DEF Stages
<1>2. CASE s = <<"size", "erase">>
  BY <1>1, <1>2 DEF Follows, Doings, Leading
<1>3. CASE s = <<"erase">>
  BY <1>1, <1>3 DEF Follows, Doings, Leading
<1> QED
  BY <1>1, <1>2, <1>3

LEMMA StagesOfCapture ==
    ASSUME NEW d, NEW log, NEW s \in Stages("capture", d, log)
    PROVE  Follows("capture", d, log, s)
<1>1. CASE log \in Dumps
  <2>1. Stages("capture", d, log) =
           {<<"table", "upload", "validate", "open", "write">>,
            <<"upload", "validate", "open", "write">>, <<"validate", "open", "write">>,
            <<"open", "write">>, <<"write">>}
    BY <1>1 DEF Stages, Dumps, FromMemory
  <2>2. CASE s = <<"table", "upload", "validate", "open", "write">>
    BY <1>1, <2>1, <2>2 DEF Follows, Doings, Leading, Dumps, FromMemory
  <2>3. CASE s = <<"upload", "validate", "open", "write">>
    BY <1>1, <2>1, <2>3 DEF Follows, Doings, Leading, Dumps, FromMemory
  <2>4. CASE s = <<"validate", "open", "write">>
    BY <1>1, <2>1, <2>4 DEF Follows, Doings, Leading, Dumps, FromMemory
  <2>5. CASE s = <<"open", "write">>
    BY <1>1, <2>1, <2>5 DEF Follows, Doings, Leading, Dumps, FromMemory
  <2>6. CASE s = <<"write">>
    BY <1>1, <2>1, <2>6 DEF Follows, Doings, Leading, Dumps, FromMemory
  <2> QED
    BY <2>1, <2>2, <2>3, <2>4, <2>5, <2>6
<1>2. CASE log = "cli"
  <2>1. Stages("capture", d, log) =
           {<<"send", "open", "stream">>, <<"open", "stream">>, <<"stream">>}
    BY <1>2 DEF Stages, Dumps, FromMemory
  <2>2. CASE s = <<"send", "open", "stream">>
    BY <1>2, <2>1, <2>2 DEF Follows, Doings, Leading, Dumps, FromMemory
  <2>3. CASE s = <<"open", "stream">>
    BY <1>2, <2>1, <2>3 DEF Follows, Doings, Leading, Dumps, FromMemory
  <2>4. CASE s = <<"stream">>
    BY <1>2, <2>1, <2>4 DEF Follows, Doings, Leading, Dumps, FromMemory
  <2> QED
    BY <2>1, <2>2, <2>3, <2>4
<1>3. CASE log = "decoded" /\ ~SG(d)
  <2>1. Stages("capture", d, log) = {<<"open", "refuse">>, <<"refuse">>}
    BY <1>3 DEF Stages, Dumps, FromMemory
  <2>2. CASE s = <<"open", "refuse">>
    BY <1>3, <2>1, <2>2 DEF Follows, Doings, Leading, Dumps, FromMemory
  <2>3. CASE s = <<"refuse">>
    BY <1>3, <2>1, <2>3 DEF Follows, Doings, Leading, Dumps, FromMemory
  <2> QED
    BY <2>1, <2>2, <2>3
<1>4. CASE FromMemory(d, log) /\ log \notin Dumps \cup {"cli"} /\ ~(log = "decoded" /\ ~SG(d))
  <2>1. Stages("capture", d, log) =
           {<<"open", "table", "upload", "write">>, <<"table", "upload", "write">>,
            <<"upload", "write">>, <<"write">>}
    BY <1>4 DEF Stages
  <2>2. CASE s = <<"open", "table", "upload", "write">>
    BY <1>4, <2>1, <2>2 DEF Follows, Doings, Leading
  <2>3. CASE s = <<"table", "upload", "write">>
    BY <1>4, <2>1, <2>3 DEF Follows, Doings, Leading
  <2>4. CASE s = <<"upload", "write">>
    BY <1>4, <2>1, <2>4 DEF Follows, Doings, Leading
  <2>5. CASE s = <<"write">>
    BY <1>4, <2>1, <2>5 DEF Follows, Doings, Leading
  <2> QED
    BY <2>1, <2>2, <2>3, <2>4, <2>5
<1>5. CASE ~FromMemory(d, log) /\ log \notin Dumps \cup {"cli"} /\ ~(log = "decoded" /\ ~SG(d))
  <2>1. Stages("capture", d, log) =
           {<<"open", "size", "upload", "write">>, <<"size", "upload", "write">>,
            <<"upload", "write">>, <<"write">>}
    BY <1>5 DEF Stages
  <2>2. CASE s = <<"open", "size", "upload", "write">>
    BY <1>5, <2>1, <2>2 DEF Follows, Doings, Leading
  <2>3. CASE s = <<"size", "upload", "write">>
    BY <1>5, <2>1, <2>3 DEF Follows, Doings, Leading
  <2>4. CASE s = <<"upload", "write">>
    BY <1>5, <2>1, <2>4 DEF Follows, Doings, Leading
  <2>5. CASE s = <<"write">>
    BY <1>5, <2>1, <2>5 DEF Follows, Doings, Leading
  <2> QED
    BY <2>1, <2>2, <2>3, <2>4, <2>5
<1> QED
  BY <1>1, <1>2, <1>3, <1>4, <1>5

LEMMA StagesOfGet ==
    ASSUME NEW d, NEW log, NEW s \in Stages("get", d, log)
    PROVE  Follows("get", d, log, s)
<1>1. CASE log \in Dumps
  <2>1. Stages("get", d, log) =
           {<<"table", "upload", "validate", "copy">>, <<"upload", "validate", "copy">>,
            <<"validate", "copy">>, <<"copy">>}
    BY <1>1 DEF Stages, Dumps, FromMemory
  <2>2. CASE s = <<"table", "upload", "validate", "copy">>
    BY <1>1, <2>1, <2>2 DEF Follows, Doings, Leading, Dumps, FromMemory
  <2>3. CASE s = <<"upload", "validate", "copy">>
    BY <1>1, <2>1, <2>3 DEF Follows, Doings, Leading, Dumps, FromMemory
  <2>4. CASE s = <<"validate", "copy">>
    BY <1>1, <2>1, <2>4 DEF Follows, Doings, Leading, Dumps, FromMemory
  <2>5. CASE s = <<"copy">>
    BY <1>1, <2>1, <2>5 DEF Follows, Doings, Leading, Dumps, FromMemory
  <2> QED
    BY <2>1, <2>2, <2>3, <2>4, <2>5
<1>2. CASE log = "cli"
  <2>1. Stages("get", d, log) = {<<"send", "stream">>, <<"stream">>}
    BY <1>2 DEF Stages, Dumps, FromMemory
  <2>2. CASE s = <<"send", "stream">>
    BY <1>2, <2>1, <2>2 DEF Follows, Doings, Leading, Dumps, FromMemory
  <2>3. CASE s = <<"stream">>
    BY <1>2, <2>1, <2>3 DEF Follows, Doings, Leading, Dumps, FromMemory
  <2> QED
    BY <2>1, <2>2, <2>3
<1>3. CASE log = "decoded" /\ ~SG(d)
  <2>1. Stages("get", d, log) = {<<"refuse">>}
    BY <1>3 DEF Stages, Dumps, FromMemory
  <2>2. CASE s = <<"refuse">>
    BY <1>3, <2>1, <2>2 DEF Follows, Doings, Leading, Dumps, FromMemory
  <2> QED
    BY <2>1, <2>2
<1>4. CASE FromMemory(d, log) /\ log \notin Dumps \cup {"cli"} /\ ~(log = "decoded" /\ ~SG(d))
  <2>1. Stages("get", d, log) =
           {<<"table", "upload", "copy">>, <<"upload", "copy">>, <<"copy">>}
    BY <1>4 DEF Stages
  <2>2. CASE s = <<"table", "upload", "copy">>
    BY <1>4, <2>1, <2>2 DEF Follows, Doings, Leading
  <2>3. CASE s = <<"upload", "copy">>
    BY <1>4, <2>1, <2>3 DEF Follows, Doings, Leading
  <2>4. CASE s = <<"copy">>
    BY <1>4, <2>1, <2>4 DEF Follows, Doings, Leading
  <2> QED
    BY <2>1, <2>2, <2>3, <2>4
<1>5. CASE ~FromMemory(d, log) /\ log \notin Dumps \cup {"cli"} /\ ~(log = "decoded" /\ ~SG(d))
  <2>1. Stages("get", d, log) =
           {<<"size", "upload", "copy">>, <<"upload", "copy">>, <<"copy">>}
    BY <1>5 DEF Stages
  <2>2. CASE s = <<"size", "upload", "copy">>
    BY <1>5, <2>1, <2>2 DEF Follows, Doings, Leading
  <2>3. CASE s = <<"upload", "copy">>
    BY <1>5, <2>1, <2>3 DEF Follows, Doings, Leading
  <2>4. CASE s = <<"copy">>
    BY <1>5, <2>1, <2>4 DEF Follows, Doings, Leading
  <2> QED
    BY <2>1, <2>2, <2>3, <2>4
<1> QED
  BY <1>1, <1>2, <1>3, <1>4, <1>5

LEMMA Followed ==
    ASSUME NEW kind \in {"capture", "get", "erase"}, NEW d, NEW log, NEW s \in Stages(kind, d, log)
    PROVE  Follows(kind, d, log, s)
BY StagesOfCapture, StagesOfGet, StagesOfErasure

(* A file that was not to be opened any more is not after another step. *)
LEMMA StaysOpened ==
    ASSUME NEW s \in Seq(Doings), s # <<>>, s[1] # "open", ~Unopened(Tail(s))
    PROVE  ~Unopened(s)
<1> DEFINE t == Tail(s)
<1>1. Len(s) \in Nat \ {0} /\ DOMAIN s = 1..Len(s)
  BY EmptySeq, LenProperties
<1>2. t \in Seq(Doings) /\ Len(t) = Len(s) - 1 /\ \A i \in 1..Len(t) : t[i] = s[i + 1]
  BY HeadTailProperties
<1>3. DOMAIN t = 1..Len(t)
  BY <1>2, LenProperties
<1>4. \A i \in 1..Len(t) : t[i] # "open"
  BY <1>3 DEF Unopened
<1> HIDE DEF t
<1>5. ASSUME NEW i \in 1..Len(s), s[i] = "open" PROVE FALSE
  <2>1. i # 1
    BY <1>5
  <2>2. i - 1 \in 1..Len(t) /\ (i - 1) + 1 = i
    BY <1>1, <1>2, <2>1
  <2>3. t[i - 1] = s[i]
    BY <1>2, <2>2
  <2> QED
    BY <1>4, <1>5, <2>2, <2>3
<1> QED
  BY <1>1, <1>5 DEF Unopened

(* How a function begins. *)
LEMMA RecipeIs ==
    ASSUME NEW kind \in {"capture", "get"}, NEW d \in Index, NEW log \in Logs
    PROVE  LET s == Recipe(kind, d, log) IN
           /\ s \in Stages(kind, d, log) /\ s # <<>>
           /\ s[1] \in {"open", "size", "table", "send", "refuse"}
           /\ s[1] = "open" => log \notin Dumps
           /\ kind = "capture" => Unopened(s)
<1>1. CASE log \in Dumps
  <2>1. CASE kind = "capture"
    <3>1. Recipe(kind, d, log) = <<"table", "upload", "validate", "open", "write">>
      BY <1>1, <2>1 DEF Recipe, Dumps, FromMemory
    <3>2. Recipe(kind, d, log) \in Stages(kind, d, log)
      BY <1>1, <2>1, <3>1 DEF Stages, Dumps, FromMemory
    <3> QED
      BY <2>1, <3>1, <3>2 DEF Unopened
  <2>2. CASE kind = "get"
    <3>1. Recipe(kind, d, log) = <<"table", "upload", "validate", "copy">>
      BY <1>1, <2>2 DEF Recipe, Dumps, FromMemory
    <3>2. Recipe(kind, d, log) \in Stages(kind, d, log)
      BY <1>1, <2>2, <3>1 DEF Stages, Dumps, FromMemory
    <3> QED
      BY <2>2, <3>1, <3>2
  <2> QED
    BY <2>1, <2>2
<1>2. CASE log = "cli"
  BY <1>2 DEF Recipe, Stages, Dumps, Unopened
<1>3. CASE log = "decoded" /\ ~SG(d)
  BY <1>3 DEF Recipe, Stages, Dumps, Unopened
<1>4. CASE FromMemory(d, log) /\ log \notin Dumps \cup {"cli"} /\ ~(log = "decoded" /\ ~SG(d))
  BY <1>4 DEF Recipe, Stages, Dumps, Unopened
<1>5. CASE ~FromMemory(d, log) /\ log \notin Dumps \cup {"cli"} /\ ~(log = "decoded" /\ ~SG(d))
  BY <1>5 DEF Recipe, Stages, Dumps, Unopened
<1> QED
  BY <1>1, <1>2, <1>3, <1>4, <1>5

-----------------------------------------------------------------------------
(* The steps of a call *)

LEMMA CallIs ==
    ASSUME TypeOK
    PROVE  /\ call.kind \in {"none", "capture", "get", "erase"}
           /\ call.kind = "capture" => call \in Captures
           /\ call.kind = "get" => call \in Gets /\ call.log \in Logs /\ call.room \in Nat /\ call.again \in BOOLEAN
           /\ call.kind = "erase" => call.log = "dump"
BY DEF TypeOK, Calls, Captures, Gets, Erasures

(* The log that the call is at. *)
LEMMA LogIs ==
    ASSUME IInv, pc = "step" \/ (pc = "log" /\ todo # <<>>)
    PROVE  /\ dev \in Index /\ Log \in Logs /\ call.kind \in {"capture", "get", "erase"}
           /\ call.kind = "capture" => /\ todo # <<>> /\ Log = todo[1] /\ todo \in Seq(Logs) /\ Once(todo)
                                       /\ outcome[dev][Log] = "untried"
           /\ call.kind # "capture" => pc = "step" /\ Log = call.log
           /\ call.kind # "erase" => outcome[dev][Log] \in {"untried", "toosmall"}
           /\ result # "success"
<1>1. TypeOK /\ Course /\ Capturing
  BY DEF IInv
<1>2. dev \in Index /\ call.kind \in {"capture", "get", "erase"} /\ result # "success"
  BY <1>1 DEF Course
<1>3. CASE call.kind = "capture"
  <2>1. todo # <<>> /\ todo \in Seq(Logs) /\ Once(todo) /\ Log = todo[1]
    BY <1>1, <1>3 DEF Course, Capturing, TypeOK, Log
  <2>2. 1 \in 1..Len(todo) /\ todo[1] \in Logs
    BY <2>1, EmptySeq, LenProperties, ElementOfSeq
  <2>3. outcome[dev][todo[1]] = "untried"
    BY <1>1, <1>2, <1>3, <2>2 DEF Capturing
  <2> QED
    BY <1>2, <1>3, <2>1, <2>2, <2>3
<1>4. CASE call.kind = "get"
  <2>1. Log = call.log /\ call.log \in Logs
    BY <1>1, <1>4, CallIs DEF Log
  <2>2. pc = "step"
    BY <1>1, <1>4 DEF Course
  <2>3. outcome[dev][call.log] = IF call.again THEN "toosmall" ELSE "untried"
    BY <1>1, <1>4, <2>2 DEF Course
  <2> QED
    BY <1>2, <1>4, <2>1, <2>2, <2>3
<1>5. CASE call.kind = "erase"
  <2>1. Log = "dump" /\ call.log = "dump" /\ "dump" \in Logs
    BY <1>1, <1>5, CallIs DEF Log, Logs
  <2>2. pc = "step"
    BY <1>1, <1>5 DEF Course
  <2> QED
    BY <1>2, <1>5, <2>1, <2>2
<1> QED
  BY <1>2, <1>3, <1>4, <1>5

(* What does not change while the store, the call and the answer do not. *)
LEMMA WholeStays ==
    ASSUME NEW d \in Index, NEW log \in Logs, UNCHANGED <<store, call>>, saved'[d][log] = saved[d][log],
           Whole(d, log)
    PROVE  Whole(d, log)'
BY DEF Whole

LEMMA SavedWholeStays ==
    ASSUME SavedWhole, UNCHANGED <<store, call, saved, outcome, lost>>
    PROVE  SavedWhole'
<1>1. ASSUME NEW d \in Index, NEW log \in Logs, call.kind # "erase",
             outcome[d][log] = "success", <<d, log>> \notin lost
      PROVE  Whole(d, log)'
  BY <1>1, WholeStays DEF SavedWhole
<1> QED
  BY <1>1 DEF SavedWhole

LEMMA StoreStays ==
    ASSUME StoreOK, UNCHANGED store
    PROVE  StoreOK'
BY DEF StoreOK, Keeps, BlankLast

(* A step that goes on with the log. *)
Going(d, log, step) ==
    /\ d = dev /\ log = Log /\ pc = "step" /\ step = steps'[1]
    /\ UNCHANGED <<store, pc, call, result, dev, todo, outcome, hit, needed, grown>>
    /\ steps' \in Stages(call.kind, d, log) /\ buf' \in Seq(Pieces) /\ total' \in Nat
    /\ lost \subseteq lost'
    /\ saved' \in [Index -> [Logs -> Seq(Pieces) \cup {None}]]
    /\ \A e \in Index, l \in Logs : <<e, l>> # <<d, log>> => saved'[e][l] = saved[e][l]
    /\ AtWork(d, log, step)'

LEMMA GoingKeeps ==
    ASSUME IInv, NEW d, NEW log, NEW step, Going(d, log, step)
    PROVE  IInv'
<1>1. /\ TypeOK /\ StoreOK /\ Course /\ Capturing /\ Told /\ SavedWhole /\ SizeToldSuffices
      /\ UNCHANGED <<store, pc, call, result, dev, todo, outcome, hit, needed, grown>>
      /\ d = dev /\ log = Log /\ pc = "step" /\ step = steps'[1]
  BY DEF IInv, Going
<1>2. /\ d \in Index /\ log \in Logs /\ call.kind # "erase" => outcome[d][log] \in {"untried", "toosmall"}
      /\ Log' = log
  BY <1>1, LogIs DEF Log
<1>3. TypeOK'
  BY <1>1 DEF TypeOK, Going
<1>4. StoreOK'
  BY <1>1, StoreStays
<1>5. Course'
  <2>1. steps' \in Stages(call'.kind, dev', Log') /\ pc' = "step"
    <3>1. Stages(call.kind, dev, Log)' = Stages(call.kind, d, log)
      BY <1>1, <1>2 DEF Stages, FromMemory, SG
    <3> QED
      BY <1>1, <1>2, <3>1 DEF Going
  <2> QED
    BY <1>1, <2>1 DEF Course
<1>6. Capturing'
  BY <1>1 DEF Capturing, Tried
<1>7. Working'
  BY <1>1, <1>2 DEF Going, Working
<1>8. Told'
  <2>1. ASSUME call.kind = "get", call.log # "rawdump", call.again PROVE Enough(dev, call.log, call.room)'
    <3>1. Enough(d, call.log, call.room) /\ call.log \in Logs /\ call.room \in Nat
      BY <1>1, <2>1, CallIs DEF Told
    <3> DEFINE l == call.log
               room == call.room
    <3> QED
      BY <1>1, <3>1 DEF Enough, Texts, Source, FromMemory, SG
  <2> QED
    BY <1>1, <2>1 DEF Told
<1>9. SavedWhole'
  <2>1. ASSUME NEW e \in Index, NEW l \in Logs, call.kind # "erase", outcome[e][l] = "success", <<e, l>> \notin lost'
        PROVE  Whole(e, l)'
    <3>1. <<e, l>> # <<d, log>> /\ <<e, l>> \notin lost
      BY <1>2, <2>1 DEF Going
    <3>2. Whole(e, l) /\ saved'[e][l] = saved[e][l]
      BY <1>1, <2>1, <3>1 DEF SavedWhole, Going
    <3> QED
      BY <1>1, <3>2, WholeStays
  <2> QED
    BY <1>1, <2>1 DEF SavedWhole
<1>10. SizeToldSuffices'
  BY <1>1 DEF SizeToldSuffices
<1> QED
  BY <1>3, <1>4, <1>5, <1>6, <1>7, <1>8, <1>9, <1>10 DEF IInv

(* A step that ends the function of the log. *)
Ending(d, log, status) ==
    /\ pc = "step" \/ (pc = "log" /\ todo # <<>>)
    /\ d = dev /\ log = Log
    /\ status \in Statuses \ {"untried"} /\ End(status)
    /\ UNCHANGED <<store, call, result, grown>>
    /\ needed' \in Nat /\ hit \subseteq hit' /\ lost \subseteq lost'
    /\ saved' \in [Index -> [Logs -> Seq(Pieces) \cup {None}]]
    /\ \A e \in Index, l \in Logs : <<e, l>> # <<d, log>> => saved'[e][l] = saved[e][l]
    /\ status = "failed" => <<d, log>> \in hit'
    /\ status = "success" /\ call.kind # "erase" /\ <<d, log>> \notin lost' => Whole(d, log)'
    /\ status = "toosmall" =>
          /\ call.kind = "get"
          /\ log # "rawdump" => IF call.again THEN log = "trace" /\ grown > Extra
                                              ELSE Enough(d, log, needed)'

LEMMA EndingIs ==
    ASSUME IInv, NEW d, NEW log, NEW status, Ending(d, log, status)
    PROVE  /\ TypeOK /\ Course /\ Capturing /\ d \in Index /\ log \in Logs
           /\ d = dev /\ log = Log
           /\ call.kind \in {"capture", "get", "erase"}
           /\ status \in Statuses \ {"untried"}
           /\ outcome' \in [Index -> [Logs -> Statuses]]
           /\ outcome'[d][log] = status
           /\ \A e \in Index, l \in Logs : <<e, l>> # <<d, log>> => outcome'[e][l] = outcome[e][l]
           /\ steps' = <<>> /\ buf' = <<>> /\ total' = 0 /\ dev' = dev
           /\ UNCHANGED <<store, call, result, grown>> /\ result # "success"
           /\ call.kind = "capture" => /\ pc' = "log" /\ todo' = Tail(todo) /\ todo # <<>> /\ log = todo[1]
                                       /\ todo' \in Seq(Logs) /\ Once(todo')
                                       /\ \A i \in 1..Len(todo') : todo'[i] # log /\ \E j \in 1..Len(todo) : todo'[i] = todo[j]
                                       /\ \A l \in ToSet(todo) : l = log \/ l \in ToSet(todo')
           /\ call.kind # "capture" => /\ pc = "step" /\ log = call.log /\ UNCHANGED todo
                                       /\ pc' = IF status = "toosmall" /\ ~call.again THEN "retry" ELSE "idle"
<1>1. TypeOK /\ Course /\ Capturing /\ d = dev /\ log = Log /\ End(status) /\ status \in Statuses \ {"untried"}
      /\ UNCHANGED <<store, call, result, grown>>
  BY DEF IInv, Ending
<1>2. /\ d \in Index /\ log \in Logs /\ call.kind \in {"capture", "get", "erase"} /\ result # "success"
      /\ call.kind = "capture" => todo # <<>> /\ log = todo[1] /\ todo \in Seq(Logs) /\ Once(todo)
      /\ call.kind # "capture" => pc = "step" /\ log = call.log
  BY <1>1, LogIs DEF Ending
<1>3. /\ outcome' = [outcome EXCEPT ![d][log] = status]
      /\ steps' = <<>> /\ buf' = <<>> /\ total' = 0 /\ dev' = dev
      /\ IF call.kind = "capture" THEN pc' = "log" /\ todo' = Tail(todo)
         ELSE pc' = (IF status = "toosmall" /\ ~call.again THEN "retry" ELSE "idle") /\ UNCHANGED todo
  BY <1>1 DEF End, Rest
<1>4. outcome \in [Index -> [Logs -> Statuses]]
  BY <1>1 DEF TypeOK
<1>5. /\ outcome' \in [Index -> [Logs -> Statuses]] /\ outcome'[d][log] = status
      /\ \A e \in Index, l \in Logs : <<e, l>> # <<d, log>> => outcome'[e][l] = outcome[e][l]
  BY <1>1, <1>2, <1>3, <1>4
<1>6. ASSUME call.kind = "capture"
      PROVE  /\ todo' \in Seq(Logs) /\ Once(todo')
             /\ \A i \in 1..Len(todo') : todo'[i] # log /\ \E j \in 1..Len(todo) : todo'[i] = todo[j]
             /\ \A l \in ToSet(todo) : l = log \/ l \in ToSet(todo')
  <2>1. /\ Tail(todo) \in Seq(Logs) /\ Once(Tail(todo))
        /\ \A i \in 1..Len(Tail(todo)) : Tail(todo)[i] # todo[1] /\ i + 1 \in 1..Len(todo) /\ Tail(todo)[i] = todo[i + 1]
        /\ \A l \in ToSet(todo) : l = todo[1] \/ l \in ToSet(Tail(todo))
    BY <1>2, <1>6, NextOfLogs
  <2>2. todo' = Tail(todo) /\ log = todo[1]
    BY <1>2, <1>3, <1>6
  <2> DEFINE t == Tail(todo)
  <2>3. Once(todo') <=> Once(t)
    BY <2>2 DEF Once
  <2> HIDE DEF t
  <2>4. /\ t \in Seq(Logs) /\ Once(t)
        /\ \A i \in 1..Len(t) : t[i] # todo[1] /\ \E j \in 1..Len(todo) : t[i] = todo[j]
        /\ \A l \in ToSet(todo) : l = todo[1] \/ l \in ToSet(t)
        /\ todo' = t
    BY <2>1, <2>2 DEF t
  <2> QED
    BY <2>2, <2>3, <2>4
<1> QED
  BY <1>1, <1>2, <1>3, <1>5, <1>6

LEMMA EndingCourse ==
    ASSUME IInv, NEW d, NEW log, NEW status, Ending(d, log, status)
    PROVE  TypeOK' /\ Course'
<1>1. /\ TypeOK /\ Course /\ d \in Index /\ log \in Logs /\ d = dev
      /\ call.kind \in {"capture", "get", "erase"}
      /\ outcome' \in [Index -> [Logs -> Statuses]]
      /\ outcome'[d][log] = status
      /\ \A e \in Index, l \in Logs : <<e, l>> # <<d, log>> => outcome'[e][l] = outcome[e][l]
      /\ buf' = <<>> /\ total' = 0 /\ dev' = dev
      /\ UNCHANGED <<store, call, result, grown>> /\ result # "success"
      /\ call.kind = "capture" => pc' = "log" /\ todo' \in Seq(Logs)
      /\ call.kind # "capture" => /\ log = call.log /\ UNCHANGED todo
                                  /\ pc' = IF status = "toosmall" /\ ~call.again THEN "retry" ELSE "idle"
  BY EndingIs
<1>2. /\ needed' \in Nat /\ saved' \in [Index -> [Logs -> Seq(Pieces) \cup {None}]]
      /\ status = "toosmall" => call.kind = "get"
  BY DEF Ending
<1>3. TypeOK'
  <2>1. <<>> \in Seq(Pieces) /\ pc' \in {"idle", "device", "log", "step", "retry"} /\ todo' \in Seq(Logs)
    BY <1>1 DEF TypeOK
  <2> QED
    BY <1>1, <1>2, <2>1 DEF TypeOK
<1>4. Course'
  BY <1>1, <1>2 DEF Course
<1> QED
  BY <1>3, <1>4

LEMMA EndingCapturing ==
    ASSUME IInv, NEW d, NEW log, NEW status, Ending(d, log, status)
    PROVE  Capturing'
<1>1. /\ TypeOK /\ Course /\ Capturing /\ d \in Index /\ log \in Logs /\ d = dev /\ dev' = dev
      /\ status # "untried" /\ outcome'[d][log] = status
      /\ \A e \in Index, l \in Logs : <<e, l>> # <<d, log>> => outcome'[e][l] = outcome[e][l]
      /\ UNCHANGED <<call, result>> /\ result # "success"
      /\ call.kind = "capture" => /\ pc' = "log" /\ Once(todo') /\ todo # <<>> /\ todo' \in Seq(Logs)
                                  /\ \A i \in 1..Len(todo') : todo'[i] # log /\ \E j \in 1..Len(todo) : todo'[i] = todo[j]
                                  /\ \A l \in ToSet(todo) : l = log \/ l \in ToSet(todo')
  BY EndingIs
<1>2. hit \subseteq hit' /\ (status = "failed" => <<d, log>> \in hit') /\ (pc = "step" \/ pc = "log")
  BY DEF Ending
<1>3. \A e \in Index, l \in Logs : outcome'[e][l] = "failed" => <<e, l>> \in hit'
  <2>1. ASSUME NEW e \in Index, NEW l \in Logs, outcome'[e][l] = "failed" PROVE <<e, l>> \in hit'
    <3>1. CASE <<e, l>> = <<d, log>>
      BY <1>1, <1>2, <2>1, <3>1
    <3>2. CASE <<e, l>> # <<d, log>>
      BY <1>1, <1>2, <2>1, <3>2 DEF Capturing
    <3> QED
      BY <3>1, <3>2
  <2> QED
    BY <2>1
<1>4. ASSUME NEW e \in Index, NEW l \in Logs, outcome[e][l] # "untried" PROVE outcome'[e][l] # "untried"
  BY <1>1, <1>4
<1>5. ASSUME call.kind = "capture"
      PROVE  /\ \A i \in 1..Len(todo') : outcome'[dev'][todo'[i]] = "untried"
             /\ \A e \in Index, l \in Logs : e > dev' => outcome'[e][l] = "untried"
             /\ \A e \in Index : e < dev' => Tried(e)'
             /\ \A l \in ToSet(LogsOf(dev', call'.flags)) : outcome'[dev'][l] = "untried" => l \in ToSet(todo')
  <2>1. ASSUME NEW i \in 1..Len(todo') PROVE outcome'[dev'][todo'[i]] = "untried"
    <3>1. PICK j \in 1..Len(todo) : todo'[i] = todo[j]
      BY <1>1, <1>5
    <3>2. outcome[dev][todo[j]] = "untried" /\ todo'[i] # log /\ todo'[i] \in Logs
      BY <1>1, <1>5, <3>1, ElementOfSeq DEF Capturing
    <3> QED
      BY <1>1, <3>1, <3>2
  <2>2. ASSUME NEW e \in Index, NEW l \in Logs, e > dev' PROVE outcome'[e][l] = "untried"
    <3>1. e # d
      BY <1>1, <2>2 DEF TypeOK
    <3> QED
      BY <1>1, <1>5, <2>2, <3>1 DEF Capturing
  <2>3. ASSUME NEW e \in Index PROVE \A l \in ToSet(LogsOf(e, call.flags)) : l \in Logs
    <3>1. LogsOf(e, call.flags) \in Seq(Logs)
      BY LogsAreOnce
    <3> QED
      BY <3>1, LenProperties, ElementOfSeq DEF ToSet
  <2>4. ASSUME NEW e \in Index, e < dev' PROVE Tried(e)'
    <3>1. Tried(e)
      BY <1>1, <1>5, <2>4 DEF Capturing
    <3> QED
      BY <1>1, <1>4, <2>3, <3>1 DEF Tried
  <2>5. ASSUME NEW l \in ToSet(LogsOf(dev, call.flags)), outcome'[dev][l] = "untried" PROVE l \in ToSet(todo')
    <3>1. l \in Logs /\ l # log
      BY <1>1, <2>3, <2>5
    <3>2. outcome[dev][l] = "untried"
      BY <1>1, <2>5, <3>1
    <3>3. l \in ToSet(todo)
      BY <1>1, <1>2, <1>5, <2>5, <3>2 DEF Capturing
    <3> QED
      BY <1>1, <1>5, <3>1, <3>3
  <2> QED
    BY <1>1, <2>1, <2>2, <2>4, <2>5
<1> QED
  BY <1>1, <1>3, <1>5 DEF Capturing

LEMMA EndingKeeps ==
    ASSUME IInv, NEW d, NEW log, NEW status, Ending(d, log, status)
    PROVE  IInv'
<1>1. /\ TypeOK /\ d \in Index /\ log \in Logs /\ d = dev /\ dev' = dev
      /\ call.kind \in {"capture", "get", "erase"}
      /\ outcome'[d][log] = status
      /\ \A e \in Index, l \in Logs : <<e, l>> # <<d, log>> => outcome'[e][l] = outcome[e][l]
      /\ UNCHANGED <<store, call, result, grown>>
      /\ call.kind = "capture" => pc' = "log"
      /\ call.kind # "capture" => /\ log = call.log
                                  /\ pc' = IF status = "toosmall" /\ ~call.again THEN "retry" ELSE "idle"
  BY EndingIs
<1>2. StoreOK /\ SavedWhole
  BY DEF IInv
<1>3. /\ status = "success" /\ call.kind # "erase" /\ <<d, log>> \notin lost' => Whole(d, log)'
      /\ status = "toosmall" /\ log # "rawdump" => IF call.again THEN log = "trace" /\ grown > Extra
                                                                 ELSE Enough(d, log, needed)'
      /\ lost \subseteq lost' /\ \A e \in Index, l \in Logs : <<e, l>> # <<d, log>> => saved'[e][l] = saved[e][l]
  BY DEF Ending
<1>4. TypeOK' /\ Course' /\ Capturing'
  BY EndingCourse, EndingCapturing
<1>5. StoreOK'
  BY <1>1, <1>2, StoreStays
<1>6. Working'
  BY <1>1 DEF Working
<1>7. Told'
  <2>1. ASSUME call.kind = "get", log # "rawdump", pc' = "retry" PROVE Enough(dev, call.log, needed)'
    <3>1. Enough(d, log, needed)'
      BY <1>1, <1>3, <2>1
    <3> QED
      BY <1>1, <2>1, <3>1 DEF Enough, Texts, Source, FromMemory, SG
  <2>2. pc' # "step"
    BY <1>1
  <2> QED
    BY <1>1, <2>1, <2>2 DEF Told
<1>8. SavedWhole'
  <2>1. ASSUME NEW e \in Index, NEW l \in Logs, call.kind # "erase", outcome'[e][l] = "success", <<e, l>> \notin lost'
        PROVE  Whole(e, l)'
    <3>1. CASE <<e, l>> = <<d, log>>
      <4>1. e = d /\ l = log
        BY <3>1
      <4>2. Whole(d, log)'
        BY <1>1, <1>3, <2>1, <4>1
      <4> QED
        BY <4>1, <4>2
    <3>2. CASE <<e, l>> # <<d, log>>
      <4>1. Whole(e, l) /\ saved'[e][l] = saved[e][l]
        BY <1>1, <1>2, <1>3, <2>1, <3>2 DEF SavedWhole
      <4> QED
        BY <1>1, <4>1, WholeStays
    <3> QED
      BY <3>1, <3>2
  <2> QED
    BY <1>1, <2>1 DEF SavedWhole
<1>9. SizeToldSuffices'
  BY <1>1, <1>3 DEF SizeToldSuffices
<1> QED
  BY <1>4, <1>5, <1>6, <1>7, <1>8, <1>9 DEF IInv

LEMMA StepIs ==
    ASSUME IInv, NEW step, Doing(step)
    PROVE  \E d \in Index, log \in Logs :
             /\ d = dev /\ log = Log /\ pc = "step" /\ steps[1] = step
             /\ TypeOK /\ StoreOK /\ AtWork(d, log, step)
             /\ steps \in Stages(call.kind, d, log) /\ Follows(call.kind, d, log, steps)
             /\ call.kind \in {"capture", "get", "erase"}
             /\ call.kind # "capture" => log = call.log
<1>1. pc = "step" /\ steps[1] = step /\ TypeOK /\ StoreOK /\ Course /\ Working
  BY DEF IInv, Doing
<1>2. dev \in Index /\ Log \in Logs /\ call.kind \in {"capture", "get", "erase"}
      /\ (call.kind # "capture" => Log = call.log)
  BY <1>1, LogIs
<1>3. steps \in Stages(call.kind, dev, Log)
  BY <1>1 DEF Course
<1>4. Follows(call.kind, dev, Log, steps)
  BY <1>2, <1>3, Followed
<1>5. AtWork(dev, Log, step)
  BY <1>1 DEF Working
<1> QED
  BY <1>1, <1>2, <1>3, <1>4, <1>5

LEMMA SourceStays ==
    ASSUME NEW d \in Index, NEW log \in Logs, UNCHANGED store
    PROVE  Source(d, log)' = Source(d, log)
BY DEF Source, FromMemory, SG

(* A file or a buffer that is written to. *)
LEMMA SavedAt ==
    ASSUME TypeOK, NEW d \in Index, NEW log \in Logs, NEW v \in Seq(Pieces),
           saved' = [saved EXCEPT ![d][log] = v]
    PROVE  /\ saved' \in [Index -> [Logs -> Seq(Pieces) \cup {None}]] /\ saved'[d][log] = v
           /\ \A e \in Index, l \in Logs : <<e, l>> # <<d, log>> => saved'[e][l] = saved[e][l]
<1>1. saved \in [Index -> [Logs -> Seq(Pieces) \cup {None}]]
  BY DEF TypeOK
<1> QED
  BY <1>1

LEMMA SavedStays ==
    ASSUME TypeOK, UNCHANGED saved
    PROVE  /\ saved' \in [Index -> [Logs -> Seq(Pieces) \cup {None}]]
           /\ \A e \in Index, l \in Logs : saved'[e][l] = saved[e][l]
BY DEF TypeOK

(* What was not to be opened is not after the step. *)
LEMMA OpenedBefore ==
    ASSUME NEW kind, NEW d, NEW log, Follows(kind, d, log, steps), steps[1] # "open", ~Unopened(Tail(steps))
    PROVE  ~Unopened(steps)
BY StaysOpened DEF Follows

LEMMA AskedFor ==
    ASSUME IInv, NEW d \in Index, NEW log \in Logs, NEW step \in {"size", "table"},
           d = dev, log = Log, pc = "step", steps[1] = step, AtWork(d, log, step),
           steps \in Stages(call.kind, d, log), Follows(call.kind, d, log, steps),
           steps' = Tail(steps), total' = Len(Source(d, log)),
           UNCHANGED <<store, pc, call, result, dev, todo, buf, saved, report, needed, grown>>
    PROVE  IInv'
<1>1. /\ TypeOK /\ StoreOK
      /\ UNCHANGED <<store, pc, call, result, dev, todo, buf, saved, outcome, hit, lost, needed, grown>>
      /\ call.kind \in {"capture", "get", "erase"} /\ (call.kind = "erase" => log = "dump")
  BY LogIs, CallIs DEF IInv, report
<1>2. /\ Source(d, log) \in Seq(Pieces) /\ Len(Source(d, log)) \in Nat /\ Source(d, log)' = Source(d, log)
  BY <1>1, SourceIs, SourceStays
<1>3. /\ saved' \in [Index -> [Logs -> Seq(Pieces) \cup {None}]]
      /\ \A e \in Index, l \in Logs : saved'[e][l] = saved[e][l]
  BY <1>1, SavedStays
<1>4. buf = <<>> /\ buf' = <<>> /\ buf' \in Seq(Pieces) /\ Len(buf') = 0
  <2>1. buf = <<>>
    BY DEF AtWork
  <2>2. <<>> \in Seq(Pieces) /\ Len(<<>>) = 0
    OBVIOUS
  <2> QED
    BY <1>1, <2>1, <2>2
<1>5. steps' \in Stages(call.kind, d, log)
  BY DEF Follows, Leading
<1>6. call.kind = "capture" /\ ~Unopened(steps') /\ log # "cli" => saved[d][log] = <<>>
  <2>1. ~Unopened(steps') => ~Unopened(steps)
    BY OpenedBefore DEF Unopened
  <2> QED
    BY <2>1 DEF AtWork
<1>7. CASE call.kind # "erase"
  <2>1. steps'[1] = "upload"
    BY <1>7 DEF Follows
  <2>2. buf' = SubSeq(Source(d, log), 1, Len(buf'))
    BY <1>1, <1>2, <1>4, SubSeqEmpty
  <2>3. AtWork(d, log, "upload")'
    BY <1>1, <1>2, <1>4, <1>6, <2>2, <2>1 DEF AtWork
  <2>4. Going(d, log, "upload")
    BY <1>1, <1>2, <1>3, <1>4, <1>5, <2>1, <2>3 DEF Going
  <2> QED
    BY <2>4, GoingKeeps
<1>8. CASE call.kind = "erase"
  <2>1. steps'[1] = "erase" /\ log = "dump"
    BY <1>1, <1>8 DEF Follows
  <2>2. Len(Source(d, log)) = Slots
    <3>1. "dump" \in Regions /\ Region(log) = "dump" /\ ~FromMemory(d, log)
      BY <2>1, RegionsAre DEF FromMemory
    <3>2. Source(d, log) = store[d]["dump"]
      BY <1>1, <2>1, <3>1, SourceIs
    <3> QED
      BY <1>1, <3>1, <3>2, StoreKeeps DEF Keeps
  <2>3. AtWork(d, log, "erase")'
    BY <1>1, <1>2, <1>4, <1>8, <2>1, <2>2 DEF AtWork, Dumps
  <2>4. Going(d, log, "erase")
    BY <1>1, <1>2, <1>3, <1>4, <1>5, <2>1, <2>3 DEF Going
  <2> QED
    BY <2>4, GoingKeeps
<1> QED
  BY <1>7, <1>8

LEMMA AskSizeKeeps ==
    ASSUME IInv, AskSize
    PROVE  IInv'
<1>1. PICK d \in Index, log \in Logs :
        /\ d = dev /\ log = Log /\ pc = "step" /\ steps[1] = "size" /\ AtWork(d, log, "size")
        /\ steps \in Stages(call.kind, d, log) /\ Follows(call.kind, d, log, steps)
  BY StepIs DEF AskSize
<1>2. /\ steps' = Tail(steps) /\ total' = Len(Source(d, log))
      /\ UNCHANGED <<store, pc, call, result, dev, todo, buf, saved, report, needed, grown>>
  BY <1>1 DEF AskSize, Onward
<1> QED
  BY <1>1, <1>2, AskedFor

LEMMA Fails ==
    ASSUME IInv, NEW d, NEW log, d = dev, log = Log, pc = "step" \/ (pc = "log" /\ todo # <<>>),
           NEW status \in {"failed", "nocoredump", "unsupported"}, End(status),
           status = "failed" => <<d, log>> \in hit', hit \subseteq hit',
           UNCHANGED <<store, call, result, saved, lost, needed, grown>>
    PROVE  IInv'
<1>1. TypeOK
  BY DEF IInv
<1>2. /\ saved' \in [Index -> [Logs -> Seq(Pieces) \cup {None}]]
      /\ \A e \in Index, l \in Logs : saved'[e][l] = saved[e][l]
  BY <1>1, SavedStays
<1>3. needed' \in Nat /\ status \in Statuses \ {"untried"}
  BY <1>1 DEF TypeOK, Statuses
<1>4. Ending(d, log, status)
  BY <1>2, <1>3 DEF Ending
<1> QED
  BY <1>4, EndingKeeps

LEMMA ReadTableKeeps ==
    ASSUME IInv, ReadTable
    PROVE  IInv'
<1>1. PICK d \in Index, log \in Logs :
        /\ d = dev /\ log = Log /\ pc = "step" /\ steps[1] = "table" /\ AtWork(d, log, "table")
        /\ steps \in Stages(call.kind, d, log) /\ Follows(call.kind, d, log, steps)
  BY StepIs DEF ReadTable
<1>2. UNCHANGED <<store, call, result, saved, needed, grown>>
  BY DEF ReadTable
<1>3. CASE Onward /\ total' = Len(Source(dev, Log)) /\ UNCHANGED <<pc, dev, todo, buf, report>>
  BY <1>1, <1>2, <1>3, AskedFor DEF Onward
<1>4. CASE End("nocoredump") /\ UNCHANGED <<hit, lost>>
  BY <1>1, <1>2, <1>4, Fails
<1> QED
  BY <1>3, <1>4 DEF ReadTable

LEMMA BreakKeeps ==
    ASSUME IInv, Break
    PROVE  IInv'
<1>1. PICK d, log : d = dev /\ log = Log
  OBVIOUS
<1>2. /\ pc = "step" /\ hit' = hit \cup {<<d, log>>} /\ End("failed")
      /\ UNCHANGED <<store, call, result, saved, lost, needed, grown>>
  BY <1>1 DEF Break, Breaks
<1> QED
  BY <1>1, <1>2, Fails

LEMMA RefuseKeeps ==
    ASSUME IInv, Refuse
    PROVE  IInv'
<1>1. PICK d, log : d = dev /\ log = Log
  OBVIOUS
<1>2. /\ pc = "step" /\ End("unsupported")
      /\ UNCHANGED <<store, call, result, saved, hit, lost, needed, grown>>
  BY DEF Refuse, Doing
<1> QED
  BY <1>1, <1>2, Fails

LEMMA ValidateKeeps ==
    ASSUME IInv, Validate
    PROVE  IInv'
<1>1. PICK d \in Index, log \in Logs :
        /\ d = dev /\ log = Log /\ pc = "step" /\ steps[1] = "validate" /\ AtWork(d, log, "validate")
        /\ steps \in Stages(call.kind, d, log) /\ Follows(call.kind, d, log, steps)
        /\ TypeOK /\ StoreOK
  BY StepIs DEF Validate
<1>2. UNCHANGED <<store, call, result, saved, needed, grown>>
  BY DEF Validate
<1>3. CASE End("nocoredump") /\ UNCHANGED <<hit, lost>>
  BY <1>1, <1>2, <1>3, Fails
<1>4. CASE ~Unsigned(buf) /\ Onward /\ UNCHANGED <<pc, dev, todo, buf, total, report>>
  <2>1. UNCHANGED <<pc, dev, todo, buf, total, outcome, hit, lost>> /\ steps' = Tail(steps)
    BY <1>4 DEF report, Onward
  <2>2. log \in Dumps /\ buf = Source(d, log)
    BY <1>1 DEF Follows, AtWork
  <2>3. Source(d, log) = store[d]["dump"]
    <3>1. Region(log) = "dump" /\ ~FromMemory(d, log)
      BY <2>2, RegionsAre DEF FromMemory, Dumps
    <3> QED
      BY <1>1, <3>1, SourceIs
  <2>4. ~Unsigned(store[d]["dump"])
    BY <1>4, <2>2, <2>3
  <2>5. steps' \in Stages(call.kind, d, log)
    BY <1>1, <2>1 DEF Follows, Leading
  <2>6. /\ saved' \in [Index -> [Logs -> Seq(Pieces) \cup {None}]]
        /\ \A e \in Index, l \in Logs : saved'[e][l] = saved[e][l]
    BY <1>1, <1>2, SavedStays
  <2>7. Source(d, log)' = Source(d, log) /\ buf' \in Seq(Pieces) /\ total' \in Nat
    BY <1>1, <1>2, <2>1, SourceStays DEF TypeOK
  <2>8. call.kind = "capture" /\ ~Unopened(steps') => saved[d][log] = <<>>
    <3>1. ~Unopened(steps') => ~Unopened(steps)
      BY <1>1, <2>1, OpenedBefore DEF Unopened
    <3>2. log # "cli"
      BY <2>2 DEF Dumps
    <3> QED
      BY <1>1, <3>1, <3>2 DEF AtWork
  <2>9. PICK step \in {"open", "copy"} : step = steps'[1]
    BY <1>1, <2>1 DEF Follows
  <2>10. AtWork(d, log, step)'
    BY <1>2, <2>1, <2>2, <2>4, <2>6, <2>7, <2>8 DEF AtWork, Unsigned, Dumps
  <2>11. Going(d, log, step)
    BY <1>1, <1>2, <2>1, <2>5, <2>6, <2>7, <2>9, <2>10 DEF Going
  <2> QED
    BY <2>11, GoingKeeps
<1> QED
  BY <1>3, <1>4 DEF Validate

LEMMA UploadKeeps ==
    ASSUME IInv, Upload
    PROVE  IInv'
<1>1. PICK d \in Index, log \in Logs :
        /\ d = dev /\ log = Log /\ pc = "step" /\ steps[1] = "upload" /\ AtWork(d, log, "upload")
        /\ steps \in Stages(call.kind, d, log) /\ Follows(call.kind, d, log, steps)
        /\ TypeOK /\ StoreOK
  BY StepIs DEF Upload
<1>2. UNCHANGED <<store, pc, call, result, dev, todo, total, saved, outcome, hit, lost, needed, grown>>
  BY DEF Upload, report
<1>3. /\ saved' \in [Index -> [Logs -> Seq(Pieces) \cup {None}]]
      /\ \A e \in Index, l \in Logs : saved'[e][l] = saved[e][l]
  BY <1>1, <1>2, SavedStays
<1> DEFINE s == Source(d, log)
<1>4. s \in Seq(Pieces) /\ Len(s) \in Nat /\ Source(d, log)' = s
  BY <1>1, <1>2, SourceIs, SourceStays
<1>5. /\ total = Len(s) /\ Len(buf) \in Nat /\ Len(buf) <= Len(s) /\ buf = SubSeq(s, 1, Len(buf))
      /\ log # "cli" /\ call.kind # "erase" /\ total' \in Nat
  BY <1>1, <1>2, LenProperties DEF AtWork, Follows, TypeOK
<1>6. call.kind = "capture" /\ ~Unopened(steps) => saved[d][log] = <<>>
  BY <1>1, <1>5 DEF AtWork
<1> HIDE DEF s
<1>7. CASE Pending(Len(buf), total)
  <2> DEFINE m == Len(buf)
             n == Len(buf) + Transfer(Len(buf), total)
  <2>1. m \in 0..Len(s) /\ n \in m..Len(s) /\ n \in 0..Len(s)
    BY <1>4, <1>5, <1>7, LogAssumption DEF Pending, Transfer, Smaller
  <2>2. buf' = buf \o SubSeq(s, m + 1, n) /\ steps' = steps
    BY <1>1, <1>7 DEF Upload, s
  <2>3. buf = SubSeq(s, 1, m)
    BY <1>5
  <2> HIDE DEF m, n
  <2>4. SubSeq(s, 1, m) \o SubSeq(s, m + 1, n) = SubSeq(s, 1, n)
    BY <1>4, <2>1, LongerBeginning
  <2>5. buf' = SubSeq(s, 1, n)
    BY <2>2, <2>3, <2>4
  <2>6. SubSeq(s, 1, n) \in Seq(Pieces) /\ Len(SubSeq(s, 1, n)) = n
    BY <1>4, <2>1, Beginning
  <2>7. buf' \in Seq(Pieces) /\ Len(buf') <= total' /\ buf' = SubSeq(s, 1, Len(buf'))
    BY <1>2, <1>4, <1>5, <2>1, <2>5, <2>6
  <2>8. AtWork(d, log, "upload")'
    BY <1>2, <1>3, <1>4, <1>5, <1>6, <2>2, <2>7 DEF AtWork, s
  <2>9. Going(d, log, "upload")
    BY <1>1, <1>2, <1>3, <1>5, <2>2, <2>7, <2>8 DEF Going
  <2> QED
    BY <2>9, GoingKeeps
<1>8. CASE ~Pending(Len(buf), total)
  <2>1. steps' = Tail(steps) /\ buf' = buf
    BY <1>8 DEF Upload, Onward
  <2>2. Len(buf) = Len(s)
    BY <1>4, <1>5, <1>8 DEF Pending
  <2>3. buf = s
    BY <1>4, <1>5, <2>2, SubSeqFull
  <2>4. PICK step \in {"validate", "write", "copy"} : step = steps'[1]
    BY <1>1, <2>1 DEF Follows
  <2>5. step \in {"write", "copy"} => log \notin Dumps
    BY <1>1, <2>1, <2>4 DEF Follows
  <2>6. steps' \in Stages(call.kind, d, log)
    BY <1>1, <2>1 DEF Follows, Leading
  <2>7. call.kind = "capture" /\ ~Unopened(steps') => saved[d][log] = <<>>
    <3>1. ~Unopened(steps') => ~Unopened(steps)
      BY <1>1, <2>1, OpenedBefore DEF Unopened
    <3> QED
      BY <1>6, <3>1
  <2>8. buf' \in Seq(Pieces)
    BY <1>4, <2>1, <2>3
  <2>9. AtWork(d, log, step)'
    BY <1>2, <1>3, <1>4, <1>5, <2>1, <2>3, <2>4, <2>5, <2>7 DEF AtWork, s
  <2>10. Going(d, log, step)
    BY <1>1, <1>2, <1>3, <1>5, <2>4, <2>6, <2>8, <2>9 DEF Going
  <2> QED
    BY <2>10, GoingKeeps
<1> QED
  BY <1>7, <1>8

LEMMA OpenKeeps ==
    ASSUME IInv, Open
    PROVE  IInv'
<1>1. PICK d \in Index, log \in Logs :
        /\ d = dev /\ log = Log /\ pc = "step" /\ steps[1] = "open" /\ AtWork(d, log, "open")
        /\ steps \in Stages(call.kind, d, log) /\ Follows(call.kind, d, log, steps)
        /\ TypeOK /\ StoreOK
  BY StepIs DEF Open
<1>2. UNCHANGED <<store, call, result, needed, grown>>
  BY DEF Open
<1>3. CASE hit' = hit \cup {<<dev, Log>>} /\ End("failed") /\ UNCHANGED <<lost, saved>>
  BY <1>1, <1>2, <1>3, Fails
<1>4. CASE saved' = [saved EXCEPT ![dev][Log] = <<>>] /\ Onward /\ UNCHANGED <<pc, dev, todo, buf, total, report>>
  <2>1. UNCHANGED <<pc, dev, todo, buf, total, outcome, hit, lost>> /\ steps' = Tail(steps)
    BY <1>4 DEF report, Onward
  <2>2. /\ saved' \in [Index -> [Logs -> Seq(Pieces) \cup {None}]] /\ saved'[d][log] = <<>>
        /\ \A e \in Index, l \in Logs : <<e, l>> # <<d, log>> => saved'[e][l] = saved[e][l]
    <3>1. <<>> \in Seq(Pieces)
      OBVIOUS
    <3>2. saved' = [saved EXCEPT ![d][log] = <<>>]
      BY <1>1, <1>4
    <3>3. TypeOK
      BY <1>1
    <3> QED
      BY <3>1, <3>2, <3>3, SavedAt, ZenonT(60)
  <2>3. steps' \in Stages(call.kind, d, log)
    BY <1>1, <2>1 DEF Follows, Leading
  <2>4. Source(d, log)' = Source(d, log) /\ buf' \in Seq(Pieces) /\ total' \in Nat
    BY <1>1, <1>2, <2>1, SourceStays DEF TypeOK
  <2>5. call.kind = "capture"
    BY <1>1 DEF Follows
  <2>6. CASE log \in Dumps
    <3>1. steps'[1] = "write"
      BY <1>1, <2>1, <2>6 DEF Follows, Dumps, FromMemory
    <3>2. AtWork(d, log, "write")'
      BY <1>1, <1>2, <2>1, <2>2, <2>4, <2>6 DEF AtWork, Unsigned, Dumps
    <3>3. Going(d, log, "write")
      BY <1>1, <1>2, <2>1, <2>2, <2>3, <2>4, <3>1, <3>2 DEF Going
    <3> QED
      BY <3>3, GoingKeeps
  <2>7. CASE log = "cli"
    <3>1. steps'[1] = "stream"
      BY <1>1, <2>1, <2>7 DEF Follows, Dumps, FromMemory
    <3>2. total' = 0 /\ Output(d)' = Output(d)
      BY <1>1, <1>2, <2>1, <2>7 DEF AtWork, Output
    <3>3. store[d]["cli"] \in Seq(Pieces)
      BY <1>1, RegionsAre, StoreKeeps
    <3>4. Len(Output(d)) \in Nat /\ SubSeq(Output(d), 1, 0) = <<>>
      BY <3>3, LenProperties, SubSeqEmpty DEF Output
    <3>5. saved'[d]["cli"] \in Seq(Pieces) /\ saved'[d]["cli"] = SubSeq(Output(d)', 1, total')
      <4>1. saved'[d]["cli"] = <<>> /\ <<>> \in Seq(Pieces)
        BY <2>2, <2>7
      <4>2. SubSeq(Output(d)', 1, total') = <<>>
        BY <3>2, <3>4
      <4> QED
        BY <4>1, <4>2
    <3>6. AtWork(d, log, "stream")'
      BY <1>2, <2>5, <2>7, <3>2, <3>4, <3>5 DEF AtWork, Dumps
    <3>7. Going(d, log, "stream")
      BY <1>1, <1>2, <2>1, <2>2, <2>3, <2>4, <3>1, <3>6 DEF Going
    <3> QED
      BY <3>7, GoingKeeps
  <2>8. CASE log \notin Dumps /\ log # "cli"
    <3>1. PICK step \in {"refuse", "table", "size"} : step = steps'[1]
      BY <1>1, <2>1, <2>8 DEF Follows, FromMemory
    <3>2. buf = <<>>
      BY <1>1, <2>8 DEF AtWork
    <3>3. AtWork(d, log, step)'
      BY <1>2, <2>1, <2>2, <2>8, <3>1, <3>2 DEF AtWork
    <3>4. Going(d, log, step)
      BY <1>1, <1>2, <2>1, <2>2, <2>3, <2>4, <3>1, <3>3 DEF Going
    <3> QED
      BY <3>4, GoingKeeps
  <2> QED
    BY <2>6, <2>7, <2>8
<1> QED
  BY <1>3, <1>4 DEF Open

LEMMA SendCommandKeeps ==
    ASSUME IInv, SendCommand
    PROVE  IInv'
<1>1. PICK d \in Index, log \in Logs :
        /\ d = dev /\ log = Log /\ pc = "step" /\ steps[1] = "send" /\ AtWork(d, log, "send")
        /\ steps \in Stages(call.kind, d, log) /\ Follows(call.kind, d, log, steps)
        /\ TypeOK /\ StoreOK /\ call.kind \in {"capture", "get", "erase"}
  BY StepIs DEF SendCommand
<1>2. /\ UNCHANGED <<store, pc, call, result, dev, todo, buf, total, outcome, hit, lost, needed, grown>>
      /\ steps' = Tail(steps)
  BY DEF SendCommand, report, Onward
<1>3. log = "cli" /\ buf = <<>> /\ total = 0 /\ "cli" \in Logs
  BY <1>1 DEF Follows, AtWork, Logs
<1>4. steps' \in Stages(call.kind, d, log)
  BY <1>1, <1>2 DEF Follows, Leading
<1>5. Source(d, log)' = Source(d, log) /\ buf' \in Seq(Pieces) /\ total' \in Nat
  BY <1>1, <1>2, SourceStays DEF TypeOK
<1>6. CASE call.kind = "capture"
  <2>1. steps'[1] = "open" /\ saved' = saved
    BY <1>1, <1>2, <1>6 DEF Follows, SendCommand
  <2>2. /\ saved' \in [Index -> [Logs -> Seq(Pieces) \cup {None}]]
        /\ \A e \in Index, l \in Logs : saved'[e][l] = saved[e][l]
    BY <1>1, <2>1, SavedStays
  <2>3. AtWork(d, log, "open")'
    BY <1>2, <1>3 DEF AtWork, Dumps
  <2>4. Going(d, log, "open")
    BY <1>1, <1>2, <1>4, <1>5, <2>1, <2>2, <2>3 DEF Going
  <2> QED
    BY <2>4, GoingKeeps
<1>7. CASE call.kind = "get"
  <2>1. steps'[1] = "stream" /\ saved' = [saved EXCEPT ![d][log] = <<>>]
    BY <1>1, <1>2, <1>7 DEF Follows, SendCommand
  <2>2. /\ saved' \in [Index -> [Logs -> Seq(Pieces) \cup {None}]] /\ saved'[d][log] = <<>>
        /\ \A e \in Index, l \in Logs : <<e, l>> # <<d, log>> => saved'[e][l] = saved[e][l]
    <3>1. <<>> \in Seq(Pieces)
      OBVIOUS
    <3>2. saved' = [saved EXCEPT ![d][log] = <<>>]
      BY <2>1
    <3>3. TypeOK
      BY <1>1
    <3> QED
      BY <3>1, <3>2, <3>3, SavedAt, ZenonT(60)
  <2>3. store[d]["cli"] \in Seq(Pieces)
    BY <1>1, RegionsAre, StoreKeeps
  <2>4. Len(Output(d)) \in Nat /\ SubSeq(Output(d), 1, 0) = <<>> /\ Output(d)' = Output(d)
    BY <1>2, <2>3, LenProperties, SubSeqEmpty DEF Output
  <2>5. saved'[d]["cli"] \in Seq(Pieces) /\ saved'[d]["cli"] = SubSeq(Output(d)', 1, total')
    BY <1>2, <1>3, <2>2, <2>4
  <2>6. call.room \in Nat
    BY <1>1, <1>7, CallIs
  <2>7. AtWork(d, log, "stream")'
    BY <1>2, <1>3, <1>7, <2>4, <2>5, <2>6 DEF AtWork, Dumps
  <2>8. Going(d, log, "stream")
    BY <1>1, <1>2, <1>4, <1>5, <2>1, <2>2, <2>7 DEF Going
  <2> QED
    BY <2>8, GoingKeeps
<1>8. CASE call.kind = "erase"
  BY <1>1, <1>3, <1>8, CallIs DEF Log
<1> QED
  BY <1>1, <1>6, <1>7, <1>8

(* A text that is saved as it is, is the log whole. *)
LEMMA TextIsWhole ==
    ASSUME NEW d \in Index, NEW log \in Logs, log # "cli", NEW text, Fits(d, log, text),
           saved'[d][log] = text, UNCHANGED <<store, call>>
    PROVE  Whole(d, log)'
<1>1. (IF log = "rawdump" THEN store[d]["dump"] ELSE Without(store[d][Region(log)], {Blank})) = Wanted(d, log)
  BY DEF Wanted
<1>2. Without(text, {Header, Beyond}) = Wanted(d, log) /\ \A i \in DOMAIN Wanted(d, log) : Wanted(d, log)[i] # Erased
  BY DEF Fits
<1> DEFINE want == Wanted(d, log)
<1> HIDE DEF want
<1>3. /\ (IF log = "rawdump" THEN store'[d]["dump"] ELSE Without(store'[d][Region(log)], {Blank})) = want
      /\ Without(saved'[d][log], {Header, Beyond}) = want /\ \A i \in DOMAIN want : want[i] # Erased
  BY <1>1, <1>2 DEF want
<1> QED
  BY <1>3 DEF Whole

LEMMA WriteKeeps ==
    ASSUME IInv, Write
    PROVE  IInv'
<1>1. PICK d \in Index, log \in Logs :
        /\ d = dev /\ log = Log /\ pc = "step" /\ steps[1] = "write" /\ AtWork(d, log, "write")
        /\ steps \in Stages(call.kind, d, log) /\ Follows(call.kind, d, log, steps)
        /\ TypeOK /\ StoreOK
  BY StepIs DEF Write
<1>2. UNCHANGED <<store, call, result, hit, needed, grown>> /\ End("success")
  BY DEF Write
<1>3. /\ call.kind = "capture" /\ log # "cli" /\ buf = Source(d, log)
      /\ log \in Dumps => ~Unsigned(store[d]["dump"])
  BY <1>1 DEF Follows, AtWork
<1>4. saved[d][log] = <<>>
  <2>1. Tail(steps) = <<>>
    BY <1>1 DEF Follows, Leading
  <2>2. ~Unopened(steps)
    BY <1>1, <2>1, OpenedBefore DEF Unopened
  <2> QED
    BY <1>1, <1>3, <2>2 DEF AtWork
<1>5. PICK text \in Texts(log, buf) :
        \/ saved' = [saved EXCEPT ![d][log] = saved[d][log] \o text] /\ UNCHANGED lost
        \/ /\ lost' = lost \cup {<<d, log>>}
           /\ \E n \in 0..(Len(text) - 1) : saved' = [saved EXCEPT ![d][log] = saved[d][log] \o SubSeq(text, 1, n)]
  BY <1>1 DEF Write
<1>6. Fits(d, log, text)
  BY <1>1, <1>3, <1>5, TextsFit
<1>7. text \in Seq(Pieces) /\ Len(text) \in Nat
  BY <1>6, LenProperties DEF Fits
<1>8. needed' \in Nat /\ "success" \in Statuses \ {"untried"}
  BY <1>1, <1>2 DEF TypeOK, Statuses
<1>9. CASE saved' = [saved EXCEPT ![d][log] = saved[d][log] \o text] /\ UNCHANGED lost
  <2>1. saved' = [saved EXCEPT ![d][log] = text]
    <3>1. <<>> \o text = text
      BY <1>7, ConcatEmptySeq
    <3> QED
      BY <1>4, <1>9, <3>1
  <2>2. /\ saved' \in [Index -> [Logs -> Seq(Pieces) \cup {None}]] /\ saved'[d][log] = text
        /\ \A e \in Index, l \in Logs : <<e, l>> # <<d, log>> => saved'[e][l] = saved[e][l]
    <3>1. TypeOK
      BY <1>1
    <3> QED
      BY <1>7, <2>1, <3>1, SavedAt, ZenonT(60)
  <2>3. Whole(d, log)'
    BY <1>2, <1>3, <1>6, <2>2, TextIsWhole
  <2>4. Ending(d, log, "success")
    BY <1>1, <1>2, <1>8, <1>9, <2>2, <2>3 DEF Ending
  <2> QED
    BY <2>4, EndingKeeps
<1>10. CASE /\ lost' = lost \cup {<<d, log>>}
            /\ \E n \in 0..(Len(text) - 1) : saved' = [saved EXCEPT ![d][log] = saved[d][log] \o SubSeq(text, 1, n)]
  <2>1. PICK n \in 0..(Len(text) - 1) : saved' = [saved EXCEPT ![d][log] = saved[d][log] \o SubSeq(text, 1, n)]
    BY <1>10
  <2>2. n \in 0..Len(text)
    BY <1>7
  <2> DEFINE part == SubSeq(text, 1, n)
  <2>3. part \in Seq(Pieces)
    BY <1>7, <2>2, Beginning
  <2> HIDE DEF part
  <2>4. saved' = [saved EXCEPT ![d][log] = part]
    <3>1. <<>> \o part = part
      BY <2>3, ConcatEmptySeq
    <3> QED
      BY <1>4, <2>1, <3>1 DEF part
  <2>5. /\ saved' \in [Index -> [Logs -> Seq(Pieces) \cup {None}]]
        /\ \A e \in Index, l \in Logs : <<e, l>> # <<d, log>> => saved'[e][l] = saved[e][l]
    <3>1. TypeOK
      BY <1>1
    <3> QED
      BY <2>3, <2>4, <3>1, SavedAt, ZenonT(60)
  <2>6. Ending(d, log, "success")
    BY <1>1, <1>2, <1>8, <1>10, <2>5 DEF Ending
  <2> QED
    BY <2>6, EndingKeeps
<1> QED
  BY <1>5, <1>9, <1>10

(* The size that is told is enough, whatever is made of the log when asked again. *)
LEMMA NeedsEnough ==
    ASSUME TypeOK, StoreOK, NEW d \in Index, NEW log \in Logs, log \notin {"cli", "rawdump"},
           log \in Dumps => ~Unsigned(store[d]["dump"]),
           NEW text \in Texts(log, Source(d, log)), needed' = Needs(log, Len(text)),
           UNCHANGED <<store, grown>>
    PROVE  needed' \in Nat /\ Enough(d, log, needed)'
<1>1. /\ Len(text) \in Nat /\ Extra \in Nat \ {0} /\ grown \in Nat
      /\ \A other \in Texts(log, Source(d, log)) :
            Len(other) \in Nat /\ Len(other) <= Len(text) + (IF log \in {"raw", "memread"} THEN 1 ELSE 0)
  BY TextsDiffer, LogAssumption DEF TypeOK
<1>2. needed' = IF log = "dump" THEN Len(text) ELSE Len(text) + Extra
  BY DEF Needs
<1>3. needed' \in Nat
  BY <1>1, <1>2
<1>4. CASE log = "trace"
  <2>1. Region(log) = "trace" /\ ~FromMemory(d, log)
    BY <1>4, RegionsAre DEF FromMemory
  <2>2. Source(d, log) = store[d]["trace"]
    BY <2>1, SourceIs
  <2>3. text = store[d]["trace"]
    BY <1>4, <2>2 DEF Texts
  <2>4. Len(store[d]["trace"]) + Extra <= needed' + grown
    BY <1>1, <1>2, <1>4, <2>3
  <2> QED
    BY <1>3, <1>4, <2>4 DEF Enough
<1>5. CASE log # "trace"
  <2>1. \A other \in Texts(log, Source(d, log)) : Len(other) <= needed'
    BY <1>1, <1>2
  <2>2. Source(d, log)' = Source(d, log)
    BY SourceStays
  <2>3. \A other \in Texts(log, Source(d, log)') : Len(other) <= needed'
    BY <2>1, <2>2
  <2> QED
    BY <1>3, <1>5, <2>3 DEF Enough, Texts
<1> QED
  BY <1>4, <1>5

LEMMA CopyKeeps ==
    ASSUME IInv, Copy
    PROVE  IInv'
<1>1. PICK d \in Index, log \in Logs :
        /\ d = dev /\ log = Log /\ pc = "step" /\ steps[1] = "copy" /\ AtWork(d, log, "copy")
        /\ steps \in Stages(call.kind, d, log) /\ Follows(call.kind, d, log, steps)
        /\ TypeOK /\ StoreOK /\ (call.kind # "capture" => log = call.log)
  BY StepIs DEF Copy
<1>2. UNCHANGED <<store, call, result, hit, lost, grown>>
  BY DEF Copy
<1>3. /\ call.kind = "get" /\ log # "cli" /\ buf = Source(d, log) /\ log = call.log
      /\ log \in Dumps => ~Unsigned(store[d]["dump"])
  BY <1>1 DEF Follows, AtWork
<1>4. call.room \in Nat /\ call.again \in BOOLEAN
  BY <1>1, <1>3, CallIs
<1>5. PICK text \in Texts(log, buf) :
        IF Len(text) <= call.room
        THEN saved' = [saved EXCEPT ![d][log] = text] /\ End("success") /\ UNCHANGED needed
        ELSE needed' = Needs(log, Len(text)) /\ End("toosmall") /\ UNCHANGED saved
  BY <1>1 DEF Copy
<1>6. Fits(d, log, text)
  BY <1>1, <1>3, <1>5, TextsFit
<1>7. text \in Seq(Pieces) /\ Len(text) \in Nat
  BY <1>6, LenProperties DEF Fits
<1>8. {"success", "toosmall"} \subseteq Statuses \ {"untried"}
  BY DEF Statuses
<1>9. CASE Len(text) <= call.room
  <2>1. saved' = [saved EXCEPT ![d][log] = text] /\ End("success") /\ UNCHANGED needed
    BY <1>5, <1>9
  <2>2. /\ saved' \in [Index -> [Logs -> Seq(Pieces) \cup {None}]] /\ saved'[d][log] = text
        /\ \A e \in Index, l \in Logs : <<e, l>> # <<d, log>> => saved'[e][l] = saved[e][l]
    <3>1. TypeOK
      BY <1>1
    <3> QED
      BY <1>7, <2>1, <3>1, SavedAt, ZenonT(60)
  <2>3. Whole(d, log)'
    BY <1>2, <1>3, <1>6, <2>2, TextIsWhole
  <2>4. needed' \in Nat
    BY <1>1, <2>1 DEF TypeOK
  <2>5. Ending(d, log, "success")
    BY <1>1, <1>2, <1>8, <2>1, <2>2, <2>3, <2>4 DEF Ending
  <2> QED
    BY <2>5, EndingKeeps
<1>10. CASE ~(Len(text) <= call.room)
  <2>1. needed' = Needs(log, Len(text)) /\ End("toosmall") /\ UNCHANGED saved
    BY <1>5, <1>10
  <2>2. /\ saved' \in [Index -> [Logs -> Seq(Pieces) \cup {None}]]
        /\ \A e \in Index, l \in Logs : saved'[e][l] = saved[e][l]
    BY <1>1, <2>1, SavedStays
  <2>3. needed' \in Nat
    BY <1>4, <1>7, <2>1, LogAssumption DEF Needs
  <2>4. ASSUME log # "rawdump", call.again PROVE log = "trace" /\ grown > Extra
    <3>1. Enough(d, log, call.room)
      BY <1>1, <1>3, <2>4 DEF IInv, Told
    <3>2. log = "trace"
      BY <1>3, <1>5, <1>10, <3>1 DEF Enough
    <3>3. Region(log) = "trace" /\ ~FromMemory(d, log)
      BY <3>2, RegionsAre DEF FromMemory
    <3>4. text = store[d]["trace"]
      BY <1>1, <1>3, <1>5, <3>2, <3>3, SourceIs DEF Texts
    <3>5. Len(text) + Extra <= call.room + grown
      BY <3>1, <3>2, <3>4 DEF Enough
    <3>6. grown \in Nat /\ Extra \in Nat
      BY <1>1, LogAssumption DEF TypeOK
    <3> QED
      BY <1>4, <1>7, <1>10, <3>2, <3>5, <3>6
  <2>5. log # "rawdump" => Enough(d, log, needed)'
    BY <1>1, <1>2, <1>3, <1>5, <2>1, NeedsEnough
  <2>6. log # "rawdump" => IF call.again THEN log = "trace" /\ grown > Extra ELSE Enough(d, log, needed)'
    BY <2>4, <2>5
  <2>7. Ending(d, log, "toosmall")
    BY <1>1, <1>2, <1>3, <1>8, <2>1, <2>2, <2>3, <2>6 DEF Ending
  <2> QED
    BY <2>7, EndingKeeps
<1> QED
  BY <1>9, <1>10

(* The output of a command line, as far as the buffer has room. *)
LEMMA OutputIsWhole ==
    ASSUME TypeOK, StoreOK, NEW d \in Index, NEW m \in 0..Len(Output(d)),
           call.kind = "get" => m = Smaller(call.room, Len(Output(d))),
           call.kind # "get" => m = Len(Output(d)),
           saved'[d]["cli"] = SubSeq(Output(d), 1, m), UNCHANGED <<store, call>>
    PROVE  Whole(d, "cli")'
<1> DEFINE s == Output(d)
           part == SubSeq(s, 1, m)
<1>1. s \in Seq(Pieces) /\ Keeps(s, "cli")
  BY RegionsAre, StoreKeeps DEF Output
<1>2. Without(s, {Blank}) = s /\ \A i \in 1..Len(s) : s[i] \notin {Header, Beyond} /\ s[i] # Erased
  BY <1>1, PlainText DEF Keeps
<1>3. /\ part \in Seq(Pieces) /\ Len(part) = m /\ \A i \in 1..m : part[i] = s[i]
      /\ Len(s) \in Nat
  BY <1>1, Beginning, LenProperties
<1>4. SubSeq(s, 1, Len(s)) = s
  BY <1>1, SubSeqFull
<1>5. part = IF call.kind = "get" THEN SubSeq(s, 1, Smaller(call.room, Len(s))) ELSE s
  BY <1>4
<1> HIDE DEF part
<1>6. \A i \in 1..Len(part) : part[i] \notin {Header, Beyond} /\ part[i] # Erased
  BY <1>2, <1>3
<1>7. Without(part, {Header, Beyond}) = part
  BY <1>3, <1>6, WithoutNone
<1>8. DOMAIN part = 1..Len(part)
  BY <1>3, LenProperties
<1>9. \A i \in DOMAIN part : part[i] # Erased
  BY <1>6, <1>8
<1>10. saved'[d]["cli"] = part
  BY DEF part
<1>11. /\ Without(store'[d][Region("cli")], {Blank}) = s /\ call' = call
  BY <1>2, RegionsAre DEF Output
<1> HIDE DEF s
<1> QED
  BY <1>5, <1>7, <1>9, <1>10, <1>11 DEF Whole

LEMMA StreamKeeps ==
    ASSUME IInv, Stream
    PROVE  IInv'
<1>1. PICK d \in Index, log \in Logs :
        /\ d = dev /\ log = Log /\ pc = "step" /\ steps[1] = "stream" /\ AtWork(d, log, "stream")
        /\ steps \in Stages(call.kind, d, log) /\ Follows(call.kind, d, log, steps)
        /\ TypeOK /\ StoreOK
  BY StepIs DEF Stream
<1>2. UNCHANGED <<store, call, result, hit, needed, grown>>
  BY DEF Stream
<1> DEFINE output == Output(d)
           end    == Smaller(total + Chunk, Len(output))
           full   == call.kind = "get" /\ end > call.room
           part   == SubSeq(output, total + 1, end)
           added  == IF full THEN SubSeq(part, 1, call.room - total) ELSE part
           last   == IF full THEN call.room ELSE end
<1>3. /\ log = "cli" /\ call.kind # "erase" /\ total \in Nat /\ total <= Len(output)
      /\ call.kind = "get" => total <= call.room /\ call.room \in Nat
      /\ saved[d]["cli"] \in Seq(Pieces)
      /\ <<d, log>> \notin lost => saved[d]["cli"] = SubSeq(output, 1, total)
  BY <1>1, CallIs DEF Follows, AtWork, TypeOK
<1>4. output \in Seq(Pieces) /\ Len(output) \in Nat
  <2>1. output \in Seq(Pieces)
    BY <1>1, RegionsAre, StoreKeeps DEF Output
  <2> QED
    BY <2>1, LenProperties
<1>5. /\ \/ saved' = [saved EXCEPT ![d]["cli"] = saved[d]["cli"] \o added] /\ UNCHANGED lost
         \/ lost' = lost \cup {<<d, "cli">>} /\ UNCHANGED saved
      /\ IF end = Len(output) \/ full
         THEN End("success")
         ELSE total' = end /\ UNCHANGED <<pc, dev, todo, steps, buf, outcome>>
  BY <1>1, <1>3 DEF Stream, Output
<1> HIDE DEF output
<1>6. /\ end \in total..Len(output) /\ end \in 0..Len(output)
      /\ last \in total..Len(output) /\ last \in 0..Len(output) /\ total \in 0..Len(output)
      /\ ~full /\ call.kind = "get" => end <= call.room
  <2>1. Chunk \in Nat \ {0}
    BY LogAssumption
  <2> QED
    BY <1>3, <1>4, <2>1 DEF Smaller
<1>7. added = SubSeq(output, total + 1, last)
  <2>1. CASE ~full
    BY <2>1
  <2>2. CASE full
    <3>1. /\ total + 1 \in Nat /\ total + 1 \in 1..(Len(output) + 1) /\ end \in Int
          /\ call.room - total \in Int /\ total + 1 + (call.room - total) - 1 = call.room
          /\ total + 1 + 1 - 1 = total + 1
      BY <1>3, <1>4, <1>6, <2>2
    <3>2. /\ total + 1 \in 1..(Len(output) + 1) /\ end \in (total + 1 - 1)..Len(output)
          /\ 1 \in 1..(end - (total + 1) + 2) /\ call.room - total \in (1 - 1)..(end - (total + 1) + 1)
      BY <1>3, <1>4, <1>6, <2>2
    <3> DEFINE a == total + 1
               k == call.room - total
    <3>3. /\ a \in 1..(Len(output) + 1) /\ end \in (a - 1)..Len(output)
          /\ 1 \in 1..(end - a + 2) /\ k \in (1 - 1)..(end - a + 1)
          /\ a + 1 - 1 = a /\ a + k - 1 = call.room
      BY <3>1, <3>2
    <3> HIDE DEF a, k, end
    <3>4. SubSeq(SubSeq(output, a, end), 1, k) = SubSeq(output, a + 1 - 1, a + k - 1)
      BY <1>4, <3>3, SubSeqOfSubSeq
    <3>5. SubSeq(SubSeq(output, a, end), 1, k) = SubSeq(output, a, call.room)
      BY <3>3, <3>4
    <3> QED
      BY <2>2, <3>5 DEF a, k
  <2> QED
    BY <2>1, <2>2
<1>8. added \in Seq(Pieces)
  <2>1. /\ total + 1 \in Nat \ {0} /\ last \in Int
        /\ \A i \in (total + 1)..last : i \in 1..Len(output)
    BY <1>3, <1>4, <1>6
  <2>2. \A i \in (total + 1)..last : output[i] \in Pieces
    BY <1>4, <2>1, ElementOfSeq
  <2> HIDE DEF last, added
  <2> QED
    BY <1>7, <2>1, <2>2, SubSeqProperties
<1> HIDE DEF added, last, end, part
<1>9. /\ saved' \in [Index -> [Logs -> Seq(Pieces) \cup {None}]] /\ saved'[d]["cli"] \in Seq(Pieces)
      /\ \A e \in Index, l \in Logs : <<e, l>> # <<d, log>> => saved'[e][l] = saved[e][l]
      /\ lost \subseteq lost'
      /\ <<d, log>> \notin lost' => saved'[d]["cli"] = SubSeq(output, 1, last)
  <2>1. CASE saved' = [saved EXCEPT ![d]["cli"] = saved[d]["cli"] \o added] /\ UNCHANGED lost
    <3> DEFINE v == saved[d]["cli"] \o added
    <3>1. v \in Seq(Pieces)
      BY <1>3, <1>8, ConcatProperties
    <3>2. /\ saved' \in [Index -> [Logs -> Seq(Pieces) \cup {None}]] /\ saved'[d][log] = v
          /\ \A e \in Index, l \in Logs : <<e, l>> # <<d, log>> => saved'[e][l] = saved[e][l]
      <4>1. TypeOK /\ saved' = [saved EXCEPT ![d][log] = v]
        BY <1>1, <1>3, <2>1
      <4> HIDE DEF v
      <4> QED
        BY <3>1, <4>1, SavedAt, ZenonT(60)
    <3>3. SubSeq(output, 1, total) \o SubSeq(output, total + 1, last) = SubSeq(output, 1, last)
      BY <1>4, <1>6, LongerBeginning
    <3>4. <<d, log>> \notin lost => v = SubSeq(output, 1, last)
      BY <1>3, <1>7, <3>3
    <3> HIDE DEF v
    <3> QED
      BY <1>3, <2>1, <3>1, <3>2, <3>4
  <2>2. CASE lost' = lost \cup {<<d, "cli">>} /\ UNCHANGED saved
    BY <1>1, <1>3, <2>2, SavedStays
  <2> QED
    BY <1>5, <2>1, <2>2
<1>10. CASE end = Len(output) \/ full
  <2>1. End("success") /\ needed' \in Nat /\ "success" \in Statuses \ {"untried"}
    BY <1>1, <1>2, <1>5, <1>10 DEF TypeOK, Statuses
  <2>2. ASSUME <<d, log>> \notin lost' PROVE Whole(d, log)'
    <3>1. call.kind = "get" => last = Smaller(call.room, Len(output))
      BY <1>3, <1>4, <1>6, <1>10 DEF last, Smaller, end
    <3>2. call.kind # "get" => last = Len(output)
      BY <1>10 DEF last
    <3>3. saved'[d]["cli"] = SubSeq(output, 1, last)
      BY <1>9, <2>2
    <3>4. Whole(d, "cli")'
      BY <1>1, <1>2, <1>6, <3>1, <3>2, <3>3, OutputIsWhole DEF output
    <3> QED
      BY <1>3, <3>4
  <2>3. Ending(d, log, "success")
    BY <1>1, <1>2, <1>9, <2>1, <2>2 DEF Ending
  <2> QED
    BY <2>3, EndingKeeps
<1>11. CASE ~(end = Len(output) \/ full)
  <2>1. total' = end /\ UNCHANGED <<pc, dev, todo, steps, buf, outcome>> /\ last = end
    BY <1>5, <1>11 DEF last
  <2>2. buf' \in Seq(Pieces) /\ total' \in Nat
    BY <1>1, <1>6, <2>1, <1>4 DEF TypeOK
  <2>3. Output(d)' = output /\ total' <= Len(output) /\ (call.kind = "get" => total' <= call.room)
    BY <1>2, <1>4, <1>6, <1>11, <2>1 DEF output, Output
  <2>4. AtWork(d, log, "stream")'
    BY <1>2, <1>3, <1>9, <2>1, <2>3 DEF AtWork, Dumps
  <2>5. Going(d, log, "stream")
    BY <1>1, <1>2, <1>9, <2>1, <2>2, <2>4 DEF Going
  <2> QED
    BY <2>5, GoingKeeps
<1> QED
  BY <1>10, <1>11

LEMMA EraseChunkKeeps ==
    ASSUME IInv, EraseChunk
    PROVE  IInv'
<1>1. PICK d \in Index, log \in Logs :
        /\ d = dev /\ log = Log /\ pc = "step" /\ steps[1] = "erase" /\ AtWork(d, log, "erase")
        /\ steps \in Stages(call.kind, d, log) /\ Follows(call.kind, d, log, steps)
        /\ TypeOK /\ StoreOK /\ (call.kind # "capture" => log = call.log)
  BY StepIs DEF EraseChunk
<1>2. UNCHANGED <<call, result, saved, hit, lost, needed, grown>>
  BY DEF EraseChunk
<1>3. call.kind = "erase" /\ log = "dump" /\ "dump" \in Regions
  BY <1>1, CallIs, RegionsAre DEF Follows
<1> DEFINE s    == store[d]["dump"]
           sent == Len(buf)
           next == sent + Transfer(sent, total)
<1>4. /\ total = Slots /\ sent <= total /\ sent \in Nat /\ Slots \in Nat \ {0} /\ Chunk \in Nat \ {0}
      /\ sent # 0 /\ s[1] # Blank => s[1] = Erased
  <2>1. Len(buf) \in Nat /\ (Len(buf) # 0 => buf # <<>>)
    BY <1>1, LenProperties DEF TypeOK
  <2> QED
    BY <1>1, <2>1, LogAssumption DEF AtWork
<1>5. CASE End("success") /\ UNCHANGED store
  <2>1. /\ saved' \in [Index -> [Logs -> Seq(Pieces) \cup {None}]]
        /\ \A e \in Index, l \in Logs : saved'[e][l] = saved[e][l]
    BY <1>1, <1>2, SavedStays
  <2>2. needed' \in Nat /\ "success" \in Statuses \ {"untried"}
    BY <1>1, <1>2 DEF TypeOK, Statuses
  <2>3. Ending(d, log, "success")
    BY <1>1, <1>2, <1>3, <1>5, <2>1, <2>2 DEF Ending
  <2> QED
    BY <2>3, EndingKeeps
<1> DEFINE t == [i \in 1..Slots |-> IF i \in (sent + 1)..next /\ s[i] # Blank THEN Erased ELSE s[i]]
<1>6. CASE /\ Pending(sent, total) /\ store' = [store EXCEPT ![d]["dump"] = t]
           /\ buf' = [i \in 1..next |-> Blank]
           /\ UNCHANGED <<pc, dev, todo, steps, total, outcome>>
  <2>1. s \in Seq(Pieces) /\ Len(s) = Slots /\ Keeps(s, "dump")
    BY <1>1, <1>3, StoreKeeps DEF Keeps
  <2>2. next \in Nat /\ next > sent /\ next <= total
    BY <1>4, <1>6 DEF Pending, Transfer, Smaller
  <2>3. \A i \in 1..Slots : s[i] \in Pieces
    BY <2>1, ElementOfSeq
  <2> HIDE DEF s, next
  <2>4. /\ t \in Seq(Pieces) /\ Len(t) = Slots
        /\ \A i \in 1..Slots : t[i] = IF i \in (sent + 1)..next /\ s[i] # Blank THEN Erased ELSE s[i]
    <3>1. Erased \in Pieces
      BY MarksDiffer DEF Marks
    <3>2. t \in [1..Slots -> Pieces]
      BY <2>3, <3>1
    <3>3. t \in Seq(Pieces)
      BY <1>4, <3>2
    <3>4. Len(t) = Slots
      BY <1>4, <3>2, <3>3, LenProperties
    <3> QED
      BY <3>3, <3>4
  <2> HIDE DEF t, sent
  <2>5. PICK m \in 0..Len(s) : \A i \in 1..Len(s) : s[i] = Blank <=> i > m
    BY <2>1 DEF Keeps, BlankLast
  <2>6. \A i \in 1..Len(t) : t[i] = Blank <=> i > m
    BY <2>1, <2>4, <2>5, MarksDiffer
  <2>7. \A i \in 1..Len(t) : t[i] \notin {Header, Beyond}
    BY <2>1, <2>4, MarksDiffer DEF Keeps
  <2>8. 1 \in 1..Slots /\ (t[1] # Blank => t[1] = Erased)
    <3>1. 1 \in 1..Slots
      BY <1>4
    <3>2. t[1] = IF 1 \in (sent + 1)..next /\ s[1] # Blank THEN Erased ELSE s[1]
      BY <2>4, <3>1
    <3>3. CASE sent = 0
      <4>1. 1 \in (sent + 1)..next
        BY <2>2, <3>3
      <4> QED
        BY <3>1, <3>2, <4>1
    <3>4. CASE sent # 0
      BY <1>4, <3>1, <3>2, <3>4
    <3> QED
      BY <3>3, <3>4
  <2>9. \A i \in 1..Len(t) : t[i] = Erased => t[1] = Erased
    <3>1. ASSUME NEW i \in 1..Slots, t[i] = Erased PROVE t[1] = Erased
      <4>1. i <= m /\ 1 <= m
        BY <2>1, <2>4, <2>5, <2>6, <3>1, MarksDiffer, <1>4
      <4>2. t[1] # Blank
        BY <1>4, <2>1, <2>4, <2>5, <2>6, <2>8, <4>1
      <4> QED
        BY <2>8, <4>2
    <3> QED
      BY <2>4, <3>1
  <2>10. Keeps(t, "dump")
    BY <2>1, <2>4, <2>5, <2>6, <2>7, <2>9 DEF Keeps, BlankLast
  <2>11. /\ store' \in [Index -> [Regions -> Seq(Pieces)]] /\ store'[d]["dump"] = t
         /\ \A e \in Index, r \in Regions : <<e, r>> # <<d, "dump">> => store'[e][r] = store[e][r]
    <3>1. store \in [Index -> [Regions -> Seq(Pieces)]]
      BY <1>1 DEF TypeOK
    <3>2. store' = [store EXCEPT ![d]["dump"] = t]
      BY <1>6
    <3> QED
      BY <1>3, <2>4, <3>1, <3>2
  <2>12. StoreOK'
    <3>1. ASSUME NEW e \in Index, NEW r \in Regions PROVE Keeps(store'[e][r], r)
      <4>1. CASE <<e, r>> = <<d, "dump">>
        <5>1. e = d /\ r = "dump"
          BY <4>1
        <5> QED
          BY <2>10, <2>11, <5>1
      <4>2. CASE <<e, r>> # <<d, "dump">>
        BY <1>1, <2>11, <4>2 DEF StoreOK
      <4> QED
        BY <4>1, <4>2
    <3> QED
      BY <3>1 DEF StoreOK, Keeps, BlankLast
  <2>13. buf' \in Seq(Pieces) /\ Len(buf') = next
    <3>1. Blank \in Pieces
      BY MarksDiffer DEF Marks
    <3>2. buf' = [i \in 1..next |-> Blank] /\ buf' \in [1..next -> Pieces]
      BY <1>6, <3>1
    <3>3. buf' \in Seq(Pieces)
      BY <2>2, <3>2
    <3> QED
      BY <2>2, <3>2, <3>3, LenProperties
  <2>14. TypeOK'
    BY <1>1, <1>2, <1>6, <2>11, <2>13 DEF TypeOK
  <2>15. Course /\ Capturing
    BY DEF IInv
  <2>16. Course'
    <3>1. Stages(call.kind, dev, Log)' = Stages(call.kind, d, log)
      BY <1>1, <1>2, <1>6 DEF Stages, FromMemory, SG, Log
    <3> QED
      BY <1>1, <1>2, <1>3, <1>6, <2>15, <3>1 DEF Course
  <2>17. Capturing'
    BY <1>2, <1>3, <1>6, <2>15 DEF Capturing
  <2>18. Working'
    <3>1. AtWork(d, log, "erase")'
      BY <1>2, <1>3, <1>4, <1>6, <2>2, <2>8, <2>11, <2>13 DEF AtWork
    <3>2. dev' = d /\ Log' = log /\ steps'[1] = "erase"
      BY <1>1, <1>2, <1>3, <1>6 DEF Log
    <3> QED
      BY <3>1, <3>2 DEF Working, AtWork
  <2>19. Told' /\ SavedWhole' /\ SizeToldSuffices'
    BY <1>2, <1>3 DEF Told, SavedWhole, SizeToldSuffices
  <2> QED
    BY <2>12, <2>14, <2>16, <2>17, <2>18, <2>19 DEF IInv
<1> QED
  BY <1>1, <1>5, <1>6 DEF EraseChunk

-----------------------------------------------------------------------------
(* The calls *)

LEMMA IndexIs ==
    /\ Index \subseteq Nat \ {0}
    /\ \A n \in Nat : n + 1 \notin Index => \A e \in Index : e <= n
<1>1. Len(Devices) \in Nat /\ Index = 1..Len(Devices)
  BY LogAssumption, LenProperties DEF Index
<1> QED
  BY <1>1

(* Before the first step of a log. *)
LEMMA Started ==
    ASSUME NEW kind \in {"capture", "get"}, NEW d \in Index, NEW log \in Logs, NEW step,
           step = Recipe(kind, d, log)[1], steps' = Recipe(kind, d, log),
           buf' = <<>>, total' = 0, call'.kind = kind
    PROVE  AtWork(d, log, step)' /\ steps'[1] = step /\ steps' \in Stages(kind, d, log)
<1>1. /\ steps' \in Stages(kind, d, log)
      /\ step \in {"open", "size", "table", "send", "refuse"}
      /\ step = "open" => log \notin Dumps
      /\ kind = "capture" => Unopened(steps')
  <2> DEFINE s == Recipe(kind, d, log)
  <2>1. /\ s \in Stages(kind, d, log) /\ s[1] \in {"open", "size", "table", "send", "refuse"}
        /\ s[1] = "open" => log \notin Dumps
        /\ kind = "capture" => Unopened(s)
    BY RecipeIs
  <2>2. steps' = s /\ step = s[1]
    OBVIOUS
  <2>3. Unopened(steps') <=> Unopened(s)
    BY <2>2 DEF Unopened
  <2> QED
    BY <2>1, <2>2, <2>3
<1> QED
  BY <1>1 DEF AtWork

LEMMA Begun ==
    ASSUME IInv, NEW c \in Calls, NEW d \in Nat, NEW p \in {"device", "step"}, NEW recipe, Begin(c, d, p, recipe)
    PROVE  /\ TypeOK' /\ StoreOK' /\ SavedWhole' /\ SizeToldSuffices'
           /\ \A e \in Index, l \in Logs : outcome'[e][l] = "untried"
<1>1. /\ call' = c /\ dev' = d /\ pc' = p /\ todo' = <<>> /\ buf' = <<>> /\ total' = 0
      /\ result' = "none" /\ saved' = AllOf(None) /\ outcome' = AllOf("untried")
      /\ needed' = 0 /\ grown' = 0 /\ UNCHANGED store
  BY DEF Begin
<1>2. \A e \in Index, l \in Logs : outcome'[e][l] = "untried"
  BY <1>1 DEF AllOf
<1>3. TypeOK /\ StoreOK
  BY DEF IInv
<1>4. TypeOK'
  <2>1. saved' \in [Index -> [Logs -> Seq(Pieces) \cup {None}]]
    BY <1>1 DEF AllOf
  <2>2. outcome' \in [Index -> [Logs -> Statuses]]
    BY <1>1 DEF AllOf, Statuses
  <2>3. buf' \in Seq(Pieces) /\ todo' \in Seq(Logs)
    BY <1>1
  <2> QED
    BY <1>1, <1>3, <2>1, <2>2, <2>3 DEF TypeOK
<1>5. StoreOK'
  BY <1>1, <1>3, StoreStays
<1>6. SavedWhole' /\ SizeToldSuffices'
  BY <1>1, <1>2 DEF SavedWhole, SizeToldSuffices
<1> QED
  BY <1>2, <1>4, <1>5, <1>6

LEMMA CaptureLogsKeeps ==
    ASSUME IInv, NEW flags \in SUBSET Flags, CaptureLogs(flags)
    PROVE  IInv'
<1> DEFINE c == [kind |-> "capture", flags |-> flags]
<1>1. Begin(c, 0, "device", <<>>)
  BY DEF CaptureLogs
<1>2. c \in Calls /\ c.kind = "capture"
  BY ZenonT(40) DEF Calls, Captures
<1> HIDE DEF c
<1>3. /\ TypeOK' /\ StoreOK' /\ SavedWhole' /\ SizeToldSuffices'
      /\ \A e \in Index, l \in Logs : outcome'[e][l] = "untried"
  BY <1>1, <1>2, Begun
<1>4. /\ call' = c /\ dev' = 0 /\ pc' = "device" /\ todo' = <<>> /\ buf' = <<>> /\ total' = 0 /\ result' = "none"
  BY <1>1 DEF Begin
<1>5. Course'
  BY <1>2, <1>4 DEF Course
<1>6. Capturing'
  <2>1. Once(<<>>)
    BY DEF Once
  <2>2. Once(todo')
    BY <1>4, <2>1 DEF Once
  <2>3. dev' \notin Index /\ \A e \in Index : ~(e < dev')
    BY <1>4, IndexIs
  <2> QED
    BY <1>2, <1>3, <1>4, <2>2, <2>3 DEF Capturing
<1>7. Working' /\ Told'
  BY <1>2, <1>4 DEF Working, Told
<1> QED
  BY <1>3, <1>5, <1>6, <1>7 DEF IInv

LEMMA GetLogKeeps ==
    ASSUME IInv, NEW d \in Index, NEW log \in Logs, NEW room \in Nat, GetLog(d, log, room)
    PROVE  IInv'
<1> DEFINE c == [kind |-> "get", log |-> log, room |-> room, again |-> FALSE]
           recipe == Recipe("get", d, log)
<1>1. Begin(c, d, "step", recipe)
  BY DEF GetLog
<1>2. c \in Calls /\ c.kind = "get" /\ c.log = log /\ c.again = FALSE
  <2>1. c \in Gets
    BY ZenonT(40) DEF Gets
  <2> QED
    BY <2>1 DEF Calls
<1>3. d \in Nat
  BY IndexIs
<1> HIDE DEF c
<1>4. /\ TypeOK' /\ StoreOK' /\ SavedWhole' /\ SizeToldSuffices'
      /\ \A e \in Index, l \in Logs : outcome'[e][l] = "untried"
  BY <1>1, <1>2, <1>3, Begun
<1>5. /\ call' = c /\ dev' = d /\ pc' = "step" /\ steps' = recipe /\ buf' = <<>> /\ total' = 0 /\ result' = "none"
  BY <1>1 DEF Begin
<1>6. PICK step : step = recipe[1]
  OBVIOUS
<1>7. AtWork(d, log, step)' /\ steps'[1] = step /\ steps' \in Stages("get", d, log)
  BY <1>2, <1>5, <1>6, Started
<1>8. Log' = log
  BY <1>2, <1>5 DEF Log
<1> HIDE DEF recipe
<1>9. Course'
  <2>1. Stages(call.kind, dev, Log)' = Stages("get", d, log)
    BY <1>2, <1>5, <1>8 DEF Stages, FromMemory, SG
  <2> QED
    BY <1>2, <1>4, <1>5, <1>7, <2>1 DEF Course
<1>10. Capturing'
  BY <1>2, <1>4, <1>5 DEF Capturing
<1>11. Working'
  BY <1>5, <1>7, <1>8 DEF Working, AtWork
<1>12. Told'
  BY <1>2, <1>5 DEF Told
<1> QED
  BY <1>4, <1>9, <1>10, <1>11, <1>12 DEF IInv

LEMMA EraseCoreDumpKeeps ==
    ASSUME IInv, NEW d \in Index, EraseCoreDump(d)
    PROVE  IInv'
<1> DEFINE c == [kind |-> "erase", log |-> "dump"]
<1>1. Begin(c, d, "step", <<"size", "erase">>)
  BY DEF EraseCoreDump
<1>2. c \in Calls /\ c.kind = "erase" /\ c.log = "dump"
  <2>1. c \in Erasures
    BY ZenonT(40) DEF Erasures
  <2> QED
    BY <2>1 DEF Calls
<1>3. d \in Nat
  BY IndexIs
<1> HIDE DEF c
<1>4. /\ TypeOK' /\ StoreOK' /\ SavedWhole' /\ SizeToldSuffices'
      /\ \A e \in Index, l \in Logs : outcome'[e][l] = "untried"
  BY <1>1, <1>2, <1>3, Begun
<1>5. /\ call' = c /\ dev' = d /\ pc' = "step" /\ steps' = <<"size", "erase">> /\ buf' = <<>> /\ result' = "none"
  BY <1>1 DEF Begin
<1>6. Log' = "dump" /\ steps'[1] = "size"
  BY <1>2, <1>5 DEF Log
<1>7. Course'
  <2>1. steps' \in Stages(call.kind, dev, Log)'
    BY <1>2, <1>5 DEF Stages
  <2> QED
    BY <1>2, <1>5, <2>1 DEF Course
<1>8. Capturing'
  BY <1>2, <1>4 , <1>5 DEF Capturing
<1>9. Working'
  BY <1>2, <1>5, <1>6 DEF Working, AtWork
<1>10. Told'
  BY <1>2, <1>5 DEF Told
<1> QED
  BY <1>4, <1>7, <1>8, <1>9, <1>10 DEF IInv

LEMMA NextDeviceKeeps ==
    ASSUME IInv, NextDevice
    PROVE  IInv'
<1>1. /\ pc = "device" /\ dev' = dev + 1
      /\ UNCHANGED <<store, call, steps, buf, total, saved, outcome, hit, lost, needed, grown>>
      /\ IF dev' \in Index THEN pc' = "log" /\ todo' = LogsOf(dev', call.flags) /\ UNCHANGED result
                           ELSE pc' = "idle" /\ result' = "success" /\ UNCHANGED todo
  BY DEF NextDevice, report
<1>2. TypeOK /\ StoreOK /\ Course /\ Capturing /\ SavedWhole /\ dev \in Nat
  BY DEF IInv, TypeOK
<1>3. call.kind = "capture" /\ buf = <<>> /\ total = 0 /\ result # "success"
  BY <1>1, <1>2 DEF Course
<1>4. ASSUME dev' \in Index
      PROVE  /\ todo' \in Seq(Logs) /\ Once(todo')
             /\ \A i \in 1..Len(todo') : todo'[i] \in Logs /\ outcome[dev'][todo'[i]] = "untried"
  <2> DEFINE t == LogsOf(dev + 1, call.flags)
  <2>1. t \in Seq(Logs) /\ Once(t) /\ todo' = t
    BY <1>1, <1>4, LogsAreOnce
  <2>2. Once(todo')
    BY <2>1 DEF Once
  <2>3. \A i \in 1..Len(t) : t[i] \in Logs
    BY <2>1, ElementOfSeq
  <2>4. \A l \in Logs : outcome[dev'][l] = "untried"
    BY <1>1, <1>2, <1>3, <1>4 DEF Capturing
  <2> HIDE DEF t
  <2> QED
    BY <2>1, <2>2, <2>3, <2>4
<1>5. TypeOK'
  BY <1>1, <1>2, <1>4 DEF TypeOK
<1>6. StoreOK'
  BY <1>1, <1>2, StoreStays
<1>7. Course'
  BY <1>1, <1>2, <1>3 DEF Course
<1>8. Capturing'
  <2>1. ASSUME NEW e \in Index PROVE Tried(e)' <=> Tried(e)
    BY <1>1 DEF Tried
  <2>2. ASSUME NEW e \in Index, e < dev' PROVE Tried(e)
    <3>1. e \in Nat
      BY IndexIs
    <3>2. e < dev \/ e = dev
      BY <1>1, <1>2, <2>2, <3>1
    <3> QED
      BY <1>1, <1>2, <1>3, <3>2 DEF Capturing
  <2>3. ASSUME NEW e \in Index, NEW l \in Logs, e > dev' PROVE outcome'[e][l] = "untried"
    <3>1. e > dev
      BY <1>1, <1>2, <2>3, IndexIs
    <3> QED
      BY <1>1, <1>2, <1>3, <3>1 DEF Capturing
  <2>4. CASE dev' \in Index
    <3>1. \A l \in ToSet(LogsOf(dev, call.flags)') : l \in ToSet(todo')
      BY <1>1, <2>4
    <3> QED
      BY <1>1, <1>2, <1>3, <1>4, <2>1, <2>2, <2>3, <2>4, <3>1 DEF Capturing
  <2>5. CASE dev' \notin Index
    <3>1. \A e \in Index : e < dev'
      <4>1. \A e \in Index : e <= dev /\ e \in Nat
        BY <1>1, <1>2, <2>5, IndexIs
      <4> QED
        BY <1>1, <1>2, <4>1
    <3>2. Once(todo')
      BY <1>1, <1>2, <1>3, <2>5 DEF Capturing, Once
    <3> QED
      BY <1>1, <1>2, <1>3, <2>1, <2>2, <2>3, <2>5, <3>1, <3>2 DEF Capturing
  <2> QED
    BY <2>4, <2>5
<1>9. Working' /\ Told' /\ SizeToldSuffices'
  BY <1>1, <1>3 DEF Working, Told, SizeToldSuffices
<1>10. SavedWhole'
  BY <1>1, <1>2, SavedWholeStays
<1> QED
  BY <1>5, <1>6, <1>7, <1>8, <1>9, <1>10 DEF IInv

LEMMA NextLogKeeps ==
    ASSUME IInv, NextLog
    PROVE  IInv'
<1>1. pc = "log" /\ UNCHANGED <<store, call, result, saved, needed, grown>>
  BY DEF NextLog
<1>2. TypeOK /\ StoreOK /\ Course /\ Capturing /\ SavedWhole
  BY DEF IInv
<1>3. call.kind = "capture" /\ buf = <<>> /\ total = 0 /\ dev \in Index /\ result # "success"
  BY <1>1, <1>2 DEF Course
<1>4. CASE todo = <<>> /\ pc' = "device" /\ UNCHANGED <<local, report>>
  <2>1. UNCHANGED <<dev, todo, steps, buf, total, outcome, hit, lost>>
    BY <1>4 DEF local, report
  <2>2. TypeOK'
    BY <1>1, <1>2, <1>4, <2>1 DEF TypeOK
  <2>3. StoreOK'
    BY <1>1, <1>2, StoreStays
  <2>4. Course'
    BY <1>1, <1>2, <1>3, <1>4, <2>1 DEF Course
  <2>5. Capturing'
    <3>1. ASSUME NEW e \in Index PROVE Tried(e)' <=> Tried(e)
      BY <1>1, <2>1 DEF Tried
    <3>2. Tried(dev)
      <4>1. \A l : l \notin ToSet(todo)
        BY <1>4 DEF ToSet
      <4> QED
        BY <1>1, <1>2, <1>3, <4>1 DEF Capturing, Tried
    <3>3. Once(todo')
      BY <1>2, <1>3, <2>1 DEF Capturing, Once
    <3> QED
      BY <1>1, <1>2, <1>3, <1>4, <2>1, <3>1, <3>2, <3>3 DEF Capturing
  <2>6. Working' /\ Told' /\ SizeToldSuffices'
    BY <1>1, <1>3, <1>4 DEF Working, Told, SizeToldSuffices
  <2>7. SavedWhole'
    BY <1>1, <1>2, <2>1, SavedWholeStays
  <2> QED
    BY <2>2, <2>3, <2>4, <2>5, <2>6, <2>7 DEF IInv
<1>5. CASE todo # <<>> /\ End("unsupported") /\ UNCHANGED <<hit, lost>>
  <2>1. PICK d, log : d = dev /\ log = Log
    OBVIOUS
  <2> QED
    BY <1>1, <1>5, <2>1, Fails
<1>6. CASE /\ todo # <<>> /\ pc' = "step" /\ steps' = Recipe("capture", dev, Log)
           /\ UNCHANGED <<dev, todo, buf, total, report>>
  <2>1. UNCHANGED <<dev, todo, buf, total, outcome, hit, lost>>
    BY <1>6 DEF report
  <2>2. PICK d \in Index, log \in Logs : d = dev /\ log = Log
    BY <1>1, <1>6, LogIs
  <2>3. PICK step : step = Recipe("capture", d, log)[1]
    OBVIOUS
  <2>4. AtWork(d, log, step)' /\ steps'[1] = step /\ steps' \in Stages("capture", d, log)
    BY <1>1, <1>3, <1>6, <2>1, <2>2, <2>3, Started
  <2>5. Log' = log /\ dev' = d
    BY <1>1, <2>1, <2>2 DEF Log
  <2>6. TypeOK'
    BY <1>1, <1>2, <1>6, <2>1 DEF TypeOK
  <2>7. StoreOK'
    BY <1>1, <1>2, StoreStays
  <2>8. Course'
    <3>1. Stages(call.kind, dev, Log)' = Stages("capture", d, log)
      BY <1>1, <1>3, <2>5 DEF Stages, FromMemory, SG
    <3> QED
      BY <1>1, <1>2, <1>3, <1>6, <2>1, <2>4, <3>1 DEF Course
  <2>9. Capturing'
    BY <1>1, <1>2, <1>3, <1>6, <2>1 DEF Capturing, Tried
  <2>10. Working'
    BY <1>6, <2>4, <2>5 DEF Working, AtWork
  <2>11. Told' /\ SizeToldSuffices'
    BY <1>1, <1>3 DEF Told, SizeToldSuffices
  <2>12. SavedWhole'
    BY <1>1, <1>2, <2>1, SavedWholeStays
  <2> QED
    BY <2>6, <2>7, <2>8, <2>9, <2>10, <2>11, <2>12 DEF IInv
<1> QED
  BY <1>4, <1>5, <1>6 DEF NextLog

LEMMA AskAgainKeeps ==
    ASSUME IInv, AskAgain
    PROVE  IInv'
<1>1. /\ pc = "retry" /\ call' = [call EXCEPT !.room = needed, !.again = TRUE]
      /\ pc' = "step" /\ steps' = Recipe("get", dev, call.log)
      /\ UNCHANGED <<store, result, dev, todo, buf, total, saved, outcome, hit, lost, needed, grown>>
  BY DEF AskAgain, report
<1>2. TypeOK /\ StoreOK /\ Course /\ Capturing /\ Told
  BY DEF IInv
<1>3. /\ call.kind = "get" /\ ~call.again /\ dev \in Index /\ buf = <<>> /\ total = 0 /\ result # "success"
      /\ outcome[dev][call.log] = "toosmall"
      /\ \A e \in Index, l \in Logs : <<e, l>> # <<dev, call.log>> => outcome[e][l] = "untried"
  BY <1>1, <1>2 DEF Course
<1>4. PICK d \in Index, log \in Logs : d = dev /\ log = call.log
  BY <1>2, <1>3, CallIs
<1>5. /\ call' \in Gets /\ call'.kind = "get" /\ call'.log = log /\ call'.room = needed /\ call'.again = TRUE
  <2>1. call \in [kind : {"get"}, log : Logs, room : Nat, again : BOOLEAN] /\ needed \in Nat
    BY <1>2, <1>3, CallIs DEF Gets, TypeOK
  <2>2. call' = [kind |-> "get", log |-> log, room |-> needed, again |-> TRUE]
    BY <1>1, <1>4, <2>1
  <2>3. [kind |-> "get", log |-> log, room |-> needed, again |-> TRUE] \in Gets
    BY <2>1, ZenonT(40) DEF Gets
  <2> QED
    BY <2>2, <2>3
<1>6. PICK step : step = Recipe("get", d, log)[1]
  OBVIOUS
<1>7. AtWork(d, log, step)' /\ steps'[1] = step /\ steps' \in Stages("get", d, log)
  BY <1>1, <1>3, <1>4, <1>5, <1>6, Started
<1>8. Log' = log /\ dev' = d
  BY <1>1, <1>4, <1>5 DEF Log
<1>9. TypeOK'
  <2>1. call' \in Calls
    BY <1>5 DEF Calls
  <2> QED
    BY <1>1, <1>2, <2>1 DEF TypeOK
<1>10. StoreOK'
  BY <1>1, <1>2, StoreStays
<1>11. Course'
  <2>1. Stages(call.kind, dev, Log)' = Stages("get", d, log)
    BY <1>5, <1>8 DEF Stages, FromMemory, SG
  <2> QED
    BY <1>1, <1>3, <1>4, <1>5, <1>7, <2>1 DEF Course
<1>12. Capturing'
  BY <1>1, <1>2, <1>5 DEF Capturing
<1>13. Working'
  BY <1>1, <1>7, <1>8 DEF Working, AtWork
<1>14. Told'
  <2>1. ASSUME log # "rawdump" PROVE Enough(dev, call.log, call.room)'
    <3>1. Enough(d, log, needed) /\ needed \in Nat
      BY <1>1, <1>2, <1>3, <1>4, <2>1 DEF Told, TypeOK
    <3> QED
      BY <1>1, <1>5, <1>8, <3>1 DEF Enough, Texts, Source, FromMemory, SG
  <2> QED
    BY <1>1, <1>5, <2>1 DEF Told
<1>15. SavedWhole'
  <2>1. \A e \in Index, l \in Logs : outcome'[e][l] # "success"
    BY <1>1, <1>3
  <2> QED
    BY <2>1 DEF SavedWhole
<1>16. SizeToldSuffices'
  BY <1>1 DEF SizeToldSuffices
<1> QED
  BY <1>9, <1>10, <1>11, <1>12, <1>13, <1>14, <1>15, <1>16 DEF IInv

LEMMA GrowKeeps ==
    ASSUME IInv, Grow
    PROVE  IInv'
<1>1. /\ pc = "retry" /\ call.log = "trace" /\ grown' = grown + 1
      /\ store' = [store EXCEPT ![dev]["trace"] = Append(store[dev]["trace"], Piece(dev, "trace", Len(store[dev]["trace"]) + 1))]
      /\ UNCHANGED <<pc, call, result, dev, todo, buf, total, saved, outcome, hit, lost, needed>>
  BY DEF Grow, local, report
<1>2. TypeOK /\ StoreOK /\ Course /\ Capturing /\ Told
  BY DEF IInv
<1>3. /\ call.kind = "get" /\ dev \in Index /\ buf = <<>> /\ total = 0
      /\ outcome[dev]["trace"] = "toosmall" /\ "trace" \in Logs /\ "trace" \in Regions
      /\ \A e \in Index, l \in Logs : <<e, l>> # <<dev, "trace">> => outcome[e][l] = "untried"
  BY <1>1, <1>2, RegionsAre DEF Course, Logs
<1> DEFINE s == store[dev]["trace"]
           x == Piece(dev, "trace", Len(s) + 1)
           t == Append(s, x)
<1>4. s \in Seq(Pieces) /\ Keeps(s, "trace") /\ Len(s) \in Nat
  BY <1>2, <1>3, StoreKeeps, LenProperties
<1>5. x \in Pieces /\ x \notin Marks
  <2>1. Len(s) + 1 \in Nat
    BY <1>4
  <2> HIDE DEF s
  <2> QED
    BY <1>3, <2>1, MarksDiffer DEF Pieces
<1> HIDE DEF s, x
<1>6. /\ t \in Seq(Pieces) /\ Len(t) = Len(s) + 1
      /\ \A i \in 1..Len(t) : IF i <= Len(s) THEN i \in 1..Len(s) /\ t[i] = s[i] ELSE t[i] = x
  BY <1>4, <1>5, AppendProperties
<1>7. /\ store' \in [Index -> [Regions -> Seq(Pieces)]] /\ store'[dev]["trace"] = t
      /\ \A e \in Index, r \in Regions : <<e, r>> # <<dev, "trace">> => store'[e][r] = store[e][r]
  <2>1. store \in [Index -> [Regions -> Seq(Pieces)]]
    BY <1>2 DEF TypeOK
  <2>2. store' = [store EXCEPT ![dev]["trace"] = t]
    BY <1>1 DEF s, x
  <2> HIDE DEF t
  <2> QED
    BY <1>3, <1>6, <2>1, <2>2
<1> HIDE DEF t
<1>8. Keeps(t, "trace")
  <2>1. \A i \in 1..Len(t) : t[i] \notin {Header, Beyond, Blank, Erased}
    BY <1>4, <1>5, <1>6 DEF Keeps, Marks
  <2>2. BlankLast(t)
    <3>1. Len(t) \in 0..Len(t)
      BY <1>4, <1>6
    <3>2. \A i \in 1..Len(t) : t[i] = Blank <=> i > Len(t)
      BY <1>4, <1>6, <2>1
    <3> QED
      BY <3>1, <3>2 DEF BlankLast
  <2> QED
    BY <2>1, <2>2 DEF Keeps
<1>9. StoreOK'
  <2>1. ASSUME NEW e \in Index, NEW r \in Regions PROVE Keeps(store'[e][r], r)
    <3>1. CASE <<e, r>> = <<dev, "trace">>
      <4>1. e = dev /\ r = "trace"
        BY <3>1
      <4> QED
        BY <1>7, <1>8, <4>1
    <3>2. CASE <<e, r>> # <<dev, "trace">>
      BY <1>2, <1>7, <3>2 DEF StoreOK
    <3> QED
      BY <3>1, <3>2
  <2> QED
    BY <2>1 DEF StoreOK, Keeps, BlankLast
<1>10. TypeOK'
  BY <1>1, <1>2, <1>7 DEF TypeOK
<1>11. Course' /\ Capturing'
  BY <1>1, <1>2, <1>3 DEF Course, Capturing
<1>12. Working'
  BY <1>1 DEF Working
<1>13. Told'
  <2>1. Enough(dev, "trace", needed) /\ "trace" # "rawdump"
    BY <1>1, <1>2, <1>3 DEF Told
  <2>2. Len(s) + Extra <= needed + grown
    BY <2>1 DEF Enough, s
  <2>3. Len(t) + Extra <= needed + grown'
    <3>1. grown \in Nat /\ needed \in Nat /\ Extra \in Nat
      BY <1>2, LogAssumption DEF TypeOK
    <3>2. Len(t) = Len(s) + 1 /\ grown' = grown + 1
      BY <1>1, <1>6
    <3> QED
      BY <1>4, <2>2, <3>1, <3>2
  <2>4. Enough(dev, call.log, needed)'
    BY <1>1, <1>7, <2>3 DEF Enough
  <2> QED
    BY <1>1, <2>4 DEF Told
<1>14. SavedWhole'
  <2>1. \A e \in Index, l \in Logs : outcome'[e][l] # "success"
    BY <1>1, <1>3
  <2> QED
    BY <2>1 DEF SavedWhole
<1>15. SizeToldSuffices'
  BY <1>1 DEF SizeToldSuffices
<1> QED
  BY <1>9, <1>10, <1>11, <1>12, <1>13, <1>14, <1>15 DEF IInv

-----------------------------------------------------------------------------
(* The invariant *)

(* n pieces, and the blank ones behind them. *)
LEMMA KeptIs ==
    ASSUME NEW d \in Index, NEW r \in Regions, NEW n \in 0..Slots
    PROVE  Kept(d, r, n) \in Seq(Pieces) /\ Keeps(Kept(d, r, n), r)
<1> DEFINE s == [i \in 1..n |-> Piece(d, r, i)]
           b == [i \in 1..(Slots - n) |-> Blank]
           t == s \o b
<1>1. Slots \in Nat \ {0} /\ n \in Nat /\ Slots - n \in Nat /\ n + (Slots - n) = Slots
  BY LogAssumption
<1>2. s \in Seq(Pieces) /\ Len(s) = n /\ \A i \in 1..n : s[i] \notin Marks
  <2>1. \A i \in 1..n : Piece(d, r, i) \in Pieces /\ Piece(d, r, i) \notin Marks
    BY <1>1, MarksDiffer DEF Pieces
  <2>2. s \in [1..n -> Pieces]
    BY <2>1
  <2>3. s \in Seq(Pieces)
    BY <1>1, <2>2
  <2> QED
    BY <1>1, <2>1, <2>2, <2>3, LenProperties
<1>3. b \in Seq(Pieces) /\ Len(b) = Slots - n /\ \A i \in 1..(Slots - n) : b[i] = Blank
  <2>1. b \in [1..(Slots - n) -> Pieces]
    BY MarksDiffer DEF Marks
  <2>2. b \in Seq(Pieces)
    BY <1>1, <2>1
  <2> QED
    BY <1>1, <2>1, <2>2, LenProperties
<1> HIDE DEF s, b
<1>4. /\ t \in Seq(Pieces) /\ Len(t) = Slots
      /\ \A i \in 1..Slots : t[i] = IF i <= n THEN s[i] ELSE b[i - n]
  <2>1. /\ t \in Seq(Pieces) /\ Len(t) = Len(s) + Len(b)
        /\ \A i \in 1..(Len(s) + Len(b)) : t[i] = IF i <= Len(s) THEN s[i] ELSE b[i - Len(s)]
    BY <1>2, <1>3, ConcatProperties
  <2>2. Len(s) + Len(b) = Slots /\ Len(s) = n
    BY <1>1, <1>2, <1>3
  <2> HIDE DEF t
  <2> QED
    BY <2>1, <2>2
<1> HIDE DEF t
<1>5. \A i \in 1..Slots : IF i <= n THEN t[i] \notin Marks ELSE t[i] = Blank
  <2>1. ASSUME NEW i \in 1..Slots, i <= n PROVE t[i] \notin Marks
    <3>1. i \in 1..n
      BY <1>1, <2>1
    <3> QED
      BY <1>2, <1>4, <2>1, <3>1
  <2>2. ASSUME NEW i \in 1..Slots, ~(i <= n) PROVE t[i] = Blank
    <3>1. i - n \in 1..(Slots - n)
      BY <1>1, <2>2
    <3> QED
      BY <1>3, <1>4, <2>2, <3>1
  <2> QED
    BY <2>1, <2>2
<1>6. CASE r \in {"health", "dump"}
  <2>1. Kept(d, r, n) = t
    BY <1>6 DEF Kept, s, b, t
  <2>2. BlankLast(t)
    <3>1. n \in 0..Len(t)
      BY <1>1, <1>4
    <3>2. \A i \in 1..Len(t) : t[i] = Blank <=> i > n
      BY <1>1, <1>4, <1>5 DEF Marks
    <3> QED
      BY <3>1, <3>2 DEF BlankLast
  <2>3. \A i \in 1..Slots : t[i] \notin {Header, Beyond, Erased}
    BY <1>5, MarksDiffer DEF Marks
  <2> QED
    BY <1>4, <1>6, <2>1, <2>2, <2>3 DEF Keeps
<1>7. CASE r \notin {"health", "dump"}
  <2>1. Kept(d, r, n) = s
    BY <1>7 DEF Kept, s
  <2>2. \A i \in 1..n : s[i] \notin {Header, Beyond, Erased, Blank}
    BY <1>2 DEF Marks
  <2>3. BlankLast(s)
    <3>1. n \in 0..Len(s) /\ \A i \in 1..Len(s) : s[i] = Blank <=> i > n
      BY <1>1, <1>2, <2>2
    <3> QED
      BY <3>1 DEF BlankLast
  <2> QED
    BY <1>2, <1>7, <2>1, <2>2, <2>3 DEF Keeps
<1> QED
  BY <1>6, <1>7

LEMMA InitHolds ==
    ASSUME Init
    PROVE  IInv
<1>1. PICK n \in 0..Slots : store = [d \in Index |-> [r \in Regions |-> Kept(d, r, n)]]
  BY DEF Init
<1>2. /\ pc = "idle" /\ call = [kind |-> "none"] /\ result = "none"
      /\ dev = 0 /\ todo = <<>> /\ buf = <<>> /\ total = 0
      /\ saved = AllOf(None) /\ outcome = AllOf("untried") /\ needed = 0 /\ grown = 0
  BY DEF Init
<1>3. \A d \in Index, r \in Regions : store[d][r] \in Seq(Pieces) /\ Keeps(store[d][r], r)
  BY <1>1, KeptIs
<1>4. \A d \in Index, log \in Logs : outcome[d][log] = "untried"
  BY <1>2 DEF AllOf
<1>5. call.kind = "none"
  BY <1>2
<1>6. TypeOK
  <2>1. store \in [Index -> [Regions -> Seq(Pieces)]]
    BY <1>1, <1>3
  <2>2. saved \in [Index -> [Logs -> Seq(Pieces) \cup {None}]] /\ outcome \in [Index -> [Logs -> Statuses]]
    BY <1>2 DEF AllOf, Statuses
  <2>3. call \in Calls
    BY <1>2 DEF Calls
  <2>4. buf \in Seq(Pieces) /\ todo \in Seq(Logs)
    BY <1>2
  <2> QED
    BY <1>2, <2>1, <2>2, <2>3, <2>4 DEF TypeOK
<1>7. StoreOK
  BY <1>3 DEF StoreOK
<1>8. Course /\ Capturing /\ Working /\ Told /\ SavedWhole /\ SizeToldSuffices
  BY <1>2, <1>4, <1>5 DEF Course, Capturing, Working, Told, SavedWhole, SizeToldSuffices
<1> QED
  BY <1>6, <1>7, <1>8 DEF IInv

LEMMA NextKeeps ==
    ASSUME IInv, [Next]_vars
    PROVE  IInv'
<1>1. ASSUME NEW flags \in SUBSET Flags, CaptureLogs(flags) PROVE IInv'
  BY <1>1, CaptureLogsKeeps
<1>2. ASSUME NEW d \in Index, NEW log \in Logs, NEW room \in 0..Slots, GetLog(d, log, room) PROVE IInv'
  <2>1. room \in Nat
    BY LogAssumption
  <2> QED
    BY <1>2, <2>1, GetLogKeeps
<1>3. ASSUME NEW d \in Index, EraseCoreDump(d) PROVE IInv'
  BY <1>3, EraseCoreDumpKeeps
<1>4. ASSUME Call PROVE IInv'
  BY <1>1, <1>2, <1>3, <1>4 DEF Call, Flags
<1>5. ASSUME Step PROVE IInv'
  BY <1>5, OpenKeeps, AskSizeKeeps, ReadTableKeeps, UploadKeeps, ValidateKeeps, RefuseKeeps, WriteKeeps,
     CopyKeeps, SendCommandKeeps, StreamKeeps, EraseChunkKeeps, BreakKeeps DEF Step
<1>6. ASSUME Go PROVE IInv'
  BY <1>5, <1>6, NextDeviceKeeps, NextLogKeeps, AskAgainKeeps DEF Go
<1>7. ASSUME Grow PROVE IInv'
  BY <1>7, GrowKeeps
<1>8. ASSUME UNCHANGED vars PROVE IInv'
  <2>1. /\ UNCHANGED <<store, pc, call, result, dev, todo, steps, buf, total>>
        /\ UNCHANGED <<saved, outcome, hit, lost, needed, grown>>
    BY <1>8 DEF vars, local, report
  <2>2. TypeOK' /\ StoreOK' /\ SavedWhole'
    BY <2>1, StoreStays, SavedWholeStays DEF IInv, TypeOK
  <2>3. Course'
    BY <2>1 DEF IInv, Course, Stages, FromMemory, SG, Log
  <2>4. Capturing'
    BY <2>1 DEF IInv, Capturing, Tried, Once
  <2>5. Working'
    BY <2>1 DEF IInv, Working, AtWork, Log, Unopened, Unsigned, Source, FromMemory, SG, Output
  <2>6. Told'
    BY <2>1 DEF IInv, Told, Enough, Texts, Source, FromMemory, SG
  <2>7. SizeToldSuffices'
    BY <2>1 DEF IInv, SizeToldSuffices
  <2> QED
    BY <2>2, <2>3, <2>4, <2>5, <2>6, <2>7 DEF IInv
<1> QED
  BY <1>4, <1>6, <1>7, <1>8 DEF Next

THEOREM Invariance == Spec => []IInv
<1>1. Init => IInv
  BY InitHolds
<1>2. IInv /\ [Next]_vars => IInv'
  BY NextKeeps
<1> QED
  BY <1>1, <1>2, PTL DEF Spec

-----------------------------------------------------------------------------
(* The results *)

(* The files of ScrutinyOneTimeCaptureLogs and the buffers of ScrutinyGetTraceBuffer,
   ScrutinyGetHealthLogs and ScrutinyGetCoreDump have every piece of a log that is
   reported a success, in order, and no piece of a dump that an erase began to
   take, unless a write to the file was lost. *)
THEOREM SavedIsWhole == Spec => []SavedWhole
<1>1. IInv => SavedWhole
  BY DEF IInv
<1> QED
  BY <1>1, Invariance, PTL

(* When slibiOneTimeCaptureLogs went over the devices, every log that its flags name
   was tried on every device, and one failed only when an access to it did or its
   folder was missing. *)
THEOREM FailuresApart == Spec => []FailuresStayApart
<1>1. IInv => FailuresStayApart
  <2>1. SUFFICES ASSUME IInv, pc = "idle", result = "success",
                        NEW d \in Index, NEW log \in ToSet(LogsOf(d, call.flags))
                 PROVE  outcome[d][log] # "untried" /\ (outcome[d][log] = "failed" => <<d, log>> \in hit)
    BY DEF FailuresStayApart
  <2>2. call.kind = "capture"
    BY <2>1 DEF IInv, Course
  <2>3. Tried(d)
    BY <2>1, <2>2 DEF IInv, Capturing
  <2>4. log \in Logs
    <3>1. LogsOf(d, call.flags) \in Seq(Logs)
      BY LogsAreOnce
    <3> QED
      BY <2>1, <3>1, LenProperties, ElementOfSeq DEF ToSet
  <2> QED
    BY <2>1, <2>3, <2>4 DEF IInv, Capturing, Tried
<1> QED
  BY <1>1, Invariance, PTL

(* The size that a call with too small a buffer names is enough for the call that
   scrtnySwitchGetTrace, scrtnyCoreDump and scrtnySwitchHealthLogs make with it,
   unless the trace grew by more than SCRUTINY_LIB_EXTRA_BUFFER_SIZE. *)
THEOREM SizesSuffice == Spec => []SizeToldSuffices
<1>1. IInv => SizeToldSuffices
  BY DEF IInv
<1> QED
  BY <1>1, Invariance, PTL

===============================================================================
