---------------------------- MODULE Serial_proofs ----------------------------
(***************************************************************************)
(* Proofs about the serial port, for every number of bytes, calls, polls,  *)
(* sessions and descriptor numbers.                                        *)
(*                                                                         *)
(* SerialBuffer: its type invariant, mutual exclusion, the agreement of    *)
(* BytesUnRead with PtrBuffer, the integrity of the byte stream, and that  *)
(* it implements SerialChannel.                                            *)
(*                                                                         *)
(* SerialSessions: the session in use holds the lock of the tty through    *)
(* its own descriptors, closes hit only these, and no session gets bytes   *)
(* of an earlier one.                                                      *)
(***************************************************************************)
EXTENDS SerialBuffer, SerialSessions, SequenceTheorems, TLAPS

-----------------------------------------------------------------------------
(* Facts about sequences *)

(* Concatenation stays within sequences of bytes, adds the lengths and has
   the empty sequence as its unit. *)
LEMMA ConcatFacts ==
    ASSUME NEW s \in Seq(Nat), NEW t \in Seq(Nat)
    PROVE  /\ s \o t \in Seq(Nat)
           /\ Len(s \o t) = Len(s) + Len(t)
           /\ s \o <<>> = s
           /\ <<>> \o s = s
BY ConcatProperties, ConcatEmptySeq

(* Concatenation is associative. *)
LEMMA ConcatAssoc ==
    ASSUME NEW s \in Seq(Nat), NEW t \in Seq(Nat), NEW u \in Seq(Nat)
    PROVE  (s \o t) \o u = s \o (t \o u)
BY ConcatAssociative, SMTT(60)

(* A sequence is any prefix of it followed by the rest. *)
LEMMA SplitAt ==
    ASSUME NEW s \in Seq(Nat), NEW n \in 0..Len(s)
    PROVE  /\ SubSeq(s, 1, n) \in Seq(Nat)
           /\ SubSeq(s, n + 1, Len(s)) \in Seq(Nat)
           /\ Len(SubSeq(s, 1, n)) = n
           /\ Len(SubSeq(s, n + 1, Len(s))) = Len(s) - n
           /\ SubSeq(s, 1, n) \o SubSeq(s, n + 1, Len(s)) = s
<1>0. Len(s) \in Nat /\ \A i \in 1..Len(s) : s[i] \in Nat
  BY LenProperties, ElementOfSeq
<1>1. SubSeq(s, 1, n) \in Seq(Nat) /\ Len(SubSeq(s, 1, n)) = n
  <2>1. \A i \in 1..n : s[i] \in Nat
    BY <1>0
  <2>2. QED
    BY <1>0, <2>1, SubSeqProperties
<1>2. SubSeq(s, n + 1, Len(s)) \in Seq(Nat) /\ Len(SubSeq(s, n + 1, Len(s))) = Len(s) - n
  <2>1. \A i \in n + 1 .. Len(s) : s[i] \in Nat
    BY <1>0
  <2>2. QED
    BY <1>0, <2>1, SubSeqProperties
<1>3. SubSeq(s, 1, n) \o SubSeq(s, n + 1, Len(s)) = SubSeq(s, 1, Len(s))
  <2>1. 1 \in 1..(Len(s) + 1) /\ n \in (1 - 1)..Len(s) /\ Len(s) \in n..Len(s)
    BY <1>0
  <2>2. QED
    BY <2>1, ConcatAdjacentSubSeq, Zenon
<1>4. SubSeq(s, 1, Len(s)) = s
  BY SubSeqFull
<1>5. QED
  BY <1>1, <1>2, <1>3, <1>4

(* Whatever is cut off the end of a sequence at its end is empty. *)
LEMMA NothingAfterEnd ==
    ASSUME NEW s \in Seq(Nat)
    PROVE  SubSeq(s, Len(s) + 1, Len(s)) = <<>>
BY LenProperties, SubSeqEmpty

(* The device's next byte extends the device's output. *)
LEMMA OutputGrows ==
    ASSUME NEW n \in Nat
    PROVE  /\ [i \in 1..n |-> i] \in Seq(Nat)
           /\ Append([i \in 1..n |-> i], n + 1) = [i \in 1..(n + 1) |-> i]
<1> DEFINE s == [i \in 1..n |-> i]
           t == [i \in 1..(n + 1) |-> i]
<1>1. s \in Seq(Nat) /\ Len(s) = n
  BY SeqDef
<1>2. t \in Seq(Nat) /\ Len(t) = n + 1
  BY SeqDef
<1>3. /\ Append(s, n + 1) \in Seq(Nat)
      /\ Len(Append(s, n + 1)) = n + 1
      /\ \A i \in 1..n : Append(s, n + 1)[i] = s[i]
      /\ Append(s, n + 1)[n + 1] = n + 1
  BY <1>1, AppendProperties
<1>4. \A i \in 1..(n + 1) : Append(s, n + 1)[i] = t[i]
  BY <1>3
<1>5. Append(s, n + 1) = t
  BY <1>2, <1>3, <1>4, SeqEqual
<1>6. QED
  BY <1>1, <1>5

-----------------------------------------------------------------------------
(* The inductive invariant *)

(* How PtrBuffer, BytesUnRead and the locals of a call relate at each control
   point: the pointer and the count disagree only between the two assignments. *)
BufferShape ==
    /\ rpc = "count" => Len(data) = bytesUnRead + Len(chunk)
    /\ apc = "shrink" => bytesUnRead = Len(data) + size
    /\ apc = "zero" => data = <<>>
    /\ rpc # "count" /\ apc \notin {"shrink", "zero"} => Len(data) = bytesUnRead
    /\ apc = "replace" => size < bytesUnRead
    /\ apc = "clear" /\ call = "read" => size = bytesUnRead
    /\ apc \in PollPoints \cup {"copy", "replace", "shrink"} => call = "read"
    /\ apc # "idle" => call \in {"read", "flush"}

IInv == TypeInv /\ MutualExclusion /\ BufferShape /\ StreamIntact

(* The types of the derived sequences. *)
LEMMA DerivedTypes ==
    ASSUME TypeInv, BufferShape, MutualExclusion
    PROVE  Unread \in Seq(Nat) /\ InHand \in Seq(Nat)
<1>1. InHand \in Seq(Nat)
  BY EmptySeq DEF TypeInv, InHand
<1>2. CASE call = "read" /\ apc \in {"replace", "clear"}
  <2>1. size \in 0..Len(data)
    BY <1>2 DEF TypeInv, BufferShape, MutualExclusion, ReaderInside, AppInside
  <2>2. SubSeq(data, size + 1, Len(data)) \in Seq(Nat)
    BY <2>1, SplitAt DEF TypeInv
  <2>3. QED
    BY <1>1, <1>2, <2>2 DEF Unread
<1>3. CASE ~(call = "read" /\ apc \in {"replace", "clear"})
  BY <1>1, <1>3 DEF Unread, TypeInv
<1>4. QED
  BY <1>2, <1>3

-----------------------------------------------------------------------------
(* spiOpenPort leaves the port in a state the invariant allows. *)
LEMMA InitIInv == Init => IInv
<1> SUFFICES ASSUME Init PROVE IInv
  OBVIOUS
<1> USE DEF Init
<1>1. TypeInv
  BY EmptySeq DEF TypeInv, ReaderPoints, AppPoints, PollPoints
<1>2. MutualExclusion
  BY DEF MutualExclusion, ReaderInside, AppInside
<1>3. BufferShape
  BY DEF BufferShape, PollPoints
<1>4. StreamIntact
  <2>1. Pending = <<>> /\ taken = <<>>
    BY EmptySeq, ConcatEmptySeq DEF Pending, Unread, InHand
  <2>2. [i \in 1..sent |-> i] = <<>>
    <3>1. [i \in 1..sent |-> i] \in Seq(Nat) /\ Len([i \in 1..sent |-> i]) = 0
      BY OutputGrows, LenProperties, SeqDef
    <3>2. QED
      BY <3>1, EmptySeq
  <2>3. QED
    BY <2>1, <2>2, EmptySeq, ConcatEmptySeq DEF StreamIntact
<1>5. QED
  BY <1>1, <1>2, <1>3, <1>4 DEF IInv

-----------------------------------------------------------------------------
(* Every step of either thread keeps the types. *)
LEMMA TypeStep == IInv /\ [Next]_vars => TypeInv'
<1> SUFFICES ASSUME IInv, [Next]_vars PROVE TypeInv'
  OBVIOUS
<1> USE BufferAssumption DEF IInv, TypeInv, ReaderPoints, AppPoints, PollPoints,
        kernelVars, bufferVars, readerVars, pollVars, callVars, appVars
<1>1. CASE Transmit
  BY <1>1, AppendProperties DEF Transmit
<1>2. CASE ReaderCheck \/ ReaderSpin
  BY <1>2 DEF ReaderCheck, ReaderSpin, vars
<1>3. CASE ReaderRead
  <2>1. PICK n \in 1..Len(wire) : /\ chunk' = SubSeq(wire, 1, n)
                                 /\ wire' = SubSeq(wire, n + 1, Len(wire))
    BY <1>3 DEF ReaderRead
  <2>2. wire \in Seq(Nat)
    OBVIOUS
  <2>3. Len(wire) \in Nat
    BY <2>2, LenProperties
  <2>4. n \in 0..Len(wire)
    BY <2>3
  <2>5. SubSeq(wire, 1, n) \in Seq(Nat) /\ SubSeq(wire, n + 1, Len(wire)) \in Seq(Nat)
    BY <2>2, <2>4, SplitAt, Zenon
  <2>6. chunk' \in Seq(Nat) /\ wire' \in Seq(Nat)
    BY <2>1, <2>5, Zenon
  <2>7. QED
    BY <1>3, <2>6 DEF ReaderRead
<1>4. CASE ReaderLock
  BY <1>4 DEF ReaderLock
<1>5. CASE ReaderAppend
  <2>1. Joined \in Seq(Nat)
    <3>1. rpc = "append" /\ Len(data) = bytesUnRead
      BY <1>5 DEF ReaderAppend, BufferShape, MutualExclusion, ReaderInside, AppInside
    <3>2. SubSeq(data, 1, bytesUnRead) = data
      BY <3>1, SubSeqFull
    <3>3. QED
      BY <3>2, ConcatFacts DEF Joined
  <2>2. QED
    BY <1>5, <2>1 DEF ReaderAppend
<1>6. CASE ReaderCount
  <2>1. Len(chunk) \in Nat
    BY LenProperties
  <2>2. QED
    BY <1>6, <2>1 DEF ReaderCount
<1>7. CASE ReaderUnlock
  BY <1>7, EmptySeq DEF ReaderUnlock
<1>8. ASSUME NEW max \in ReadSizes, StartRead(max) PROVE TypeInv'
  <2>1. max \in Nat
    OBVIOUS
  <2>2. QED
    BY <1>8, <2>1 DEF StartRead
<1>9. CASE StartFlush
  BY <1>9 DEF StartFlush
<1>18. CASE PollEnough
  BY <1>18 DEF PollEnough
<1>19. CASE PollSame
  BY <1>19 DEF PollSame
<1>20. CASE PollDiffers
  BY <1>20 DEF PollDiffers
<1>21. CASE PollRemember
  BY <1>21 DEF PollRemember
<1>10. CASE AppLock
  BY <1>10 DEF AppLock
<1>11. CASE AppCopy
  <2>1. CopySize \in 0..Len(data)
    BY <1>11, LenProperties
       DEF AppCopy, CopySize, Min2, BufferShape, MutualExclusion, ReaderInside, AppInside
  <2>2. SubSeq(data, 1, CopySize) \in Seq(Nat)
    BY <2>1, SplitAt
  <2>3. taken' \in Seq(Nat)
    BY <1>11, <2>2, ConcatFacts DEF AppCopy
  <2>4. size' \in Nat
    BY <1>11, <2>1, LenProperties DEF AppCopy
  <2>5. result' \in [status : {"NONE", "SUCCESS"}, bytes : Seq(Nat)]
    BY <1>11, <2>2 DEF AppCopy
  <2>6. apc' \in AppPoints
    BY <1>11 DEF AppCopy
  <2>7. QED
    BY <1>11, <2>3, <2>4, <2>5, <2>6 DEF AppCopy
<1>12. CASE AppReplace
  <2>1. size \in 0..Len(data) /\ bytesUnRead = Len(data)
    BY <1>12, LenProperties DEF AppReplace, BufferShape, MutualExclusion, ReaderInside, AppInside
  <2>2. data' \in Seq(Nat)
    BY <1>12, <2>1, SplitAt DEF AppReplace
  <2>3. QED
    BY <1>12, <2>2 DEF AppReplace
<1>13. CASE AppShrink
  <2>1. bytesUnRead' \in Nat
    BY <1>13, LenProperties DEF AppShrink, BufferShape
  <2>2. QED
    BY <1>13, <2>1 DEF AppShrink
<1>14. CASE AppClear
  <2>1. taken' \in Seq(Nat) /\ data' \in Seq(Nat)
    BY <1>14, ConcatFacts, EmptySeq DEF AppClear
  <2>2. QED
    BY <1>14, <2>1 DEF AppClear
<1>15. CASE AppZero
  BY <1>15 DEF AppZero
<1>22. CASE AppUnlock
  BY <1>22 DEF AppUnlock
<1>16. CASE UNCHANGED vars
  BY <1>16 DEF vars
<1>17. QED
  BY <1>1, <1>2, <1>3, <1>4, <1>5, <1>6, <1>7, <1>8, <1>9, <1>10, <1>11, <1>12,
     <1>13, <1>14, <1>15, <1>16, <1>18, <1>19, <1>20, <1>21, <1>22
     DEF Next, Reader, App, AppStep

-----------------------------------------------------------------------------
(* Every step keeps the two threads out of the critical section together. *)
LEMMA MutexStep == IInv /\ [Next]_vars => MutualExclusion'
<1> SUFFICES ASSUME IInv, [Next]_vars PROVE MutualExclusion'
  OBVIOUS
<1> USE DEF IInv, TypeInv, MutualExclusion, ReaderInside, AppInside, ReaderPoints,
        AppPoints, PollPoints,
        kernelVars, bufferVars, readerVars, pollVars, callVars, appVars
<1>1. CASE Transmit
  BY <1>1 DEF Transmit
<1>2. CASE ReaderCheck \/ ReaderSpin \/ ReaderRead
  BY <1>2 DEF ReaderCheck, ReaderSpin, ReaderRead, vars
<1>9. CASE ReaderLock \/ ReaderUnlock
  BY <1>9, SMTT(60) DEF ReaderLock, ReaderUnlock
<1>10. CASE ReaderAppend \/ ReaderCount
  BY <1>10, SMTT(30) DEF ReaderAppend, ReaderCount
<1>3. CASE StartFlush \/ \E max \in ReadSizes : StartRead(max)
  BY <1>3 DEF StartFlush, StartRead
<1>4. CASE PollEnough \/ PollSame \/ PollDiffers \/ PollRemember
  BY <1>4 DEF PollEnough, PollSame, PollDiffers, PollRemember
<1>5. CASE AppLock \/ AppUnlock
  BY <1>5 DEF AppLock, AppUnlock
<1>6. CASE AppCopy \/ AppReplace \/ AppShrink \/ AppClear \/ AppZero
  BY <1>6 DEF AppCopy, AppReplace, AppShrink, AppClear, AppZero
<1>7. CASE UNCHANGED vars
  BY <1>7 DEF vars
<1>8. QED
  BY <1>1, <1>2, <1>3, <1>4, <1>5, <1>6, <1>7, <1>9, <1>10
     DEF Next, Reader, App, AppStep

-----------------------------------------------------------------------------
(* Every step keeps PtrBuffer and BytesUnRead in the relation that belongs to
   the control points of the two threads. *)
LEMMA ShapeStep == IInv /\ [Next]_vars => BufferShape'
<1> SUFFICES ASSUME IInv, [Next]_vars PROVE BufferShape'
  OBVIOUS
<1> USE BufferAssumption
    DEF IInv, TypeInv, BufferShape, MutualExclusion, ReaderInside, AppInside, ReaderPoints,
        AppPoints, PollPoints,
        kernelVars, bufferVars, readerVars, pollVars, callVars, appVars
<1>1. CASE Transmit
  BY <1>1 DEF Transmit
<1>2. CASE ReaderCheck \/ ReaderSpin \/ ReaderRead
  BY <1>2 DEF ReaderCheck, ReaderSpin, ReaderRead, vars
<1>3. CASE ReaderLock \/ ReaderUnlock
  BY <1>3 DEF ReaderLock, ReaderUnlock
<1>4. CASE ReaderAppend
  <2>1. Len(data) = bytesUnRead
    BY <1>4 DEF ReaderAppend
  <2>2. SubSeq(data, 1, bytesUnRead) = data
    BY <2>1, SubSeqFull
  <2>3. Joined = data \o chunk
    BY <2>2, ConcatFacts DEF Joined
  <2>4. Len(Joined) = bytesUnRead + Len(chunk)
    BY <2>1, <2>3, ConcatFacts
  <2>5. QED
    BY <1>4, <2>4 DEF ReaderAppend
<1>5. CASE ReaderCount
  BY <1>5 DEF ReaderCount
<1>6. CASE StartFlush \/ \E max \in ReadSizes : StartRead(max)
  BY <1>6 DEF StartFlush, StartRead
<1>7. CASE PollEnough \/ PollDiffers
  BY <1>7 DEF PollEnough, PollDiffers
<1>8. CASE PollSame \/ PollRemember
  BY <1>8 DEF PollSame, PollRemember
<1>9. CASE AppLock \/ AppUnlock
  BY <1>9 DEF AppLock, AppUnlock
<1>10. CASE AppCopy
  BY <1>10 DEF AppCopy, CopySize, Min2
<1>11. CASE AppReplace
  <2>1. size \in 0..Len(data) /\ bytesUnRead = Len(data)
    BY <1>11, LenProperties DEF AppReplace
  <2>2. Len(data') = bytesUnRead - size
    BY <1>11, <2>1, SplitAt DEF AppReplace
  <2>3. QED
    BY <1>11, <2>1, <2>2 DEF AppReplace
<1>12. CASE AppShrink
  BY <1>12, LenProperties DEF AppShrink
<1>13. CASE AppClear
  BY <1>13 DEF AppClear
<1>14. CASE AppZero
  BY <1>14, EmptySeq DEF AppZero
<1>15. CASE UNCHANGED vars
  BY <1>15 DEF vars
<1>16. QED
  BY <1>1, <1>2, <1>3, <1>4, <1>5, <1>6, <1>7, <1>8, <1>9, <1>10, <1>11, <1>12,
     <1>13, <1>14, <1>15
     DEF Next, Reader, App, AppStep

-----------------------------------------------------------------------------
(* The byte stream: every step either leaves the stream alone, lets the
   device extend it, or moves a prefix of what is pending to what was taken. *)
StreamKept   == taken' = taken /\ Pending' = Pending /\ sent' = sent
StreamGrows  == taken' = taken /\ Pending' = Append(Pending, sent + 1) /\ sent' = sent + 1
StreamTaken(n) == /\ taken' = taken \o SubSeq(Pending, 1, n)
                  /\ Pending' = SubSeq(Pending, n + 1, Len(Pending))
                  /\ sent' = sent

(* Cutting a concatenation where its two parts meet gives the parts back. *)
LEMMA CutAtJoin ==
    ASSUME NEW p \in Seq(Nat), NEW q \in Seq(Nat)
    PROVE  /\ Len(p) \in 0..Len(p \o q)
           /\ SubSeq(p \o q, 1, Len(p)) = p
           /\ SubSeq(p \o q, Len(p) + 1, Len(p \o q)) = q
<1> DEFINE all == p \o q
           x == SubSeq(all, 1, Len(p))
           y == SubSeq(all, Len(p) + 1, Len(all))
<1>1. /\ all \in Seq(Nat) /\ Len(p) \in Nat /\ Len(q) \in Nat
      /\ Len(all) = Len(p) + Len(q)
      /\ \A i \in 1..Len(p) : all[i] = p[i]
      /\ \A i \in 1..Len(q) : all[Len(p) + i] = q[i]
  BY ConcatProperties, LenProperties
<1>2. \A i \in 1..Len(all) : all[i] \in Nat
  BY <1>1, ElementOfSeq
<1>3. x \in Seq(Nat) /\ Len(x) = Len(p) /\ \A i \in 1..Len(p) : x[i] = all[i]
  <2>1. \A i \in 1..Len(p) : all[i] \in Nat
    BY <1>1, <1>2
  <2>2. QED
    BY <1>1, <2>1, SubSeqProperties
<1>4. y \in Seq(Nat) /\ Len(y) = Len(q) /\ \A i \in 1..Len(q) : y[i] = all[Len(p) + i]
  <2> DEFINE m == Len(p) + 1
             k == Len(all)
  <2>1. m \in Int /\ k \in Int /\ k - m + 1 = Len(q)
    BY <1>1
  <2>2. \A i \in m .. k : all[i] \in Nat
    BY <1>1, <1>2
  <2> HIDE DEF all, m, k
  <2>3. /\ SubSeq(all, m, k) \in Seq(Nat)
        /\ Len(SubSeq(all, m, k)) = IF m <= k THEN k - m + 1 ELSE 0
        /\ \A i \in 1 .. k - m + 1 : SubSeq(all, m, k)[i] = all[m + i - 1]
    BY <2>1, <2>2, SubSeqProperties
  <2>4. y = SubSeq(all, m, k)
    BY DEF m, k
  <2>5. Len(y) = Len(q)
    BY <1>1, <2>1, <2>3, <2>4
  <2>6. \A i \in 1..Len(q) : y[i] = all[m + i - 1]
    BY <2>1, <2>3, <2>4
  <2>7. \A i \in 1..Len(q) : m + i - 1 = Len(p) + i
    BY <1>1 DEF m
  <2>8. QED
    BY <2>3, <2>4, <2>5, <2>6, <2>7
<1> HIDE DEF x, y, all
<1>5. x = p
  BY <1>1, <1>3, SeqEqual
<1>6. y = q
  BY <1>1, <1>4, SeqEqual
<1>7. QED
  BY <1>1, <1>5, <1>6 DEF x, y, all

(* Taking a prefix of the first of three sequences takes it of all three. *)
LEMMA TakeFromFront ==
    ASSUME NEW a \in Seq(Nat), NEW b \in Seq(Nat), NEW c \in Seq(Nat),
           NEW n \in 0..Len(a)
    PROVE  /\ n \in 0..Len((a \o b) \o c)
           /\ SubSeq((a \o b) \o c, 1, n) = SubSeq(a, 1, n)
           /\ SubSeq((a \o b) \o c, n + 1, Len((a \o b) \o c))
                = (SubSeq(a, n + 1, Len(a)) \o b) \o c
<1> DEFINE p == SubSeq(a, 1, n)
           r == SubSeq(a, n + 1, Len(a))
<1>0. p \in Seq(Nat) /\ r \in Seq(Nat) /\ Len(p) = n
  BY SplitAt
<1>1. p \o r = a
  BY SplitAt
<1> HIDE DEF p, r
<1>2. (r \o b) \o c \in Seq(Nat)
  BY <1>0, ConcatFacts
<1>3. (a \o b) \o c = p \o ((r \o b) \o c)
  <2>1. r \o b \in Seq(Nat)
    BY <1>0, ConcatFacts
  <2>2. (p \o r) \o b = p \o (r \o b)
    BY <1>0, ConcatAssoc, ZenonT(60)
  <2>3. (p \o (r \o b)) \o c = p \o ((r \o b) \o c)
    <3> DEFINE rb == r \o b
    <3>1. p \in Seq(Nat) /\ rb \in Seq(Nat)
      BY <1>0, <2>1
    <3> HIDE DEF rb
    <3>2. (p \o rb) \o c = p \o (rb \o c)
      BY <3>1, ConcatAssoc, SMTT(60)
    <3>3. QED
      BY <3>2 DEF rb
  <2>4. (a \o b) \o c = ((p \o r) \o b) \o c
    BY <1>1
  <2>5. QED
    BY <2>2, <2>3, <2>4, Zenon
<1> DEFINE q == (r \o b) \o c
           all == p \o q
<1>4. /\ n \in 0..Len(all)
      /\ SubSeq(all, 1, n) = p
      /\ SubSeq(all, n + 1, Len(all)) = q
  BY <1>0, <1>2, CutAtJoin
<1>5. QED
  BY <1>3, <1>4 DEF p, r

(* Appending to the last of two sequences appends to their concatenation. *)
LEMMA AppendToConcat ==
    ASSUME NEW s \in Seq(Nat), NEW t \in Seq(Nat), NEW e \in Nat
    PROVE  Append(s \o t, e) = s \o Append(t, e)
<1>1. <<e>> \in Seq(Nat) /\ s \o t \in Seq(Nat)
  BY ConcatFacts
<1>2. Append(s \o t, e) = (s \o t) \o <<e>> /\ Append(t, e) = t \o <<e>>
  BY <1>1, AppendIsConcat
<1>3. (s \o t) \o <<e>> = s \o (t \o <<e>>)
  BY <1>1, ConcatAssoc
<1>4. QED
  BY <1>2, <1>3

(* Every step does one of the three things to the stream. *)
LEMMA StreamMoves ==
    ASSUME IInv, [Next]_vars
    PROVE  \/ StreamKept
           \/ StreamGrows /\ sent < MaxBytes
           \/ \E n \in 0..Len(Pending) : StreamTaken(n)
<1> USE DEF kernelVars, bufferVars, readerVars, pollVars, callVars, appVars
<1>0. Unread \in Seq(Nat) /\ InHand \in Seq(Nat)
  BY DerivedTypes DEF IInv
<1>a. /\ data \in Seq(Nat) /\ chunk \in Seq(Nat) /\ wire \in Seq(Nat)
      /\ taken \in Seq(Nat) /\ sent \in Nat /\ bytesUnRead \in Nat /\ want \in Nat
  BY DEF IInv, TypeInv
<1>b. MutualExclusion /\ BufferShape
  BY DEF IInv
<1>c. Unread \o InHand \in Seq(Nat)
  BY <1>0, ConcatFacts
<1>1. CASE Transmit
  <2>1. Unread' = Unread /\ InHand' = InHand
    BY <1>1 DEF Transmit, Unread, InHand
  <2>2. wire' = Append(wire, sent + 1) /\ sent' = sent + 1
    BY <1>1 DEF Transmit
  <2>3. Append((Unread \o InHand) \o wire, sent + 1) = (Unread \o InHand) \o Append(wire, sent + 1)
    <3>1. sent + 1 \in Nat
      BY <1>a
    <3>2. QED
      BY <1>a, <1>c, <3>1, AppendToConcat, ZenonT(60)
  <2>4. StreamGrows
    BY <1>1, <2>1, <2>2, <2>3 DEF StreamGrows, Pending, Transmit
  <2>5. QED
    BY <1>1, <2>4 DEF Transmit
<1>2. CASE ReaderCheck \/ ReaderSpin \/ ReaderLock \/ ReaderCount \/ ReaderUnlock
  <2>1. Unread' = Unread /\ InHand' = InHand /\ wire' = wire
    BY <1>2 DEF ReaderCheck, ReaderSpin, ReaderLock, ReaderCount, ReaderUnlock, Unread, InHand, vars
  <2>2. taken' = taken /\ sent' = sent
    BY <1>2 DEF ReaderCheck, ReaderSpin, ReaderLock, ReaderCount, ReaderUnlock, vars
  <2>3. StreamKept
    BY <2>1, <2>2 DEF StreamKept, Pending
  <2>4. QED
    BY <2>3
<1>3. CASE ReaderRead
  <2>1. PICK n \in 1..Len(wire) : /\ chunk' = SubSeq(wire, 1, n)
                                 /\ wire' = SubSeq(wire, n + 1, Len(wire))
    BY <1>3 DEF ReaderRead
  <2>2. chunk' \in Seq(Nat) /\ wire' \in Seq(Nat) /\ chunk' \o wire' = wire
    <3>1. n \in 0..Len(wire)
      BY <1>a, LenProperties
    <3>2. /\ SubSeq(wire, 1, n) \in Seq(Nat) /\ SubSeq(wire, n + 1, Len(wire)) \in Seq(Nat)
          /\ SubSeq(wire, 1, n) \o SubSeq(wire, n + 1, Len(wire)) = wire
      BY <1>a, <3>1, SplitAt, Zenon
    <3>3. QED
      BY <2>1, <3>2
  <2>3. Unread' = Unread /\ InHand = <<>> /\ InHand' = chunk' /\ taken' = taken /\ sent' = sent
    BY <1>3 DEF ReaderRead, Unread, InHand
  <2>4. Pending = Unread \o wire
    BY <1>0, <2>3, ConcatFacts DEF Pending
  <2>5. (Unread \o chunk') \o wire' = Unread \o (chunk' \o wire')
    BY <1>0, <2>2, ConcatAssoc, Zenon
  <2>6. Pending' = Pending
    BY <2>2, <2>3, <2>4, <2>5 DEF Pending
  <2>7. QED
    BY <2>3, <2>6 DEF StreamKept
<1>4. CASE ReaderAppend
  <2>1. rpc = "append" /\ ~AppInside /\ Len(data) = bytesUnRead
    BY <1>4, <1>b DEF ReaderAppend, MutualExclusion, BufferShape, ReaderInside, AppInside
  <2>2. Unread = data /\ InHand = chunk /\ InHand' = <<>>
    BY <1>4, <2>1 DEF ReaderAppend, Unread, InHand, AppInside
  <2>3. Unread' = Joined
    BY <1>4, <2>1 DEF ReaderAppend, Unread, AppInside
  <2>4. Joined = data \o chunk
    BY <1>a, <2>1, SubSeqFull, ConcatFacts DEF Joined
  <2>5. (data \o chunk) \o <<>> = data \o chunk
    BY <1>a, ConcatFacts
  <2>6. Pending' = Pending
    BY <1>4, <2>2, <2>3, <2>4, <2>5 DEF Pending, ReaderAppend
  <2>7. QED
    BY <1>4, <2>6 DEF StreamKept, ReaderAppend
<1>5. CASE AppCopy
  <2>1. /\ apc = "copy" /\ call = "read" /\ Unread = data
        /\ CopySize \in 0..Len(data)
    BY <1>5, <1>a, <1>b, LenProperties
       DEF AppCopy, CopySize, Min2, Unread, BufferShape, MutualExclusion, ReaderInside, AppInside
  <2>2. /\ taken' = taken \o SubSeq(data, 1, CopySize)
        /\ Unread' = SubSeq(data, CopySize + 1, Len(data))
        /\ InHand' = InHand /\ wire' = wire /\ sent' = sent
    BY <1>5, <2>1 DEF AppCopy, Unread, InHand
  <2>3. /\ CopySize \in 0..Len(Pending)
        /\ SubSeq(Pending, 1, CopySize) = SubSeq(data, 1, CopySize)
        /\ SubSeq(Pending, CopySize + 1, Len(Pending))
              = (SubSeq(data, CopySize + 1, Len(data)) \o InHand) \o wire
    <3>1. Pending = (data \o InHand) \o wire
      BY <2>1 DEF Pending
    <3>2. CopySize \in 0..Len(data)
      BY <2>1
    <3>3. \A n \in 0..Len(data) :
            /\ n \in 0..Len((data \o InHand) \o wire)
            /\ SubSeq((data \o InHand) \o wire, 1, n) = SubSeq(data, 1, n)
            /\ SubSeq((data \o InHand) \o wire, n + 1, Len((data \o InHand) \o wire))
                 = (SubSeq(data, n + 1, Len(data)) \o InHand) \o wire
      <4>1. data \in Seq(Nat) /\ InHand \in Seq(Nat) /\ wire \in Seq(Nat)
        BY <1>0, <1>a
      <4>2. QED
        BY <4>1, TakeFromFront
    <3>4. QED
      BY <3>1, <3>2, <3>3
  <2>4. StreamTaken(CopySize)
    BY <2>2, <2>3 DEF StreamTaken, Pending
  <2>5. QED
    BY <2>3, <2>4
<1>6. CASE AppReplace
  <2>1. Len(data) = bytesUnRead /\ call = "read"
    BY <1>6, <1>b DEF AppReplace, MutualExclusion, BufferShape, ReaderInside, AppInside
  <2>2. Unread' = Unread /\ InHand' = InHand
    BY <1>6, <2>1 DEF AppReplace, Unread, InHand
  <2>3. QED
    BY <1>6, <2>2 DEF AppReplace, StreamKept, Pending
<1>7. CASE AppClear /\ call = "read"
  <2>1. Len(data) = size
    BY <1>7, <1>b DEF AppClear, MutualExclusion, BufferShape, ReaderInside, AppInside
  <2>2. Unread = <<>> /\ Unread' = <<>> /\ InHand' = InHand
    BY <1>7, <1>a, <2>1, NothingAfterEnd DEF AppClear, Unread, InHand
  <2>3. QED
    BY <1>7, <2>2 DEF AppClear, StreamKept, Pending
<1>8. CASE AppClear /\ call # "read"
  <2>1. call = "flush" /\ Unread = data
    BY <1>8, <1>b DEF AppClear, BufferShape, Unread
  <2>2. Unread' = <<>> /\ InHand' = InHand /\ wire' = wire /\ sent' = sent /\ taken' = taken \o data
    BY <1>8, <2>1 DEF AppClear, Unread, InHand
  <2>3. Len(data) \in 0..Len(data) /\ Len(data) \in Nat
    BY <1>a, LenProperties
  <2>4. SubSeq(data, 1, Len(data)) = data /\ SubSeq(data, Len(data) + 1, Len(data)) = <<>>
    BY <1>a, SubSeqFull, NothingAfterEnd
  <2>5. /\ Len(data) \in 0..Len(Pending)
        /\ SubSeq(Pending, 1, Len(data)) = SubSeq(data, 1, Len(data))
        /\ SubSeq(Pending, Len(data) + 1, Len(Pending))
              = (SubSeq(data, Len(data) + 1, Len(data)) \o InHand) \o wire
    <3>1. Pending = (data \o InHand) \o wire
      BY <2>1 DEF Pending
    <3>2. \A n \in 0..Len(data) :
            /\ n \in 0..Len((data \o InHand) \o wire)
            /\ SubSeq((data \o InHand) \o wire, 1, n) = SubSeq(data, 1, n)
            /\ SubSeq((data \o InHand) \o wire, n + 1, Len((data \o InHand) \o wire))
                 = (SubSeq(data, n + 1, Len(data)) \o InHand) \o wire
      <4>1. data \in Seq(Nat) /\ InHand \in Seq(Nat) /\ wire \in Seq(Nat)
        BY <1>0, <1>a
      <4>2. QED
        BY <4>1, TakeFromFront
    <3>3. QED
      BY <2>3, <3>1, <3>2
  <2>6. StreamTaken(Len(data))
    BY <2>2, <2>4, <2>5 DEF StreamTaken, Pending
  <2>7. QED
    BY <2>5, <2>6
<1>9. CASE StartFlush \/ \E max \in ReadSizes : StartRead(max)
  <2>1. Unread' = Unread /\ InHand' = InHand /\ wire' = wire /\ taken' = taken /\ sent' = sent
    BY <1>9 DEF StartFlush, StartRead, Unread, InHand
  <2>2. QED
    BY <2>1 DEF StreamKept, Pending
<1>10. CASE PollEnough \/ PollSame \/ PollDiffers \/ PollRemember
  <2>1. Unread' = Unread /\ InHand' = InHand /\ wire' = wire /\ taken' = taken /\ sent' = sent
    BY <1>10 DEF PollEnough, PollSame, PollDiffers, PollRemember, Unread, InHand
  <2>2. QED
    BY <2>1 DEF StreamKept, Pending
<1>11. CASE AppLock \/ AppShrink \/ AppZero \/ AppUnlock
  <2>1. Unread' = Unread /\ InHand' = InHand /\ wire' = wire /\ taken' = taken /\ sent' = sent
    BY <1>11 DEF AppLock, AppShrink, AppZero, AppUnlock, Unread, InHand
  <2>2. QED
    BY <2>1 DEF StreamKept, Pending
<1>12. CASE UNCHANGED vars
  BY <1>12 DEF vars, StreamKept, Pending, Unread, InHand
<1>13. QED
  BY <1>1, <1>2, <1>3, <1>4, <1>5, <1>6, <1>7, <1>8, <1>9, <1>10, <1>11, <1>12
     DEF Next, Reader, App, AppStep

(* The stream stays the device's output whatever step is taken. *)
LEMMA StreamStep == IInv /\ [Next]_vars => StreamIntact'
<1> SUFFICES ASSUME IInv, [Next]_vars PROVE StreamIntact'
  OBVIOUS
<1>1. /\ taken \in Seq(Nat) /\ wire \in Seq(Nat) /\ sent \in Nat
      /\ taken \o Pending = [i \in 1..sent |-> i]
  BY DEF IInv, TypeInv, StreamIntact
<1>2. Pending \in Seq(Nat)
  <2>1. Unread \in Seq(Nat) /\ InHand \in Seq(Nat)
    BY DerivedTypes DEF IInv
  <2>2. Unread \o InHand \in Seq(Nat)
    BY <2>1, ConcatFacts
  <2>3. QED
    BY <1>1, <2>2, ConcatFacts, Zenon DEF Pending
<1>3. CASE StreamKept
  BY <1>1, <1>3 DEF StreamKept, StreamIntact
<1>4. CASE StreamGrows
  <2>1. taken' \o Pending' = taken \o Append(Pending, sent + 1)
    BY <1>4 DEF StreamGrows
  <2>2. taken \o Append(Pending, sent + 1) = Append(taken \o Pending, sent + 1)
    <3>1. sent + 1 \in Nat
      BY <1>1
    <3>2. taken \in Seq(Nat)
      BY <1>1
    <3>3. QED
      BY <1>2, <3>1, <3>2, AppendToConcat, Zenon
  <2>3. Append(taken \o Pending, sent + 1) = [i \in 1..(sent + 1) |-> i]
    BY <1>1, OutputGrows
  <2>4. QED
    BY <1>4, <2>1, <2>2, <2>3 DEF StreamGrows, StreamIntact
<1>5. ASSUME NEW n \in 0..Len(Pending), StreamTaken(n)
      PROVE  StreamIntact'
  <2> DEFINE p == SubSeq(Pending, 1, n)
             q == SubSeq(Pending, n + 1, Len(Pending))
  <2>1. p \in Seq(Nat) /\ q \in Seq(Nat) /\ p \o q = Pending
    BY <1>2, SplitAt
  <2>2. taken' = taken \o p /\ Pending' = q /\ sent' = sent
    BY <1>5 DEF StreamTaken
  <2> HIDE DEF p, q
  <2>3. (taken \o p) \o q = taken \o (p \o q)
    <3>1. taken \in Seq(Nat) /\ p \in Seq(Nat) /\ q \in Seq(Nat)
      BY <1>1, <2>1
    <3>2. QED
      BY <3>1, ConcatAssoc, Zenon
  <2>4. QED
    BY <1>1, <2>1, <2>2, <2>3 DEF StreamIntact
<1>6. QED
  BY <1>3, <1>4, <1>5, StreamMoves

-----------------------------------------------------------------------------
(* The theorems *)

(* The inductive invariant holds in every reachable state. *)
THEOREM Invariance == Spec => []IInv
<1>1. Init => IInv
  BY InitIInv
<1>2. IInv /\ [Next]_vars => IInv'
  BY TypeStep, MutexStep, ShapeStep, StreamStep DEF IInv
<1>3. QED
  BY <1>1, <1>2, PTL DEF Spec

(* Type correctness: the shared buffer and both threads' locals keep their
   types whatever the interleaving of linuxserial.c and osalserial.c. *)
THEOREM TypeCorrect == Spec => []TypeInv
BY Invariance, PTL DEF IInv

(* The reader thread and the application thread are never inside the
   semaphore together. *)
THEOREM Mutex == Spec => []MutualExclusion
BY Invariance, PTL DEF IInv

(* Whenever the semaphore is free, BytesUnRead is the length of PtrBuffer. *)
THEOREM CountCorrect == Spec => []CountMatchesBuffer
<1>1. IInv => CountMatchesBuffer
  BY DEF IInv, MutualExclusion, BufferShape, CountMatchesBuffer, ReaderInside, AppInside
<1>2. QED
  BY <1>1, Invariance, PTL

(* No byte of the device's output is lost, repeated or reordered on its way
   through the tty, the reader thread and the host buffer. *)
THEOREM NoByteLost == Spec => []StreamIntact
BY Invariance, PTL DEF IInv

(* The port implements the first-in first-out byte channel. *)
THEOREM PortIsAChannel == Spec => ImplementsChannel
<1>1. Init => Channel!Init
  <2>1. Init => Pending = <<>> /\ taken = <<>> /\ sent = 0
    BY ConcatEmptySeq, EmptySeq DEF Init, Pending, Unread, InHand
  <2>2. QED
    BY <2>1 DEF Channel!Init
<1>2. IInv /\ [Next]_vars => [Channel!Next]_(Channel!channelVars)
  <2> SUFFICES ASSUME IInv, [Next]_vars
               PROVE  [Channel!Next]_(Channel!channelVars)
    OBVIOUS
  <2>1. CASE StreamKept
    BY <2>1 DEF StreamKept, Channel!channelVars
  <2>2. CASE StreamGrows /\ sent < MaxBytes
    BY <2>2 DEF StreamGrows, Channel!Next, Channel!Send
  <2>3. ASSUME NEW n \in 0..Len(Pending), StreamTaken(n)
        PROVE  Channel!Next
    BY <2>3 DEF StreamTaken, Channel!Next, Channel!Consume
  <2>4. QED
    BY <2>1, <2>2, <2>3, StreamMoves
<1>3. QED
  BY <1>1, <1>2, Invariance, PTL DEF Spec, ImplementsChannel, Channel!Spec

(* The poll gives up only after MaxReadCycles, and what it saw can only have
   become more by the time the semaphore is taken. *)
PollShape ==
    /\ apc \in PollPoints => retryCount < MaxReadCycles
    /\ apc \in {"lock", "copy"} /\ call = "read" /\ bytesUnRead < want
          => retryCount = MaxReadCycles

(* Every step keeps the poll's retry count within its bound and tied to the
   short read it may lead to. *)
LEMMA PollStep == IInv /\ PollShape /\ [Next]_vars => PollShape'
<1> SUFFICES ASSUME IInv, PollShape, [Next]_vars PROVE PollShape'
  OBVIOUS
<1>0. /\ bytesUnRead \in Nat /\ want \in Nat /\ retryCount \in Nat /\ Len(chunk) \in Nat
      /\ MaxReadCycles \in Nat \ {0}
  BY BufferAssumption, LenProperties DEF IInv, TypeInv
<1>1. MutualExclusion /\ BufferShape
  BY DEF IInv
<1> USE <1>0, <1>1
    DEF PollShape, PollPoints, kernelVars, bufferVars, readerVars, pollVars, callVars, appVars
<1>2. CASE Transmit
  BY <1>2 DEF Transmit
<1>3. CASE ReaderCheck \/ ReaderSpin \/ ReaderRead \/ ReaderLock
  BY <1>3 DEF ReaderCheck, ReaderSpin, ReaderRead, ReaderLock, vars
<1>4. CASE ReaderAppend \/ ReaderUnlock
  BY <1>4 DEF ReaderAppend, ReaderUnlock
<1>5. CASE ReaderCount
  BY <1>5 DEF ReaderCount
<1>6. CASE StartFlush \/ \E max \in ReadSizes : StartRead(max)
  BY <1>6 DEF StartFlush, StartRead
<1>7. CASE PollEnough
  BY <1>7 DEF PollEnough
<1>8. CASE PollSame
  BY <1>8 DEF PollSame
<1>9. CASE PollDiffers \/ PollRemember
  BY <1>9 DEF PollDiffers, PollRemember
<1>10. CASE AppLock
  BY <1>10 DEF AppLock
<1>11. CASE AppCopy \/ AppReplace \/ AppShrink \/ AppClear
  BY <1>11 DEF AppCopy, AppReplace, AppShrink, AppClear
<1>12. CASE AppZero \/ AppUnlock
  BY <1>12 DEF AppZero, AppUnlock
<1>13. CASE UNCHANGED vars
  BY <1>13 DEF vars
<1>14. QED
  BY <1>2, <1>3, <1>4, <1>5, <1>6, <1>7, <1>8, <1>9, <1>10, <1>11, <1>12, <1>13
     DEF Next, Reader, App, AppStep

(* A read returns fewer bytes than asked for only after a whole run of polls
   without a new byte. *)
THEOREM ShortReads == Spec => []ShortReadOnlyAfterSilence
<1>1. Init => PollShape
  BY DEF Init, PollShape, PollPoints
<1>2. IInv /\ PollShape => ShortReadOnlyAfterSilence
  BY DEF IInv, BufferShape, PollShape, ShortReadOnlyAfterSilence
<1>3. QED
  BY <1>1, <1>2, PollStep, Invariance, PTL DEF Spec

(* While a read polls without the semaphore, BytesUnRead never drops. *)
THEOREM PollSeesGrowth == Spec => CountNeverDropsDuringPoll
<1>1. ASSUME IInv, [Next]_vars
      PROVE  (apc \in PollPoints) => (bytesUnRead' >= bytesUnRead)
  <2> SUFFICES ASSUME apc \in PollPoints PROVE bytesUnRead' >= bytesUnRead
    OBVIOUS
  <2>0. bytesUnRead \in Nat /\ Len(chunk) \in Nat
    BY <1>1, LenProperties DEF IInv, TypeInv
  <2> USE <2>0 DEF PollPoints, bufferVars
  <2>1. CASE Transmit
    BY <2>1 DEF Transmit
  <2>2. CASE Reader
    BY <2>2 DEF Reader, ReaderCheck, ReaderSpin, ReaderRead, ReaderLock, ReaderAppend,
                ReaderCount, ReaderUnlock, vars
  <2>3. CASE StartFlush \/ \E max \in ReadSizes : StartRead(max)
    BY <2>3 DEF StartFlush, StartRead
  <2>4. CASE PollEnough \/ PollSame \/ PollDiffers \/ PollRemember
    BY <2>4 DEF PollEnough, PollSame, PollDiffers, PollRemember
  <2>5. CASE AppLock \/ AppCopy \/ AppReplace \/ AppShrink \/ AppClear \/ AppZero \/ AppUnlock
    BY <2>5 DEF AppLock, AppCopy, AppReplace, AppShrink, AppClear, AppZero, AppUnlock
  <2>6. CASE UNCHANGED vars
    BY <2>6 DEF vars
  <2>7. QED
    BY <1>1, <2>1, <2>2, <2>3, <2>4, <2>5, <2>6 DEF Next, App, AppStep
<1>2. QED
  BY <1>1, Invariance, PTL DEF Spec, CountNeverDropsDuringPoll

-----------------------------------------------------------------------------
(* The sessions of the port *)

Files   == {Free, Other} \cup {Tty(s) : s \in Sessions}
Threads == {"none", "check", "poll", "read", "store", "exit"}
Typed   == SessionsTyped

(* Descriptors and threads belong to sessions that were begun. *)
Begun ==
    /\ app \notin {"idle"} => opened \in Sessions
    /\ \A f \in Fds : fdTable[f].kind = "tty" => fdTable[f].session <= opened
    /\ \A s \in Sessions : thread[s] # "none" => s <= opened

(* From the opening to the closing the two descriptors in the handle are those
   of the session, and from the flock on it has the lock. *)
Own ==
    app \in InUse \cup {"lock", "closeFds"} =>
        /\ handleFd[opened] \in Fds /\ writeFd[opened] \in Fds
        /\ fdTable[handleFd[opened]] = Tty(opened)
        /\ fdTable[writeFd[opened]] = Tty(opened)
Held == app \in InUse \cup {"closeFds"} => lock = handleFd[opened]

(* The lock, if a descriptor has it, is with a session that no thread is later
   than: bytes that arrive are not for an earlier session than any thread's. *)
Latest ==
    lock \in Fds =>
        /\ fdTable[lock].kind = "tty"
        /\ \A s \in Sessions : thread[s] # "none" => s <= fdTable[lock].session

(* The bytes under way and stored. *)
NotBefore(bytes, s) == \A i \in DOMAIN bytes : bytes[i] >= s
Bytes ==
    /\ app = "start" => NotBefore(queue, opened)
    /\ \A s \in Sessions :
        /\ thread[s] # "none" => NotBefore(queue, s)
        /\ NotBefore(inHand[s], s) /\ NotBefore(buffer[s], s)

SessionsIInv == Typed /\ Begun /\ Own /\ Held /\ Latest /\ Bytes

-----------------------------------------------------------------------------
(* A byte more, or one sequence after the other. *)
LEMMA NotBeforeAppend ==
    ASSUME NEW bytes \in Seq(Sessions), NEW b \in Sessions, NEW s \in Sessions, NotBefore(bytes, s), b >= s
    PROVE  NotBefore(Append(bytes, b), s)
BY DEF NotBefore, Sessions

LEMMA NotBeforeJoin ==
    ASSUME NEW p \in Seq(Sessions), NEW q \in Seq(Sessions), NEW s \in Sessions, NotBefore(p, s), NotBefore(q, s)
    PROVE  NotBefore(p \o q, s)
BY DEF NotBefore, Sessions

(* What the kinds of file are. *)
LEMMA Kinds ==
    /\ Free.kind = "free" /\ Other.kind = "other"
    /\ \A s \in Sessions : Tty(s).kind = "tty" /\ Tty(s).session = s
    /\ \A x \in Files : x.kind = "tty" => x.session \in Sessions /\ x = Tty(x.session)
BY DEF Free, Other, Tty, Files

(* The initial state. *)
LEMMA InitHolds == SessionsInit => SessionsIInv
<1> SUFFICES ASSUME SessionsInit PROVE SessionsIInv
  OBVIOUS
<1> USE SessionsAssumption DEF SessionsInit
<1>1. Typed
  <2>1. opened \in 0..MaxOpens /\ app \in UserPoints
    BY DEF UserPoints
  <2>6. viaCopy \in BOOLEAN
    BY Zenon
  <2>2. fdTable \in [Fds -> Files] /\ lock \in {Nobody, External} \cup Fds
    BY DEF Files
  <2>3. handleFd \in [Sessions -> Fds \cup {Invalid}] /\ writeFd \in [Sessions -> Fds \cup {Invalid}]
    OBVIOUS
  <2>4. thread \in [Sessions -> Threads] /\ inHand \in [Sessions -> Seq(Sessions)]
    BY DEF Threads
  <2>5. buffer \in [Sessions -> Seq(Sessions)] /\ queue \in Seq(Sessions) /\ transmitted \in 0..MaxTransmitted
    OBVIOUS
  <2> QED
    BY <2>1, <2>2, <2>3, <2>4, <2>5, <2>6 DEF Typed, SessionsTyped, Files, Threads
<1>2. Begun
  BY Kinds DEF Begun
<1>3. Own
  BY DEF Own, InUse
<1>4. Held
  BY DEF Held, InUse
<1>5. Latest
  BY DEF Latest, Nobody, Fds
<1>6. Bytes
  BY DEF Bytes, NotBefore
<1> QED
  BY <1>1, <1>2, <1>3, <1>4, <1>5, <1>6 DEF SessionsIInv

(* Both descriptors of a new session. *)
LEMMA OpenBothKeeps ==
    ASSUME SessionsIInv, OpenBoth
    PROVE  SessionsIInv'
<1> DEFINE s == opened + 1
<1>1. /\ s \in Sessions /\ opened \in Nat
      /\ fdTable \in [Fds -> Files] /\ handleFd \in [Sessions -> Fds \cup {Invalid}]
      /\ writeFd \in [Sessions -> Fds \cup {Invalid}]
  BY SessionsAssumption DEF SessionsIInv, Typed, SessionsTyped, OpenBoth, Sessions, Files
<1>2. PICK r \in Fds, w \in Fds :
        /\ r # w /\ fdTable[r] = Free /\ fdTable[w] = Free
        /\ fdTable' = [fdTable EXCEPT ![r] = Tty(s), ![w] = Tty(s)]
        /\ handleFd' = [handleFd EXCEPT ![s] = r] /\ writeFd' = [writeFd EXCEPT ![s] = w]
  BY DEF OpenBoth, IsLowest, FreeFds
<1>3. /\ opened' = s /\ app' = "lock"
      /\ UNCHANGED <<viaCopy, lock, thread, inHand, buffer, queue, transmitted>>
  BY DEF OpenBoth, threadVars, queueVars
<1> HIDE DEF s
<1>4. Tty(s) \in Files
  BY <1>1 DEF Files
<1>5. /\ fdTable' \in [Fds -> Files] /\ fdTable'[r] = Tty(s) /\ fdTable'[w] = Tty(s)
      /\ \A f \in Fds : f \notin {r, w} => fdTable'[f] = fdTable[f]
  BY <1>1, <1>2, <1>3, <1>4
<1>6. Typed'
  <2>1. opened' \in 0..MaxOpens /\ app' \in UserPoints
    BY <1>1, <1>2, <1>3, SessionsAssumption DEF Sessions, UserPoints
  <2>2. handleFd' \in [Sessions -> Fds \cup {Invalid}] /\ writeFd' \in [Sessions -> Fds \cup {Invalid}]
    BY <1>1, <1>2, <1>3
  <2> QED
    BY <2>1, <2>2, <1>2, <1>3, <1>5 DEF SessionsIInv, Typed, SessionsTyped, Files
<1>7. Begun'
  <2>1. \A f \in Fds : fdTable'[f].kind = "tty" => fdTable'[f].session <= s
    <3> TAKE f \in Fds
    <3>1. CASE f \in {r, w}
      BY <3>1, <1>1, <1>5, Kinds DEF Sessions
    <3>2. CASE f \notin {r, w}
      BY <3>2, <1>1, <1>5, Kinds DEF SessionsIInv, Begun, Sessions, s
    <3> QED
      BY <3>1, <3>2
  <2>2. \A t \in Sessions : thread[t] # "none" => t <= s
    BY <1>1 DEF SessionsIInv, Begun, Sessions, s
  <2> QED
    BY <2>1, <2>2, <1>1, <1>2, <1>3 DEF Begun
<1>8. Own'
  BY <1>1, <1>2, <1>3, <1>5 DEF Own
<1>9. Held'
  BY <1>2, <1>3 DEF Held, InUse
<1>10. Latest'
  <2>1. lock \in Fds => lock \notin {r, w}
    BY <1>2, Kinds DEF SessionsIInv, Latest
  <2> QED
    BY <2>1, <1>2, <1>3, <1>5 DEF SessionsIInv, Latest
<1>11. Bytes'
  BY <1>2, <1>3 DEF SessionsIInv, Bytes
<1> QED
  BY <1>6, <1>7, <1>8, <1>9, <1>10, <1>11 DEF SessionsIInv

(* What closing descriptors leaves. *)
LEMMA Closing ==
    ASSUME Typed, NEW S, CloseFds(S)
    PROVE  /\ fdTable' \in [Fds -> Files] /\ lock' \in {Nobody, External} \cup Fds
           /\ \A f \in Fds : fdTable'[f] # fdTable[f] => f \in S
           /\ \A f \in Fds : fdTable'[f].kind = "tty" => fdTable'[f] = fdTable[f]
           /\ lock' \in Fds => lock' = lock /\ lock \notin S
<1>1. fdTable \in [Fds -> Files] /\ lock \in {Nobody, External} \cup Fds /\ Free \in Files
  BY DEF Typed, SessionsTyped, Files
<1>2. fdTable' = [f \in Fds |-> IF f \in S THEN Free ELSE fdTable[f]]
  BY DEF CloseFds
<1>3. fdTable' \in [Fds -> Files] /\ \A f \in Fds : fdTable'[f] # fdTable[f] => f \in S
  BY <1>1, <1>2
<1>4. \A f \in Fds : fdTable'[f].kind = "tty" => fdTable'[f] = fdTable[f]
  BY <1>1, <1>2, Kinds
<1>5. lock' \in {Nobody, External} \cup Fds /\ (lock' \in Fds => lock' = lock /\ lock \notin S)
  BY <1>1, SessionsAssumption DEF CloseFds, Nobody, Fds
<1> QED
  BY <1>3, <1>4, <1>5

(* The lock is taken, or the descriptors are closed again. *)
LEMMA TakeLockKeeps ==
    ASSUME SessionsIInv, TakeLock
    PROVE  SessionsIInv'
<1>1. /\ opened \in Sessions /\ opened \in 0..MaxOpens
      /\ handleFd[opened] \in Fds /\ fdTable[handleFd[opened]] = Tty(opened)
      /\ UNCHANGED <<opened, viaCopy, thread, inHand, buffer, queue, transmitted>>
  BY DEF SessionsIInv, Typed, SessionsTyped, Begun, Own, TakeLock, threadVars, queueVars
<1>2. CASE /\ lock' = handleFd[opened] /\ app' = "configure"
           /\ UNCHANGED <<fdTable, handleFd, writeFd>>
  <2>1. Typed'
    BY <1>1, <1>2 DEF SessionsIInv, Typed, SessionsTyped, UserPoints
  <2>2. Begun' /\ Own' /\ Held'
    BY <1>1, <1>2 DEF SessionsIInv, Begun, Own, Held, InUse, TakeLock
  <2>3. Latest'
    BY <1>1, <1>2, Kinds DEF SessionsIInv, Begun, Latest
  <2>4. Bytes'
    BY <1>1, <1>2 DEF SessionsIInv, Bytes
  <2> QED
    BY <2>1, <2>2, <2>3, <2>4 DEF SessionsIInv
<1>3. CASE /\ CloseFds({handleFd[opened], writeFd[opened]})
           /\ handleFd' = [handleFd EXCEPT ![opened] = Invalid]
           /\ writeFd' = [writeFd EXCEPT ![opened] = Invalid]
           /\ app' = "idle"
  <2>1. /\ fdTable' \in [Fds -> Files] /\ lock' \in {Nobody, External} \cup Fds
        /\ \A f \in Fds : fdTable'[f].kind = "tty" => fdTable'[f] = fdTable[f]
        /\ lock' \in Fds => lock' = lock /\ fdTable'[lock] = fdTable[lock]
    BY <1>3, Closing DEF SessionsIInv, CloseFds
  <2>2. /\ handleFd' \in [Sessions -> Fds \cup {Invalid}]
        /\ writeFd' \in [Sessions -> Fds \cup {Invalid}]
    BY <1>3 DEF SessionsIInv, Typed, SessionsTyped
  <2>3. Typed'
    BY <1>1, <1>3, <2>1, <2>2 DEF SessionsIInv, Typed, SessionsTyped, UserPoints, Files
  <2>4. Begun' /\ Own' /\ Held'
    BY <1>1, <1>3, <2>1 DEF SessionsIInv, Begun, Own, Held, InUse
  <2>5. Latest'
    BY <1>1, <2>1 DEF SessionsIInv, Latest
  <2>6. Bytes'
    BY <1>1, <1>3 DEF SessionsIInv, Bytes
  <2> QED
    BY <2>3, <2>4, <2>5, <2>6 DEF SessionsIInv
<1> QED
  BY <1>2, <1>3 DEF TakeLock, handleVars

(* The tty queue is emptied. *)
LEMMA ConfigureKeeps ==
    ASSUME SessionsIInv, Configure
    PROVE  SessionsIInv'
<1>1. /\ app = "configure" /\ app' = "start" /\ queue' = <<>>
      /\ UNCHANGED <<opened, viaCopy, fdTable, lock, handleFd, writeFd, thread, inHand, buffer, transmitted>>
  BY DEF Configure, fdVars, handleVars, threadVars
<1>2. Typed'
  <2>1. queue' \in Seq(Sessions) /\ app' \in UserPoints
    BY <1>1 DEF UserPoints
  <2> QED
    BY <1>1, <2>1 DEF SessionsIInv, Typed, SessionsTyped
<1>3. Begun' /\ Own' /\ Held' /\ Latest'
  BY <1>1 DEF SessionsIInv, Begun, Own, Held, InUse, Latest
<1>4. Bytes'
  BY <1>1 DEF SessionsIInv, Bytes, NotBefore
<1> QED
  BY <1>2, <1>3, <1>4 DEF SessionsIInv

(* The reader thread begins with what arrived since, or not at all. *)
LEMMA StartThreadKeeps ==
    ASSUME SessionsIInv, StartThread
    PROVE  SessionsIInv'
<1>1. /\ app = "start" /\ opened \in Sessions /\ lock = handleFd[opened] /\ lock \in Fds
      /\ fdTable[lock] = Tty(opened) /\ NotBefore(queue, opened)
      /\ UNCHANGED <<opened, viaCopy, fdTable, lock, handleFd, writeFd, inHand, buffer, queue, transmitted>>
  BY DEF SessionsIInv, Begun, Own, Held, InUse, Bytes, StartThread, fdVars, handleVars, queueVars
<1>2. /\ app' \in {"check", "idle"}
      /\ thread' \in [Sessions -> Threads]
      /\ \A s \in Sessions : thread'[s] # "none" => thread[s] # "none" \/ s = opened
  BY <1>1 DEF SessionsIInv, Typed, SessionsTyped, StartThread, Threads
<1>3. Typed'
  BY <1>1, <1>2 DEF SessionsIInv, Typed, SessionsTyped, UserPoints, Threads
<1>4. Begun' /\ Own' /\ Held'
  <2>1. opened <= opened
    BY <1>1 DEF Sessions
  <2> QED
    BY <2>1, <1>1, <1>2 DEF SessionsIInv, Begun, Own, Held, InUse
<1>5. Latest'
  <2>1. \A s \in Sessions : thread'[s] # "none" => s <= opened
    BY <1>1, <1>2 DEF SessionsIInv, Begun, Sessions
  <2> QED
    BY <2>1, <1>1, Kinds DEF Latest
<1>6. Bytes'
  BY <1>1, <1>2 DEF SessionsIInv, Bytes
<1> QED
  BY <1>3, <1>4, <1>5, <1>6 DEF SessionsIInv

(* The rest of the discovery, up to the decision to close. *)
LEMMA UseKeeps ==
    ASSUME SessionsIInv, CheckConsole \/ Qualify \/ FreeDevice
    PROVE  SessionsIInv'
<1>1. /\ app \in InUse /\ app' \in {"qualify", "connected", "closeFds", "idle"}
      /\ viaCopy' \in BOOLEAN
      /\ UNCHANGED <<opened, fdTable, lock, handleFd, writeFd, thread, inHand, buffer, queue, transmitted>>
  <2>1. viaCopy \in BOOLEAN
    BY DEF SessionsIInv, Typed, SessionsTyped
  <2> QED
    BY <2>1, ZenonT(30) DEF CheckConsole, Qualify, FreeDevice, InUse, fdVars, handleVars, threadVars, queueVars
<1>2. Typed'
  BY <1>1 DEF SessionsIInv, Typed, SessionsTyped, UserPoints
<1>3. Begun' /\ Own' /\ Held' /\ Latest'
  BY <1>1 DEF SessionsIInv, Begun, Own, Held, InUse, Latest
<1>4. Bytes'
  BY <1>1 DEF SessionsIInv, Bytes
<1> QED
  BY <1>2, <1>3, <1>4 DEF SessionsIInv

(* The descriptors are closed. *)
LEMMA ClosePortKeeps ==
    ASSUME SessionsIInv, ClosePort
    PROVE  SessionsIInv'
<1>1. /\ opened \in Sessions /\ app' = "resetHandle"
      /\ CloseFds({handleFd[opened], writeFd[opened]})
      /\ UNCHANGED <<opened, viaCopy, handleFd, writeFd, thread, inHand, buffer, queue, transmitted>>
  BY DEF SessionsIInv, Begun, ClosePort, handleVars, threadVars, queueVars
<1>2. /\ fdTable' \in [Fds -> Files] /\ lock' \in {Nobody, External} \cup Fds
      /\ \A f \in Fds : fdTable'[f].kind = "tty" => fdTable'[f] = fdTable[f]
      /\ lock' \in Fds => lock' = lock /\ fdTable'[lock] = fdTable[lock]
  BY <1>1, Closing DEF SessionsIInv, CloseFds
<1>3. Typed'
  BY <1>1, <1>2 DEF SessionsIInv, Typed, SessionsTyped, UserPoints, Files
<1>4. Begun' /\ Own' /\ Held'
  BY <1>1, <1>2 DEF SessionsIInv, Begun, Own, Held, InUse
<1>5. Latest'
  BY <1>1, <1>2 DEF SessionsIInv, Latest
<1>6. Bytes'
  BY <1>1 DEF SessionsIInv, Bytes
<1> QED
  BY <1>3, <1>4, <1>5, <1>6 DEF SessionsIInv

(* The handle is reset. *)
LEMMA ResetHandleKeeps ==
    ASSUME SessionsIInv, ResetHandle
    PROVE  SessionsIInv'
<1>1. /\ app' = "idle"
      /\ UNCHANGED <<opened, viaCopy, fdTable, lock, thread, inHand, buffer, queue, transmitted>>
  BY DEF ResetHandle, fdVars, threadVars, queueVars
<1>2. handleFd' \in [Sessions -> Fds \cup {Invalid}] /\ writeFd' \in [Sessions -> Fds \cup {Invalid}]
  BY DEF SessionsIInv, Typed, SessionsTyped, ResetHandle
<1>3. Typed'
  BY <1>1, <1>2 DEF SessionsIInv, Typed, SessionsTyped, UserPoints
<1>4. Begun' /\ Own' /\ Held' /\ Latest'
  BY <1>1 DEF SessionsIInv, Begun, Own, Held, InUse, Latest
<1>5. Bytes'
  BY <1>1 DEF SessionsIInv, Bytes
<1> QED
  BY <1>3, <1>4, <1>5 DEF SessionsIInv

(* A reader thread looks, reads and stores; what it reads was on the way when it
   was there. *)
LEMMA ThreadKeeps ==
    ASSUME SessionsIInv, NEW t \in Sessions, Thread(t)
    PROVE  SessionsIInv'
<1>1. UNCHANGED <<opened, app, viaCopy, fdTable, lock, handleFd, writeFd, transmitted>>
  BY DEF Thread, ThreadCheck, ThreadPoll, ThreadRead, ThreadStore, userVars, fdVars, handleVars, queueVars
<1>2. /\ thread \in [Sessions -> Threads] /\ inHand \in [Sessions -> Seq(Sessions)]
      /\ buffer \in [Sessions -> Seq(Sessions)] /\ queue \in Seq(Sessions)
  BY DEF SessionsIInv, Typed, SessionsTyped, Threads
<1>3. /\ thread' \in [Sessions -> Threads] /\ thread[t] # "none"
      /\ \A s \in Sessions : thread'[s] # "none" => thread[s] # "none"
  BY <1>2 DEF Thread, ThreadCheck, ThreadPoll, ThreadRead, ThreadStore, Threads
<1>4. queue' \in Seq(Sessions) /\ \A s : NotBefore(queue, s) => NotBefore(queue', s)
  <2>1. queue' = queue \/ queue' = <<>>
    BY DEF Thread, ThreadCheck, ThreadPoll, ThreadRead, ThreadStore, queueVars
  <2>2. <<>> \in Seq(Sessions) /\ \A s : NotBefore(<<>>, s)
    BY DEF NotBefore
  <2> QED
    BY <2>1, <2>2, <1>2
<1>5. inHand' \in [Sessions -> Seq(Sessions)] /\ \A s \in Sessions : NotBefore(inHand'[s], s)
  <2>1. CASE inHand' = inHand
    BY <2>1, <1>2 DEF SessionsIInv, Bytes
  <2>2. CASE inHand' = [inHand EXCEPT ![t] = queue]
    BY <2>2, <1>2, <1>3 DEF SessionsIInv, Bytes
  <2>3. CASE inHand' = [inHand EXCEPT ![t] = <<>>]
    <3>1. NotBefore(<<>>, t) /\ <<>> \in Seq(Sessions)
      BY DEF NotBefore
    <3> QED
      BY <2>3, <3>1, <1>2 DEF SessionsIInv, Bytes
  <2> QED
    BY <2>1, <2>2, <2>3 DEF Thread, ThreadCheck, ThreadPoll, ThreadRead, ThreadStore
<1>6. buffer' \in [Sessions -> Seq(Sessions)] /\ \A s \in Sessions : NotBefore(buffer'[s], s)
  <2>1. CASE buffer' = buffer
    BY <2>1, <1>2 DEF SessionsIInv, Bytes
  <2>2. CASE buffer' = [buffer EXCEPT ![t] = @ \o inHand[t]]
    <3>1. NotBefore(buffer[t], t) /\ NotBefore(inHand[t], t)
      BY DEF SessionsIInv, Bytes
    <3>2. NotBefore(buffer[t] \o inHand[t], t) /\ buffer[t] \o inHand[t] \in Seq(Sessions)
      BY <3>1, <1>2, NotBeforeJoin
    <3> QED
      BY <2>2, <3>2, <1>2 DEF SessionsIInv, Bytes
  <2> QED
    BY <2>1, <2>2 DEF Thread, ThreadCheck, ThreadPoll, ThreadRead, ThreadStore
<1>7. Typed'
  BY <1>1, <1>3, <1>4, <1>5, <1>6 DEF SessionsIInv, Typed, SessionsTyped, Threads
<1>8. Begun' /\ Own' /\ Held' /\ Latest'
  BY <1>1, <1>3 DEF SessionsIInv, Begun, Own, Held, Latest
<1>9. Bytes'
  <2>1. app' = "start" => NotBefore(queue', opened')
    BY <1>1, <1>4 DEF SessionsIInv, Bytes, Begun
  <2> QED
    BY <2>1, <1>3, <1>4, <1>5, <1>6 DEF SessionsIInv, Bytes
<1> QED
  BY <1>7, <1>8, <1>9 DEF SessionsIInv

(* A byte arrives for the session that has the lock, or for the last one begun. *)
LEMMA TransmitKeeps ==
    ASSUME SessionsIInv, DeviceTransmits
    PROVE  SessionsIInv'
<1> DEFINE b == IF lock \in Fds THEN fdTable[lock].session ELSE opened
<1>1. /\ queue' = Append(queue, b) /\ transmitted' = transmitted + 1 /\ transmitted < MaxTransmitted
      /\ \E f \in Fds : fdTable[f].kind = "tty"
      /\ UNCHANGED <<opened, app, viaCopy, fdTable, lock, handleFd, writeFd, thread, inHand, buffer>>
  BY DEF DeviceTransmits, userVars, fdVars, handleVars, threadVars
<1>2. queue \in Seq(Sessions) /\ opened \in 0..MaxOpens /\ fdTable \in [Fds -> Files]
  BY DEF SessionsIInv, Typed, SessionsTyped, Files
<1>3. b \in Sessions
  <2>1. CASE lock \in Fds
    BY <2>1, <1>2, Kinds DEF SessionsIInv, Latest
  <2>2. CASE lock \notin Fds
    <3>1. PICK f \in Fds : fdTable[f].kind = "tty"
      BY <1>1
    <3>2. fdTable[f].session \in Sessions /\ fdTable[f].session <= opened
      BY <3>1, <1>2, Kinds DEF SessionsIInv, Begun
    <3> QED
      BY <2>2, <3>2, <1>2, SessionsAssumption DEF Sessions
  <2> QED
    BY <2>1, <2>2
<1>4. \A s \in Sessions : thread[s] # "none" => b >= s
  BY <1>2, <1>3 DEF SessionsIInv, Latest, Begun, Sessions
<1>5. app = "start" => b >= opened
  <2>1. app = "start" => lock \in Fds /\ fdTable[lock] = Tty(opened) /\ opened \in Sessions
    BY DEF SessionsIInv, Own, Held, Begun, InUse
  <2> QED
    BY <2>1, Kinds DEF Sessions
<1> HIDE DEF b
<1>6. Typed'
  <2>1. transmitted' \in 0..MaxTransmitted
    BY <1>1, SessionsAssumption DEF SessionsIInv, Typed, SessionsTyped
  <2>2. queue' \in Seq(Sessions)
    BY <1>1, <1>2, <1>3
  <2> QED
    BY <2>1, <2>2, <1>1 DEF SessionsIInv, Typed, SessionsTyped
<1>7. Begun' /\ Own' /\ Held' /\ Latest'
  BY <1>1 DEF SessionsIInv, Begun, Own, Held, Latest
<1>8. Bytes'
  <2>1. app = "start" => NotBefore(queue', opened)
    BY <1>1, <1>2, <1>3, <1>5, NotBeforeAppend DEF SessionsIInv, Bytes, Begun
  <2>2. \A s \in Sessions : thread[s] # "none" => NotBefore(queue', s)
    BY <1>1, <1>2, <1>3, <1>4, NotBeforeAppend DEF SessionsIInv, Bytes
  <2> QED
    BY <2>1, <2>2, <1>1 DEF SessionsIInv, Bytes
<1> QED
  BY <1>6, <1>7, <1>8 DEF SessionsIInv

(* Another process locks or unlocks the tty; not while the library has the lock. *)
LEMMA OtherProcessKeeps ==
    ASSUME SessionsIInv, OtherProcess
    PROVE  SessionsIInv'
<1>1. /\ lock \notin Fds /\ lock' \notin Fds /\ lock' \in {Nobody, External}
      /\ UNCHANGED <<opened, app, viaCopy, fdTable, handleFd, writeFd, thread, inHand, buffer, queue, transmitted>>
  BY SessionsAssumption DEF OtherProcess, Nobody, External, Fds, userVars, handleVars, threadVars, queueVars
<1>2. app \notin InUse \cup {"closeFds"}
  BY <1>1 DEF SessionsIInv, Own, Held
<1>3. Typed'
  BY <1>1 DEF SessionsIInv, Typed, SessionsTyped
<1>4. Begun' /\ Own' /\ Held' /\ Latest' /\ Bytes'
  BY <1>1, <1>2 DEF SessionsIInv, Begun, Own, Held, Latest, Bytes
<1> QED
  BY <1>3, <1>4 DEF SessionsIInv

(* Other files of the process come and go; a descriptor of the tty is neither free
   nor another file. *)
LEMMA OtherFileKeeps ==
    ASSUME SessionsIInv, OtherFile
    PROVE  SessionsIInv'
<1>1. UNCHANGED <<opened, app, viaCopy, lock, handleFd, writeFd, thread, inHand, buffer, queue, transmitted>>
  BY DEF OtherFile, userVars, handleVars, threadVars, queueVars
<1>2. /\ fdTable' \in [Fds -> Files]
      /\ \A f \in Fds : fdTable[f].kind = "tty" \/ fdTable'[f].kind = "tty" => fdTable'[f] = fdTable[f]
  <2>1. fdTable \in [Fds -> Files]
    BY DEF SessionsIInv, Typed, SessionsTyped, Files
  <2>2. PICK f \in Fds, x \in {Free, Other} : fdTable[f] \in {Free, Other} /\ fdTable' = [fdTable EXCEPT ![f] = x]
    BY DEF OtherFile, IsLowest, FreeFds
  <2> QED
    BY <2>1, <2>2, Kinds DEF Files
<1>3. Typed'
  BY <1>1, <1>2 DEF SessionsIInv, Typed, SessionsTyped, Files
<1>4. Own'
  <2>1. opened \in Sessions => Tty(opened).kind = "tty"
    BY Kinds
  <2> QED
    BY <2>1, <1>1, <1>2 DEF SessionsIInv, Own, Begun, InUse
<1>5. Begun' /\ Held' /\ Latest' /\ Bytes'
  BY <1>1, <1>2 DEF SessionsIInv, Begun, Held, Latest, Bytes
<1> QED
  BY <1>3, <1>4, <1>5 DEF SessionsIInv

-----------------------------------------------------------------------------
(* Every step keeps the invariant. *)
LEMMA StepKeeps == SessionsIInv /\ [SessionsNext]_sessionVars => SessionsIInv'
<1> SUFFICES ASSUME SessionsIInv, [SessionsNext]_sessionVars PROVE SessionsIInv'
  OBVIOUS
<1>1. CASE UNCHANGED sessionVars
  BY <1>1 DEF sessionVars, userVars, fdVars, handleVars, threadVars, queueVars,
              SessionsIInv, Typed, SessionsTyped, Begun, Own, Held, Latest, Bytes
<1>2. CASE SessionsNext
  BY <1>2, OpenBothKeeps, TakeLockKeeps, ConfigureKeeps, StartThreadKeeps, UseKeeps, ClosePortKeeps,
     ResetHandleKeeps, ThreadKeeps, TransmitKeeps, OtherProcessKeeps, OtherFileKeeps DEF SessionsNext
<1> QED
  BY <1>1, <1>2

(* The inductive invariant holds in every reachable state. *)
THEOREM SessionsInvariance == SessionsSpec => []SessionsIInv
<1> QED
  BY InitHolds, StepKeeps, PTL DEF SessionsSpec

(* The descriptors, handles, threads and buffers stay in their types. *)
THEOREM SessionsTypeCorrect == SessionsSpec => []SessionsTyped
<1>1. SessionsIInv => SessionsTyped
  BY DEF SessionsIInv, Typed
<1> QED
  BY <1>1, SessionsInvariance, PTL

(* From the flock to the close the session in use holds the lock of the tty through
   its own read descriptor, whatever numbers the kernel gives out around it. *)
THEOREM LockIsHeld == SessionsSpec => []LockGuardsSession
<1>1. SessionsIInv => LockGuardsSession
  BY DEF SessionsIInv, Own, Held, LockGuardsSession, InUse
<1> QED
  BY <1>1, SessionsInvariance, PTL

(* No thread stores bytes that were sent to an earlier session. *)
THEOREM NothingEarlier == SessionsSpec => []NoBytesFromEarlierSession
<1>1. SessionsIInv => NoBytesFromEarlierSession
  BY DEF SessionsIInv, Bytes, NotBefore, NoBytesFromEarlierSession
<1> QED
  BY <1>1, SessionsInvariance, PTL

(* spiClosePort closes the two descriptors of its session and no other. *)
THEOREM OwnDescriptors == SessionsSpec => ClosesOnlyItsOwn
<1> DEFINE Closes == ClosePort => \A f \in Fds : fdTable'[f] # fdTable[f] => fdTable[f] = Tty(opened)
<1>1. SessionsIInv => Closes
  <2> SUFFICES ASSUME SessionsIInv, ClosePort, NEW f \in Fds, fdTable'[f] # fdTable[f]
               PROVE  fdTable[f] = Tty(opened)
    OBVIOUS
  <2>1. f \in {handleFd[opened], writeFd[opened]}
    BY Closing DEF SessionsIInv, ClosePort
  <2> QED
    BY <2>1 DEF SessionsIInv, Own, ClosePort
<1> QED
  BY <1>1, SessionsInvariance, PTL DEF ClosesOnlyItsOwn
===============================================================================
