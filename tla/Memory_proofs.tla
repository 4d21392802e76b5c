---------------------------- MODULE Memory_proofs ----------------------------
(***************************************************************************)
(* Proofs about the two ways to the memory of a device that have a state   *)
(* of their own: the register window of a PCI switch (AtlasWindow) and the *)
(* SDB console of a serial line (SdbConsole).                              *)
(*                                                                         *)
(* For every set of registers, every set of values and every number of     *)
(* retries, reads through the window are right, writes land, and the       *)
(* window is never disturbed while its engine works.  For every address    *)
(* space, block, number of attempts, calls and faults, block reads over    *)
(* the console store the words of their addresses, the line is in step     *)
(* between calls, and the console remembers the address that the library   *)
(* takes it to remember.                                                   *)
(***************************************************************************)
EXTENDS AtlasWindow, SdbConsole, SequenceTheorems, TLAPS

(***************************************************************************)
(* The register window of a PCI switch.                                    *)
(***************************************************************************)

(* What a call knows of its own progress. *)
CallShape ==
    /\ pc # "idle" => left >= 1 /\ address + left <= Size
    /\ pc # "idle" /\ op = "read" => address = first + Len(words)
    /\ op = "write" => words = <<>>
    /\ pc \in {"busy", "poll"} => tries >= 1
    /\ pc = "data" => op = "write"
    /\ pc \in {"poll", "fetch"} => op = "read"

(* What a call knows of the window at each point: the engine is idle from the
   busy check to the command, and what the call has written is still there. *)
WindowShape ==
    /\ pc \in {"clear", "address", "data", "command"} => fsm = "idle"
    /\ fsm # "idle" => wAddress \in Registers
    /\ present =>
        /\ pc \in {"address", "data", "command"} => ~ready
        /\ pc \in {"data", "command", "poll", "fetch"} => wAddress = address
        /\ pc = "command" /\ op = "write" => wData = value
        /\ pc = "poll" => fsm # "write"
        /\ pc = "poll" /\ ready => fsm = "idle" /\ wData = axi[wAddress]
        /\ pc = "fetch" => fsm = "idle" /\ wData = axi[wAddress]

(* No word already delivered is about to be changed by a posted write. *)
WordsSettled ==
    present /\ ~overtaken =>
        \A i \in 1 .. Len(words) :
            words[i] # Unset => ~(fsm = "write" /\ wAddress = first + i - 1)

WindowIInv == TypeInv /\ CallShape /\ WindowShape /\ WordsSettled /\ WindowReadsRight /\ WritesLand

-----------------------------------------------------------------------------
(* The empty sequence. *)
LEMMA EmptyWords ==
    ASSUME NEW S
    PROVE  <<>> \in Seq(S) /\ Len(<<>>) = 0
OBVIOUS

(* Delivering a word: the words of the call after it. *)
LEMMA AppendWord ==
    ASSUME NEW S, NEW s \in Seq(S), NEW w \in S
    PROVE  /\ Append(s, w) \in Seq(S)
           /\ Len(s) \in Nat /\ Len(Append(s, w)) = Len(s) + 1
           /\ \A i \in 1 .. Len(s) : Append(s, w)[i] = s[i]
           /\ Append(s, w)[Len(s) + 1] = w
BY AppendProperties, LenProperties

(* The initial state. *)
LEMMA WindowInitHolds == WindowInit => WindowIInv
<1> SUFFICES ASSUME WindowInit PROVE WindowIInv
  OBVIOUS
<1> USE WindowAssumption, EmptyWords DEF WindowInit
<1>1. TypeInv
  BY DEF TypeInv, Points
<1>2. CallShape /\ WindowShape
  BY DEF CallShape, WindowShape
<1>3. WordsSettled /\ WindowReadsRight
  BY DEF WordsSettled, WindowReadsRight
<1>4. WritesLand
  BY DEF WritesLand
<1>5. QED
  BY <1>1, <1>2, <1>3, <1>4 DEF WindowIInv

(* What the register at hand is. *)
LEMMA AddressInRange == WindowIInv /\ pc # "idle" => address \in Registers
BY WindowAssumption DEF WindowIInv, TypeInv, CallShape, Registers

-----------------------------------------------------------------------------
(* The next states keep the types. *)
LEMMA WindowTypeStep == WindowIInv /\ [WindowNext]_allVars => TypeInv'
<1> SUFFICES ASSUME WindowIInv, [WindowNext]_allVars PROVE TypeInv'
  OBVIOUS
<1>t. TypeInv /\ CallShape /\ WindowShape
  BY DEF WindowIInv
<1> USE WindowAssumption DEF Points, registers, windowVars, request, progress
<1>1. CASE EngineCompletes
  <2>1. /\ UNCHANGED <<expected, overtaken, present, wAddress, pc, request, progress,
                       tries, status>>
        /\ fsm' = "idle"
        /\ ready' = TRUE \/ ready' = ready
    BY <1>1, Zenon DEF EngineCompletes
  <2>2. axi' \in [Registers -> Values] /\ wData' \in Values
    BY <1>t, <1>1, SMTT(60) DEF TypeInv, WindowShape, EngineCompletes
  <2>3. QED
    BY <1>t, <2>1, <2>2, ZenonT(60) DEF TypeInv
<1>2. CASE Vanish
  BY <1>t, <1>2, ZenonT(60) DEF TypeInv, Vanish
<1>3. CASE \E r \in Registers : \E n \in 1 .. Size - r : StartRead(r, n)
  <2>1. PICK r \in Registers : \E n \in 1 .. Size - r : StartRead(r, n)
    BY <1>3
  <2>2. PICK n \in 1 .. Size - r : StartRead(r, n)
    BY <2>1
  <2>3. r \in Nat /\ n \in Nat
    BY DEF Registers
  <2>4. QED
    BY <1>t, <2>2, <2>3, EmptyWords DEF TypeInv, StartRead, Busy
<1>4. CASE \E r \in Registers, v \in Values : StartWrite(r, v)
  <2>1. PICK r \in Registers, v \in Values : StartWrite(r, v)
    BY <1>4
  <2>2. r \in Nat
    BY DEF Registers
  <2>3. QED
    BY <1>t, <2>1, <2>2, EmptyWords DEF TypeInv, StartWrite, Busy
<1>5. CASE CheckBusy
  BY <1>t, <1>5 DEF TypeInv, CallShape, CheckBusy
<1>6. CASE ClearControl
  BY <1>t, <1>6 DEF TypeInv, ClearControl
<1>7. CASE SetAddress
  BY <1>t, <1>7 DEF TypeInv, SetAddress
<1>8. CASE SetData
  BY <1>t, <1>8 DEF TypeInv, SetData
<1>9. CASE CommandRead
  BY <1>t, <1>9 DEF TypeInv, CommandRead, Go
<1>10. CASE CommandWrite
  BY <1>t, <1>10 DEF TypeInv, CommandWrite, Go, Finish
<1>11. CASE Poll
  BY <1>t, <1>11 DEF TypeInv, CallShape, Poll, Finish
<1>d. ASSUME NEW w \in Values \cup {Ones, Unset}, Deliver(w),
             pc # "idle"
      PROVE  /\ words' \in Seq(Values \cup {Ones, Unset})
             /\ left' \in Nat /\ address' \in Nat /\ tries' \in Nat
             /\ pc' \in Points
             /\ status' \in {status, "SUCCESS"}
  <2>1. words' \in Seq(Values \cup {Ones, Unset})
    BY <1>t, <1>d, AppendWord DEF TypeInv, Deliver
  <2>2. QED
    BY <1>t, <1>d, <2>1 DEF TypeInv, CallShape, Deliver, Busy
<1>12. CASE Fetch
  <2>1. (IF present THEN wData ELSE Ones) \in Values \cup {Ones, Unset}
    BY <1>t DEF TypeInv
  <2>2. pc # "idle" /\ Deliver(IF present THEN wData ELSE Ones)
    BY <1>12 DEF Fetch
  <2>3. QED
    BY <1>t, <1>12, <1>d, <2>1, <2>2 DEF TypeInv, Fetch
<1>13. CASE FallbackRead
  <2>1. pc # "idle"
    BY <1>13 DEF FallbackRead
  <2>2. CASE address \in Mapped
    <3>1. (IF present THEN axi[address] ELSE Ones) \in Values \cup {Ones, Unset}
      BY <1>t, <2>2 DEF TypeInv
    <3>2. Deliver(IF present THEN axi[address] ELSE Ones) /\ overtaken' = (overtaken \/ Overtakes)
      BY <1>13, <2>2 DEF FallbackRead
    <3>3. overtaken' \in BOOLEAN
      BY <1>t, <3>2 DEF TypeInv, Overtakes
    <3>4. QED
      BY <1>t, <1>13, <1>d, <2>1, <3>1, <3>2, <3>3 DEF TypeInv, FallbackRead
  <2>3. CASE address \in Ignored
    <3>1. Deliver(Unset) /\ overtaken' = overtaken
      BY <1>13, <2>3 DEF FallbackRead
    <3>2. QED
      BY <1>t, <1>13, <1>d, <2>1, <3>1 DEF TypeInv, FallbackRead
  <2>4. CASE address \notin Mapped \cup Ignored
    BY <1>t, <1>13, <2>4 DEF TypeInv, FallbackRead, Finish
  <2>5. QED
    BY <2>2, <2>3, <2>4
<1>14. CASE FallbackWrite
  BY <1>t, <1>14 DEF TypeInv, FallbackWrite, Finish, Overtakes
<1>15. CASE Done \/ UNCHANGED allVars
  BY <1>t, <1>15 DEF TypeInv, Done, allVars
<1>16. QED
  BY <1>1, <1>2, <1>3, <1>4, <1>5, <1>6, <1>7, <1>8, <1>9, <1>10, <1>11, <1>12,
     <1>13, <1>14, <1>15 DEF WindowNext, Start, Step

-----------------------------------------------------------------------------
(* What Deliver does to a call in progress. *)
LEMMA DeliverKeepsCall ==
    ASSUME WindowIInv, pc # "idle", op = "read", NEW w \in Values \cup {Ones, Unset}, Deliver(w)
    PROVE  /\ pc' \in {"idle", "busy"}
           /\ pc' = "busy" => /\ left' >= 1 /\ address' + left' <= Size
                              /\ address' = first + Len(words') /\ tries' >= 1
           /\ Len(words) \in Nat /\ Len(words') = Len(words) + 1
           /\ \A i \in 1 .. Len(words) : words'[i] = words[i]
           /\ words'[Len(words) + 1] = w
           /\ address = first + (Len(words) + 1) - 1
<1>t. TypeInv /\ CallShape
  BY DEF WindowIInv
<1>1. /\ Len(words) \in Nat /\ Len(words') = Len(words) + 1
      /\ \A i \in 1 .. Len(words) : words'[i] = words[i]
      /\ words'[Len(words) + 1] = w
  BY <1>t, AppendWord DEF TypeInv, Deliver
<1>2. address = first + Len(words) /\ first \in Nat /\ left \in Nat /\ address \in Nat
  BY <1>t DEF TypeInv, CallShape
<1>3. QED
  BY <1>t, <1>1, <1>2, WindowAssumption DEF CallShape, Deliver, Busy

(* The next states keep what a call knows of its own progress. *)
LEMMA CallStep == WindowIInv /\ [WindowNext]_allVars => CallShape'
<1> SUFFICES ASSUME WindowIInv, [WindowNext]_allVars PROVE CallShape'
  OBVIOUS
<1>t. TypeInv /\ CallShape
  BY DEF WindowIInv
<1> USE WindowAssumption DEF CallShape, registers, windowVars, request, progress
<1>1. CASE EngineCompletes \/ Vanish
  BY <1>t, <1>1 DEF EngineCompletes, Vanish
<1>2. CASE \E r \in Registers : \E n \in 1 .. Size - r : StartRead(r, n)
  <2>1. PICK r \in Registers : \E n \in 1 .. Size - r : StartRead(r, n)
    BY <1>2
  <2>2. PICK n \in 1 .. Size - r : StartRead(r, n)
    BY <2>1
  <2>3. r \in Nat /\ n \in Nat /\ n >= 1 /\ r + n <= Size
    BY DEF Registers
  <2>4. QED
    BY <2>2, <2>3, EmptyWords DEF StartRead, Busy
<1>3. CASE \E r \in Registers, v \in Values : StartWrite(r, v)
  <2>1. PICK r \in Registers, v \in Values : StartWrite(r, v)
    BY <1>3
  <2>2. r \in Nat /\ r + 1 <= Size
    BY DEF Registers
  <2>3. QED
    BY <2>1, <2>2 DEF StartWrite, Busy
<1>4. CASE CheckBusy
  BY <1>t, <1>4 DEF TypeInv, CheckBusy
<1>5. CASE ClearControl \/ SetAddress \/ SetData
  BY <1>t, <1>5 DEF ClearControl, SetAddress, SetData
<1>6. CASE CommandRead \/ CommandWrite
  BY <1>t, <1>6 DEF CommandRead, CommandWrite, Finish
<1>7. CASE Poll
  BY <1>t, <1>7, SMTT(60) DEF TypeInv, Poll, Finish
<1>d. ASSUME NEW w \in Values \cup {Ones, Unset}, Deliver(w), pc # "idle", op = "read",
             UNCHANGED request
      PROVE  CallShape'
  BY <1>d, DeliverKeepsCall
<1>8. CASE Fetch
  <2>1. (IF present THEN wData ELSE Ones) \in Values \cup {Ones, Unset}
    BY <1>t DEF TypeInv
  <2>2. Deliver(IF present THEN wData ELSE Ones) /\ pc = "fetch" /\ UNCHANGED request
    BY <1>8 DEF Fetch
  <2>3. op = "read"
    BY <1>t, <2>2
  <2>4. QED
    BY <1>d, <2>1, <2>2, <2>3
<1>9. CASE FallbackRead
  <2>1. pc = "fallback" /\ op = "read" /\ UNCHANGED request
    BY <1>9 DEF FallbackRead
  <2>2. CASE address \in Mapped
    <3>1. (IF present THEN axi[address] ELSE Ones) \in Values \cup {Ones, Unset}
      BY <1>t, <2>2 DEF TypeInv
    <3>2. Deliver(IF present THEN axi[address] ELSE Ones)
      BY <1>9, <2>2 DEF FallbackRead
    <3>3. QED
      BY <1>d, <2>1, <3>1, <3>2
  <2>3. CASE address \in Ignored
    BY <1>9, <1>d, <2>1, <2>3 DEF FallbackRead
  <2>4. CASE address \notin Mapped \cup Ignored
    BY <1>t, <1>9, <2>4 DEF FallbackRead, Finish
  <2>5. QED
    BY <2>2, <2>3, <2>4
<1>10. CASE FallbackWrite
  BY <1>t, <1>10 DEF FallbackWrite, Finish
<1>11. CASE Done \/ UNCHANGED allVars
  BY <1>t, <1>11 DEF Done, allVars
<1>12. QED
  BY <1>1, <1>2, <1>3, <1>4, <1>5, <1>6, <1>7, <1>8, <1>9, <1>10, <1>11
     DEF WindowNext, Start, Step

(* The next states keep what a call knows of the window. *)
LEMMA WindowStep == WindowIInv /\ [WindowNext]_allVars => WindowShape'
<1> SUFFICES ASSUME WindowIInv, [WindowNext]_allVars PROVE WindowShape'
  OBVIOUS
<1>t. TypeInv /\ CallShape /\ WindowShape
  BY DEF WindowIInv
<1> USE WindowAssumption DEF WindowShape, registers, windowVars, request, progress
<1>1. CASE EngineCompletes
  BY <1>t, <1>1 DEF TypeInv, CallShape, EngineCompletes
<1>2. CASE Vanish
  BY <1>t, <1>2 DEF Vanish
<1>3. CASE Start
  BY <1>t, <1>3 DEF Start, StartRead, StartWrite, Busy
<1>4. CASE CheckBusy
  BY <1>t, <1>4 DEF CheckBusy
<1>5. CASE ClearControl
  BY <1>t, <1>5 DEF TypeInv, ClearControl
<1>6. CASE SetAddress
  BY <1>t, <1>6 DEF CallShape, SetAddress
<1>7. CASE SetData
  BY <1>t, <1>7 DEF SetData
<1>8. CASE CommandRead \/ CommandWrite
  <2>1. address \in Registers
    BY <1>8, AddressInRange DEF CommandRead, CommandWrite
  <2>2. QED
    BY <1>t, <1>8, <2>1 DEF CommandRead, CommandWrite, Go, Finish
<1>9. CASE Poll
  BY <1>t, <1>9 DEF TypeInv, Poll, Finish
<1>d. ASSUME NEW w, Deliver(w), UNCHANGED <<axi, present, windowVars>>
      PROVE  WindowShape'
  BY <1>t, <1>d DEF Deliver, Busy
<1>10. CASE Fetch
  BY <1>10, <1>d DEF Fetch
<1>11. CASE FallbackRead
  BY <1>t, <1>11, <1>d DEF FallbackRead, Finish
<1>12. CASE FallbackWrite
  BY <1>t, <1>12 DEF FallbackWrite, Finish
<1>13. CASE Done \/ UNCHANGED allVars
  BY <1>t, <1>13 DEF Done, allVars
<1>14. QED
  BY <1>1, <1>2, <1>3, <1>4, <1>5, <1>6, <1>7, <1>8, <1>9, <1>10, <1>11, <1>12, <1>13
     DEF WindowNext, Step

-----------------------------------------------------------------------------
(* The facts about the words delivered so far, at one index. *)
WordRight(i) == words[i] \in {Unset, axi[first + i - 1]}
WordSettled(i) == words[i] # Unset => ~(fsm = "write" /\ wAddress = first + i - 1)
WindowWordsRight == present /\ ~overtaken =>
                  \A i \in 1 .. Len(words) : WordRight(i) /\ WordSettled(i)

(* The two invariants about words say that each of them is right and settled. *)
LEMMA WordsRightIs == WindowWordsRight <=> WindowReadsRight /\ WordsSettled
BY DEF WindowWordsRight, WordRight, WordSettled, WindowReadsRight, WordsSettled

(* A step that leaves the registers, the words and the window as they are keeps the
   words right. *)
LEMMA WordsKept ==
    ASSUME WindowWordsRight, UNCHANGED <<axi, overtaken, present, fsm, wAddress, first, words>>
    PROVE  WindowWordsRight'
BY DEF WindowWordsRight, WordRight, WordSettled

(* Delivering a word that is right and settled keeps the words right. *)
LEMMA WordsDelivered ==
    ASSUME WindowIInv, pc # "idle", op = "read", NEW w \in Values \cup {Ones, Unset}, Deliver(w),
           UNCHANGED <<axi, present, fsm, wAddress, first>>,
           overtaken => overtaken',
           present /\ ~overtaken' =>
               /\ w \in {Unset, axi[address]}
               /\ w # Unset => ~(fsm = "write" /\ wAddress = address)
    PROVE  WindowWordsRight'
<1>1. WindowWordsRight
  BY WordsRightIs DEF WindowIInv
<1>2. /\ Len(words) \in Nat /\ Len(words') = Len(words) + 1
      /\ \A i \in 1 .. Len(words) : words'[i] = words[i]
      /\ words'[Len(words) + 1] = w
      /\ address = first + (Len(words) + 1) - 1
  BY DeliverKeepsCall
<1>3. SUFFICES ASSUME present, ~overtaken', NEW i \in 1 .. Len(words')
               PROVE  WordRight(i)' /\ WordSettled(i)'
  BY DEF WindowWordsRight
<1>4. CASE i \in 1 .. Len(words)
  <2>1. WordRight(i) /\ WordSettled(i)
    BY <1>1, <1>3, <1>4 DEF WindowWordsRight
  <2>2. words'[i] = words[i]
    BY <1>2, <1>4
  <2>3. QED
    BY <2>1, <2>2 DEF WordRight, WordSettled
<1>5. CASE i = Len(words) + 1
  <2>1. words'[i] = w /\ address = first + i - 1
    BY <1>2, <1>5
  <2>2. w \in {Unset, axi[address]} /\ (w # Unset => ~(fsm = "write" /\ wAddress = address))
    BY <1>3
  <2>3. QED
    BY <2>1, <2>2 DEF WordRight, WordSettled
<1>6. QED
  BY <1>2, <1>3, <1>4, <1>5

(* The next states keep the delivered words right. *)
LEMMA WordsStep == WindowIInv /\ [WindowNext]_allVars => WindowWordsRight'
<1> SUFFICES ASSUME WindowIInv, [WindowNext]_allVars PROVE WindowWordsRight'
  OBVIOUS
<1>t. TypeInv /\ CallShape /\ WindowShape
  BY DEF WindowIInv
<1>w. WindowWordsRight
  BY WordsRightIs DEF WindowIInv
<1> USE DEF registers, windowVars, request, progress
<1>1. CASE EngineCompletes
  <2>1. CASE fsm = "read"
    BY <1>w, <1>1, <2>1 DEF EngineCompletes, WindowWordsRight, WordRight, WordSettled
  <2>2. CASE fsm = "write"
    <3>1. axi' = [axi EXCEPT ![wAddress] = wData] /\ fsm' = "idle"
          /\ UNCHANGED <<overtaken, present, wAddress, first, words>>
      BY <1>1, <2>2 DEF EngineCompletes
    <3>2. SUFFICES ASSUME present, ~overtaken, NEW i \in 1 .. Len(words)
                   PROVE  WordRight(i)'
      BY <3>1 DEF WindowWordsRight, WordSettled
    <3>3. WordRight(i) /\ WordSettled(i)
      BY <1>w, <3>2 DEF WindowWordsRight
    <3>4. words[i] # Unset => axi'[first + i - 1] = axi[first + i - 1]
      BY <1>t, <2>2, <3>1, <3>3 DEF WordSettled, TypeInv
    <3>5. QED
      BY <3>1, <3>3, <3>4 DEF WordRight
  <2>3. QED
    BY <1>t, <1>1, <2>1, <2>2 DEF EngineCompletes, TypeInv
<1>2. CASE Vanish
  BY <1>2 DEF Vanish, WindowWordsRight
<1>3. CASE Start
  <2>1. words' = <<>>
    BY <1>3 DEF Start, StartRead, StartWrite
  <2>2. QED
    BY <2>1, EmptyWords DEF WindowWordsRight
<1>4. CASE CheckBusy \/ ClearControl \/ SetData
  BY <1>w, <1>4, WordsKept DEF CheckBusy, ClearControl, SetData
<1>5. CASE SetAddress
  <2>1. fsm' = "idle"
    BY <1>t, <1>5 DEF WindowShape, SetAddress
  <2>2. UNCHANGED <<axi, overtaken, present, first, words>>
    BY <1>5 DEF SetAddress
  <2>3. QED
    BY <1>w, <2>1, <2>2 DEF WindowWordsRight, WordRight, WordSettled
<1>6. CASE CommandRead
  <2>1. fsm' # "write"
    BY <1>t, <1>6 DEF WindowShape, CommandRead, Go
  <2>2. UNCHANGED <<axi, overtaken, present, first, words>>
    BY <1>6 DEF CommandRead
  <2>3. QED
    BY <1>w, <2>1, <2>2 DEF WindowWordsRight, WordRight, WordSettled
<1>7. CASE CommandWrite \/ FallbackWrite
  <2>1. words' = <<>>
    BY <1>t, <1>7 DEF CallShape, CommandWrite, FallbackWrite, Finish
  <2>2. QED
    BY <2>1, EmptyWords DEF WindowWordsRight
<1>8. CASE Poll
  BY <1>w, <1>8, WordsKept DEF Poll, Finish
<1>9. CASE Fetch
  <2> DEFINE w == IF present THEN wData ELSE Ones
  <2>1. w \in Values \cup {Ones, Unset}
    BY <1>t DEF TypeInv
  <2>2. pc # "idle" /\ op = "read" /\ Deliver(w)
        /\ UNCHANGED <<axi, present, overtaken, fsm, wAddress, first>>
    BY <1>t, <1>9 DEF CallShape, Fetch
  <2>3. present => w = axi[address] /\ fsm = "idle"
    BY <1>t, <1>9 DEF WindowShape, Fetch
  <2> HIDE DEF w
  <2>4. QED
    BY <2>1, <2>2, <2>3, WordsDelivered
<1>10. CASE FallbackRead
  <2>1. pc # "idle" /\ op = "read" /\ UNCHANGED <<axi, present, fsm, wAddress, first>>
    BY <1>10 DEF FallbackRead
  <2>2. CASE address \in Mapped
    <3> DEFINE w == IF present THEN axi[address] ELSE Ones
    <3>1. w \in Values \cup {Ones, Unset}
      BY <1>t, <2>2, WindowAssumption DEF TypeInv
    <3>2. Deliver(w) /\ overtaken' = (overtaken \/ Overtakes)
      BY <1>10, <2>2, WindowAssumption DEF FallbackRead
    <3>3. overtaken => overtaken'
      BY <3>2
    <3>4. present /\ ~overtaken' => w = axi[address] /\ ~(fsm = "write" /\ wAddress = address)
      BY <3>2 DEF Overtakes
    <3> HIDE DEF w
    <3>5. QED
      BY <2>1, <3>1, <3>2, <3>3, <3>4, WordsDelivered
  <2>3. CASE address \in Ignored
    <3>1. Deliver(Unset) /\ overtaken' = overtaken
      BY <1>10, <2>3, WindowAssumption DEF FallbackRead
    <3>2. QED
      BY <2>1, <3>1, WordsDelivered
  <2>4. CASE address \notin Mapped \cup Ignored
    BY <1>w, <1>10, <2>4, WordsKept DEF FallbackRead, Finish
  <2>5. QED
    BY <2>2, <2>3, <2>4
<1>11. CASE Done \/ UNCHANGED allVars
  BY <1>w, <1>11, WordsKept DEF Done, allVars
<1>12. QED
  BY <1>1, <1>2, <1>3, <1>4, <1>5, <1>6, <1>7, <1>8, <1>9, <1>10, <1>11 DEF WindowNext, Step

-----------------------------------------------------------------------------
(* A step that leaves the registers and the posted write as they are keeps the
   writes landed. *)
LEMMA WritesKept ==
    ASSUME WritesLand, present' => present, UNCHANGED <<axi, expected, overtaken>>,
           UNCHANGED <<fsm, wAddress, wData>> \/ (fsm # "write" /\ fsm' # "write")
    PROVE  WritesLand'
BY DEF WritesLand

(* The next states keep every successful write landed or posted. *)
LEMMA WritesStep == WindowIInv /\ [WindowNext]_allVars => WritesLand'
<1> SUFFICES ASSUME WindowIInv, [WindowNext]_allVars PROVE WritesLand'
  OBVIOUS
<1>t. TypeInv /\ CallShape /\ WindowShape /\ WritesLand
  BY DEF WindowIInv
<1> USE DEF registers, windowVars, request, progress
<1>1. CASE EngineCompletes
  <2>1. CASE fsm = "read"
    BY <1>t, <1>1, <2>1, WritesKept DEF EngineCompletes
  <2>2. CASE fsm = "write"
    BY <1>t, <1>1, <2>2 DEF EngineCompletes, WritesLand, TypeInv, WindowShape
  <2>3. QED
    BY <1>t, <1>1, <2>1, <2>2 DEF EngineCompletes, TypeInv
<1>2. CASE Vanish
  BY <1>2 DEF Vanish, WritesLand
<1>3. CASE Start
  BY <1>t, <1>3, WritesKept DEF Start, StartRead, StartWrite
<1>4. CASE CheckBusy \/ Poll \/ Fetch
  BY <1>t, <1>4, WritesKept DEF CheckBusy, Poll, Fetch
<1>5. CASE ClearControl \/ SetAddress \/ SetData
  <2>1. fsm = "idle" /\ fsm' = "idle"
    BY <1>t, <1>5 DEF WindowShape, ClearControl, SetAddress, SetData
  <2>2. QED
    BY <1>t, <1>5, <2>1, WritesKept DEF ClearControl, SetAddress, SetData
<1>6. CASE CommandRead
  <2>1. fsm # "write" /\ fsm' # "write"
    BY <1>t, <1>6 DEF WindowShape, CommandRead, Go
  <2>2. QED
    BY <1>t, <1>6, <2>1, WritesKept DEF CommandRead
<1>7. CASE CommandWrite
  <2>1. address \in Registers
    BY <1>7, AddressInRange DEF CommandWrite
  <2>2. SUFFICES ASSUME present, ~overtaken, NEW r \in Registers
                 PROVE  \/ axi[r] = expected'[r] /\ wAddress # r
                        \/ wAddress = r /\ wData = expected'[r]
    BY <1>7 DEF CommandWrite, Go, WritesLand
  <2>3. fsm = "idle" /\ wAddress = address /\ wData = value
    BY <1>t, <1>7, <2>2 DEF WindowShape, CommandWrite
  <2>4. axi[r] = expected[r]
    BY <1>t, <2>2, <2>3 DEF WritesLand
  <2>5. expected' = [expected EXCEPT ![address] = value]
    BY <1>7 DEF CommandWrite
  <2>6. QED
    BY <1>t, <2>1, <2>3, <2>4, <2>5 DEF TypeInv
<1>8. CASE FallbackRead
  BY <1>t, <1>8 DEF FallbackRead, WritesLand
<1>9. CASE FallbackWrite
  <2>1. CASE address \in Mapped
    <3>1. UNCHANGED <<present, fsm, wAddress, wData>>
          /\ axi' = (IF present THEN [axi EXCEPT ![address] = value] ELSE axi)
          /\ expected' = [expected EXCEPT ![address] = value]
          /\ overtaken' = (overtaken \/ Overtakes)
      BY <1>9, <2>1, WindowAssumption DEF FallbackWrite
    <3>2. SUFFICES ASSUME present, ~overtaken, ~Overtakes, NEW r \in Registers
                   PROVE  \/ axi'[r] = expected'[r] /\ ~(fsm = "write" /\ wAddress = r)
                          \/ fsm = "write" /\ wAddress = r /\ wData = expected'[r]
      BY <3>1 DEF WritesLand
    <3>3. \/ axi[r] = expected[r] /\ ~(fsm = "write" /\ wAddress = r)
          \/ fsm = "write" /\ wAddress = r /\ wData = expected[r]
      BY <1>t, <3>2 DEF WritesLand
    <3>4. QED
      BY <1>t, <3>1, <3>2, <3>3 DEF TypeInv, Overtakes
  <2>2. CASE address \notin Mapped
    BY <1>t, <1>9, <2>2, WritesKept DEF FallbackWrite
  <2>3. QED
    BY <2>1, <2>2
<1>10. CASE Done \/ UNCHANGED allVars
  BY <1>t, <1>10, WritesKept DEF Done, allVars
<1>11. QED
  BY <1>1, <1>2, <1>3, <1>4, <1>5, <1>6, <1>7, <1>8, <1>9, <1>10 DEF WindowNext, Step

-----------------------------------------------------------------------------
(* The strengthened invariant is inductive. *)
LEMMA WindowInductive == WindowIInv /\ [WindowNext]_allVars => WindowIInv'
<1> SUFFICES ASSUME WindowIInv, [WindowNext]_allVars PROVE WindowIInv'
  OBVIOUS
<1>1. TypeInv' /\ CallShape' /\ WindowShape' /\ WindowWordsRight' /\ WritesLand'
  BY WindowTypeStep, CallStep, WindowStep, WordsStep, WritesStep
<1>2. WindowWordsRight' => WindowReadsRight' /\ WordsSettled'
  BY DEF WindowWordsRight, WordRight, WordSettled, WindowReadsRight, WordsSettled
<1>3. QED
  BY <1>1, <1>2 DEF WindowIInv

(* The strengthened invariant holds in every reachable state. *)
THEOREM WindowInvariance == WindowSpec => []WindowIInv
<1>1. WindowInit => WindowIInv
  BY WindowInitHolds
<1>2. WindowIInv /\ [WindowNext]_allVars => WindowIInv'
  BY WindowInductive
<1>3. QED
  BY <1>1, <1>2, PTL DEF WindowSpec

(* The variables of the register window keep their types. *)
THEOREM WindowTypeCorrect == WindowSpec => []TypeInv
<1>1. WindowIInv => TypeInv
  BY DEF WindowIInv
<1>2. QED
  BY <1>1, WindowInvariance, PTL

(* The words atlasiPciChimeToAxiReadRegister and its fallback deliver are what the
   registers hold, for every number of registers and of retries. *)
THEOREM ReadsAreRight == WindowSpec => []WindowReadsRight
<1>1. WindowIInv => WindowReadsRight
  BY DEF WindowIInv
<1>2. QED
  BY <1>1, WindowInvariance, PTL

(* A write that atlasiPciChimeToAxiWriteRegister or its fallback reports as done is in
   its register or posted. *)
THEOREM WritesAreKept == WindowSpec => []WritesLand
<1>1. WindowIInv => WritesLand
  BY DEF WindowIInv
<1>2. QED
  BY <1>1, WindowInvariance, PTL

(* atlasFSMBusyClearCheck keeps the library off the window while the engine works. *)
THEOREM EngineUndisturbed == WindowSpec => WindowUndisturbed
<1>1. WindowIInv /\ [WindowNext]_allVars => [fsm # "idle" /\ fsm' # "idle" => UNCHANGED windowVars]_allVars
  <2> SUFFICES ASSUME WindowIInv, WindowNext, fsm # "idle", fsm' # "idle"
               PROVE  UNCHANGED windowVars
    BY DEF allVars
  <2>1. pc \notin {"clear", "address", "data", "command"}
    BY DEF WindowIInv, WindowShape
  <2>2. ~EngineCompletes
    BY DEF EngineCompletes
  <2>3. Vanish \/ Start \/ CheckBusy \/ Poll \/ Fetch \/ FallbackRead \/ FallbackWrite \/ Done
    BY <2>1, <2>2
       DEF WindowNext, Step, ClearControl, SetAddress, SetData, CommandRead, CommandWrite
  <2>4. QED
    BY <2>3 DEF Vanish, Start, StartRead, StartWrite, CheckBusy, Poll, Fetch,
         FallbackRead, FallbackWrite, Done, allVars
<1>2. QED
  BY <1>1, WindowInvariance, PTL DEF WindowSpec, WindowUndisturbed

(***************************************************************************)
(* The SDB console.                                                        *)
(***************************************************************************)

Numbers == 0..(Words - 1)
Bytes == [word : Numbers \cup {-1, Unknown}, byte : 0..4]
Stages == {"idle", "wake", "clear", "settle", "flush", "send", "answer", "prompt"}
Operations == {"read32", "read16", "read8", "write"}
Orders == [kind : {"G", "n", "P", "\r"}, size : {0, 1, 2, 4}, word : Numbers]

Types ==
    /\ last \in Numbers /\ app \in Stages /\ upset \in BOOLEAN
    /\ call \in [op : Operations, base : Numbers, words : Nat, probe : BOOLEAN]
    /\ data \in Seq(Seq(Bytes)) /\ commands \in Seq(Orders)
    /\ pointer \in Numbers \cup {Unknown}
    /\ wire \in Seq(Bytes) /\ buffer \in Seq(Bytes)
    /\ faults \in [Kinds -> Nat]

(* What each kind of call can have done so far. *)
Course ==
    /\ call.op = "read16" => upset
    /\ app = "answer" => call.op # "write"
    /\ app = "prompt" /\ call.op = "read32" => data # <<>>
    /\ call.op # "read32" \/ app \in {"wake", "clear", "settle"} => last = 0
    /\ app \in {"wake", "clear", "settle"} => call.op = "read32"
    /\ app = "wake" => data = <<>>

(* The bytes that have left the console and were not read.  A command was not
   handled yet, or what is left of its answer is all there is. *)
OnLine == buffer \o wire
Begins(s, t) == Len(s) <= Len(t) /\ \A i \in 1..Len(s) : s[i] = t[i]
Unanswered == commands = <<Command>> /\ OnLine = <<>>
Handed(answer) == commands = <<>> /\ Begins(OnLine, answer)

InStep ==
    /\ app \in {"idle", "wake", "send"} => Silent /\ buffer = <<>>
    /\ app = "flush" => Silent
    /\ app = "answer" => \/ Unanswered /\ (Command.kind = "n" => pointer = last)
                         \/ Handed(Answer(Target, AnswerSize))
    /\ app = "prompt" => \/ Unanswered /\ call.op = "write"
                         \/ Handed(<<Prompt>>)

(* The address that is remembered, until a command was handled and then again
   from the end of its answer. *)
Cached == last # 0 => pointer = last
Cache ==
    /\ app \in {"idle", "flush", "send"} => Cached
    /\ app = "answer" /\ commands # <<>> => Cached
    /\ app = "answer" /\ commands = <<>> =>
         \/ OnLine = <<>> /\ Cached
         \/ Len(OnLine) = AnswerSize + 1 /\ (call.op = "read32" => pointer = Target)
    /\ app = "prompt" /\ call.op = "read32" => pointer = (call.base + Len(data) - 1) % Words

Calm == WordsRight /\ InStep
IInv ==
    /\ Types /\ Course
    /\ ~upset => Calm
    /\ ~upset /\ faults["answer"] = 0 => Cache

-----------------------------------------------------------------------------
(* Addresses and the bytes of an answer *)
LEMMA Constants == Words \in Nat /\ Words > 1 /\ 0 \in Numbers
BY ConsoleAssumption DEF Numbers

LEMMA Modulo == \A i \in Int : i % Words \in Numbers
BY Constants DEF Numbers

(* The word behind the one before a word is the word itself. *)
LEMMA Neighbours ==
    \A a \in Numbers : /\ NextWord(a) \in Numbers /\ PreviousWord(a) \in Numbers
                       /\ NextWord(PreviousWord(a)) = a
<1> SUFFICES ASSUME NEW a \in Numbers
             PROVE  /\ NextWord(a) \in Numbers /\ PreviousWord(a) \in Numbers
                    /\ NextWord(PreviousWord(a)) = a
  OBVIOUS
<1>1. NextWord(a) \in Numbers /\ PreviousWord(a) \in Numbers
  BY Modulo, Constants DEF NextWord, PreviousWord, Numbers
<1>2. CASE a = 0
  <2>1. PreviousWord(a) = Words - 1
    BY <1>2, Constants DEF PreviousWord
  <2>2. Words % Words = 0
    BY Constants
  <2>3. (Words - 1) + 1 = Words
    BY Constants
  <2> QED
    BY <1>1, <1>2, <2>1, <2>2, <2>3, Zenon DEF NextWord
<1>3. CASE a # 0
  <2>1. PreviousWord(a) = a - 1
    BY <1>3, Constants DEF PreviousWord, Numbers
  <2>2. a % Words = a
    BY Constants DEF Numbers
  <2>3. (a - 1) + 1 = a
    BY DEF Numbers
  <2> QED
    BY <1>1, <2>1, <2>2, <2>3, Zenon DEF NextWord
<1> QED
  BY <1>1, <1>2, <1>3

LEMMA WordBytes ==
    ASSUME NEW a \in Numbers \cup {Unknown}
    PROVE  /\ Word(a) \in Seq(Bytes) /\ Len(Word(a)) = 4
           /\ \A i \in 1..4 : Word(a)[i] = [word |-> a, byte |-> i]
<1>1. \A i \in 1..4 : [word |-> a, byte |-> i] \in Bytes
  BY DEF Bytes
<1>2. Word(a) \in [1..4 -> Bytes]
  BY <1>1 DEF Word
<1> QED
  BY <1>2, SeqDef DEF Word

LEMMA AnswerBytes ==
    ASSUME NEW a \in Numbers \cup {Unknown}, NEW size \in {0, 1, 2, 4}
    PROVE  /\ Answer(a, size) \in Seq(Bytes) /\ Len(Answer(a, size)) = size + 1
           /\ \A i \in 1..size : Answer(a, size)[i] = [word |-> a, byte |-> i]
           /\ Answer(a, size)[size + 1] = Prompt
<1> DEFINE part == SubSeq(Word(a), 1, size)
<1>1. /\ Word(a) \in Seq(Bytes) /\ Len(Word(a)) = 4
      /\ \A i \in 1..4 : Word(a)[i] = [word |-> a, byte |-> i]
  BY WordBytes
<1>2. part \in Seq(Bytes) /\ Len(part) = size /\ \A i \in 1..size : part[i] = Word(a)[i]
  <2>0. \A i \in 1..size : i \in 1..4
    OBVIOUS
  <2>1. \A i \in 1..size : Word(a)[i] \in Bytes
    BY <1>1, <2>0 DEF Bytes
  <2>2. size \in 0..4
    OBVIOUS
  <2> QED
    BY <1>1, <2>1, <2>2, SubSeqProperties
<1>3. Prompt \in Bytes
  BY DEF Prompt, Bytes
<1>4. <<Prompt>> \in Seq(Bytes) /\ Len(<<Prompt>>) = 1 /\ <<Prompt>>[1] = Prompt
  BY <1>3
<1> HIDE DEF part
<1>5. /\ part \o <<Prompt>> \in Seq(Bytes) /\ Len(part \o <<Prompt>>) = size + 1
      /\ \A i \in 1..size : (part \o <<Prompt>>)[i] = part[i]
      /\ (part \o <<Prompt>>)[size + 1] = Prompt
  BY <1>2, <1>4, ConcatProperties
<1>6. Answer(a, size) = part \o <<Prompt>>
  BY DEF Answer, part
<1>7. \A i \in 1..size : i \in 1..4
  OBVIOUS
<1> QED
  BY <1>1, <1>2, <1>5, <1>6, <1>7

(* The line *)
LEMMA LineBytes ==
    ASSUME NEW b \in Seq(Bytes), NEW w \in Seq(Bytes)
    PROVE  /\ b \o w \in Seq(Bytes) /\ Len(b \o w) = Len(b) + Len(w)
           /\ \A i \in 1..Len(b) : (b \o w)[i] = b[i]
           /\ (b \o w = <<>> <=> b = <<>> /\ w = <<>>)
<1>1. /\ b \o w \in Seq(Bytes) /\ Len(b \o w) = Len(b) + Len(w)
      /\ \A i \in 1..Len(b) + Len(w) : (b \o w)[i] = IF i <= Len(b) THEN b[i] ELSE w[i - Len(b)]
  BY ConcatProperties
<1>2. Len(b) \in Nat /\ Len(w) \in Nat
  BY LenProperties
<1>3. \A i \in 1..Len(b) : i \in 1..Len(b) + Len(w) /\ i <= Len(b)
  BY <1>2
<1>4. ASSUME b \o w = <<>>
      PROVE  b = <<>> /\ w = <<>>
  <2>1. Len(b \o w) = 0
    BY <1>4
  <2>2. Len(b) = 0 /\ Len(w) = 0
    BY <1>1, <1>2, <2>1
  <2> QED
    BY <2>2, EmptySeq
<1>5. ASSUME b = <<>>, w = <<>>
      PROVE  b \o w = <<>>
  BY <1>5, ConcatEmptySeq
<1> QED
  BY <1>1, <1>3, <1>4, <1>5

LEMMA Arrives ==
    ASSUME NEW b \in Seq(Bytes), NEW w \in Seq(Bytes), w # <<>>
    PROVE  /\ Append(b, Head(w)) \in Seq(Bytes) /\ Tail(w) \in Seq(Bytes)
           /\ Append(b, Head(w)) \o Tail(w) = b \o w
<1>1. Head(w) \in Bytes /\ Tail(w) \in Seq(Bytes)
  BY HeadTailProperties
<1>2. Append(b, Head(w)) \in Seq(Bytes)
  BY <1>1
<1>3. /\ Len(w) \in Nat /\ Len(b) \in Nat /\ Len(w) > 0 /\ Len(Tail(w)) = Len(w) - 1
      /\ Len(Append(b, Head(w))) = Len(b) + 1
  BY <1>1, EmptySeq, HeadTailProperties, AppendProperties
<1>4. /\ Append(b, Head(w)) \o Tail(w) \in Seq(Bytes) /\ b \o w \in Seq(Bytes)
      /\ Len(Append(b, Head(w)) \o Tail(w)) = Len(b \o w) /\ Len(b \o w) = Len(b) + Len(w)
  BY <1>1, <1>2, <1>3, ConcatProperties
<1>5. \A i \in 1..Len(b) + Len(w) : (Append(b, Head(w)) \o Tail(w))[i] = (b \o w)[i]
  BY <1>1, <1>2, <1>3, ConcatProperties, HeadTailProperties, AppendProperties
<1> QED
  BY <1>1, <1>2, <1>4, <1>5, SeqEqual

(* What is left on the line when some bytes were read. *)
LEMMA Taken ==
    ASSUME NEW b \in Seq(Bytes), NEW w \in Seq(Bytes), NEW n \in 0..Len(b)
    PROVE  LET rest == SubSeq(b, n + 1, Len(b)) IN
           /\ rest \in Seq(Bytes) /\ Len(rest \o w) = Len(b \o w) - n
           /\ n = Len(b) => rest = <<>>
           /\ \A i \in 1..Len(rest \o w) : (rest \o w)[i] = (b \o w)[n + i]
<1> DEFINE rest == SubSeq(b, n + 1, Len(b))
<1>1. Len(b) \in Nat /\ Len(w) \in Nat /\ \A i \in 1..Len(b) : b[i] \in Bytes
  BY LenProperties, ElementOfSeq
<1>2. rest \in Seq(Bytes) /\ Len(rest) = Len(b) - n /\ \A i \in 1..Len(b) - n : rest[i] = b[n + i]
  <2>1. \A i \in n + 1 .. Len(b) : b[i] \in Bytes
    BY <1>1
  <2> QED
    BY <1>1, <2>1, SubSeqProperties
<1>3. n = Len(b) => rest = <<>>
  BY <1>1, SubSeqEmpty
<1> HIDE DEF rest
<1>4. /\ Len(rest \o w) = Len(rest) + Len(w) /\ Len(b \o w) = Len(b) + Len(w)
      /\ \A i \in 1..Len(rest) + Len(w) : (rest \o w)[i] = IF i <= Len(rest) THEN rest[i] ELSE w[i - Len(rest)]
      /\ \A i \in 1..Len(b) + Len(w) : (b \o w)[i] = IF i <= Len(b) THEN b[i] ELSE w[i - Len(b)]
  BY <1>2, ConcatProperties
<1>5. \A i \in 1..Len(rest \o w) : (rest \o w)[i] = (b \o w)[n + i]
  <2> SUFFICES ASSUME NEW i \in 1..Len(rest) + Len(w)
               PROVE  (rest \o w)[i] = (b \o w)[n + i]
    BY <1>4
  <2>1. n + i \in 1..Len(b) + Len(w)
    BY <1>1, <1>2
  <2>2. CASE i <= Len(rest)
    BY <1>1, <1>2, <1>4, <2>1, <2>2
  <2>3. CASE ~(i <= Len(rest))
    <3>1. ~(n + i <= Len(b)) /\ (n + i) - Len(b) = i - Len(rest)
      BY <1>1, <1>2, <2>3
    <3> QED
      BY <1>4, <2>1, <2>3, <3>1
  <2> QED
    BY <2>2, <2>3
<1>6. Len(rest \o w) = Len(b \o w) - n
  BY <1>1, <1>2, <1>4
<1> QED
  BY <1>2, <1>3, <1>5, <1>6 DEF rest

-----------------------------------------------------------------------------
(* The call *)
LEMMA CallFacts ==
    ASSUME Types
    PROVE  /\ Target \in Numbers /\ AnswerSize \in {0, 1, 2, 4}
           /\ Command \in Orders
           /\ Command.kind = "n" =>
                call.op = "read32" /\ AnswerSize = 4 /\ NextWord(last) = Target
           /\ Command.kind # "n" =>
                IF call.op = "write" THEN Command.kind = "P"
                ELSE Command = [kind |-> "G", size |-> AnswerSize, word |-> Target]
<1>1. call.op \in Operations /\ call.base \in Numbers /\ Len(data) \in Nat /\ last \in Numbers
  BY LenProperties DEF Types
<1>2. call.base + Len(data) \in Int
  BY <1>1 DEF Numbers
<1>3. Target \in Numbers
  BY <1>2, Modulo DEF Target
<1>4. AnswerSize \in {0, 1, 2, 4} /\ (call.op = "read32" => AnswerSize = 4)
  BY <1>1 DEF AnswerSize, Operations
<1> HIDE DEF Target, AnswerSize
<1>5. CASE call.op = "read32" /\ last = PreviousWord(Target)
  <2>1. Command = [kind |-> "n", size |-> 0, word |-> 0]
    BY <1>5 DEF Command
  <2>2. NextWord(last) = Target
    BY <1>3, <1>5, Neighbours
  <2> QED
    BY <1>3, <1>4, <1>5, <2>1, <2>2, Constants DEF Orders
<1>6. CASE ~(call.op = "read32" /\ last = PreviousWord(Target)) /\ call.op = "write"
  <2>1. Command = [kind |-> "P", size |-> 4, word |-> Target]
    BY <1>6 DEF Command
  <2> QED
    BY <1>3, <1>4, <1>6, <2>1 DEF Orders
<1>7. CASE ~(call.op = "read32" /\ last = PreviousWord(Target)) /\ call.op # "write"
  <2>1. Command = [kind |-> "G", size |-> AnswerSize, word |-> Target]
    BY <1>7 DEF Command
  <2> QED
    BY <1>3, <1>4, <1>7, <2>1 DEF Orders
<1> QED
  BY <1>5, <1>6, <1>7

LEMMA SameCall ==
    ASSUME UNCHANGED <<last, call, data>>
    PROVE  /\ Command' = Command /\ Target' = Target /\ AnswerSize' = AnswerSize
           /\ (WordsRight => WordsRight')
<1>1. Target' = Target /\ AnswerSize' = AnswerSize
  BY DEF Target, AnswerSize
<1>2. Command' = Command
  BY <1>1 DEF Command
<1>3. WordsRight => WordsRight'
  BY DEF WordsRight
<1> QED
  BY <1>1, <1>2, <1>3

(* Faults are counted. *)
LEMMA FaultCounts ==
    ASSUME Types, NEW kind \in Kinds, Fault(kind)
    PROVE  /\ faults' \in [Kinds -> Nat] /\ faults'[kind] # 0
           /\ faults'["answer"] = 0 => faults["answer"] = 0
<1>1. faults \in [Kinds -> Nat] /\ "answer" \in Kinds
  BY DEF Types, Kinds
<1>2. faults' = [faults EXCEPT ![kind] = faults[kind] + 1]
  BY DEF Fault
<1> QED
  BY <1>1, <1>2

LEMMA Waited ==
    ASSUME Types, TimeRunsOut
    PROVE  /\ faults' \in [Kinds -> Nat] /\ upset' \in BOOLEAN
           /\ ~upset' => ~upset /\ Silent
           /\ faults'["answer"] = 0 => faults["answer"] = 0
<1>1. CASE Silent /\ UNCHANGED <<faults, upset>>
  BY <1>1 DEF Types
<1>2. CASE Fault("late") /\ upset' = TRUE
  <2>1. "late" \in Kinds
    BY DEF Kinds
  <2> QED
    BY <1>2, <2>1, FaultCounts
<1> QED
  BY <1>1, <1>2 DEF TimeRunsOut

(* A read takes what it was asked for, or everything after a silence. *)
LEMMA Received ==
    ASSUME Types, NEW wanted \in Nat, NEW size \in 0..wanted, Receive(wanted, size)
    PROVE  /\ size \in 0..Len(buffer) /\ buffer' = SubSeq(buffer, size + 1, Len(buffer))
           /\ buffer' \in Seq(Bytes)
           /\ faults' \in [Kinds -> Nat] /\ upset' \in BOOLEAN
           /\ ~upset' => ~upset /\ (size = wanted \/ (Silent /\ size = Len(buffer)))
           /\ faults'["answer"] = 0 => faults["answer"] = 0
<1>1. buffer \in Seq(Bytes) /\ wire \in Seq(Bytes) /\ Len(buffer) \in Nat
  BY LenProperties DEF Types
<1>2. CASE size = wanted /\ Len(buffer) >= wanted /\ UNCHANGED <<faults, upset>>
  <2>1. size \in 0..Len(buffer)
    BY <1>1, <1>2
  <2>2. buffer' = SubSeq(buffer, size + 1, Len(buffer))
    BY DEF Receive
  <2>3. buffer' \in Seq(Bytes)
    BY <1>1, <2>1, <2>2, Taken
  <2> QED
    BY <1>2, <2>1, <2>2, <2>3 DEF Types
<1>3. CASE size < wanted /\ size = Len(buffer) /\ TimeRunsOut
  <2>1. size \in 0..Len(buffer)
    BY <1>1, <1>3
  <2>2. buffer' = SubSeq(buffer, size + 1, Len(buffer))
    BY DEF Receive
  <2>3. buffer' \in Seq(Bytes)
    BY <1>1, <2>1, <2>2, Taken
  <2> QED
    BY <1>3, <2>1, <2>2, <2>3, Waited
<1> QED
  BY <1>2, <1>3 DEF Receive

-----------------------------------------------------------------------------
(* The steps *)
LEMMA Started == Init => IInv
<1> SUFFICES ASSUME Init
             PROVE  IInv
  OBVIOUS
<1> USE DEF Init
<1>1. Types
  <2>1. call \in [op : Operations, base : Numbers, words : Nat, probe : BOOLEAN]
    BY Constants DEF Operations
  <2>2. faults \in [Kinds -> Nat]
    OBVIOUS
  <2>3. data \in Seq(Seq(Bytes)) /\ commands \in Seq(Orders) /\ wire \in Seq(Bytes) /\ buffer \in Seq(Bytes)
    BY EmptySeq
  <2> QED
    BY <2>1, <2>2, <2>3, Constants DEF Types, Stages
<1>2. Course
  BY DEF Course
<1>3. WordsRight
  BY EmptySeq DEF WordsRight
<1>4. InStep
  BY DEF InStep, Silent
<1>5. Cache
  BY DEF Cache, Cached
<1> QED
  BY <1>1, <1>2, <1>3, <1>4, <1>5 DEF IInv, Calm

(* A call that begins: nothing is stored yet, and the line is as it was. *)
LEMMA Begun ==
    ASSUME IInv, app = "idle", NEW kind \in Operations, NEW base \in Numbers, NEW count \in Nat,
           NEW probe \in BOOLEAN, Begin(kind, base, count, probe)
    PROVE  /\ call' \in [op : Operations, base : Numbers, words : Nat, probe : BOOLEAN]
           /\ call'.op = kind /\ data' = <<>> /\ data' \in Seq(Seq(Bytes)) /\ WordsRight'
<1>1. call' = [op |-> kind, base |-> base, words |-> count, probe |-> probe] /\ data' = <<>>
  BY DEF Begin
<1>2. data' \in Seq(Seq(Bytes)) /\ Len(data') = 0
  BY <1>1, EmptySeq
<1>3. WordsRight'
  BY <1>2 DEF WordsRight
<1> QED
  BY <1>1, <1>2, <1>3

LEMMA StartRead32Keeps ==
    ASSUME NEW base \in Addresses, NEW count \in 1..MaxBlock
    PROVE  IInv /\ StartRead32(base, count) => IInv'
<1> SUFFICES ASSUME IInv, StartRead32(base, count)
             PROVE  IInv'
  OBVIOUS
<1>1. /\ app = "idle" /\ app' = "flush" /\ Begin("read32", base, count, FALSE)
      /\ UNCHANGED <<last, pointer, commands, wire, buffer, faults, upset>>
  BY DEF StartRead32, lineVars
<1>2. base \in Numbers /\ count \in Nat /\ "read32" \in Operations
  BY ConsoleAssumption DEF Numbers, Operations
<1>3. /\ call' \in [op : Operations, base : Numbers, words : Nat, probe : BOOLEAN]
      /\ call'.op = "read32" /\ data' = <<>> /\ data' \in Seq(Seq(Bytes)) /\ WordsRight'
  BY <1>1, <1>2, Begun
<1>4. Types'
  BY <1>1, <1>3 DEF IInv, Types, Stages
<1>5. Course'
  BY <1>1, <1>3 DEF Course
<1>6. ~upset => InStep'
  BY <1>1 DEF IInv, Calm, InStep, Silent
<1>7. ~upset /\ faults["answer"] = 0 => Cache'
  BY <1>1 DEF IInv, Cache, Cached
<1> QED
  BY <1>1, <1>3, <1>4, <1>5, <1>6, <1>7 DEF IInv, Calm

LEMMA StartOtherKeeps ==
    ASSUME NEW kind \in Ops, NEW base \in Addresses
    PROVE  IInv /\ StartOther(kind, base) => IInv'
<1> SUFFICES ASSUME IInv, StartOther(kind, base)
             PROVE  IInv'
  OBVIOUS
<1>1. /\ app = "idle" /\ app' = "flush" /\ Begin(kind, base, 1, FALSE) /\ last' = 0
      /\ kind # "read32" /\ upset' = (upset \/ kind = "read16")
      /\ UNCHANGED <<pointer, commands, wire, buffer, faults>>
  BY DEF StartOther, ForgetLast
<1>2. base \in Numbers /\ kind \in Operations /\ upset \in BOOLEAN
  BY ConsoleAssumption DEF Numbers, Operations, IInv, Types
<1>3. /\ call' \in [op : Operations, base : Numbers, words : Nat, probe : BOOLEAN]
      /\ call'.op = kind /\ data' = <<>> /\ data' \in Seq(Seq(Bytes)) /\ WordsRight'
  BY <1>1, <1>2, Begun
<1>4. Types'
  BY <1>1, <1>2, <1>3, Constants DEF IInv, Types, Stages
<1>5. Course'
  BY <1>1, <1>3 DEF Course
<1>6. ~upset' => ~upset
  BY <1>1, <1>2
<1>7. ~upset => InStep'
  BY <1>1 DEF IInv, Calm, InStep, Silent
<1>8. Cache'
  BY <1>1 DEF Cache, Cached
<1> QED
  BY <1>3, <1>4, <1>5, <1>6, <1>7, <1>8 DEF IInv, Calm

LEMMA ReconnectKeeps == IInv /\ Reconnect => IInv'
<1> SUFFICES ASSUME IInv, Reconnect
             PROVE  IInv'
  OBVIOUS
<1>1. /\ app = "idle" /\ app' = "wake" /\ Begin("read32", ProbeAddress, 1, TRUE) /\ last' = 0
      /\ wire' = <<>> /\ buffer' = <<>> /\ UNCHANGED <<pointer, commands, faults, upset>>
  BY DEF Reconnect, ForgetLast
<1>2. ProbeAddress \in Numbers /\ "read32" \in Operations
  BY ConsoleAssumption DEF Numbers, Operations
<1>3. /\ call' \in [op : Operations, base : Numbers, words : Nat, probe : BOOLEAN]
      /\ call'.op = "read32" /\ data' = <<>> /\ data' \in Seq(Seq(Bytes)) /\ WordsRight'
  BY <1>1, <1>2, Begun
<1>4. Types'
  BY <1>1, <1>3, EmptySeq, Constants DEF IInv, Types, Stages
<1>5. Course'
  BY <1>1, <1>3 DEF Course
<1>6. Cache' /\ (~upset => InStep')
  BY <1>1 DEF IInv, Calm, InStep, Silent, Cache
<1> QED
  BY <1>1, <1>3, <1>4, <1>5, <1>6 DEF IInv, Calm

LEMMA WakeKeeps == IInv /\ Wake => IInv'
<1> SUFFICES ASSUME IInv, Wake
             PROVE  IInv'
  OBVIOUS
<1> DEFINE wake == [kind |-> "\r", size |-> 0, word |-> 0]
<1>1. /\ app = "wake" /\ UNCHANGED <<last, call, data, pointer, wire, buffer>> /\ Types /\ Course
  BY DEF Wake, IInv
<1>2. call.op = "read32"
  BY <1>1 DEF Course
<1>3. wake \in Orders /\ "write" \in Kinds
  BY Constants DEF Orders, Kinds
<1>4. WordsRight'
  <2>1. data' = <<>>
    BY <1>1 DEF Course
  <2> QED
    BY <2>1, EmptySeq DEF WordsRight
<1>5. CASE commands' = Append(commands, wake) /\ upset' = FALSE /\ app' = "clear" /\ UNCHANGED faults
  <2>1. commands' \in Seq(Orders)
    BY <1>1, <1>3, <1>5, AppendProperties DEF Types
  <2> HIDE DEF wake
  <2>2. Types' /\ Course'
    BY <1>1, <1>5, <2>1 DEF Types, Course, Stages
  <2>3. InStep' /\ Cache'
    BY <1>5 DEF InStep, Cache
  <2> QED
    BY <1>4, <2>2, <2>3 DEF IInv, Calm
<1>6. CASE Fault("write") /\ Return("failed") /\ UNCHANGED <<commands, upset>>
  <2> HIDE DEF wake
  <2>0. "write" \in Kinds
    BY <1>3
  <2>1. faults' \in [Kinds -> Nat] /\ app' = "idle"
    <3>1. faults' \in [Kinds -> Nat]
      BY <1>1, <1>6, <2>0, FaultCounts
    <3> QED
      BY <1>6, <3>1 DEF Return
  <2>2. Types' /\ Course'
    BY <1>1, <1>2, <1>6, <2>1 DEF Types, Course, Stages
  <2>3. Cache' /\ (~upset => InStep')
    BY <1>1, <1>6, <2>1 DEF IInv, Calm, Course, InStep, Silent, Cache, Cached
  <2> QED
    BY <1>4, <1>6, <2>2, <2>3 DEF IInv, Calm
<1> QED
  BY <1>5, <1>6 DEF Wake

LEMMA WakeFlushKeeps == IInv /\ WakeFlush => IInv'
<1> SUFFICES ASSUME IInv, WakeFlush
             PROVE  IInv'
  OBVIOUS
<1>1. /\ app = "clear" /\ app' = "settle" /\ buffer' = <<>>
      /\ UNCHANGED <<last, call, data, commands, pointer, wire, faults, upset>>
  BY DEF WakeFlush
<1>2. Types'
  BY <1>1, EmptySeq DEF IInv, Types, Stages
<1>3. Course'
  BY <1>1 DEF IInv, Course
<1>4. WordsRight => WordsRight'
  BY <1>1, SameCall
<1>5. InStep' /\ Cache'
  BY <1>1 DEF InStep, Cache
<1> QED
  BY <1>1, <1>2, <1>3, <1>4, <1>5 DEF IInv, Calm

LEMMA SettleKeeps == IInv /\ Settle => IInv'
<1> SUFFICES ASSUME IInv, Settle
             PROVE  IInv'
  OBVIOUS
<1>1. /\ app = "settle" /\ app' = "flush" /\ TimeRunsOut
      /\ UNCHANGED <<last, call, data, commands, pointer, wire, buffer>>
  BY DEF Settle
<1>2. /\ faults' \in [Kinds -> Nat] /\ upset' \in BOOLEAN
      /\ ~upset' => ~upset /\ Silent
  BY <1>1, Waited DEF IInv
<1>3. Types'
  BY <1>1, <1>2 DEF IInv, Types, Stages
<1>4. Course' /\ last' = 0
  <2>1. upset => upset'
    BY <1>2
  <2> QED
    BY <1>1, <2>1 DEF IInv, Course
<1>5. WordsRight => WordsRight'
  BY <1>1, SameCall
<1>6. Silent => InStep'
  BY <1>1 DEF InStep, Silent
<1>7. Cache'
  BY <1>1, <1>4 DEF Cache, Cached
<1> QED
  BY <1>2, <1>3, <1>4, <1>5, <1>6, <1>7 DEF IInv, Calm

LEMMA FlushKeeps == IInv /\ Flush => IInv'
<1> SUFFICES ASSUME IInv, Flush
             PROVE  IInv'
  OBVIOUS
<1>1. /\ app = "flush" /\ app' = "send" /\ buffer' = <<>>
      /\ UNCHANGED <<last, call, data, commands, pointer, wire, faults, upset>>
  BY DEF Flush
<1>2. Types'
  BY <1>1, EmptySeq DEF IInv, Types, Stages
<1>3. Course'
  BY <1>1 DEF IInv, Course
<1>4. WordsRight => WordsRight'
  BY <1>1, SameCall
<1>5. ~upset => InStep'
  BY <1>1 DEF IInv, Calm, InStep, Silent
<1>6. ~upset /\ faults["answer"] = 0 => Cache'
  BY <1>1 DEF IInv, Cache, Cached
<1> QED
  BY <1>1, <1>2, <1>3, <1>4, <1>5, <1>6 DEF IInv, Calm

LEMMA SendKeeps == IInv /\ Send => IInv'
<1> SUFFICES ASSUME IInv, Send
             PROVE  IInv'
  OBVIOUS
<1>1. /\ app = "send" /\ Types /\ Course
      /\ UNCHANGED <<last, call, data, pointer, wire, buffer>>
  BY DEF IInv, Send
<1>2. Command \in Orders /\ upset \in BOOLEAN
  BY <1>1, CallFacts DEF Types
<1>3. Command' = Command /\ (WordsRight => WordsRight')
  BY <1>1, SameCall
<1>4. ~upset => commands = <<>> /\ wire = <<>> /\ buffer = <<>> /\ OnLine = <<>>
  BY EmptySeq, ConcatEmptySeq, <1>1 DEF IInv, Calm, InStep, Silent, OnLine
<1>5. OnLine' = OnLine
  BY <1>1 DEF OnLine
<1>6. CASE /\ commands' = Append(commands, Command)
           /\ upset' = (upset \/ (Command.kind = "n" /\ pointer # last))
           /\ app' = IF call.op = "write" THEN "prompt" ELSE "answer"
           /\ UNCHANGED faults
  <2>1. commands' \in Seq(Orders)
    BY <1>1, <1>2, <1>6, AppendProperties DEF Types
  <2>2. ~upset' => ~upset /\ (Command.kind = "n" => pointer = last)
    BY <1>2, <1>6
  <2>3. commands = <<>> => commands' = <<Command>>
    BY <1>2, <1>6
  <2>4. Types'
    BY <1>1, <1>2, <1>6, <2>1 DEF Types, Stages
  <2>5. Course'
    <3>1. app' \in {"prompt", "answer"} /\ (app' = "prompt" <=> call.op = "write")
      BY <1>6
    <3>2. upset => upset'
      BY <2>2
    <3> QED
      BY <1>1, <3>1, <3>2 DEF Course
  <2>6. ~upset' => Unanswered'
    BY <1>3, <1>4, <1>5, <2>2, <2>3 DEF Unanswered
  <2>7. ~upset' => InStep'
    <3> SUFFICES ASSUME ~upset'
                 PROVE  InStep'
      OBVIOUS
    <3>1. CASE call.op = "write"
      BY <1>1, <1>6, <2>6, <3>1 DEF InStep
    <3>2. CASE call.op # "write"
      BY <1>1, <1>3, <1>6, <2>2, <2>6, <3>2 DEF InStep
    <3> QED
      BY <3>1, <3>2
  <2>8. ~upset' /\ faults'["answer"] = 0 => Cache'
    <3> SUFFICES ASSUME ~upset', faults["answer"] = 0
                 PROVE  Cache'
      BY <1>6
    <3>1. Cached
      BY <1>1, <2>2 DEF IInv, Cache
    <3>2. Cached'
      BY <1>1, <3>1 DEF Cached
    <3>3. commands' # <<>>
      BY <1>4, <2>2, <2>3
    <3> QED
      BY <1>1, <1>6, <3>2, <3>3 DEF Cache
  <2> QED
    BY <1>3, <2>2, <2>4, <2>5, <2>7, <2>8 DEF IInv, Calm
<1>7. CASE Fault("write") /\ Return("failed") /\ UNCHANGED <<commands, upset>>
  <2>1. "write" \in Kinds
    BY DEF Kinds
  <2>2. app' = "idle" /\ faults' \in [Kinds -> Nat] /\ (faults'["answer"] = 0 => faults["answer"] = 0)
    BY <1>1, <1>7, <2>1, FaultCounts DEF Return
  <2>3. Types'
    BY <1>1, <1>7, <2>2 DEF Types, Stages
  <2>4. Course'
    BY <1>1, <1>7, <2>2 DEF Course
  <2>5. ~upset => InStep'
    BY <1>1, <1>4, <1>7, <2>2 DEF InStep, Silent
  <2>6. ~upset /\ faults["answer"] = 0 => Cache'
    BY <1>1, <1>7, <2>2 DEF IInv, Cache, Cached
  <2> QED
    BY <1>3, <1>7, <2>2, <2>3, <2>4, <2>5, <2>6 DEF IInv, Calm
<1> QED
  BY <1>6, <1>7 DEF Send

(* A complete answer: its bytes are those of the word that is read, and only the
   prompt is left. *)
LEMMA AnswerTaken ==
    ASSUME Types, Handed(Answer(Target, AnswerSize)), AnswerSize <= Len(buffer),
           buffer' = SubSeq(buffer, AnswerSize + 1, Len(buffer)), UNCHANGED <<wire, commands>>
    PROVE  /\ Handed(<<Prompt>>)'
           /\ AnswerSize = 4 => SubSeq(buffer, 1, AnswerSize) = Word(Target)
<1> DEFINE n == AnswerSize
           t == Target
<1>1. /\ t \in Numbers /\ n \in {0, 1, 2, 4} /\ n \in Nat
      /\ buffer \in Seq(Bytes) /\ wire \in Seq(Bytes) /\ Len(buffer) \in Nat
  BY CallFacts, LenProperties DEF Types
<1>2. /\ Len(Answer(t, n)) = n + 1 /\ \A i \in 1..n : Answer(t, n)[i] = [word |-> t, byte |-> i]
      /\ Answer(t, n)[n + 1] = Prompt
  BY <1>1, AnswerBytes
<1>3. /\ commands = <<>> /\ Len(OnLine) <= Len(Answer(t, n))
      /\ \A i \in 1..Len(OnLine) : OnLine[i] = Answer(t, n)[i]
  BY DEF Handed, Begins
<1> HIDE DEF n, t
<1>4. n \in 0..Len(buffer) /\ buffer' = SubSeq(buffer, n + 1, Len(buffer))
  BY <1>1 DEF n
<1>5. /\ Len(OnLine) = Len(buffer) + Len(wire) /\ Len(wire) \in Nat
      /\ \A i \in 1..Len(buffer) : OnLine[i] = buffer[i]
  BY <1>1, LineBytes, LenProperties DEF OnLine
<1>6. /\ Len(OnLine') = Len(OnLine) - n
      /\ \A i \in 1..Len(OnLine') : OnLine'[i] = OnLine[n + i]
  <2> DEFINE rest == SubSeq(buffer, n + 1, Len(buffer))
  <2>1. OnLine' = rest \o wire /\ OnLine = buffer \o wire
    BY <1>4 DEF OnLine
  <2>2. /\ Len(rest \o wire) = Len(buffer \o wire) - n
        /\ \A i \in 1..Len(rest \o wire) : (rest \o wire)[i] = (buffer \o wire)[n + i]
    BY <1>1, <1>4, Taken
  <2> QED
    BY <2>1, <2>2, Zenon
<1>7. Begins(OnLine', <<Prompt>>)
  <2>1. Len(OnLine') <= 1 /\ Len(OnLine') \in Nat
    BY <1>1, <1>2, <1>3, <1>4, <1>5, <1>6
  <2>2. \A i \in 1..Len(OnLine') : i = 1
    BY <2>1
  <2>3. 1 \in 1..Len(OnLine') => OnLine'[1] = Prompt
    <3> SUFFICES ASSUME 1 \in 1..Len(OnLine')
                 PROVE  OnLine'[1] = Prompt
      OBVIOUS
    <3>1. n + 1 \in 1..Len(OnLine)
      BY <1>1, <1>6, <2>1
    <3>2. OnLine'[1] = OnLine[n + 1]
      BY <1>6
    <3> QED
      BY <1>2, <1>3, <3>1, <3>2
  <2>4. Len(<<Prompt>>) = 1 /\ <<Prompt>>[1] = Prompt
    OBVIOUS
  <2>5. \A i \in 1..Len(OnLine') : OnLine'[i] = <<Prompt>>[i]
    BY <2>2, <2>3, <2>4
  <2> QED
    BY <2>1, <2>4, <2>5 DEF Begins
<1>8. Handed(<<Prompt>>)'
  <2>1. commands' = <<>>
    BY <1>3
  <2> QED
    BY <1>7, <2>1 DEF Handed, Begins, Prompt
<1>9. n = 4 => SubSeq(buffer, 1, n) = Word(t)
  <2> SUFFICES ASSUME n = 4
               PROVE  SubSeq(buffer, 1, 4) = Word(t)
    OBVIOUS
  <2>1. 4 <= Len(buffer)
    BY <1>4
  <2>2. \A i \in 1..4 : i \in 1..Len(buffer) /\ i \in 1..Len(OnLine)
    BY <1>1, <1>5, <2>1
  <2>3. \A i \in 1..4 : buffer[i] = [word |-> t, byte |-> i]
    BY <1>2, <1>3, <1>5, <2>2
  <2>4. /\ Word(t) \in Seq(Bytes) /\ Len(Word(t)) = 4
        /\ \A i \in 1..4 : Word(t)[i] = [word |-> t, byte |-> i]
    BY <1>1, WordBytes
  <2>5. \A i \in 1..4 : buffer[i] \in Bytes
    BY <1>1, <2>2, ElementOfSeq
  <2>6. /\ SubSeq(buffer, 1, 4) \in Seq(Bytes) /\ Len(SubSeq(buffer, 1, 4)) = 4
        /\ \A i \in 1..4 : SubSeq(buffer, 1, 4)[i] = buffer[i]
    BY <1>1, <2>1, <2>5, SubSeqProperties
  <2>7. \A i \in 1..4 : SubSeq(buffer, 1, 4)[i] = Word(t)[i]
    BY <2>3, <2>4, <2>6
  <2> QED
    BY <2>4, <2>6, <2>7, SeqEqual
<1> QED
  BY <1>8, <1>9 DEF n, t

(* A word that was stored is the one the block has come to. *)
LEMMA Stored ==
    ASSUME Types, NEW word \in Seq(Bytes), data' = Append(data, word), UNCHANGED call
    PROVE  /\ data' \in Seq(Seq(Bytes)) /\ data' # <<>>
           /\ (call'.base + Len(data') - 1) % Words = Target
           /\ WordsRight /\ (call.op = "read32" => word = Word(Target)) => WordsRight'
<1>1. data \in Seq(Seq(Bytes)) /\ Len(data) \in Nat /\ call.base \in Nat
  BY LenProperties DEF Types, Numbers
<1>2. /\ data' \in Seq(Seq(Bytes)) /\ Len(data') = Len(data) + 1
      /\ \A i \in 1..Len(data) : data'[i] = data[i]
      /\ data'[Len(data) + 1] = word
  BY <1>1, AppendProperties
<1>3. data' # <<>>
  BY <1>1, <1>2, EmptySeq
<1>4. call'.base + Len(data') - 1 = call.base + Len(data)
  BY <1>1, <1>2
<1>5. ASSUME WordsRight, call.op = "read32" => word = Word(Target)
      PROVE  WordsRight'
  <2> SUFFICES ASSUME call.op = "read32", NEW i \in 1..Len(data')
               PROVE  data'[i] = Word((call.base + i - 1) % Words)
    BY DEF WordsRight
  <2>1. CASE i \in 1..Len(data)
    BY <1>2, <1>5, <2>1 DEF WordsRight
  <2>2. CASE i = Len(data) + 1
    <3>1. call.base + i - 1 = call.base + Len(data)
      BY <1>1, <2>2
    <3> QED
      BY <1>2, <1>5, <2>2, <3>1 DEF Target
  <2> QED
    BY <1>1, <1>2, <2>1, <2>2
<1> QED
  BY <1>2, <1>3, <1>4, <1>5 DEF Target

LEMMA ReadAnswerKeeps == IInv /\ ReadAnswer => IInv'
<1> SUFFICES ASSUME IInv, ReadAnswer
             PROVE  IInv'
  OBVIOUS
<1>1. /\ app = "answer" /\ Types /\ Course /\ call.op # "write"
      /\ UNCHANGED <<last, call, commands, pointer, wire>>
  BY DEF IInv, ReadAnswer, Course
<1>2. /\ Target \in Numbers /\ AnswerSize \in {0, 1, 2, 4} /\ AnswerSize \in Nat
      /\ buffer \in Seq(Bytes) /\ wire \in Seq(Bytes) /\ Len(buffer) \in Nat /\ Len(wire) \in Nat
  BY <1>1, CallFacts, LenProperties DEF Types
<1>3. PICK size \in 0..AnswerSize :
        /\ Receive(AnswerSize, size)
        /\ \/ /\ Complete(size) /\ app' = "prompt"
              /\ data' = Append(data, SubSeq(buffer, 1, size))
           \/ /\ ~Complete(size) /\ app' \in {"flush", "idle"} /\ UNCHANGED data
  BY DEF ReadAnswer, Return
<1>4. /\ size \in 0..Len(buffer) /\ buffer' = SubSeq(buffer, size + 1, Len(buffer))
      /\ buffer' \in Seq(Bytes) /\ faults' \in [Kinds -> Nat] /\ upset' \in BOOLEAN
      /\ ~upset' => ~upset /\ (size = AnswerSize \/ (Silent /\ size = Len(buffer)))
      /\ faults'["answer"] = 0 => faults["answer"] = 0
  BY <1>1, <1>2, <1>3, Received
<1>5. ~upset => /\ call.op # "read16" /\ call.op \in {"read32", "read8"} /\ AnswerSize # 0
                /\ (Complete(size) <=> size = AnswerSize)
                /\ (call.op = "read32" => AnswerSize = 4)
  BY <1>1, <1>2 DEF Course, Types, Operations, Complete, AnswerSize
<1>6. /\ Len(OnLine) = Len(buffer) + Len(wire)
      /\ (OnLine = <<>> <=> buffer = <<>> /\ wire = <<>>)
  BY <1>2, LineBytes DEF OnLine
<1>7. ~upset /\ size = AnswerSize => OnLine # <<>> /\ Handed(Answer(Target, AnswerSize))
  <2> SUFFICES ASSUME ~upset, size = AnswerSize
               PROVE  OnLine # <<>> /\ Handed(Answer(Target, AnswerSize))
    OBVIOUS
  <2>1. buffer # <<>>
    BY <1>2, <1>4, <1>5, EmptySeq
  <2>2. OnLine # <<>>
    BY <1>6, <2>1
  <2> QED
    BY <1>1, <2>2 DEF IInv, Calm, InStep, Unanswered
<1>8. CASE /\ Complete(size) /\ app' = "prompt"
           /\ data' = Append(data, SubSeq(buffer, 1, size))
  <2>1. SubSeq(buffer, 1, size) \in Seq(Bytes)
    <3>1. \A i \in 1..Len(buffer) : buffer[i] \in Bytes
      BY <1>2, ElementOfSeq
    <3>2. \A i \in 1..size : buffer[i] \in Bytes
      BY <1>2, <1>4, <3>1
    <3> QED
      BY <1>2, <1>4, <3>2, SubSeqProperties
  <2>2. /\ data' \in Seq(Seq(Bytes)) /\ data' # <<>>
        /\ (call'.base + Len(data') - 1) % Words = Target
        /\ WordsRight /\ (call.op = "read32" => SubSeq(buffer, 1, size) = Word(Target)) => WordsRight'
    BY <1>1, <1>8, <2>1, Stored
  <2>3. Types'
    BY <1>1, <1>4, <1>8, <2>2 DEF Types, Stages
  <2>4. Course'
    <3>1. upset => upset'
      BY <1>4
    <3> QED
      BY <1>1, <1>8, <2>2, <3>1 DEF Course
  <2>5. ~upset' => WordsRight' /\ Handed(<<Prompt>>)' /\ OnLine # <<>>
    <3> SUFFICES ASSUME ~upset'
                 PROVE  WordsRight' /\ Handed(<<Prompt>>)' /\ OnLine # <<>>
      OBVIOUS
    <3>1. ~upset /\ size = AnswerSize /\ WordsRight
      BY <1>4, <1>5, <1>8 DEF IInv, Calm
    <3>2. OnLine # <<>> /\ Handed(Answer(Target, AnswerSize)) /\ AnswerSize <= Len(buffer)
      BY <1>2, <1>4, <1>7, <3>1
    <3>3. buffer' = SubSeq(buffer, AnswerSize + 1, Len(buffer))
      BY <1>4, <3>1
    <3>4. /\ Handed(<<Prompt>>)'
          /\ AnswerSize = 4 => SubSeq(buffer, 1, AnswerSize) = Word(Target)
      BY <1>1, <3>2, <3>3, AnswerTaken
    <3> QED
      BY <1>5, <2>2, <3>1, <3>2, <3>4
  <2>6. ~upset' => InStep'
    BY <1>8, <2>5 DEF InStep
  <2>7. ~upset' /\ faults'["answer"] = 0 => Cache'
    <3> SUFFICES ASSUME ~upset', faults'["answer"] = 0
                 PROVE  Cache'
      OBVIOUS
    <3>1. ~upset /\ Cache /\ OnLine # <<>> /\ commands = <<>>
      <4>1. ~upset /\ faults["answer"] = 0 /\ size = AnswerSize
        BY <1>4, <1>5, <1>8
      <4> QED
        BY <1>7, <4>1 DEF IInv, Handed
    <3>2. call.op = "read32" => pointer = Target
      BY <1>1, <3>1 DEF Cache
    <3> QED
      BY <1>1, <1>8, <2>2, <3>2 DEF Cache
  <2> QED
    BY <2>3, <2>4, <2>5, <2>6, <2>7 DEF IInv, Calm
<1>9. CASE /\ ~Complete(size) /\ app' \in {"flush", "idle"} /\ UNCHANGED data
  <2>1. Types'
    BY <1>1, <1>4, <1>9 DEF Types, Stages
  <2>2. Course'
    <3>1. upset => upset'
      BY <1>4
    <3> QED
      BY <1>1, <1>9, <3>1 DEF Course
  <2>3. WordsRight => WordsRight'
    BY <1>1, <1>9, SameCall
  <2>4. ~upset' => ~upset /\ Silent /\ size = Len(buffer) /\ size # AnswerSize /\ buffer' = <<>>
    <3> SUFFICES ASSUME ~upset'
                 PROVE  ~upset /\ Silent /\ size = Len(buffer) /\ size # AnswerSize /\ buffer' = <<>>
      OBVIOUS
    <3>1. ~upset /\ size # AnswerSize /\ Silent /\ size = Len(buffer)
      BY <1>4, <1>5, <1>9
    <3>2. SubSeq(buffer, size + 1, Len(buffer)) = <<>>
      BY <1>2, <1>4, <3>1, Taken
    <3> QED
      BY <1>4, <3>1, <3>2
  <2>5. ~upset' => InStep'
    BY <1>1, <1>9, <2>4 DEF InStep, Silent
  <2>6. ~upset' /\ faults'["answer"] = 0 => Cache'
    <3> SUFFICES ASSUME ~upset', faults'["answer"] = 0
                 PROVE  Cache'
      OBVIOUS
    <3>1. Cache /\ commands = <<>> /\ wire = <<>> /\ Len(buffer) # AnswerSize + 1
      <4>1. Len(buffer) # AnswerSize + 1
        BY <1>2, <1>4, <2>4
      <4> QED
        BY <1>4, <2>4, <4>1 DEF IInv, Silent
    <3>2. Len(OnLine) # AnswerSize + 1
      <4>1. Len(wire) = 0
        BY <3>1, EmptySeq
      <4> QED
        BY <1>2, <1>6, <3>1, <4>1
    <3>3. Cached
      BY <1>1, <3>1, <3>2 DEF Cache
    <3>4. Cached'
      BY <1>1, <3>3 DEF Cached
    <3> QED
      BY <1>9, <3>4 DEF Cache
  <2> QED
    BY <2>1, <2>2, <2>3, <2>4, <2>5, <2>6 DEF IInv, Calm
<1> QED
  BY <1>3, <1>8, <1>9

LEMMA ReadPromptKeeps == IInv /\ ReadPrompt => IInv'
<1> SUFFICES ASSUME IInv, ReadPrompt
             PROVE  IInv'
  OBVIOUS
<1>1. /\ app = "prompt" /\ Types /\ Course /\ app' \in {"flush", "idle"}
      /\ last' = IF call.op = "read32" THEN (call.base + Len(data) - 1) % Words ELSE last
      /\ UNCHANGED <<call, data, commands, pointer, wire>>
  BY DEF IInv, ReadPrompt, Return
<1>2. /\ buffer \in Seq(Bytes) /\ wire \in Seq(Bytes) /\ Len(buffer) \in Nat /\ Len(wire) \in Nat
      /\ Len(data) \in Nat /\ call.base \in Nat /\ last \in Numbers
  BY <1>1, LenProperties DEF Types, Numbers
<1>3. PICK size \in 0..1 : Receive(1, size)
  BY DEF ReadPrompt, TakePrompt
<1>4. /\ size \in 0..Len(buffer) /\ buffer' = SubSeq(buffer, size + 1, Len(buffer))
      /\ buffer' \in Seq(Bytes) /\ faults' \in [Kinds -> Nat] /\ upset' \in BOOLEAN
      /\ ~upset' => ~upset /\ (size = 1 \/ (Silent /\ size = Len(buffer)))
      /\ faults'["answer"] = 0 => faults["answer"] = 0
  BY <1>1, <1>3, Received
<1>5. last' \in Numbers
  <2>1. call.base + Len(data) - 1 \in Int
    BY <1>2
  <2> QED
    BY <1>1, <1>2, <2>1, Modulo
<1>6. Types'
  BY <1>1, <1>4, <1>5 DEF Types, Stages
<1>7. Course'
  <2>1. upset => upset'
    BY <1>4
  <2> QED
    BY <1>1, <2>1 DEF Course
<1>8. WordsRight => WordsRight'
  BY <1>1 DEF WordsRight
<1>9. ~upset' => ~upset /\ Silent /\ buffer' = <<>>
  <2> SUFFICES ASSUME ~upset'
               PROVE  ~upset /\ Silent /\ buffer' = <<>>
    OBVIOUS
  <2>0. ~upset
    BY <1>4
  <2>1. CASE Silent /\ size = Len(buffer)
    <3>1. SubSeq(buffer, size + 1, Len(buffer)) = <<>>
      BY <1>2, <1>4, <2>1, Taken
    <3> QED
      BY <1>4, <2>0, <2>1, <3>1
  <2>2. CASE size = 1
    <3>1. /\ Len(OnLine) = Len(buffer) + Len(wire)
          /\ (OnLine = <<>> <=> buffer = <<>> /\ wire = <<>>)
      BY <1>2, LineBytes DEF OnLine
    <3>2. Len(buffer) # 0
      BY <1>2, <1>4, <2>2
    <3>3. Len(<<>>) = 0
      OBVIOUS
    <3>4. OnLine # <<>>
      BY <3>1, <3>2, <3>3, Zenon
    <3>5. Handed(<<Prompt>>)
      BY <1>1, <2>0, <3>4 DEF IInv, Calm, InStep, Unanswered
    <3>6. commands = <<>> /\ Len(OnLine) <= 1
      <4>1. Len(<<Prompt>>) = 1
        OBVIOUS
      <4> QED
        BY <3>5, <4>1 DEF Handed, Begins
    <3>7. Len(buffer) = 1 /\ Len(wire) = 0
      <4>1. \A x, y \in Nat : x # 0 /\ x + y <= 1 => x = 1 /\ y = 0
        OBVIOUS
      <4> QED
        BY <1>2, <3>1, <3>2, <3>6, <4>1, Zenon
    <3>8. wire = <<>>
      BY <1>2, <3>7, EmptySeq
    <3>9. SubSeq(buffer, size + 1, Len(buffer)) = <<>>
      BY <1>2, <1>4, <2>2, <3>7, Taken
    <3> QED
      BY <1>4, <2>0, <3>6, <3>8, <3>9 DEF Silent
  <2> QED
    BY <1>4, <2>1, <2>2
<1>10. ~upset' => InStep'
  BY <1>1, <1>9 DEF InStep, Silent
<1>11. ~upset' /\ faults'["answer"] = 0 => Cache'
  <2> SUFFICES ASSUME ~upset', faults'["answer"] = 0
               PROVE  Cache'
    OBVIOUS
  <2>1. Cache
    BY <1>4 DEF IInv
  <2>2. Cached'
    BY <1>1, <2>1 DEF Cache, Cached, Course
  <2> QED
    BY <1>1, <2>2 DEF Cache
<1> QED
  BY <1>6, <1>7, <1>8, <1>9, <1>10, <1>11 DEF IInv, Calm

(* What reaches the line of an answer begins it. *)
LEMMA Parts ==
    ASSUME NEW t \in Seq(Bytes)
    PROVE  /\ Begins(t, t) /\ Begins(<<>>, t)
           /\ \A k \in 0..(Len(t) - 1) : SubSeq(t, 1, k) \in Seq(Bytes) /\ Begins(SubSeq(t, 1, k), t)
<1>1. Len(t) \in Nat /\ \A i \in 1..Len(t) : t[i] \in Bytes
  BY LenProperties, ElementOfSeq
<1>2. Begins(t, t)
  BY <1>1 DEF Begins
<1>3. Begins(<<>>, t)
  BY <1>1 DEF Begins
<1>4. ASSUME NEW k \in 0..(Len(t) - 1)
      PROVE  SubSeq(t, 1, k) \in Seq(Bytes) /\ Begins(SubSeq(t, 1, k), t)
  <2>1. \A i \in 1..k : t[i] \in Bytes
    BY <1>1
  <2>2. /\ SubSeq(t, 1, k) \in Seq(Bytes) /\ Len(SubSeq(t, 1, k)) = k
        /\ \A i \in 1..k : SubSeq(t, 1, k)[i] = t[i]
    BY <1>1, <2>1, SubSeqProperties
  <2> QED
    BY <1>1, <2>2 DEF Begins
<1> QED
  BY <1>2, <1>3, <1>4

LEMMA Possible ==
    ASSUME NEW answer \in PossibleAnswers
    PROVE  answer \in Seq(Bytes)
<1>1. CASE answer = <<Prompt>>
  <2>1. Prompt \in Bytes
    BY DEF Prompt, Bytes
  <2> QED
    BY <1>1, <2>1
<1>2. CASE answer # <<Prompt>>
  <2>1. PICK a \in {Unknown} \cup 0..(Words - 1), size \in {1, 2, 4} : answer = Answer(a, size)
    BY <1>2 DEF PossibleAnswers
  <2>2. a \in Numbers \cup {Unknown} /\ size \in {0, 1, 2, 4}
    BY DEF Numbers
  <2> QED
    BY <2>1, <2>2, AnswerBytes
<1> QED
  BY <1>1, <1>2

(* What the console has to answer in the stage the call is in. *)
Expected == IF app = "answer" THEN Answer(Target, AnswerSize) ELSE <<Prompt>>

LEMMA AnswerExpected ==
    ASSUME Types, app \in {"answer", "prompt"}, app = "answer" => call.op # "write",
           app = "prompt" => call.op = "write",
           Command.kind = "n" => pointer = last, NEW answer, NEW p, Handled(Command, answer, p)
    PROVE  answer = Expected /\ (call.op = "read32" => p = Target)
<1>1. /\ Target \in Numbers /\ AnswerSize \in {0, 1, 2, 4} /\ last \in Numbers
      /\ Command.kind = "n" => call.op = "read32" /\ AnswerSize = 4 /\ NextWord(last) = Target
      /\ Command.kind # "n" =>
           IF call.op = "write" THEN Command.kind = "P"
           ELSE Command = [kind |-> "G", size |-> AnswerSize, word |-> Target]
  BY CallFacts DEF Types
<1>2. call.op = "read32" => AnswerSize = 4
  BY DEF AnswerSize
<1> HIDE DEF Target, AnswerSize, Command, Answer
<1>3. CASE Command.kind = "n"
  <2>1. pointer # Unknown
    BY <1>1, <1>3 DEF Unknown, Numbers
  <2>2. answer = Answer(NextWord(pointer), 4) /\ p = NextWord(pointer)
    BY <1>3, <2>1 DEF Handled
  <2>3. app = "answer"
    BY <1>1, <1>3
  <2> QED
    BY <1>1, <1>3, <2>2, <2>3, Zenon DEF Expected
<1>4. CASE Command.kind # "n" /\ call.op = "write"
  <2>1. Command.kind = "P"
    BY <1>1, <1>4
  <2>2. answer = <<Prompt>>
    BY <2>1 DEF Handled
  <2>3. app = "prompt"
    BY <1>4
  <2> QED
    BY <1>4, <2>2, <2>3 DEF Expected
<1>5. CASE Command.kind # "n" /\ call.op # "write"
  <2>1. Command.kind = "G" /\ Command.size = AnswerSize /\ Command.word = Target
    BY <1>1, <1>5
  <2>2. answer = Answer(Target, AnswerSize) /\ p = IF AnswerSize = 4 THEN Target ELSE Unknown
    BY <2>1 DEF Handled
  <2>3. app = "answer"
    BY <1>5
  <2> QED
    BY <1>2, <2>2, <2>3 DEF Expected
<1> QED
  BY <1>3, <1>4, <1>5

LEMMA ExpectedBytes ==
    ASSUME Types
    PROVE  Expected \in Seq(Bytes) /\ (app = "answer" => Len(Expected) = AnswerSize + 1)
<1>1. Target \in Numbers \cup {Unknown} /\ AnswerSize \in {0, 1, 2, 4}
  BY CallFacts
<1>2. Answer(Target, AnswerSize) \in Seq(Bytes) /\ Len(Answer(Target, AnswerSize)) = AnswerSize + 1
  BY <1>1, AnswerBytes
<1>3. Prompt \in Bytes
  BY DEF Prompt, Bytes
<1>4. <<Prompt>> \in Seq(Bytes)
  BY <1>3
<1> QED
  BY <1>2, <1>4 DEF Expected

LEMMA HandleKeeps == IInv /\ Handle => IInv'
<1> SUFFICES ASSUME IInv, Handle
             PROVE  IInv'
  OBVIOUS
<1>1. /\ commands # <<>> /\ commands' = Tail(commands) /\ Types /\ Course
      /\ UNCHANGED <<last, app, call, data, buffer, upset>>
  BY DEF IInv, Handle, appVars
<1>2. /\ commands' \in Seq(Orders) /\ wire \in Seq(Bytes) /\ buffer \in Seq(Bytes)
      /\ upset \in BOOLEAN /\ faults \in [Kinds -> Nat] /\ pointer \in Numbers \cup {Unknown}
  BY <1>1, HeadTailProperties DEF Types
<1>3. Course' /\ (WordsRight => WordsRight') /\ Target' = Target /\ AnswerSize' = AnswerSize
  BY <1>1, SameCall DEF Course
(* The command in flight is the one of the call, and the line is empty. *)
<1>4. ~upset => /\ app \in {"clear", "settle", "answer", "prompt"}
                /\ app \in {"answer", "prompt"} => Unanswered
                /\ app = "prompt" => call.op = "write"
                /\ app = "answer" => (Command.kind = "n" => pointer = last)
  <2>1. app \in Stages
    BY <1>1 DEF Types
  <2> QED
    BY <1>1, <2>1 DEF IInv, Calm, InStep, Silent, Handed, Stages
<1>5. Unanswered => /\ Head(commands) = Command /\ commands' = <<>>
                    /\ buffer = <<>> /\ wire = <<>>
  <2>1. OnLine = <<>> => buffer = <<>> /\ wire = <<>>
    BY <1>2, LineBytes DEF OnLine
  <2>2. commands = <<Command>> => Head(commands) = Command /\ Tail(commands) = <<>>
    OBVIOUS
  <2> QED
    BY <1>1, <2>1, <2>2 DEF Unanswered
(* It is enough to know what has come onto the line. *)
<1>6. ASSUME wire' \in Seq(Bytes), pointer' \in Numbers \cup {Unknown}, faults' \in [Kinds -> Nat],
             ~upset /\ app \in {"answer", "prompt"} => Begins(wire', Expected),
             faults'["answer"] = 0 => faults["answer"] = 0,
             ~upset /\ app = "answer" /\ faults'["answer"] = 0 =>
               \/ wire' = <<>> /\ UNCHANGED pointer
               \/ wire' = Expected /\ (call.op = "read32" => pointer' = Target)
      PROVE  IInv'
  <2>1. Types'
    BY <1>1, <1>2, <1>6 DEF Types
  <2>2. Unanswered => OnLine' = wire'
    <3> SUFFICES ASSUME Unanswered
                 PROVE  buffer' \o wire' = wire'
      BY DEF OnLine
    <3>1. buffer' = <<>>
      BY <1>1, <1>5
    <3> QED
      BY <1>6, <3>1, ConcatEmptySeq
  <2>3. ~upset => InStep'
    <3> SUFFICES ASSUME ~upset
                 PROVE  InStep'
      OBVIOUS
    <3>1. CASE app \in {"clear", "settle"}
      BY <1>1, <3>1 DEF InStep
    <3>2. CASE app = "answer"
      <4>1. commands' = <<>> /\ OnLine' = wire' /\ Begins(wire', Answer(Target, AnswerSize))
        BY <1>4, <1>5, <1>6, <2>2, <3>2 DEF Expected
      <4>2. Answer(Target, AnswerSize)' = Answer(Target, AnswerSize)
        BY <1>3 DEF Answer, Word, Prompt
      <4>3. Begins(OnLine', Answer(Target, AnswerSize)')
        BY <4>1, <4>2, Zenon
      <4>4. Handed(Answer(Target, AnswerSize))'
        BY <4>1, <4>3 DEF Handed, Begins
      <4> QED
        BY <1>1, <3>2, <4>4 DEF InStep
    <3>3. CASE app = "prompt"
      <4>1. commands' = <<>> /\ OnLine' = wire' /\ Begins(wire', <<Prompt>>)
        BY <1>4, <1>5, <1>6, <2>2, <3>3 DEF Expected
      <4>2. Begins(OnLine', <<Prompt>>)
        BY <4>1, Zenon
      <4>3. Handed(<<Prompt>>)'
        BY <4>1, <4>2 DEF Handed, Begins, Prompt
      <4> QED
        BY <1>1, <3>3, <4>3 DEF InStep
    <3> QED
      BY <1>4, <3>1, <3>2, <3>3
  <2>4. ~upset /\ faults'["answer"] = 0 => Cache'
    <3> SUFFICES ASSUME ~upset, faults'["answer"] = 0
                 PROVE  Cache'
      OBVIOUS
    <3>1. CASE app # "answer"
      BY <1>1, <1>4, <3>1 DEF Cache
    <3>2. CASE app = "answer"
      <4>1. Cached /\ OnLine' = wire'
        BY <1>1, <1>4, <1>6, <2>2, <3>2 DEF IInv, Cache
      <4>2. CASE wire' = <<>> /\ UNCHANGED pointer
        <5>1. Cached'
          BY <1>1, <4>1, <4>2 DEF Cached
        <5>2. commands' = <<>>
          BY <1>4, <1>5, <3>2
        <5> QED
          BY <1>1, <3>2, <4>1, <4>2, <5>1, <5>2 DEF Cache
      <4>3. CASE wire' = Expected /\ (call.op = "read32" => pointer' = Target)
        <5>1. Len(OnLine') = AnswerSize' + 1
          BY <1>1, <1>3, <3>2, <4>1, <4>3, ExpectedBytes
        <5>2. call'.op = "read32" => pointer' = Target'
          BY <1>1, <1>3, <4>3
        <5>3. app' = "answer" /\ commands' = <<>>
          BY <1>1, <1>4, <1>5, <3>2
        <5> QED
          BY <5>1, <5>2, <5>3 DEF Cache
      <4> QED
        BY <1>6, <3>2, <4>2, <4>3
    <3> QED
      BY <3>1, <3>2
  <2> QED
    BY <1>1, <1>3, <2>1, <2>3, <2>4 DEF IInv, Calm
<1>7. CASE Fault("command") /\ UNCHANGED <<pointer, wire>>
  <2>1. "command" \in Kinds
    BY DEF Kinds
  <2>2. faults' \in [Kinds -> Nat] /\ (faults'["answer"] = 0 => faults["answer"] = 0)
    BY <1>1, <1>7, <2>1, FaultCounts
  <2>3. ~upset /\ app \in {"answer", "prompt"} => wire' = <<>>
    BY <1>4, <1>5, <1>7
  <2>4. ~upset /\ app \in {"answer", "prompt"} => Begins(wire', Expected)
    BY <1>1, <2>3, ExpectedBytes, Parts, Zenon
  <2> QED
    BY <1>2, <1>6, <1>7, <2>2, <2>3, <2>4
<1>8. ASSUME NEW answer \in PossibleAnswers, NEW p \in {Unknown} \cup 0..(Words - 1),
             Handled(Head(commands), answer, p), pointer' = p,
             \/ wire' = wire \o answer /\ UNCHANGED faults
             \/ Fault("answer") /\ \E k \in 0..(Len(answer) - 1) : wire' = wire \o SubSeq(answer, 1, k)
      PROVE  IInv'
  <2>1. answer \in Seq(Bytes) /\ pointer' \in Numbers \cup {Unknown}
    BY <1>8, Possible DEF Numbers
  <2>2. ~upset /\ app \in {"answer", "prompt"} =>
          /\ answer = Expected /\ wire = <<>>
          /\ call.op = "read32" => pointer' = Target
    <3> SUFFICES ASSUME ~upset, app \in {"answer", "prompt"}
                 PROVE  answer = Expected /\ wire = <<>> /\ (call.op = "read32" => pointer' = Target)
      OBVIOUS
    <3>1. Handled(Command, answer, p) /\ wire = <<>>
      BY <1>4, <1>5, <1>8
    <3>2. Command.kind = "n" => call.op = "read32"
      BY <1>1, CallFacts
    <3>3. Command.kind = "n" => pointer = last
      BY <1>4, <3>2
    <3>4. app = "answer" => call.op # "write"
      BY <1>1 DEF Course
    <3>5. answer = Expected /\ (call.op = "read32" => p = Target)
      BY <1>1, <1>4, <3>1, <3>3, <3>4, AnswerExpected
    <3> QED
      BY <1>8, <3>1, <3>5
  <2>3. CASE wire' = wire \o answer /\ UNCHANGED faults
    <3>1. wire' \in Seq(Bytes)
      BY <1>2, <2>1, <2>3, ConcatProperties
    <3>2. ~upset /\ app \in {"answer", "prompt"} => wire' = Expected
      BY <2>1, <2>2, <2>3, ConcatEmptySeq
    <3>3. ~upset /\ app \in {"answer", "prompt"} => Begins(wire', Expected)
      BY <1>1, <3>2, ExpectedBytes, Parts, Zenon
    <3> QED
      BY <1>2, <1>6, <2>1, <2>2, <2>3, <3>1, <3>2, <3>3
  <2>4. CASE Fault("answer") /\ \E k \in 0..(Len(answer) - 1) : wire' = wire \o SubSeq(answer, 1, k)
    <3>1. PICK k \in 0..(Len(answer) - 1) : wire' = wire \o SubSeq(answer, 1, k)
      BY <2>4
    <3>2. "answer" \in Kinds
      BY DEF Kinds
    <3>3. faults' \in [Kinds -> Nat] /\ faults'["answer"] # 0
      BY <1>1, <2>4, <3>2, FaultCounts
    <3>4. SubSeq(answer, 1, k) \in Seq(Bytes) /\ Begins(SubSeq(answer, 1, k), answer)
      BY <2>1, Parts
    <3>5. wire' \in Seq(Bytes)
      BY <1>2, <3>1, <3>4, ConcatProperties
    <3>6. wire = <<>> => wire' = SubSeq(answer, 1, k)
      BY <3>1, <3>4, ConcatEmptySeq
    <3>7. ~upset /\ app \in {"answer", "prompt"} => Begins(wire', Expected)
      BY <2>2, <3>4, <3>6, Zenon
    <3> QED
      BY <1>6, <2>1, <3>3, <3>5, <3>7
  <2> QED
    BY <1>8, <2>3, <2>4
<1> QED
  BY <1>7, <1>8 DEF Handle

LEMMA ArriveKeeps == IInv /\ Arrive => IInv'
<1> SUFFICES ASSUME IInv, Arrive
             PROVE  IInv'
  OBVIOUS
<1>1. /\ wire # <<>> /\ wire' = Tail(wire) /\ buffer' = Append(buffer, Head(wire)) /\ Types /\ Course
      /\ UNCHANGED <<last, app, call, data, commands, pointer, faults, upset>>
  BY DEF IInv, Arrive, appVars
<1>2. wire \in Seq(Bytes) /\ buffer \in Seq(Bytes)
  BY <1>1 DEF Types
<1>3. wire' \in Seq(Bytes) /\ buffer' \in Seq(Bytes) /\ OnLine' = OnLine
  BY <1>1, <1>2, Arrives DEF OnLine
<1>4. Types'
  BY <1>1, <1>3 DEF Types
<1>5. /\ Command' = Command /\ Target' = Target /\ AnswerSize' = AnswerSize
      /\ Course' /\ (WordsRight => WordsRight')
  BY <1>1, SameCall DEF Course
<1>6. ~upset => app \notin {"idle", "wake", "send", "flush"}
  BY <1>1 DEF IInv, Calm, InStep, Silent
<1>7. ~upset => InStep'
  <2> SUFFICES ASSUME ~upset
               PROVE  InStep'
    OBVIOUS
  <2>1. CASE app = "answer"
    <3>1. CASE Unanswered /\ (Command.kind = "n" => pointer = last)
      <4>1. Unanswered'
        BY <1>1, <1>3, <1>5, <3>1 DEF Unanswered
      <4> QED
        BY <1>1, <1>5, <2>1, <3>1, <4>1 DEF InStep
    <3>2. CASE Handed(Answer(Target, AnswerSize))
      <4>1. Answer(Target, AnswerSize)' = Answer(Target, AnswerSize)
        BY <1>5 DEF Answer, Word, Prompt
      <4>2. commands' = <<>> /\ Begins(OnLine', Answer(Target, AnswerSize)')
        BY <1>1, <1>3, <3>2, <4>1 DEF Handed
      <4>3. Handed(Answer(Target, AnswerSize))'
        BY <4>2 DEF Handed, Begins
      <4> QED
        BY <1>1, <2>1, <4>3 DEF InStep
    <3> QED
      BY <2>1, <3>1, <3>2 DEF IInv, Calm, InStep
  <2>2. CASE app = "prompt"
    <3>1. CASE Unanswered /\ call.op = "write"
      <4>1. Unanswered' /\ call'.op = "write"
        BY <1>1, <1>3, <1>5, <3>1 DEF Unanswered
      <4> QED
        BY <1>1, <2>2, <4>1 DEF InStep
    <3>2. CASE Handed(<<Prompt>>)
      <4>1. commands' = <<>> /\ Begins(OnLine', <<Prompt>>)
        BY <1>1, <1>3, <3>2 DEF Handed
      <4>2. Handed(<<Prompt>>)'
        BY <4>1 DEF Handed, Begins, Prompt
      <4> QED
        BY <1>1, <2>2, <4>2 DEF InStep
    <3> QED
      BY <2>2, <3>1, <3>2 DEF IInv, Calm, InStep
  <2>3. CASE app \notin {"answer", "prompt"}
    BY <1>1, <1>6, <2>3 DEF InStep
  <2> QED
    BY <2>1, <2>2, <2>3
<1>8. ~upset /\ faults["answer"] = 0 => Cache'
  <2> SUFFICES ASSUME ~upset, faults["answer"] = 0
               PROVE  Cache'
    OBVIOUS
  <2>1. Cache
    BY DEF IInv
  <2>2. Cached => Cached'
    BY <1>1 DEF Cached
  <2> QED
    BY <1>1, <1>3, <1>5, <2>1, <2>2 DEF Cache
<1> QED
  BY <1>1, <1>4, <1>5, <1>7, <1>8 DEF IInv, Calm

-----------------------------------------------------------------------------
(* The types, and how the stage of a call accounts for what is on the line, hold
   in every reachable state (the attempts of sdbiMemoryRead32 and its siblings,
   sdbconsole.c). *)
THEOREM Invariance == Spec => []IInv
<1>1. Init => IInv
  BY Started
<1>2. IInv /\ [Next]_vars => IInv'
  <2> SUFFICES ASSUME IInv, [Next]_vars
               PROVE  IInv'
    OBVIOUS
  <2>1. ASSUME NEW a \in Addresses, NEW n \in 1..MaxBlock, StartRead32(a, n)
        PROVE  IInv'
    BY <2>1, StartRead32Keeps
  <2>2. ASSUME NEW kind \in Ops, NEW a \in Addresses, StartOther(kind, a)
        PROVE  IInv'
    BY <2>2, StartOtherKeeps
  <2>3. CASE Reconnect
    BY <2>3, ReconnectKeeps
  <2>4. CASE AppStep
    BY <2>4, WakeKeeps, WakeFlushKeeps, SettleKeeps, FlushKeeps, SendKeeps, ReadAnswerKeeps, ReadPromptKeeps
       DEF AppStep
  <2>5. CASE Handle
    BY <2>5, HandleKeeps
  <2>6. CASE Arrive
    BY <2>6, ArriveKeeps
  <2>7. CASE UNCHANGED vars
    <3>1. UNCHANGED <<last, app, call, data, commands, pointer, wire, buffer, faults, upset>>
      BY <2>7 DEF vars, appVars, lineVars
    <3>2. Types /\ Course => Types' /\ Course'
      BY <3>1 DEF Types, Course
    <3>3. Command' = Command /\ Target' = Target /\ AnswerSize' = AnswerSize /\ (WordsRight => WordsRight')
      BY <3>1, SameCall
    <3>4. OnLine' = OnLine /\ Answer(Target, AnswerSize)' = Answer(Target, AnswerSize)
      BY <3>1, <3>3 DEF OnLine, Answer, Word, Prompt
    <3>5. /\ Handed(Answer(Target, AnswerSize)) => Handed(Answer(Target, AnswerSize))'
          /\ Handed(<<Prompt>>) => Handed(<<Prompt>>)'
      <4>1. \A t : commands = <<>> /\ Begins(OnLine, t) => commands' = <<>> /\ Begins(OnLine', t)
        BY <3>1, <3>4
      <4> QED
        BY <3>4, <4>1 DEF Handed, Begins, Prompt
    <3>6. Unanswered => Unanswered'
      BY <3>1, <3>3, <3>4 DEF Unanswered
    <3>7. InStep => InStep'
      BY <3>1, <3>3, <3>5, <3>6 DEF InStep, Silent
    <3>8. Cache => Cache'
      BY <3>1, <3>3, <3>4 DEF Cache, Cached
    <3> QED
      BY <3>1, <3>2, <3>3, <3>7, <3>8 DEF IInv, Calm
  <2> QED
    BY <2>1, <2>2, <2>3, <2>4, <2>5, <2>6, <2>7 DEF Next
<1> QED
  BY <1>1, <1>2, PTL DEF Spec

(* Every word a 32-bit block read has stored is the word of its own address, for
   every address space, block and number of attempts (bsdiMemoryRead32 and
   sdbiMemoryRead32 with the short command 'n'). *)
THEOREM BlocksAreRight == Spec => []ReadsRight
<1>1. IInv => ReadsRight
  BY DEF IInv, Calm, ReadsRight
<1> QED
  BY <1>1, Invariance, PTL

(* While answers get through, the console remembers the address that
   sSdbLastBinaryAddress says it does whenever a command is about to be chosen. *)
THEOREM CacheIsRight == Spec => []CacheMatchesConsole
<1>1. IInv => CacheMatchesConsole
  BY DEF IInv, Cache, Cached, CacheMatchesConsole
<1> QED
  BY <1>1, Invariance, PTL

(* A call leaves nothing of its answer on the line for the next one (spiFlushPort
   before, the prompt read after every command). *)
THEOREM LineIsInStep == Spec => []LineInStep
<1>1. IInv => LineInStep
  BY DEF IInv, Calm, InStep, LineInStep
<1> QED
  BY <1>1, Invariance, PTL

==============================================================================
