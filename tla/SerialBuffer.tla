---------------------------- MODULE SerialBuffer ----------------------------
(***************************************************************************)
(* One open serial port: the host buffer of osalserial.c shared by two     *)
(* threads.  The reader thread (spReadThread, linuxserial.c) moves bytes   *)
(* from the kernel's tty queue into the buffer; the application thread     *)
(* reads (spiReadData -> wsbiGetData) and flushes (spiFlushPort ->         *)
(* wsbiFlush).  The semaphore guards the buffer, except that wsbiGetData   *)
(* polls BytesUnRead before it takes the semaphore.  Every access to       *)
(* shared memory is a step of its own, because the threads interleave      *)
(* between any two of them.                                                *)
(*                                                                         *)
(* A byte is its position in the device's output, so order and loss are    *)
(* visible.  The NULL PtrBuffer is the empty sequence: the code never      *)
(* keeps an allocated buffer without bytes in it.                          *)
(***************************************************************************)
EXTENDS Naturals, Sequences

CONSTANTS MaxBytes,       \* bytes the device transmits (bounds the model)
          MaxCalls,       \* calls the application makes (bounds the model)
          ReadSizes,      \* the MaxSize arguments of spiReadData
          MaxReadCycles   \* MAX_READ_CYCLES_FOR_GET_DATA

ASSUME BufferAssumption ==
    /\ MaxBytes \in Nat
    /\ MaxCalls \in Nat
    /\ ReadSizes \subseteq Nat \ {0}
    /\ MaxReadCycles \in Nat \ {0}

VARIABLES
    sent,           \* bytes the device has transmitted
    wire,           \* the tty queue of the kernel
    sem,            \* CriticalSectionHandle
    data,           \* PtrBuffer
    bytesUnRead,    \* BytesUnRead
    rpc,            \* control point of the reader thread
    chunk,          \* data[] of spReadData
    apc,            \* control point of the application thread
    call,           \* the call the application is in
    want,           \* MaxSize
    retryCount,     \* retryCount of wsbiGetData
    lastDataCount,  \* lastDataCount of wsbiGetData
    size,           \* size of wsbiGetData
    result,         \* status and bytes the last finished read returned
    taken,          \* history: bytes that left the buffer, in order
    calls           \* calls made so far

kernelVars == <<sent, wire>>
bufferVars == <<data, bytesUnRead>>
readerVars == <<rpc, chunk>>
pollVars   == <<want, retryCount, lastDataCount>>
callVars   == <<call, size, result, calls>>
appVars    == <<apc, pollVars, callVars, taken>>
vars       == <<kernelVars, sem, bufferVars, readerVars, appVars>>

Min2(a, b) == IF a <= b THEN a ELSE b

(***************************************************************************)
(* Control points.  The reader is inside the critical section between its  *)
(* wsbiLockBuffer and wsbiUnlockBuffer, and so is the application.         *)
(***************************************************************************)
ReaderPoints  == {"check", "read", "lock", "append", "count", "unlock"}
ReaderInside  == rpc \in {"append", "count", "unlock"}
PollPoints    == {"enough", "compare", "remember"}
AppPoints     == PollPoints \cup {"idle", "lock", "copy", "replace", "shrink",
                                  "clear", "zero", "unlock"}
AppInside     == apc \in {"copy", "replace", "shrink", "clear", "zero", "unlock"}

(* Bytes read from the tty but not yet in the buffer. *)
InHand == IF rpc \in {"lock", "append"} THEN chunk ELSE <<>>

(* Bytes of the buffer that the call in progress has not yet copied out. *)
Unread == IF call = "read" /\ apc \in {"replace", "clear"}
          THEN SubSeq(data, size + 1, Len(data))
          ELSE data

Pending == Unread \o InHand \o wire

(***************************************************************************)
(* spiOpenPort: an empty buffer, a free semaphore and a running reader.    *)
(***************************************************************************)
Init ==
    /\ sent = 0 /\ wire = <<>>
    /\ sem = 1 /\ data = <<>> /\ bytesUnRead = 0
    /\ rpc = "check" /\ chunk = <<>>
    /\ apc = "idle" /\ call = "none"
    /\ want = 0 /\ retryCount = 0 /\ lastDataCount = 0 /\ size = 0
    /\ result = [status |-> "NONE", bytes |-> <<>>]
    /\ taken = <<>> /\ calls = 0

(* The device transmits its next byte into the tty queue. *)
Transmit ==
    /\ sent < MaxBytes
    /\ sent' = sent + 1
    /\ wire' = Append(wire, sent')
    /\ UNCHANGED <<sem, bufferVars, readerVars, appVars>>

-----------------------------------------------------------------------------
(* The reader thread *)

(* FIONREAD reports bytes: go and read them. *)
ReaderCheck ==
    /\ rpc = "check"
    /\ wire # <<>>
    /\ rpc' = "read"
    /\ UNCHANGED <<kernelVars, sem, bufferVars, chunk, appVars>>

(* FIONREAD reports nothing: the loop goes round again. *)
ReaderSpin ==
    /\ rpc = "check"
    /\ wire = <<>>
    /\ UNCHANGED vars

(* read() returns at least one byte and at most what is queued. *)
ReaderRead ==
    /\ rpc = "read"
    /\ \E n \in 1..Len(wire) :
          /\ chunk' = SubSeq(wire, 1, n)
          /\ wire' = SubSeq(wire, n + 1, Len(wire))
    /\ rpc' = "lock"
    /\ UNCHANGED <<sent, sem, bufferVars, appVars>>

ReaderLock ==
    /\ rpc = "lock"
    /\ sem = 1
    /\ sem' = 0
    /\ rpc' = "append"
    /\ UNCHANGED <<kernelVars, bufferVars, chunk, appVars>>

(* Mutant: the new bytes replace the old ones. *)
OnlyNew == chunk

(* wsbiAddData: PtrBuffer becomes the old bytes followed by the new ones. *)
Joined == IF data = <<>> THEN chunk ELSE SubSeq(data, 1, bytesUnRead) \o chunk

ReaderAppend ==
    /\ rpc = "append"
    /\ data' = Joined
    /\ rpc' = "count"
    /\ UNCHANGED <<kernelVars, sem, bytesUnRead, chunk, appVars>>

ReaderCount ==
    /\ rpc = "count"
    /\ bytesUnRead' = bytesUnRead + Len(chunk)
    /\ rpc' = "unlock"
    /\ UNCHANGED <<kernelVars, sem, data, chunk, appVars>>

(* Mutant: the reader keeps the semaphore. *)
ReaderKeepsLock ==
    /\ rpc = "unlock"
    /\ rpc' = "check"
    /\ chunk' = <<>>
    /\ UNCHANGED <<kernelVars, sem, bufferVars, appVars>>

ReaderUnlock ==
    /\ rpc = "unlock"
    /\ sem' = 1
    /\ rpc' = "check"
    /\ chunk' = <<>>
    /\ UNCHANGED <<kernelVars, bufferVars, appVars>>

Reader == ReaderCheck \/ ReaderSpin \/ ReaderRead \/ ReaderLock \/ ReaderAppend
            \/ ReaderCount \/ ReaderUnlock

-----------------------------------------------------------------------------
(* The application thread: wsbiGetData's unlocked poll *)

StartRead(max) ==
    /\ apc = "idle"
    /\ calls < MaxCalls
    /\ calls' = calls + 1
    /\ call' = "read"
    /\ want' = max
    /\ retryCount' = 0
    /\ lastDataCount' = 0
    /\ apc' = "enough"
    /\ UNCHANGED <<kernelVars, sem, bufferVars, readerVars, size, result, taken>>

PollEnough ==
    /\ apc = "enough"
    /\ apc' = IF bytesUnRead >= want THEN "lock" ELSE "compare"
    /\ UNCHANGED <<kernelVars, sem, bufferVars, readerVars, pollVars, callVars, taken>>

(* Mutant: the poll gives up a cycle early. *)
PollSameShort ==
    /\ apc = "compare"
    /\ lastDataCount = bytesUnRead
    /\ retryCount' = retryCount + 1
    /\ apc' = IF retryCount' + 1 < MaxReadCycles THEN "enough" ELSE "lock"
    /\ UNCHANGED <<kernelVars, sem, bufferVars, readerVars, want, lastDataCount, callVars, taken>>

PollSame ==
    /\ apc = "compare"
    /\ lastDataCount = bytesUnRead
    /\ retryCount' = retryCount + 1
    /\ apc' = IF retryCount' < MaxReadCycles THEN "enough" ELSE "lock"
    /\ UNCHANGED <<kernelVars, sem, bufferVars, readerVars, want, lastDataCount, callVars, taken>>

PollDiffers ==
    /\ apc = "compare"
    /\ lastDataCount # bytesUnRead
    /\ apc' = "remember"
    /\ UNCHANGED <<kernelVars, sem, bufferVars, readerVars, pollVars, callVars, taken>>

PollRemember ==
    /\ apc = "remember"
    /\ retryCount' = 0
    /\ lastDataCount' = bytesUnRead
    /\ apc' = "enough"
    /\ UNCHANGED <<kernelVars, sem, bufferVars, readerVars, want, callVars, taken>>

StartFlush ==
    /\ apc = "idle"
    /\ calls < MaxCalls
    /\ calls' = calls + 1
    /\ call' = "flush"
    /\ apc' = "lock"
    /\ UNCHANGED <<kernelVars, sem, bufferVars, readerVars, pollVars, size, result, taken>>

-----------------------------------------------------------------------------
(* The application thread inside the critical section *)

AppLock ==
    /\ apc = "lock"
    /\ sem = 1
    /\ sem' = 0
    /\ apc' = IF call = "read" THEN "copy" ELSE "clear"
    /\ UNCHANGED <<kernelVars, bufferVars, readerVars, pollVars, callVars, taken>>

(* How much is copied out is decided from BytesUnRead as it is now. *)
CopySize == Min2(bytesUnRead, want)

AppCopy ==
    /\ apc = "copy"
    /\ size' = CopySize
    /\ result' = [status |-> "SUCCESS", bytes |-> SubSeq(data, 1, CopySize)]
    /\ taken' = taken \o SubSeq(data, 1, CopySize)
    /\ apc' = IF CopySize < bytesUnRead THEN "replace" ELSE "clear"
    /\ UNCHANGED <<kernelVars, sem, bufferVars, readerVars, pollVars, call, calls>>

(* Mutant: the last byte handed out stays in the buffer. *)
ReplaceKeepsOne ==
    /\ apc = "replace"
    /\ data' = SubSeq(data, size, bytesUnRead)
    /\ apc' = "shrink"
    /\ UNCHANGED <<kernelVars, sem, bytesUnRead, readerVars, pollVars, callVars, taken>>

AppReplace ==
    /\ apc = "replace"
    /\ data' = SubSeq(data, size + 1, bytesUnRead)
    /\ apc' = "shrink"
    /\ UNCHANGED <<kernelVars, sem, bytesUnRead, readerVars, pollVars, callVars, taken>>

AppShrink ==
    /\ apc = "shrink"
    /\ bytesUnRead' = bytesUnRead - size
    /\ apc' = "unlock"
    /\ UNCHANGED <<kernelVars, sem, data, readerVars, pollVars, callVars, taken>>

(* wsbiClearAndReset; on a flush the bytes leave without being delivered. *)
AppClear ==
    /\ apc = "clear"
    /\ data' = <<>>
    /\ taken' = IF call = "flush" THEN taken \o data ELSE taken
    /\ apc' = "zero"
    /\ UNCHANGED <<kernelVars, sem, bytesUnRead, readerVars, pollVars, callVars>>

AppZero ==
    /\ apc = "zero"
    /\ bytesUnRead' = 0
    /\ apc' = "unlock"
    /\ UNCHANGED <<kernelVars, sem, data, readerVars, pollVars, callVars, taken>>

AppUnlock ==
    /\ apc = "unlock"
    /\ sem' = 1
    /\ apc' = "idle"
    /\ call' = "none"
    /\ UNCHANGED <<kernelVars, bufferVars, readerVars, pollVars, size, result, calls, taken>>

(* The steps of a call in progress. *)
AppStep == PollEnough \/ PollSame \/ PollDiffers \/ PollRemember \/ AppLock
             \/ AppCopy \/ AppReplace \/ AppShrink \/ AppClear \/ AppZero \/ AppUnlock

App == StartFlush \/ (\E max \in ReadSizes : StartRead(max)) \/ AppStep

Next == Transmit \/ Reader \/ App

Spec == Init /\ [][Next]_vars

(***************************************************************************)
(* Both threads are scheduled and a call that was begun is carried on; the *)
(* device need not transmit and the application need not call.  Because    *)
(* finitely many bytes and calls compete for it, sem_wait needs no more    *)
(* than weak fairness.                                                     *)
(***************************************************************************)
FairSpec == Spec /\ WF_vars(Reader) /\ WF_vars(AppStep)

-----------------------------------------------------------------------------
(* Type invariant: the variables of both threads and of the shared buffer
   keep their types (IAL_SERIAL_BUFFER and the locals of wsbiGetData). *)
TypeInv ==
    /\ sent \in Nat /\ wire \in Seq(Nat)
    /\ sem \in {0, 1}
    /\ data \in Seq(Nat) /\ bytesUnRead \in Nat
    /\ rpc \in ReaderPoints /\ chunk \in Seq(Nat)
    /\ apc \in AppPoints /\ call \in {"none", "read", "flush"}
    /\ want \in Nat /\ retryCount \in Nat /\ lastDataCount \in Nat /\ size \in Nat
    /\ result \in [status : {"NONE", "SUCCESS"}, bytes : Seq(Nat)]
    /\ taken \in Seq(Nat) /\ calls \in Nat

(* The two threads are never in their critical sections together, and the
   semaphore is taken exactly while one of them is (wsbiLockBuffer and
   wsbiUnlockBuffer bracket every change of the buffer). *)
MutualExclusion ==
    /\ ~(ReaderInside /\ AppInside)
    /\ sem = (IF ReaderInside \/ AppInside THEN 0 ELSE 1)

(* BytesUnRead describes PtrBuffer whenever nobody is changing them: the
   pointer and the count are written by separate statements of wsbiAddData,
   wsbiGetData and wsbiClearAndReset and must agree again at every unlock. *)
CountMatchesBuffer == sem = 1 => bytesUnRead = Len(data)

(* The device's output, byte for byte: what left the buffer, what is in it,
   what the reader thread holds and what the tty still queues.  No
   interleaving of wsbiAddData with wsbiGetData or wsbiFlush loses, repeats
   or reorders a byte. *)
StreamIntact == taken \o Pending = [i \in 1..sent |-> i]

(* wsbiGetData hands out fewer bytes than asked for only after a full run of
   MAX_READ_CYCLES_FOR_GET_DATA polls that saw no byte arrive: the unlocked
   test of BytesUnRead may be stale, but never in the harmful direction. *)
ShortReadOnlyAfterSilence ==
    apc = "copy" /\ bytesUnRead < want => retryCount = MaxReadCycles

(* While wsbiGetData polls without the semaphore, the count it watches never
   drops: only the application removes bytes. *)
CountNeverDropsDuringPoll ==
    [][(apc \in PollPoints) => (bytesUnRead' >= bytesUnRead)]_vars

(* Every byte the device transmitted ends up in the host buffer or with the
   application: none stays behind in the tty queue or in the reader's hands. *)
BytesArrive == []<>(Len(taken) + Len(Unread) = sent)

(* The port implements the byte channel the SDB console relies on. *)
Channel == INSTANCE SerialChannel WITH pending <- Pending
ImplementsChannel == Channel!Spec
=============================================================================
