----------------------------- MODULE SdbConsole -----------------------------
(***************************************************************************)
(* Memory access through the SDB console (sdbconsole.c), one connection at *)
(* a time, and the block reads brcmscsisdk.c makes of it.                  *)
(*                                                                         *)
(* A command is written to the port and its answer read back within a      *)
(* silence timeout; a short answer makes the read start again.  The static *)
(* sSdbLastBinaryAddress remembers the word last read so that the next one *)
(* can be asked for with the short command 'n', which relies on the        *)
(* address the console itself remembers.                                   *)
(*                                                                         *)
(* The port is the byte channel of SerialChannel: wire holds the bytes on  *)
(* their way (the tty queue and the reader thread's hand), buffer the host *)
(* buffer, the only part spiFlushPort empties.  Addresses are word numbers,*)
(* so Address - 4 of the code is the word before, modulo the address space.*)
(* The console is outside the repository; it is modelled by the answers    *)
(* sdbconsole.c expects of it.                                             *)
(***************************************************************************)
EXTENDS Integers, Sequences

CONSTANTS Words,        \* words in the address space; arithmetic wraps around
          Addresses,    \* words the application asks for
          ProbeAddress, \* the word sdbiCheckConsole reads (0x10000000)
          Ops,          \* operations the application uses
          MaxBlock,     \* words in the longest block read (bounds the model)
          MaxAttempts,  \* retryCount of the reads (6)
          MaxCalls,     \* calls made (bounds the model)
          Faults,       \* what can go wrong on the line
          MaxFaults     \* how often it does (bounds the model)

Kinds == {"write", "command", "answer", "late"}

ASSUME ConsoleAssumption ==
    /\ Words \in Nat \ {0, 1}
    /\ Addresses \subseteq 0..(Words - 1) /\ ProbeAddress \in 0..(Words - 1)
    /\ Ops \subseteq {"read32", "read16", "read8", "write"}
    /\ MaxBlock \in Nat \ {0} /\ MaxAttempts \in Nat \ {0}
    /\ MaxCalls \in Nat /\ MaxFaults \in Nat
    /\ Faults \subseteq Kinds

VARIABLES
    last,       \* sSdbLastBinaryAddress
    app,        \* where the application thread is
    call,       \* the call in progress, or the last one
    data,       \* words a block read has stored so far
    attempts,   \* retryCount: attempts left after this one
    result,     \* status of the last call
    calls,      \* calls made
    commands,   \* commands on their way to the console
    pointer,    \* the address the console remembers, or Unknown
    wire,       \* answer bytes on their way to the host buffer
    buffer,     \* bytes in the host buffer
    faults,     \* faults so far, of each kind
    upset       \* history: something happened that the library does not survive

appVars  == <<app, call, data, attempts, result, calls>>
lineVars == <<commands, wire, buffer, faults, upset>>
vars     == <<last, appVars, pointer, lineVars>>

Unknown == -2
Prompt  == [word |-> -1, byte |-> 0]
Word(a)     == [i \in 1..4 |-> [word |-> a, byte |-> i]]
Answer(a, size) == SubSeq(Word(a), 1, size) \o <<Prompt>>

NextWord(a)     == (a + 1) % Words
PreviousWord(a) == (a - 1) % Words      \* unsigned: the word before 0 is the last

Init ==
    /\ last = 0
    /\ app = "idle" /\ call = [op |-> "read32", base |-> 0, words |-> 1, probe |-> TRUE]
    /\ data = <<>> /\ attempts = 0 /\ result = "none" /\ calls = 0
    /\ commands = <<>> /\ pointer = Unknown /\ wire = <<>> /\ buffer = <<>>
    /\ faults = [kind \in Kinds |-> 0] /\ upset = FALSE

Total == faults["write"] + faults["command"] + faults["answer"] + faults["late"]
Fault(kind) ==
    /\ kind \in Faults /\ Total < MaxFaults
    /\ faults' = [faults EXCEPT ![kind] = @ + 1]

(* The word of the block that is being read, and the bytes its answer has. *)
Target == (call.base + Len(data)) % Words
AnswerSize == CASE call.op = "read32" -> 4
                [] call.op = "read16" -> 2
                [] call.op = "read8"  -> 1
                [] call.op = "write"  -> 0

(* What the reads take for a complete answer; sdbiMemoryRead16 asks for two
   bytes and compares with one. *)
Complete(size) == size = IF call.op = "read16" THEN 1 ELSE AnswerSize

-----------------------------------------------------------------------------
(* The application thread *)

(* There is a device to call only after a discovery that found the console. *)
Connected == ~call.probe \/ result = "success"

Begin(op, base, words, probe) ==
    /\ calls < MaxCalls
    /\ calls' = calls + 1
    /\ call' = [op |-> op, base |-> base, words |-> words, probe |-> probe]
    /\ data' = <<>> /\ attempts' = MaxAttempts /\ result' = "none"

(* bsdiMemoryRead32 for a block of words. *)
StartRead32(base, words) ==
    /\ app = "idle" /\ Connected /\ "read32" \in Ops
    /\ \A i \in 0..(words - 1) : (base + i) % Words \in Addresses
    /\ Begin("read32", base, words, FALSE)
    /\ app' = "flush"
    /\ UNCHANGED <<last, pointer, lineVars>>

(* Mutant: another operation leaves the remembered address alone. *)
KeepLast == UNCHANGED last

(* sSdbLastBinaryAddress = 0 *)
ForgetLast == last' = 0

(* The other operations: one datum inside a word, and the remembered address
   is given up first. *)
StartOther(op, base) ==
    /\ app = "idle" /\ Connected /\ op \in Ops \ {"read32"}
    /\ Begin(op, base, 1, FALSE)
    /\ ForgetLast
    /\ upset' = (upset \/ op = "read16")
    /\ app' = "flush"
    /\ UNCHANGED <<pointer, commands, wire, buffer, faults>>

(* A new discovery: the port has been opened again (tcflush, a fresh host
   buffer), and sdbiCheckConsole flushes once more. *)
Reconnect ==
    /\ app = "idle"
    /\ Begin("read32", ProbeAddress, 1, TRUE)
    /\ ForgetLast
    /\ wire' = <<>> /\ buffer' = <<>>
    /\ app' = "wake"
    /\ UNCHANGED <<pointer, commands, faults, upset>>

Return(status) ==
    /\ app' = "idle"
    /\ result' = status

(* The console is woken; when that write fails there is no device. *)
Wake ==
    /\ app = "wake"
    /\ \/ /\ commands' = Append(commands, [kind |-> "\r", size |-> 0, word |-> 0])
          /\ upset' = FALSE
          /\ app' = "clear"
          /\ UNCHANGED <<result, faults>>
       \/ /\ Fault("write")
          /\ Return("failed")
          /\ UNCHANGED <<commands, upset>>
    /\ UNCHANGED <<last, call, data, attempts, calls, pointer, wire, buffer>>

(* The second spiFlushPort of sdbiCheckConsole. *)
WakeFlush ==
    /\ app = "clear"
    /\ buffer' = <<>>
    /\ app' = "settle"
    /\ UNCHANGED <<last, call, data, attempts, result, calls, commands, pointer, wire, faults, upset>>

Silent == commands = <<>> /\ wire = <<>>

(* Time passes for the application: everything in flight has arrived, unless
   the line is late. *)
TimeRunsOut ==
    \/ Silent /\ UNCHANGED <<faults, upset>>
    \/ ~Silent /\ Fault("late") /\ upset' = TRUE

(* sosiSleep (10) before the probing read. *)
Settle ==
    /\ app = "settle"
    /\ TimeRunsOut
    /\ app' = "flush"
    /\ UNCHANGED <<last, call, data, attempts, result, calls, commands, pointer, wire, buffer>>

(* Mutant: the retries are not counted. *)
AttemptForFree == UNCHANGED attempts

(* retryCount-- *)
UseAttempt == attempts' = attempts - 1

(* One attempt begins: while (retryCount--), then spiFlushPort. *)
Flush ==
    /\ app = "flush"
    /\ UseAttempt
    /\ buffer' = <<>>
    /\ app' = "send"
    /\ UNCHANGED <<last, call, data, result, calls, commands, pointer, wire, faults, upset>>

(* Mutant: the short command asks for the same word again. *)
CommandForSameWord ==
    IF call.op = "read32" /\ last = Target
    THEN [kind |-> "n", size |-> 0, word |-> 0]
    ELSE IF call.op = "write"
         THEN [kind |-> "P", size |-> 4, word |-> Target]
         ELSE [kind |-> "G", size |-> AnswerSize, word |-> Target]

(* 'n' only when the word before the wanted one is the one remembered; 0
   stands for none and for word 0 alike. *)
Command ==
    IF call.op = "read32" /\ last = PreviousWord(Target)
    THEN [kind |-> "n", size |-> 0, word |-> 0]
    ELSE IF call.op = "write"
         THEN [kind |-> "P", size |-> 4, word |-> Target]
         ELSE [kind |-> "G", size |-> AnswerSize, word |-> Target]

(* spiWriteData; a failed write ends the call. *)
Send ==
    /\ app = "send"
    /\ \/ /\ commands' = Append(commands, Command)
          /\ upset' = (upset \/ (Command.kind = "n" /\ pointer # last))
          /\ app' = IF call.op = "write" THEN "prompt" ELSE "answer"
          /\ UNCHANGED <<result, faults>>
       \/ /\ Fault("write")
          /\ Return("failed")
          /\ UNCHANGED <<commands, upset>>
    /\ UNCHANGED <<last, call, data, attempts, calls, pointer, wire, buffer>>

(* spiReadData returns size bytes: as many as asked for, or after a silence
   the fewer there are. *)
Receive(wanted, size) ==
    /\ \/ size = wanted /\ Len(buffer) >= wanted /\ UNCHANGED <<faults, upset>>
       \/ size < wanted /\ size = Len(buffer) /\ TimeRunsOut
    /\ buffer' = SubSeq(buffer, size + 1, Len(buffer))

(* retryCount == 0 *)
LastAttempt == attempts = 0

(* The answer is complete, or the attempt is over: the next one begins, or
   the call fails with the last. *)
ReadAnswer ==
    /\ app = "answer"
    /\ \E size \in 0..AnswerSize :
          /\ Receive(AnswerSize, size)
          /\ \/ /\ Complete(size)
                /\ data' = Append(data, SubSeq(buffer, 1, size))
                /\ app' = "prompt"
                /\ UNCHANGED result
             \/ /\ ~Complete(size)
                /\ IF LastAttempt
                   THEN Return("failed")
                   ELSE app' = "flush" /\ UNCHANGED result
                /\ UNCHANGED data
    /\ UNCHANGED <<last, call, attempts, calls, commands, pointer, wire>>

(* Mutant: the prompt is left on the line. *)
LeavePrompt == UNCHANGED <<buffer, faults, upset>>

(* spiReadData (..., 1) after the answer *)
TakePrompt == \E size \in 0..1 : Receive(1, size)

(* The prompt is read and its absence ignored; a 32-bit read remembers its
   word; a block goes on with a fresh retry count. *)
ReadPrompt ==
    /\ app = "prompt"
    /\ TakePrompt
    /\ last' = IF call.op = "read32" THEN (call.base + Len(data) - 1) % Words ELSE last
    /\ IF call.op = "read32" /\ Len(data) < call.words
       THEN app' = "flush" /\ attempts' = MaxAttempts /\ UNCHANGED result
       ELSE Return("success") /\ UNCHANGED attempts
    /\ UNCHANGED <<call, data, calls, commands, pointer, wire>>

AppStep == Wake \/ WakeFlush \/ Settle \/ Flush \/ Send \/ ReadAnswer \/ ReadPrompt

-----------------------------------------------------------------------------
(* The console and the line *)

(* What the console answers, and what it remembers.  'n' has a meaning only
   after a 32-bit read: otherwise it yields a word nobody asked for, or the
   bare prompt. *)
Handled(c, answer, p) ==
    \/ c.kind = "G" /\ answer = Answer(c.word, c.size) /\ p = IF c.size = 4 THEN c.word ELSE Unknown
    \/ c.kind = "n" /\ pointer # Unknown /\ answer = Answer(NextWord(pointer), 4) /\ p = NextWord(pointer)
    \/ c.kind = "n" /\ pointer = Unknown /\ answer \in {Answer(Unknown, 4), <<Prompt>>} /\ p = Unknown
    \/ c.kind \in {"P", "\r"} /\ answer = <<Prompt>> /\ p = Unknown

PossibleAnswers ==
    {Answer(a, size) : a \in {Unknown} \cup 0..(Words - 1), size \in {1, 2, 4}} \cup {<<Prompt>>}

(* A command is handled, lost on its way, or handled and the end of its
   answer lost. *)
Handle ==
    /\ commands # <<>>
    /\ commands' = Tail(commands)
    /\ \/ /\ Fault("command")
          /\ UNCHANGED <<pointer, wire>>
       \/ \E answer \in PossibleAnswers, p \in {Unknown} \cup 0..(Words - 1) :
             /\ Handled(Head(commands), answer, p)
             /\ pointer' = p
             /\ \/ wire' = wire \o answer /\ UNCHANGED faults
                \/ Fault("answer") /\ \E k \in 0..(Len(answer) - 1) : wire' = wire \o SubSeq(answer, 1, k)
    /\ UNCHANGED <<last, appVars, buffer, upset>>

(* One byte reaches the host buffer. *)
Arrive ==
    /\ wire # <<>>
    /\ wire' = Tail(wire)
    /\ buffer' = Append(buffer, Head(wire))
    /\ UNCHANGED <<last, appVars, commands, pointer, faults, upset>>

Next ==
    \/ \E a \in Addresses, n \in 1..MaxBlock : StartRead32(a, n)
    \/ \E op \in Ops, a \in Addresses : StartOther(op, a)
    \/ Reconnect
    \/ AppStep
    \/ Handle
    \/ Arrive

Spec == Init /\ [][Next]_vars

(* The application thread keeps running a call it is in, and the console and
   the line keep working. *)
FairSpec == Spec /\ WF_vars(AppStep) /\ WF_vars(Handle) /\ WF_vars(Arrive)

-----------------------------------------------------------------------------
(* Properties *)

WordsRight ==
    call.op = "read32" =>
        \A i \in 1..Len(data) : data[i] = Word((call.base + i - 1) % Words)

(* Every word a block read has stored, whether the call has returned or not,
   is the word of its own address.  Retries, lost commands and answers, and
   what earlier calls left on the line never shift an answer onto another
   address; only what upsets the library can: an answer after the silence, a
   16-bit read, or a short command to a console that remembers another
   address. *)
ReadsRight == ~upset => WordsRight

(* Whenever the next command is about to be chosen and an address is
   remembered, the console remembers the same one, as long as it gets its
   answers through. *)
CacheMatchesConsole ==
    ~upset /\ faults["answer"] = 0 =>
        (app \in {"idle", "flush", "send"} /\ last # 0 => pointer = last)

(* Between calls nothing of an earlier answer is left on the line or in the
   host buffer, where the next call would take it for its own. *)
LineInStep ==
    app = "idle" /\ ~upset => Silent /\ buffer = <<>>

(* Every call returns, whatever the line loses. *)
CallsReturn == app # "idle" ~> app = "idle"

=============================================================================
