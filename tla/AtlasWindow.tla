---------------------------- MODULE AtlasWindow ----------------------------
(***************************************************************************)
(* Register access to a PCI switch (atlaspci.c) under bsdiMemoryRead32 and *)
(* bsdiMemoryWrite32.                                                      *)
(*                                                                         *)
(* The switch shows its internal (AXI) registers through a window of three *)
(* registers in BAR0: address, data and control/status.  The library polls *)
(* the busy bit, clears the control register, writes the address (and the  *)
(* data), writes the command and, for a read, polls the ready bit.  A      *)
(* write is posted: the call returns before the switch has done it.  When  *)
(* the busy bit does not clear, the library goes round the window, through *)
(* the part of BAR0 that maps some of the registers directly.              *)
(***************************************************************************)
EXTENDS Naturals, Sequences

CONSTANTS Size,         \* the registers are 0..Size - 1 (word addresses)
          Mapped,       \* registers inside a directly mapped range of BAR0
          Ignored,      \* registers whose fallback access is skipped
          Values,       \* what a register can hold
          Reset,        \* what every register holds at first
          Ones,         \* what a read of an absent device yields
          Unset,        \* a word of the caller's buffer that was not written
          BusyRetries,  \* 10 in atlasFSMBusyClearCheck
          ReadRetries,  \* 100 in atlasiPciChimeToAxiReadRegister
          MaxAccesses   \* calls the application makes (bounds the model)

Registers == 0 .. Size - 1

ASSUME WindowAssumption ==
    /\ Size \in Nat
    /\ Mapped \subseteq Registers /\ Ignored \subseteq Registers
    /\ Mapped \cap Ignored = {}
    /\ Reset \in Values
    /\ BusyRetries \in Nat \ {0} /\ ReadRetries \in Nat \ {0}
    /\ MaxAccesses \in Nat

VARIABLES
    \* the switch
    axi,        \* its registers
    present,    \* it answers on the bus
    fsm,        \* the window's engine: "idle" or the command it is at
    ready,      \* bit 3 of control/status: a read has its data
    wAddress,   \* the window's address register
    wData,      \* the window's data register
    \* the call in progress
    pc,         \* where the library is
    op,         \* "read" or "write"
    first,      \* the first register of the call
    address,    \* the register at hand
    left,       \* words still to be read, the one at hand included
    value,      \* what a write is to store
    tries,      \* retryCount of the loop at hand
    words,      \* what a read has put in the caller's buffer
    status,     \* what the last call returned
    accesses,   \* calls begun
    \* history
    expected,   \* what the successful writes left in each register
    overtaken   \* a fallback access went ahead of a posted write to its register

registers  == <<axi, expected, overtaken>>
windowVars == <<fsm, ready, wAddress, wData>>
request    == <<op, first, value, accesses>>
progress   == <<address, left, words>>
allVars == <<registers, present, windowVars, pc, request, progress, tries, status>>

Points == {"idle", "busy", "clear", "address", "data", "command", "poll", "fetch",
           "fallback"}

WindowInit ==
    /\ axi = [r \in Registers |-> Reset] /\ expected = axi
    /\ present = TRUE /\ overtaken = FALSE
    /\ fsm = "idle" /\ ready = FALSE /\ wAddress = 0 /\ wData = Reset
    /\ pc = "idle" /\ op = "read" /\ first = 0 /\ address = 0 /\ left = 0
    /\ value = Reset /\ tries = 0 /\ words = <<>> /\ status = "NONE" /\ accesses = 0

-----------------------------------------------------------------------------
(* The switch *)

(* The engine finishes the command it is at. *)
EngineCompletes ==
    /\ fsm # "idle"
    /\ fsm' = "idle"
    /\ IF fsm = "read"
       THEN wData' = axi[wAddress] /\ ready' = TRUE /\ UNCHANGED axi
       ELSE axi' = [axi EXCEPT ![wAddress] = wData] /\ UNCHANGED <<wData, ready>>
    /\ UNCHANGED <<expected, overtaken, present, wAddress, pc, request, progress,
                   tries, status>>

(* The link goes down for good: reads yield all ones, writes are lost. *)
Vanish ==
    /\ present
    /\ present' = FALSE
    /\ UNCHANGED <<registers, windowVars, pc, request, progress, tries, status>>

-----------------------------------------------------------------------------
(* The calls *)

Busy == pc' = "busy" /\ tries' = BusyRetries

(* bsdiMemoryRead32 asks for n consecutive words. *)
StartRead(r, n) ==
    /\ pc = "idle" /\ accesses < MaxAccesses
    /\ accesses' = accesses + 1 /\ op' = "read" /\ first' = r /\ address' = r /\ left' = n
    /\ words' = <<>> /\ status' = "NONE"
    /\ Busy
    /\ UNCHANGED <<registers, present, windowVars, value>>

StartWrite(r, v) ==
    /\ pc = "idle" /\ accesses < MaxAccesses
    /\ accesses' = accesses + 1 /\ op' = "write" /\ first' = r /\ address' = r /\ left' = 1
    /\ value' = v /\ words' = <<>> /\ status' = "NONE"
    /\ Busy
    /\ UNCHANGED <<registers, present, windowVars>>

Finish(s) == pc' = "idle" /\ status' = s /\ UNCHANGED <<progress, tries>>

(* One word of a read is there: go on to the next one, or return. *)
Deliver(w) ==
    /\ words' = Append(words, w)
    /\ left' = left - 1
    /\ IF left > 1 THEN address' = address + 1 /\ Busy /\ UNCHANGED status
                   ELSE pc' = "idle" /\ status' = "SUCCESS" /\ UNCHANGED <<address, tries>>

-----------------------------------------------------------------------------
(* atlasFSMBusyClearCheck: an absent switch reads as busy. *)

(* Mutant: the answer of the check is ignored. *)
CheckBusyIgnored ==
    /\ pc = "busy"
    /\ IF (present /\ fsm = "idle") \/ tries = 1
       THEN pc' = "clear" /\ UNCHANGED tries
       ELSE tries' = tries - 1 /\ UNCHANGED pc
    /\ UNCHANGED <<registers, present, windowVars, request, progress, status>>

CheckBusy ==
    /\ pc = "busy"
    /\ \/ present /\ fsm = "idle" /\ pc' = "clear" /\ UNCHANGED tries
       \/ /\ ~present \/ fsm # "idle"
          /\ tries' = tries - 1
          /\ pc' = IF tries = 1 THEN "fallback" ELSE "busy"
    /\ UNCHANGED <<registers, present, windowVars, request, progress, status>>

-----------------------------------------------------------------------------
(* The window: one step for each access to one of its registers. *)

(* Mutant: the control register is not cleared. *)
ClearNothing ==
    /\ pc = "clear"
    /\ pc' = "address"
    /\ UNCHANGED <<registers, present, windowVars, request, progress, tries, status>>

ClearControl ==
    /\ pc = "clear"
    /\ ready' = (ready /\ ~present)
    /\ pc' = "address"
    /\ UNCHANGED <<registers, present, fsm, wAddress, wData, request, progress, tries,
                   status>>

SetAddress ==
    /\ pc = "address"
    /\ wAddress' = IF present THEN address ELSE wAddress
    /\ pc' = IF op = "write" THEN "data" ELSE "command"
    /\ UNCHANGED <<registers, present, fsm, ready, wData, request, progress, tries, status>>

SetData ==
    /\ pc = "data"
    /\ wData' = IF present THEN value ELSE wData
    /\ pc' = "command"
    /\ UNCHANGED <<registers, present, fsm, ready, wAddress, request, progress, tries,
                   status>>

Go == fsm' = (IF present THEN op ELSE fsm) /\ UNCHANGED <<ready, wAddress, wData>>

CommandRead ==
    /\ pc = "command" /\ op = "read"
    /\ Go
    /\ pc' = "poll" /\ tries' = ReadRetries
    /\ UNCHANGED <<registers, present, request, progress, status>>

CommandWrite ==
    /\ pc = "command" /\ op = "write"
    /\ Go
    /\ expected' = [expected EXCEPT ![address] = value]
    /\ Finish("SUCCESS")
    /\ UNCHANGED <<axi, overtaken, present, request>>

(* The ready bit of an absent switch reads as set.  A read that times out is
   left with the engine. *)
Poll ==
    /\ pc = "poll"
    /\ \/ /\ ready \/ ~present
          /\ pc' = "fetch"
          /\ UNCHANGED <<tries, progress, status>>
       \/ /\ ~ready /\ present /\ tries > 1
          /\ tries' = tries - 1
          /\ UNCHANGED <<pc, progress, status>>
       \/ ~ready /\ present /\ tries = 1 /\ Finish("FAILED")
    /\ UNCHANGED <<registers, present, windowVars, request>>

Fetch ==
    /\ pc = "fetch"
    /\ Deliver(IF present THEN wData ELSE Ones)
    /\ UNCHANGED <<registers, present, windowVars, request>>

-----------------------------------------------------------------------------
(* atlasiFSMFallBackRegisterRead, atlasiFSMFallBackRegisterWrite *)

Overtakes == fsm = "write" /\ wAddress = address

FallbackRead ==
    /\ pc = "fallback" /\ op = "read"
    /\ \/ /\ address \in Mapped
          /\ Deliver(IF present THEN axi[address] ELSE Ones)
          /\ overtaken' = (overtaken \/ Overtakes)
       \/ address \in Ignored /\ Deliver(Unset) /\ UNCHANGED overtaken
       \/ /\ address \notin Mapped \cup Ignored
          /\ Finish("FAILED_BAR0_ADDRESS_NOT_MAPPED")
          /\ UNCHANGED overtaken
    /\ UNCHANGED <<axi, expected, present, windowVars, request>>

(* Mutant: a register that is not mapped is skipped like the ignored ones, and
   the caller told that it was written. *)
FallbackWriteSkips ==
    /\ pc = "fallback" /\ op = "write"
    /\ IF address \in Mapped /\ present
       THEN axi' = [axi EXCEPT ![address] = value] ELSE UNCHANGED axi
    /\ expected' = [expected EXCEPT ![address] = value]
    /\ overtaken' = (overtaken \/ (address \in Mapped /\ Overtakes))
    /\ Finish("SUCCESS")
    /\ UNCHANGED <<present, windowVars, request>>

FallbackWrite ==
    /\ pc = "fallback" /\ op = "write"
    /\ \/ /\ address \in Mapped
          /\ axi' = IF present THEN [axi EXCEPT ![address] = value] ELSE axi
          /\ expected' = [expected EXCEPT ![address] = value]
          /\ overtaken' = (overtaken \/ Overtakes)
          /\ Finish("SUCCESS")
       \/ address \in Ignored /\ Finish("SUCCESS") /\ UNCHANGED registers
       \/ /\ address \notin Mapped \cup Ignored
          /\ Finish("FAILED_BAR0_ADDRESS_NOT_MAPPED")
          /\ UNCHANGED registers
    /\ UNCHANGED <<present, windowVars, request>>

-----------------------------------------------------------------------------
Step == \/ CheckBusy
        \/ ClearControl \/ SetAddress \/ SetData \/ CommandRead \/ CommandWrite
        \/ Poll \/ Fetch
        \/ FallbackRead \/ FallbackWrite

Start == \/ \E r \in Registers : \E n \in 1 .. Size - r : StartRead(r, n)
         \/ \E r \in Registers, v \in Values : StartWrite(r, v)

Done == pc = "idle" /\ accesses = MaxAccesses /\ UNCHANGED allVars

WindowNext == EngineCompletes \/ Vanish \/ Start \/ Step \/ Done

WindowSpec == WindowInit /\ [][WindowNext]_allVars

-----------------------------------------------------------------------------
(* The types of the variables. *)
TypeInv ==
    /\ axi \in [Registers -> Values] /\ expected \in [Registers -> Values]
    /\ present \in BOOLEAN /\ overtaken \in BOOLEAN
    /\ fsm \in {"idle", "read", "write"} /\ ready \in BOOLEAN
    /\ wAddress \in Nat /\ wData \in Values
    /\ pc \in Points /\ op \in {"read", "write"}
    /\ first \in Nat /\ address \in Nat /\ left \in Nat
    /\ value \in Values /\ tries \in Nat
    /\ words \in Seq(Values \cup {Ones, Unset})
    /\ status \in {"NONE", "SUCCESS", "FAILED", "FAILED_BAR0_ADDRESS_NOT_MAPPED"}
    /\ accesses \in Nat

(* While the engine is at a command, nothing the library does changes the
   window's registers under it: the busy check stands before every use. *)
WindowUndisturbed ==
    [][fsm # "idle" /\ fsm' # "idle" => UNCHANGED windowVars]_allVars

(* Every word a read delivered is what its register holds, whichever way it was
   read, and is never the late answer of an earlier read that timed out; unless
   the switch is gone or a fallback read went ahead of a posted write. *)
WindowReadsRight ==
    present /\ ~overtaken =>
        \A i \in 1 .. Len(words) : words[i] \in {Unset, axi[first + i - 1]}

(* A write that was reported as done is in its register, or is the one the engine
   is at: posted writes and writes through the fallback do not get lost or swapped,
   unless the switch is gone or a fallback access went ahead of a posted write.
   (A fallback write of an ignored register is reported as done and expected of
   no one.) *)
WritesLand ==
    present /\ ~overtaken =>
        \A r \in Registers :
            \/ axi[r] = expected[r] /\ ~(fsm = "write" /\ wAddress = r)
            \/ fsm = "write" /\ wAddress = r /\ wData = expected[r]

=============================================================================
