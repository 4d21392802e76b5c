--------------------------- MODULE SerialSessions ---------------------------
(***************************************************************************)
(* Opening, closing and reopening the serial port (linuxserial.c) as the   *)
(* SDB discovery (sdbconsole.c) and the device manager drive it.           *)
(*                                                                         *)
(* Every spiOpenPort allocates a handle, which its reader thread keeps     *)
(* using for good.  A connected device works on a copy of that handle      *)
(* (sdbExpanderSerialInterfacePostConnect), so closing the device resets   *)
(* the copy only: the reader thread learns of it when the descriptor       *)
(* number in its own handle stops being valid, and the kernel hands out    *)
(* the lowest free number again at the next open.                          *)
(***************************************************************************)
EXTENDS Integers, Sequences

CONSTANTS MaxOpens,         \* spiOpenPort calls that get as far as a handle (bounds the model)
          MaxFd,            \* descriptor numbers 1..MaxFd are free for the library
          MaxTransmitted    \* bytes the device transmits (bounds the model)

ASSUME SessionsAssumption ==
    MaxOpens \in Nat \ {0} /\ MaxFd \in Nat \ {0} /\ MaxTransmitted \in Nat

Sessions == 1..MaxOpens
Fds      == 1..MaxFd
Invalid  == -1
Nobody   == 0

VARIABLES
    opened,      \* sessions begun: the current one is session number opened
    app,         \* where the application thread is
    fdTable,     \* what each descriptor number refers to
    lock,        \* who holds the flock of the tty: Nobody, External or a descriptor
    handleFd,    \* ReadHandle in each session's own handle
    writeFd,     \* WriteHandle in each session's own handle
    viaCopy,     \* the close in progress works on the device's copy of the handle
    thread,      \* control point of each session's reader thread
    inHand,      \* bytes each reader thread has read and not yet stored
    buffer,      \* bytes in each session's host buffer
    queue,       \* the tty queue; a byte is the session it was sent to
    transmitted  \* bytes the device has transmitted

userVars    == <<opened, app, viaCopy>>
fdVars      == <<fdTable, lock>>
handleVars  == <<handleFd, writeFd>>
threadVars  == <<thread, inHand, buffer>>
queueVars   == <<queue, transmitted>>
sessionVars == <<userVars, fdVars, handleVars, threadVars, queueVars>>

External == MaxFd + 1

(* What a descriptor number can refer to: nothing, the tty on behalf of a
   session, or some other file of the process. *)
Free    == [kind |-> "free", session |-> 0]
Other   == [kind |-> "other", session |-> 0]
Tty(s)  == [kind |-> "tty", session |-> s]

FreeFds == {f \in Fds : fdTable[f] = Free}
IsLowest(f, S) == f \in S /\ \A g \in S : f <= g

Refers(f, kind) == f \in Fds /\ fdTable[f].kind = kind
IsValid(f) == f \in Fds /\ fdTable[f] # Free      \* spiIsHandleValid

UserPoints == {"idle", "lock", "configure", "start", "check", "qualify", "connected",
              "closeFds", "resetHandle"}

SessionsInit ==
    /\ opened = 0 /\ app = "idle" /\ viaCopy = FALSE
    /\ fdTable = [f \in Fds |-> Free] /\ lock = Nobody
    /\ handleFd = [s \in Sessions |-> Invalid]
    /\ writeFd = [s \in Sessions |-> Invalid]
    /\ thread = [s \in Sessions |-> "none"]
    /\ inHand = [s \in Sessions |-> <<>>]
    /\ buffer = [s \in Sessions |-> <<>>]
    /\ queue = <<>> /\ transmitted = 0

(* Closing descriptors drops the flock when its holder is among them. *)
CloseFds(S) ==
    /\ fdTable' = [f \in Fds |-> IF f \in S THEN Free ELSE fdTable[f]]
    /\ lock' = IF lock \in S THEN Nobody ELSE lock

-----------------------------------------------------------------------------
(* sdbiSerialConnectionEstablish -> spiOpenPort *)

(* Both descriptors are opened before either is checked. *)
OpenBoth ==
    /\ app = "idle"
    /\ opened < MaxOpens /\ opened' = opened + 1
    /\ \E r, w \in Fds :
          /\ IsLowest(r, FreeFds) /\ IsLowest(w, FreeFds \ {r})
          /\ fdTable' = [fdTable EXCEPT ![r] = Tty(opened'), ![w] = Tty(opened')]
          /\ handleFd' = [handleFd EXCEPT ![opened'] = r]
          /\ writeFd' = [writeFd EXCEPT ![opened'] = w]
    /\ app' = "lock"
    /\ UNCHANGED <<viaCopy, lock, threadVars, queueVars>>

(* Mutant: the result of flock is ignored. *)
TakeLockBlindly ==
    /\ app = "lock"
    /\ lock' = IF lock = Nobody THEN handleFd[opened] ELSE lock
    /\ app' = "configure"
    /\ UNCHANGED <<opened, viaCopy, fdTable, handleVars, threadVars, queueVars>>

(* flock(LOCK_EX | LOCK_NB): refused while any other open file of the tty
   holds it, in this process or another; both descriptors are closed then. *)
TakeLock ==
    /\ app = "lock"
    /\ \/ /\ lock = Nobody
          /\ lock' = handleFd[opened]
          /\ app' = "configure"
          /\ UNCHANGED <<fdTable, handleVars>>
       \/ /\ lock # Nobody
          /\ CloseFds({handleFd[opened], writeFd[opened]})
          /\ handleFd' = [handleFd EXCEPT ![opened] = Invalid]
          /\ writeFd' = [writeFd EXCEPT ![opened] = Invalid]
          /\ app' = "idle"
    /\ UNCHANGED <<opened, viaCopy, threadVars, queueVars>>

(* Mutant: the tty queue is not emptied. *)
ConfigureOnly ==
    /\ app = "configure"
    /\ app' = "start"
    /\ UNCHANGED <<opened, viaCopy, fdVars, handleVars, threadVars, queueVars>>

(* spGetComPortConfiguration accepts what sdbiSerialConnectionEstablish
   filled in; tcflush empties the tty queue. *)
Configure ==
    /\ app = "configure"
    /\ queue' = <<>>
    /\ app' = "start"
    /\ UNCHANGED <<opened, viaCopy, fdVars, handleVars, threadVars, transmitted>>

(* pthread_create; when it fails spiOpenPort returns with both descriptors
   open and the flock held. *)
StartThread ==
    /\ app = "start"
    /\ \/ /\ thread' = [thread EXCEPT ![opened] = "check"]
          /\ app' = "check"
       \/ /\ app' = "idle"
          /\ UNCHANGED thread
    /\ UNCHANGED <<opened, viaCopy, fdVars, handleVars, inHand, buffer, queueVars>>

-----------------------------------------------------------------------------
(* The rest of the SDB discovery, and ldmiFreeDevices *)

(* sdbiCheckConsole: a console answers, or the connection is destroyed
   through the handle the reader thread uses itself. *)
CheckConsole ==
    /\ app = "check"
    /\ \/ app' = "qualify" /\ UNCHANGED viaCopy
       \/ app' = "closeFds" /\ viaCopy' = FALSE
    /\ UNCHANGED <<opened, fdVars, handleVars, threadVars, queueVars>>

(* The device gets a copy of the handle and is qualified: it becomes the
   connected device, is closed through its copy, or cannot be added to the
   device list and is dropped as it is. *)
Qualify ==
    /\ app = "qualify"
    /\ \/ app' = "connected" /\ UNCHANGED viaCopy
       \/ app' = "closeFds" /\ viaCopy' = TRUE
       \/ app' = "idle" /\ UNCHANGED viaCopy
    /\ UNCHANGED <<opened, fdVars, handleVars, threadVars, queueVars>>

(* A new discovery or the exit of the library closes the device. *)
FreeDevice ==
    /\ app = "connected"
    /\ app' = "closeFds"
    /\ viaCopy' = TRUE
    /\ UNCHANGED <<opened, fdVars, handleVars, threadVars, queueVars>>

(* spiClosePort: unlock and close both descriptors ... *)
ClosePort ==
    /\ app = "closeFds"
    /\ CloseFds({handleFd[opened], writeFd[opened]})
    /\ app' = "resetHandle"
    /\ UNCHANGED <<opened, viaCopy, handleVars, threadVars, queueVars>>

(* Mutant: a device that was closed can be closed again. *)
ResetHandleStays ==
    /\ app = "resetHandle"
    /\ app' = IF viaCopy THEN "connected" ELSE "idle"
    /\ UNCHANGED <<opened, viaCopy, fdVars, handleVars, threadVars, queueVars>>

(* ... then invalidate the handle that was passed, which is the reader
   thread's own handle or the device's copy of it. *)
ResetHandle ==
    /\ app = "resetHandle"
    /\ handleFd' = IF viaCopy THEN handleFd ELSE [handleFd EXCEPT ![opened] = Invalid]
    /\ writeFd' = IF viaCopy THEN writeFd ELSE [writeFd EXCEPT ![opened] = Invalid]
    /\ app' = "idle"
    /\ UNCHANGED <<opened, viaCopy, fdVars, threadVars, queueVars>>

-----------------------------------------------------------------------------
(* The reader threads *)

(* Mutant: the loop only looks at the number in the handle. *)
ThreadCheckNumber(s) ==
    /\ thread[s] = "check"
    /\ thread' = [thread EXCEPT ![s] = IF handleFd[s] # Invalid THEN "poll" ELSE "exit"]
    /\ UNCHANGED <<userVars, fdVars, handleVars, inHand, buffer, queueVars>>

(* spiIsHandleValid decides whether the loop goes on. *)
ThreadCheck(s) ==
    /\ thread[s] = "check"
    /\ thread' = [thread EXCEPT ![s] = IF IsValid(handleFd[s]) THEN "poll" ELSE "exit"]
    /\ UNCHANGED <<userVars, fdVars, handleVars, inHand, buffer, queueVars>>

(* FIONREAD on whatever the number refers to by now. *)
ThreadPoll(s) ==
    /\ thread[s] = "poll"
    /\ thread' = [thread EXCEPT ![s] =
                    IF Refers(handleFd[s], "tty") /\ queue # <<>> THEN "read" ELSE "check"]
    /\ UNCHANGED <<userVars, fdVars, handleVars, inHand, buffer, queueVars>>

(* read(): the queue, nothing when another thread was faster, an error when
   the descriptor has been closed. *)
ThreadRead(s) ==
    /\ thread[s] = "read"
    /\ IF Refers(handleFd[s], "tty") /\ queue # <<>>
       THEN /\ inHand' = [inHand EXCEPT ![s] = queue]
            /\ queue' = <<>>
            /\ thread' = [thread EXCEPT ![s] = "store"]
       ELSE /\ thread' = [thread EXCEPT ![s] = "check"]
            /\ UNCHANGED <<inHand, queue>>
    /\ UNCHANGED <<userVars, fdVars, handleVars, buffer, transmitted>>

(* wsbiAddData under the session's semaphore, destroyed or not: destroying a
   semaphore leaves its count as it was. *)
ThreadStore(s) ==
    /\ thread[s] = "store"
    /\ buffer' = [buffer EXCEPT ![s] = @ \o inHand[s]]
    /\ inHand' = [inHand EXCEPT ![s] = <<>>]
    /\ thread' = [thread EXCEPT ![s] = "check"]
    /\ UNCHANGED <<userVars, fdVars, handleVars, queueVars>>

Thread(s) == ThreadCheck(s) \/ ThreadPoll(s) \/ ThreadRead(s) \/ ThreadStore(s)

-----------------------------------------------------------------------------
(* The environment *)

(* The device transmits to whoever holds the flock, else to the last session
   begun; the tty queues bytes while it is open. *)
DeviceTransmits ==
    /\ transmitted < MaxTransmitted
    /\ \E f \in Fds : fdTable[f].kind = "tty"
    /\ transmitted' = transmitted + 1
    /\ queue' = Append(queue, IF lock \in Fds THEN fdTable[lock].session ELSE opened)
    /\ UNCHANGED <<userVars, fdVars, handleVars, threadVars>>

(* Another process locks or unlocks the tty. *)
OtherProcess ==
    /\ \/ lock = Nobody /\ lock' = External
       \/ lock = External /\ lock' = Nobody
    /\ UNCHANGED <<userVars, fdTable, handleVars, threadVars, queueVars>>

(* The application thread, between calls, opens some other file or closes it. *)
OtherFile ==
    /\ \/ \E f \in Fds : IsLowest(f, FreeFds) /\ fdTable' = [fdTable EXCEPT ![f] = Other]
       \/ \E f \in Fds : fdTable[f] = Other /\ fdTable' = [fdTable EXCEPT ![f] = Free]
    /\ app \in {"idle", "connected"}
    /\ UNCHANGED <<userVars, lock, handleVars, threadVars, queueVars>>

SessionsNext ==
    \/ OpenBoth \/ TakeLock \/ Configure \/ StartThread
    \/ CheckConsole \/ Qualify \/ FreeDevice \/ ClosePort \/ ResetHandle
    \/ \E s \in Sessions : Thread(s)
    \/ DeviceTransmits \/ OtherProcess \/ OtherFile

SessionsSpec == SessionsInit /\ [][SessionsNext]_sessionVars

(* The scheduler runs every reader thread; nothing else is promised. *)
FairSessions == SessionsSpec /\ \A s \in Sessions : WF_sessionVars(Thread(s))

-----------------------------------------------------------------------------
(* The variables stay in their types. *)
SessionsTyped ==
    /\ opened \in 0..MaxOpens /\ app \in UserPoints /\ viaCopy \in BOOLEAN
    /\ fdTable \in [Fds -> {Free, Other} \cup {Tty(s) : s \in Sessions}]
    /\ lock \in {Nobody, External} \cup Fds
    /\ handleFd \in [Sessions -> Fds \cup {Invalid}]
    /\ writeFd \in [Sessions -> Fds \cup {Invalid}]
    /\ thread \in [Sessions -> {"none", "check", "poll", "read", "store", "exit"}]
    /\ inHand \in [Sessions -> Seq(Sessions)]
    /\ buffer \in [Sessions -> Seq(Sessions)]
    /\ queue \in Seq(Sessions) /\ transmitted \in 0..MaxTransmitted

InUse == {"configure", "start", "check", "qualify", "connected"}

(* From the flock until its close the session in use holds the lock of the
   tty through its own read descriptor, whatever happens to the descriptor
   numbers around it: two sessions never talk to one console at a time. *)
LockGuardsSession ==
    app \in InUse =>
        /\ lock = handleFd[opened]
        /\ fdTable[lock] = Tty(opened)
        /\ fdTable[writeFd[opened]] = Tty(opened)

(* spiClosePort closes its own descriptors and nobody else's, although their
   numbers are reused all the time. *)
ClosesOnlyItsOwn ==
    [][ClosePort => \A f \in Fds :
          fdTable'[f] # fdTable[f] => fdTable[f] = Tty(opened)]_sessionVars

(* A session never receives bytes of an earlier one: tcflush runs after the
   port is opened and before its reader thread exists. *)
NoBytesFromEarlierSession ==
    \A s \in Sessions : \A i \in DOMAIN buffer[s] : buffer[s][i] >= s

(* A reader thread whose descriptor number stays closed ends, however its
   port was closed. *)
ClosedThreadsExit ==
    \A s \in Sessions :
        <>[](thread[s] # "none" /\ ~IsValid(handleFd[s])) => <>(thread[s] = "exit")
=============================================================================
