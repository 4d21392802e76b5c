----------------------------- MODULE HardwareEye -----------------------------
(***************************************************************************)
(* The hardware eye of the lanes of a PCI switch (ssiHardwareEyeStart,     *)
(* Poll, Get and Clean of switchsignalintegrity.c) as the test program     *)
(* uses it (scrtnySwitchHwEye): start the measurement of every active      *)
(* lane, poll a number of times, show the eyes if all lanes are done, and  *)
(* clean up whatever happened.  The program looks at none of the statuses. *)
(*                                                                         *)
(* A lane is its eye monitor: whether it is held in reset, whether it was  *)
(* told to go, and the done bit.  An eye is the number of the command      *)
(* whose reset its measurement began with.                                 *)
(***************************************************************************)
EXTENDS Integers, FiniteSets

CONSTANTS LastLane,     \* the lanes of the request are 0..LastLane
          Timeout,      \* polls before the program gives up
          MaxCommands, MaxEyeFaults    \* bounds of the model

ASSUME HwEyeAssumption == {LastLane, Timeout, MaxCommands, MaxEyeFaults} \subseteq Nat

VARIABLES
    monitors,   \* the eye monitors of the lanes
    command,    \* the number of the command
    place,      \* the call of the command that runs, and its lane
    flags,      \* Flag.PortActive and Flag.PollingDone of the lanes
    global,     \* GlobalPollingDone
    shown,      \* the eyes that the last command put in its structure
    failed,     \* calls of the last command that failed; for Clean also earlier ones
    faults      \* failing accesses left

hwEyeVars == <<monitors, command, place, flags, global, shown, failed, faults>>

EyeLanes == 0..LastLane
NoEye    == 0
NoFlags  == [l \in EyeLanes |-> [active |-> FALSE, done |-> FALSE]]
Idle     == [pc |-> "idle", lane |-> 0, count |-> 0, polls |-> 0]

HwEyeInit ==
    /\ monitors = [l \in EyeLanes |-> [masked |-> TRUE, held |-> FALSE, going |-> FALSE,
                                       done |-> FALSE, of |-> NoEye, eye |-> NoEye]]
    /\ command = 0 /\ place = Idle /\ flags = NoFlags /\ global = FALSE
    /\ shown = [l \in EyeLanes |-> NoEye] /\ failed = {} /\ faults = MaxEyeFaults

(* A lane that goes and is out of reset is done some time or never. *)
Measure(l) ==
    /\ monitors[l].going /\ ~monitors[l].held /\ ~monitors[l].done
    /\ monitors' = [monitors EXCEPT ![l].done = TRUE, ![l].eye = monitors[l].of]
    /\ UNCHANGED <<command, place, flags, global, shown, failed, faults>>

-----------------------------------------------------------------------------
(* Each call goes over the lanes in order and returns at the first access that
   fails. *)

Enter(pc) == place' = [place EXCEPT !.pc = pc, !.lane = 0, !.count = 0]
NextLane(pc) == IF place.lane = LastLane THEN Enter(pc) ELSE place' = [place EXCEPT !.lane = @ + 1]
AccessWorks == UNCHANGED <<failed, faults>>
AccessFails(call) == faults > 0 /\ faults' = faults - 1 /\ failed' = failed \cup {call}

(* The chip is read at the start of each call, then the active lanes. *)
Accesses == place.lane = 0 \/ flags[place.lane].active

(* After Start and after each Poll: poll again, or get the eyes, or clean up. *)
AfterPoll(n, done) == IF done THEN "get" ELSE IF n < Timeout THEN "poll" ELSE "clean"

(* A structure full of zeros. *)
Begin ==
    /\ place.pc = "idle" /\ command < MaxCommands
    /\ command' = command + 1
    /\ place' = [Idle EXCEPT !.pc = "look"]
    /\ flags' = NoFlags /\ global' = FALSE /\ shown' = [l \in EyeLanes |-> NoEye]
    /\ failed' = failed \cap {"clean"}
    /\ UNCHANGED <<monitors, faults>>

(* The first loop of ssiHardwareEyeStart finds the active lanes. *)
Look ==
    /\ place.pc = "look"
    /\ \/ /\ AccessWorks
          /\ \E up \in BOOLEAN : flags' = [flags EXCEPT ![place.lane].active = up]
          /\ NextLane("start")
       \/ AccessFails("start") /\ Enter(AfterPoll(0, FALSE)) /\ UNCHANGED flags
    /\ UNCHANGED <<monitors, command, global, shown>>

(* Mutant: the reset is left out. *)
RestartWithoutReset(h) == [h EXCEPT !.masked = FALSE, !.of = command, !.going = TRUE]

(* ssiHardwareEyeOnePortStart: register E74 bit 0, the reset in E00 bit 0, its
   end and the settings, and the go in E00 bit 2. *)
Unmask(h)  == [h EXCEPT !.masked = FALSE]
Hold(h)    == [Unmask(h) EXCEPT !.held = TRUE, !.done = FALSE]
Release(h) == [Hold(h) EXCEPT !.held = FALSE, !.of = command]
Restart(h) == [Release(h) EXCEPT !.going = TRUE]

(* The second loop of ssiHardwareEyeStart; a failing write may have landed. *)
Start ==
    /\ place.pc = "start"
    /\ \/ /\ AccessWorks
          /\ monitors' = IF flags[place.lane].active THEN [monitors EXCEPT ![place.lane] = Restart(@)] ELSE monitors
          /\ NextLane(AfterPoll(0, FALSE))
       \/ /\ flags[place.lane].active /\ AccessFails("start")
          /\ LET h == monitors[place.lane] IN
             \E g \in {h, Unmask(h), Hold(h), Release(h), Restart(h)} : monitors' = [monitors EXCEPT ![place.lane] = g]
          /\ Enter(AfterPoll(0, FALSE))
    /\ UNCHANGED <<command, flags, global, shown>>

(* The end of a poll: as many lanes done as are active? *)
Polled(done) ==
    /\ global' = done
    /\ place' = [Idle EXCEPT !.pc = AfterPoll(place.polls + 1, done), !.polls = place.polls + 1]

Active == {l \in EyeLanes : flags[l].active}

CountDone == place.count + (IF flags[place.lane].active /\ monitors[place.lane].done THEN 1 ELSE 0)

(* ssiHardwareEyePoll *)
Poll ==
    /\ place.pc = "poll"
    /\ \/ /\ AccessWorks
          /\ flags' = [flags EXCEPT ![place.lane].done = IF flags[place.lane].active THEN monitors[place.lane].done ELSE @]
          /\ IF place.lane = LastLane THEN Polled(CountDone >= Cardinality(Active))
             ELSE place' = [place EXCEPT !.lane = @ + 1, !.count = CountDone] /\ UNCHANGED global
       \/ Accesses /\ AccessFails("poll") /\ Polled(global) /\ UNCHANGED flags
    /\ UNCHANGED <<monitors, command, shown>>

(* ssiHardwareEyeGet *)
Get ==
    /\ place.pc = "get"
    /\ \/ /\ AccessWorks
          /\ shown' = IF flags[place.lane].active THEN [shown EXCEPT ![place.lane] = monitors[place.lane].eye] ELSE shown
          /\ NextLane("clean")
       \/ Accesses /\ AccessFails("get") /\ Enter("clean") /\ UNCHANGED shown
    /\ UNCHANGED <<monitors, command, flags, global>>

(* Mutant: the go bit stays. *)
QuietNot(h) == [h EXCEPT !.masked = TRUE]

Quiet(h) == [h EXCEPT !.going = FALSE, !.masked = TRUE]

(* ssiHardwareEyeClean, and the end of the command. *)
Clean ==
    /\ place.pc = "clean"
    /\ \/ /\ AccessWorks
          /\ monitors' = IF flags[place.lane].active THEN [monitors EXCEPT ![place.lane] = Quiet(@)] ELSE monitors
          /\ IF place.lane = LastLane THEN place' = Idle ELSE place' = [place EXCEPT !.lane = @ + 1]
       \/ /\ Accesses /\ AccessFails("clean") /\ place' = Idle
          /\ \E g \in {monitors[place.lane], [monitors[place.lane] EXCEPT !.going = FALSE], Quiet(monitors[place.lane])} :
               /\ g # monitors[place.lane] => flags[place.lane].active
               /\ monitors' = [monitors EXCEPT ![place.lane] = g]
    /\ UNCHANGED <<command, flags, global, shown>>

Program == Look \/ Start \/ Poll \/ Get \/ Clean

HwEyeNext == Begin \/ Program \/ \E l \in EyeLanes : Measure(l)

HwEyeSpec == HwEyeInit /\ [][HwEyeNext]_hwEyeVars

-----------------------------------------------------------------------------
(* Properties *)

(* The variables stay in their types; a command polls no more often than it was
   told. *)
TypeInv ==
    /\ monitors \in [EyeLanes -> [masked : BOOLEAN, held : BOOLEAN, going : BOOLEAN, done : BOOLEAN,
                         of : 0..MaxCommands, eye : 0..MaxCommands]]
    /\ command \in 0..MaxCommands
    /\ place \in [pc : {"idle", "look", "start", "poll", "get", "clean"}, lane : EyeLanes,
               count : 0..Cardinality(Active), polls : 0..Timeout]
    /\ flags \in [EyeLanes -> [active : BOOLEAN, done : BOOLEAN]] /\ global \in BOOLEAN
    /\ shown \in [EyeLanes -> 0..MaxCommands] /\ failed \subseteq {"start", "poll", "get", "clean"}

(* Unless its Start failed, a command shows only eyes that were measured for
   it, and shows any only when all its lanes were done: a done bit or an eye
   left by an earlier command, a poll that failed half way or a lane that goes
   on after a clean-up that failed is never taken for an answer. *)
EyesAreOfThisCommand ==
    "start" \notin failed =>
        /\ \A l \in EyeLanes : shown[l] \in {NoEye, command}
        /\ place.pc \in {"get", "idle"} /\ global => \A l \in Active : monitors[l].eye = command

(* Unless a clean-up failed, no lane goes on measuring after a command, however
   far its Start had come and whatever failed after that. *)
LanesLeftQuiet ==
    place.pc = "idle" /\ "clean" \notin failed => \A l \in EyeLanes : ~monitors[l].going /\ monitors[l].masked

=============================================================================
