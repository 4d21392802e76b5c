------------------------------ MODULE LaneMargin ------------------------------
(***************************************************************************)
(* Lane margining at the receiver of a switch port (switchlanemargin.c):   *)
(* ScrutinySwitchPerformLaneMargining and                                  *)
(* ScrutinySwitchGetLaneMarginCapacities.  Margining takes the power and   *)
(* speed management of the link away, goes over the lanes of the request,  *)
(* moves the sampler of each outwards in every direction it supports until *)
(* a step does not pass, and gives everything back.                        *)
(*                                                                         *)
(* A lane is driven through one register: a command is written to its      *)
(* control half, and after a sleep the status half is expected to answer   *)
(* that command.  Nothing but the sleep makes sure that it does: up to      *)
(* MaxFaults times an access fails or a read finds the previous answer.    *)
(***************************************************************************)
EXTENDS Integers, Sequences, FiniteSets

CONSTANTS Width,        \* the width of the link: its lanes are 0..Width-1
          Requests,     \* the lane bitmaps that are asked for, as sets
          Receiver,     \* "F" or "A": the receiver of this port
          Abilities,    \* the capabilities of each lane
          Reported,     \* the numbers of steps that a lane may report
          FirstLinks,   \* how the link may be set up before the first call
          NumSteps,     \* NumTimeSteps and NumVoltageSteps of the request
          MaxCalls, MaxFaults   \* bounds: calls, and accesses that fail or come too early

ASSUME MarginAssumption ==
    /\ {Width, NumSteps, MaxCalls, MaxFaults} \subseteq Nat /\ Reported \subseteq Nat
    /\ \A r \in Requests : r \subseteq Nat
    /\ Receiver \in {"A", "F"}
    /\ Abilities \in [0..Width-1 -> SUBSET {"voltage", "upDown", "leftRight"}]
    /\ FirstLinks \subseteq [{"aspm", "speed", "width"} -> {0, 1}]

VARIABLES
    hw,         \* the lanes: command, status and whether the sampler is moved
    link,       \* the three settings of the link
    at,         \* where the call is
    saved,      \* bakLinkAspm, bakHwAutoSpeed, bakHwAutoWidth
    resp,       \* the answer: a slot for each lane of the request
    result,     \* what the last call returned
    calls, faults,
    before, lost, hurt, blurred, truth     \* history, see Begin

vars == <<hw, link, at, saved, resp, result, calls, faults, before, lost, hurt, blurred, truth>>
history == <<before, lost, hurt, blurred, truth>>

Lanes      == 0..Width-1
Directions == {"right", "left", "up", "down"}
Settings   == <<"aspm", "speed", "width">>
Unset      == -1            \* a slot that was not touched
Blank      == -2            \* 0xFFFFFFFF: not measured
NoStep     == 255           \* 0xFF: not even the first step passed
Slots      == 0..Width-1

NoCommand == [kind |-> "none", dir |-> "-", step |-> 0]
Idle == [pc |-> "idle", op |-> "-", ask |-> {}, left |-> {}, lane |-> 0, slot |-> 0,
         doing |-> "-", todo |-> <<>>, limit |-> 0, steps |-> 0, then |-> "-"]

Init ==
    /\ hw = [l \in Lanes |-> [command |-> NoCommand, answers |-> NoCommand, code |-> "-",
                              moved |-> FALSE]]
    /\ link \in FirstLinks
    /\ at = Idle /\ saved = link /\ resp = [s \in Slots |-> [d \in Directions |-> Unset]]
    /\ result = "-" /\ calls = 0 /\ faults = MaxFaults
    /\ before = link /\ lost = {} /\ hurt = {} /\ blurred = {}
    /\ truth = [l \in Lanes |-> [d \in Directions |-> 0]]

-----------------------------------------------------------------------------
(* The lanes *)

(* The direction at hand and the command of the call. *)
Dir == IF at.op = "margin" /\ at.todo # <<>> THEN Head(at.todo) ELSE "-"

Plain(kind)        == [kind |-> kind, dir |-> "-", step |-> 0]
Step(dir, n)       == [kind |-> "step", dir |-> dir, step |-> n]
ClearErrorLog      == Plain("clear")
GoToNormalSettings == Plain("normal")

Command ==
    CASE at.doing = "step"      -> Step(Dir, at.steps)
      [] at.doing = "endClear"  -> ClearErrorLog
      [] at.doing = "endNormal" -> GoToNormalSettings
      [] OTHER                  -> Plain(at.doing)

(* slmGetLmReceiveNumber: the receiver of the port is A or F; a command to the
   other one leaves the lane alone. *)
IsNormal(c) == c.kind = "normal" \/ (c.kind = "normalF" /\ Receiver = "F")

WaitsFor(l, c) == at.pc = "read" /\ at.lane = l /\ Command = c

(* A lane carries out its command and answers it: a step passes, fails (too
   many errors, or still being set up) or is refused. *)
Answer(l) ==
    LET c == hw[l].command IN
    /\ hw[l].answers # c
    /\ \E code \in IF c.kind = "step" THEN {"pass", "fail", "refused"} ELSE {"-"} :
         /\ hw' = [hw EXCEPT ![l].answers = c, ![l].code = code,
                              ![l].moved = ~IsNormal(c) /\ (@ \/ code \in {"pass", "fail"})]
         /\ truth' = IF code = "pass" /\ c.step = truth[l][c.dir] /\ WaitsFor(l, c)
                     THEN [truth EXCEPT ![l][c.dir] = @ + 1] ELSE truth
    /\ UNCHANGED <<link, at, saved, resp, result, calls, faults, before, lost, hurt, blurred>>

(* Bits 7:6 of the answer as a step reads them: those of NoCommand, 0x9C, are
   those of a step that passes. *)
Code(l) == IF hw[l].answers = NoCommand THEN "pass" ELSE hw[l].code

-----------------------------------------------------------------------------
(* The course of a call *)

Fault == faults > 0 /\ faults' = faults - 1
NoFault == UNCHANGED faults

Return(r) == at' = Idle /\ result' = r
Goto(pc)  == at' = [at EXCEPT !.pc = pc] /\ UNCHANGED result
Do(kind)  == at' = [at EXCEPT !.pc = "write", !.doing = kind] /\ UNCHANGED result

(* The settings get back what they had; what the call returns is settled. *)
Restore(list, r) ==
    IF list = <<>> THEN Return(r)
    ELSE at' = [at EXCEPT !.pc = "restore", !.todo = list, !.then = r] /\ UNCHANGED result

(* A call that gives up: margining leaves its loop, the other one returns. *)
Break(r) == IF at.op = "margin" THEN Restore(Settings, r) ELSE Return(r)

(* The history starts anew with a call: what the link was set to, the settings
   of which an access failed, the directions with an answer that was late or
   not one, and the steps that passed.  "hurt" stays: the lanes that broke off or
   did not answer since they were last seen to be normal. *)
Begin ==
    /\ at.pc = "idle" /\ calls < MaxCalls /\ calls' = calls + 1
    /\ \/ \E r \in Requests : at' = [Idle EXCEPT !.pc = "look", !.op = "margin", !.ask = r, !.left = r]
       \/ \E l \in Lanes \cup {Width} :
            at' = [Idle EXCEPT !.pc = "look", !.op = "capacities", !.lane = l]
    /\ resp' = [s \in Slots |-> [d \in Directions |-> Unset]]
    /\ before' = link /\ lost' = {} /\ blurred' = {}
    /\ truth' = [l \in Lanes |-> [d \in Directions |-> 0]]
    /\ UNCHANGED <<hw, link, saved, result, faults, hurt>>

(* What slmGetLaneMarginCapacities asks a lane for, one after the other. *)
Offsets == <<"voltOffset", "timeOffset">>
Reports == <<"caps", "voltSteps", "timeSteps">> \o Offsets

(* slmGetLinkAspm, slmGetHwAutoSpeed and slmGetHwAutoWidth; the last one writes
   back what it read. *)
ReadSettings == link

(* Up to the first write: the speed of the link, whether the port can margin,
   its receiver and its settings.  What is written back when one of these fails
   is what was read. *)
Look ==
    /\ at.pc = "look"
    /\ \/ /\ NoFault
          /\ \/ /\ at.op = "margin"
                /\ saved' = ReadSettings
                /\ at' = [at EXCEPT !.pc = "set", !.todo = Settings] /\ UNCHANGED result
             \/ /\ at.op = "capacities" /\ at.lane < Width
                /\ at' = [at EXCEPT !.pc = "write", !.doing = "caps", !.todo = Reports]
                /\ UNCHANGED <<saved, result>>
       \/ NoFault /\ Return("invalid") /\ UNCHANGED saved     \* not at 16 GT/s, or no such lane
       \/ Fault /\ Return("failed") /\ UNCHANGED saved
    /\ UNCHANGED <<hw, link, resp, calls, history>>

(* A setting is read and written back changed; a failing write may have landed. *)
Put(s, v) == link' = [link EXCEPT ![s] = v] /\ NoFault /\ UNCHANGED lost
PutFails(s, v) ==
    /\ Fault /\ lost' = lost \cup {s}
    /\ \E w \in {link[s], v} : link' = [link EXCEPT ![s] = w]

Margining == [aspm |-> 0, speed |-> 1, width |-> 1]

(* slmSetLinkAspm, slmSetHwAutoSpeed and slmSetHwAutoWidth; when one fails, the
   ones before it are taken back. *)
Change ==
    /\ at.pc = "set"
    /\ LET s == Head(at.todo)
           changed == SubSeq(Settings, 1, 3 - Len(at.todo))
       IN \/ /\ Put(s, Margining[s])
             /\ at' = [at EXCEPT !.todo = Tail(@), !.pc = IF Len(at.todo) = 1 THEN "lane" ELSE @]
             /\ UNCHANGED result
          \/ PutFails(s, Margining[s]) /\ Restore(changed, "failed")
    /\ UNCHANGED <<hw, saved, resp, calls, before, hurt, blurred, truth>>

(* Mutant: the status of a restore is looked at. *)
GiveBackUntilOneFails ==
    /\ at.pc = "restore"
    /\ LET s == Head(at.todo) IN
       \/ Put(s, saved[s]) /\ Restore(Tail(at.todo), at.then)
       \/ PutFails(s, saved[s]) /\ Return("failed")
    /\ UNCHANGED <<hw, saved, resp, calls, before, hurt, blurred, truth>>

GiveBack ==
    /\ at.pc = "restore"
    /\ LET s == Head(at.todo) IN
       /\ Put(s, saved[s]) \/ PutFails(s, saved[s])
       /\ Restore(Tail(at.todo), at.then)
    /\ UNCHANGED <<hw, saved, resp, calls, before, hurt, blurred, truth>>

(* The loop over the bitmap.  LaneNumber moves on only behind a lane that was
   asked for: at any other the loop turns on the spot, and nothing changes. *)
NextLane ==
    /\ at.pc = "lane" /\ NoFault
    /\ \/ at.left = {} /\ Restore(Settings, "success") /\ UNCHANGED resp
       \/ /\ at.lane \in at.left /\ at.lane >= Width
          /\ Restore(Settings, "invalid") /\ UNCHANGED resp
       \/ /\ at.lane \in at.left /\ at.lane < Width
          /\ resp' = [resp EXCEPT ![at.slot] = [d \in Directions |-> Blank]]
          /\ at' = [at EXCEPT !.left = @ \ {at.lane}, !.pc = "write", !.doing = "limit"]
          /\ UNCHANGED result
    /\ UNCHANGED <<hw, link, saved, calls, history>>

-----------------------------------------------------------------------------
(* The commands to a lane: each is written, read back and, when it was answered,
   followed by NoCommand, which is read back as well. *)

(* The margining of a direction is over: its step is in the answer. *)
Finish(v) ==
    /\ resp' = [resp EXCEPT ![at.slot][Dir] = v]
    /\ at' = IF Len(at.todo) > 1 THEN [at EXCEPT !.todo = Tail(@), !.pc = "rx"]
             ELSE [at EXCEPT !.lane = @ + 1, !.slot = @ + 1, !.pc = "lane"]
    /\ UNCHANGED result

(* Mutant: the number of steps instead of the last step. *)
CountOfSteps == IF at.steps = 0 THEN NoStep ELSE at.steps

LastStep == IF at.steps = 0 THEN NoStep ELSE at.steps - 1

(* slmTimeMargining reads the receiver of the port again for every direction. *)
ReadReceiver ==
    /\ at.pc = "rx"
    /\ \/ NoFault /\ Do("count")
       \/ Fault /\ Break("failed")
    /\ UNCHANGED <<hw, link, saved, resp, calls, history>>

(* Mutant: the number of the step stays. *)
SameStep(n, limit) ==
    /\ at' = [at EXCEPT !.steps = IF n = 0 THEN n ELSE n - 1, !.limit = limit, !.pc = "write",
                        !.doing = IF n - 1 < limit THEN "step" ELSE "endClear"]
    /\ UNCHANGED result

(* The next step, or the end of this direction. *)
NextStep(n, limit) ==
    /\ at' = [at EXCEPT !.steps = n, !.limit = limit, !.pc = "write",
                        !.doing = IF n < limit THEN "step" ELSE "endClear"]
    /\ UNCHANGED result

(* A command was answered, and NoCommand after it. *)
Answered ==
    \/ /\ at.doing = "limit" /\ Do("caps") /\ UNCHANGED resp
    \/ /\ at.doing = "caps" /\ at.op = "margin" /\ Goto("rx") /\ UNCHANGED resp
    \/ /\ at.doing = "count" /\ NextStep(0, at.limit) /\ UNCHANGED resp
    \/ /\ at.doing = "step" /\ Do("clear") /\ UNCHANGED resp
    \/ /\ at.doing = "clear" /\ NextStep(at.steps + 1, at.limit) /\ UNCHANGED resp
    \/ /\ at.doing = "endClear" /\ Do("endNormal") /\ UNCHANGED resp
    \/ /\ at.doing = "endNormal" /\ Finish(LastStep)
    \/ /\ at.doing = "normalF" /\ Break("failed") /\ UNCHANGED resp
    \/ /\ at.op = "capacities" /\ UNCHANGED resp
       /\ IF Len(at.todo) = 1 THEN Return("success")
          ELSE at' = [at EXCEPT !.todo = Tail(@), !.pc = "write", !.doing = at.todo[2]]
               /\ UNCHANGED result

(* Mutant: the way back is left out when the clear of the error log failed. *)
NormalOnlyIfCleared ==
    \/ /\ at.doing \in {"endClear", "endNormal"} /\ Finish(LastStep)
    \/ /\ at.doing = "limit" /\ at.pc = "read" /\ Do("normalF") /\ UNCHANGED resp
    \/ /\ ~(at.doing \in {"endClear", "endNormal"} \/ (at.doing = "limit" /\ at.pc = "read"))
       /\ Break("failed") /\ UNCHANGED resp


(* An access failed, or the answer was not that to the command.  The last two
   commands of a direction are sent without a look at their status. *)
NotAnswered ==
    \/ /\ at.doing = "endClear" /\ Do("endNormal") /\ UNCHANGED resp
    \/ /\ at.doing = "endNormal" /\ Finish(LastStep)
    \/ /\ at.doing = "limit" /\ at.pc = "read" /\ Do("normalF") /\ UNCHANGED resp
    \/ /\ ~(at.doing \in {"endClear", "endNormal"} \/ (at.doing = "limit" /\ at.pc = "read"))
       /\ Break("failed") /\ UNCHANGED resp

(* Whether the error log was cleared at the end makes no difference to a lane. *)
Hurt(l) == hurt' = IF at.doing = "endClear" THEN hurt ELSE hurt \cup {l}

Write ==
    /\ at.pc \in {"write", "noWrite"}
    /\ LET c == IF at.pc = "write" THEN Command ELSE NoCommand
           sent == [hw EXCEPT ![at.lane].command = c]
       IN \/ /\ NoFault /\ hw' = sent /\ UNCHANGED <<hurt, resp>>
             /\ Goto(IF at.pc = "write" THEN "read" ELSE "noRead")
          \/ Fault /\ hw' \in {hw, sent} /\ Hurt(at.lane) /\ NotAnswered
    /\ UNCHANGED <<link, saved, calls, before, lost, blurred, truth>>

(* What the code takes from an answer: the directions from the capabilities, and
   from a number of steps the smaller of it and the one asked for. *)
DirectionsOf(caps) ==
    (IF "leftRight" \in caps THEN <<"right", "left">> ELSE <<"right">>) \o
    (IF "voltage" \notin caps THEN <<>> ELSE IF "upDown" \in caps THEN <<"up", "down">> ELSE <<"up">>)

Limit(n) == IF NumSteps > n THEN n ELSE NumSteps

Took ==
    IF at.doing = "caps" /\ at.op = "margin"
    THEN at' = [at EXCEPT !.todo = DirectionsOf(Abilities[at.lane]), !.pc = "noWrite"]
    ELSE IF at.doing = "count"
    THEN \E n \in Reported : at' = [at EXCEPT !.limit = Limit(n), !.pc = "noWrite"]
    ELSE at' = [at EXCEPT !.pc = "noWrite"]

(* All commands but the steps, and NoCommand: the status half has to answer. *)
Read ==
    /\ (at.pc = "read" /\ at.doing # "step") \/ at.pc = "noRead"
    /\ LET c == IF at.pc = "read" THEN Command ELSE NoCommand
       IN \/ /\ NoFault /\ hw[at.lane].answers = c
             /\ IF at.pc = "read" THEN Took /\ UNCHANGED <<resp, result>> ELSE Answered
             /\ hurt' = IF c.kind = "normal" THEN hurt \ {at.lane} ELSE hurt
          \/ Fault /\ Hurt(at.lane) /\ NotAnswered   \* also when the answer is late
    /\ UNCHANGED <<hw, link, saved, calls, before, lost, blurred, truth>>

(* The loops of slmTimeMargining and slmVoltageMargining compare the control
   half, which holds the command itself, and take the code of the status half.
   When the lane reads as all ones they return success with step 0. *)
ReadStep ==
    /\ at.pc = "read" /\ at.doing = "step"
    /\ \/ /\ IF Code(at.lane) = "pass" THEN Goto("noWrite") ELSE Do("endClear")
          /\ LET late == hw[at.lane].answers # Command IN
             /\ IF late THEN Fault ELSE NoFault
             /\ blurred' = IF late THEN blurred \cup {<<at.lane, Dir>>} ELSE blurred
          /\ UNCHANGED <<hurt, resp>>
       \/ Fault /\ Hurt(at.lane) /\ Break("failed") /\ UNCHANGED <<blurred, resp>>
       \/ /\ Fault /\ Hurt(at.lane) /\ blurred' = blurred \cup {<<at.lane, Dir>>}
          /\ Finish(0)
    /\ UNCHANGED <<hw, link, saved, calls, before, lost, truth>>

Program == Look \/ Change \/ GiveBack \/ NextLane \/ ReadReceiver \/ Write \/ Read \/ ReadStep

Next == Begin \/ Program \/ \E l \in Lanes : Answer(l)

Spec == Init /\ [][Next]_vars

(* A call that was begun goes on, and but for MaxFaults times the sleep between a
   write and its read is long enough for the lane. *)
FairSpec == Spec /\ WF_vars(Program) /\ \A l \in Lanes : WF_vars(Answer(l))

-----------------------------------------------------------------------------
(* Properties *)

(* After a call the link is managed as it was before: wherever the call gave up,
   a setting differs only when an access to that very setting failed, and a
   restore that fails does not keep the others from theirs. *)
SettingsRestored ==
    at.pc = "idle" => \A s \in DOMAIN link : link[s] = before[s] \/ s \in lost

(* After a call the sampler of a lane is where it belongs, unless the call broke
   off in the middle of its steps or the command that moves it back failed or was
   not answered in time: the trouble of one lane moves no other, and no end of
   the steps, with an answer or without, leaves out the way back. *)
LanesBackToNormal ==
    at.pc = "idle" => \A l \in Lanes : hw[l].moved => l \in hurt

(* The lane of a slot: answers are packed, in the order of the lanes. *)
InSlot(l, s) == l \in at.ask /\ Cardinality({m \in at.ask : m < l}) = s

(* A step in the answer is the last one of its lane and direction that really
   passed, each of them after a clear of the error log: the answers of the steps
   are not shifted against the lanes, the directions or the steps themselves.
   The code cannot tell an answer that is late from one that passed, and takes
   all ones for step 0; those directions are left out. *)
StepsMeasured ==
    \A l \in Lanes, s \in Slots, d \in Directions :
      InSlot(l, s) /\ resp[s][d] \notin {Unset, Blank} /\ <<l, d>> \notin blurred =>
        resp[s][d] = IF truth[l][d] = 0 THEN NoStep ELSE truth[l][d] - 1

(* A bitmap in which no lane is left out below another one. *)
LeavesNoGap(r) == \E n \in 0..Cardinality(r) : r = 0..n-1

(* A call that asks for the lanes from 0 on, or for the capacities of a lane,
   returns: no answer of a lane, no number of steps and no failing access keeps
   the loops over lanes, directions and steps from their ends.  A call for any
   other bitmap is not promised to: its loop over the lanes need not end. *)
CallsReturn ==
    (at.pc # "idle" /\ (at.op = "margin" => LeavesNoGap(at.ask))) ~> at.pc = "idle"

(* Any bitmap may ask for lanes, as the comment on its Lanes says, so a call for
   lanes of the link comes to its end.  With a gap it does not: the number of the
   lane moves on only behind a lane of the bitmap, the loop turns on the spot, and
   the link stays as margining has set it up. *)
AskedLanesAnswered ==
    (at.pc = "look" /\ at.op = "margin" /\ at.ask \subseteq Lanes) ~> at.pc = "idle"

===============================================================================
