---------------------------- MODULE Checks_proofs ----------------------------
(***************************************************************************)
(* Proofs about the two checks of a device that set something aside while  *)
(* they are at work: the margining of the lanes of a switch port           *)
(* (LaneMargin) and the health checks (HealthCheck).                       *)
(*                                                                         *)
(* For every width of the link, every bitmap and every number of steps,    *)
(* calls and faults the settings of the link are given back, and the       *)
(* samplers of the lanes, and what the answer holds are the steps that     *)
(* passed, each for its own lane and direction.  For every ini file and    *)
(* every order of health checks the limits of a check are those of its own *)
(* file, and the file of a user is left alone.                             *)
(***************************************************************************)
EXTENDS LaneMargin, HealthCheck, SequenceTheorems, FiniteSetTheorems, TLAPS

(***************************************************************************)
(* The margining of the lanes.                                             *)
(***************************************************************************)
(* The words of the model, and the types made of them. *)
Names == {"aspm", "speed", "width"}
Driving == {"write", "read", "noWrite", "noRead"}
Points == {"idle", "look", "set", "lane", "rx", "restore"} \cup Driving
Questions == {"caps", "voltSteps", "timeSteps", "voltOffset", "timeOffset"}
Orders == {"limit", "caps", "count", "step", "clear", "endClear", "endNormal", "normalF"}
Items == Names \cup Questions \cup Directions
Results == {"-", "success", "failed", "invalid"}

Commands == [kind : Orders \cup Questions \cup {"none", "normal"}, dir : Items \cup {"-"}, step : Nat]
LaneStates == [command : Commands, answers : Commands, code : {"pass", "fail", "refused", "-"}, moved : BOOLEAN]
Links == [Names -> {0, 1}]
Places == [pc : Points, op : {"-", "margin", "capacities"}, ask : SUBSET Nat, left : SUBSET Nat,
           lane : Nat, slot : Nat, doing : Orders \cup Questions \cup {"-"}, todo : Seq(Items),
           limit : Nat, steps : Nat, then : Results]

Types ==
    /\ hw \in [Lanes -> LaneStates]
    /\ link \in Links /\ saved \in Links /\ before \in Links
    /\ at \in Places
    /\ lost \subseteq Names /\ hurt \subseteq Lanes

(* A call drives a lane of the link, with the commands of its kind. *)
Whereabouts ==
    /\ at.pc # "idle" => at.op \in {"margin", "capacities"}
    /\ at.op = "capacities" => at.pc \in {"idle", "look"} \cup Driving
    /\ at.pc \in {"rx"} \cup Driving => at.lane \in Lanes
    /\ at.pc \in Driving /\ at.op = "margin" => at.doing \in Orders
    /\ at.pc \in Driving /\ at.op = "capacities" =>
         at.doing \in Questions /\ at.todo \in Seq(Questions) /\ at.todo # <<>>

(* What is still to be changed, and what is still to be given back. *)
ToChange == {<<"aspm", "speed", "width">>, <<"speed", "width">>, <<"width">>}
ToGiveBack == ToChange \cup {<<"aspm">>, <<"aspm", "speed">>, <<"speed">>}
In(list) == {list[i] : i \in 1..Len(list)}

Kept(s) == link[s] = before[s] \/ s \in lost

Given ==
    /\ at.pc = "idle" => \A s \in Names : Kept(s)
    /\ at.pc = "look" \/ (at.pc # "idle" /\ at.op = "capacities") => link = before /\ lost = {}
    /\ at.pc \notin {"idle", "look"} /\ at.op = "margin" => saved = before
    /\ at.pc = "set" =>
         /\ at.todo \in ToChange /\ lost = {}
         /\ \A s \in In(at.todo) : link[s] = before[s]
    /\ at.pc = "restore" =>
         /\ at.todo \in ToGiveBack
         /\ \A s \in Names \ In(at.todo) : Kept(s)

(* A lane that is moved, or may yet be by a step it was told, is the one at work
   or was hurt. *)
Astray(l) == hw[l].moved \/ hw[l].command.kind = "step"
AtWork(l) ==
    /\ at.op = "margin" /\ at.pc \in Driving /\ at.lane = l
    /\ at.doing \in {"step", "clear", "endClear", "endNormal"}

Found ==
    /\ \A l \in Lanes : Astray(l) => l \in hurt \/ AtWork(l)
    /\ \A l \in Lanes : hw[l].answers.kind = "normal" => ~hw[l].moved
    /\ at.pc = "read" => hw[at.lane].command = Command
    /\ at.pc = "noRead" => hw[at.lane].command = NoCommand
    /\ at.pc \in {"noWrite", "noRead"} /\ at.op = "margin" /\ at.doing = "endNormal" =>
         at.lane \in hurt \/ ~Astray(at.lane)

IInv == Types /\ Whereabouts /\ Given /\ Found
-----------------------------------------------------------------------------
(* What the lists of settings hold. *)
LEMMA Lists ==
    /\ Settings \in ToChange
    /\ In(<<"aspm", "speed", "width">>) = Names /\ In(<<"speed", "width">>) = {"speed", "width"}
    /\ In(<<"width">>) = {"width"} /\ In(<<"aspm">>) = {"aspm"}
    /\ In(<<"aspm", "speed">>) = {"aspm", "speed"} /\ In(<<"speed">>) = {"speed"}
    /\ In(<<>>) = {}
BY DEF Settings, ToChange, In, Names

LEMMA Ends ==
    ASSUME NEW list \in ToGiveBack
    PROVE  /\ list \in Seq(Items) /\ list # <<>> /\ Head(list) \in Names
           /\ Tail(list) \in ToGiveBack \cup {<<>>} /\ In(list) = {Head(list)} \cup In(Tail(list))
<1>1. CASE list = <<"aspm", "speed", "width">>
  <2>1. Tail(list) = <<"speed", "width">> /\ Head(list) = "aspm"
    BY <1>1
  <2>2. list \in Seq(Items)
    BY <1>1 DEF Items, Names
  <2> QED BY <1>1, <2>1, <2>2, Lists DEF ToGiveBack, ToChange, Names
<1>2. CASE list = <<"speed", "width">>
  <2>1. Tail(list) = <<"width">> /\ Head(list) = "speed"
    BY <1>2
  <2>2. list \in Seq(Items)
    BY <1>2 DEF Items, Names
  <2> QED BY <1>2, <2>1, <2>2, Lists DEF ToGiveBack, ToChange, Names
<1>3. CASE list = <<"width">>
  <2>1. Tail(list) = <<>> /\ Head(list) = "width"
    BY <1>3
  <2>2. list \in Seq(Items)
    BY <1>3 DEF Items, Names
  <2> QED BY <1>3, <2>1, <2>2, Lists DEF ToGiveBack, ToChange, Names
<1>4. CASE list = <<"aspm">>
  <2>1. Tail(list) = <<>> /\ Head(list) = "aspm"
    BY <1>4
  <2>2. list \in Seq(Items)
    BY <1>4 DEF Items, Names
  <2> QED BY <1>4, <2>1, <2>2, Lists DEF ToGiveBack, ToChange, Names
<1>5. CASE list = <<"aspm", "speed">>
  <2>1. Tail(list) = <<"speed">> /\ Head(list) = "aspm"
    BY <1>5
  <2>2. list \in Seq(Items)
    BY <1>5 DEF Items, Names
  <2> QED BY <1>5, <2>1, <2>2, Lists DEF ToGiveBack, ToChange, Names
<1>6. CASE list = <<"speed">>
  <2>1. Tail(list) = <<>> /\ Head(list) = "speed"
    BY <1>6
  <2>2. list \in Seq(Items)
    BY <1>6 DEF Items, Names
  <2> QED BY <1>6, <2>1, <2>2, Lists DEF ToGiveBack, ToChange, Names
<1> QED
  BY <1>1, <1>2, <1>3, <1>4, <1>5, <1>6 DEF ToGiveBack, ToChange

LEMMA Rests ==
    ASSUME NEW list \in ToChange
    PROVE  /\ Len(list) \in 1..3
           /\ Len(list) # 1 => /\ Tail(list) \in ToChange /\ Head(list) \notin In(Tail(list))
                               /\ In(Tail(list)) \subseteq In(list)
<1>1. CASE list = <<"aspm", "speed", "width">>
  <2>1. Tail(list) = <<"speed", "width">> /\ Len(list) = 3 /\ Head(list) = "aspm"
    BY <1>1
  <2>2. In(list) = Names /\ In(Tail(list)) = {"speed", "width"}
    BY <1>1, <2>1, Lists, Zenon
  <2> QED BY <2>1, <2>2 DEF ToChange, Names
<1>2. CASE list = <<"speed", "width">>
  <2>1. Tail(list) = <<"width">> /\ Len(list) = 2 /\ Head(list) = "speed"
    BY <1>2
  <2>2. In(list) = {"speed", "width"} /\ In(Tail(list)) = {"width"}
    BY <1>2, <2>1, Lists, Zenon
  <2> QED BY <2>1, <2>2 DEF ToChange
<1>3. CASE list = <<"width">>
  <2>1. Len(list) = 1
    BY <1>3
  <2> QED BY <2>1
<1> QED
  BY <1>1, <1>2, <1>3 DEF ToChange

(* A list of one or two entries is known by them. *)
LEMMA Short ==
    /\ \A S, a : \A s \in Seq(S) : Len(s) = 1 /\ s[1] = a => s = <<a>>
    /\ \A S, a, b : \A s \in Seq(S) : Len(s) = 2 /\ s[1] = a /\ s[2] = b => s = <<a, b>>
OBVIOUS

(* What was changed before a setting of the list failed. *)
LEMMA Changed ==
    ASSUME NEW list \in ToChange
    PROVE  /\ SubSeq(Settings, 1, 3 - Len(list)) \in ToGiveBack \cup {<<>>}
           /\ In(list) \cup In(SubSeq(Settings, 1, 3 - Len(list))) = Names
<1>0. /\ Settings \in Seq(Names) /\ Len(Settings) = 3
      /\ Settings[1] = "aspm" /\ Settings[2] = "speed"
  BY DEF Names, Settings
<1>1. CASE list = <<"aspm", "speed", "width">>
  <2>1. 3 - Len(list) = 0
    BY <1>1
  <2>2. SubSeq(Settings, 1, 0) = <<>>
    BY SubSeqEmpty
  <2>3. In(list) = Names /\ In(<<>>) = {}
    BY <1>1, Lists, Zenon
  <2> QED BY <2>1, <2>2, <2>3
<1>2. CASE list = <<"speed", "width">>
  <2>1. 3 - Len(list) = 1
    BY <1>2
  <2>2. /\ SubSeq(Settings, 1, 1) \in Seq(Names) /\ Len(SubSeq(Settings, 1, 1)) = 1
        /\ SubSeq(Settings, 1, 1)[1] = "aspm"
    BY <1>0, SubSeqProperties
  <2>3. SubSeq(Settings, 1, 1) = <<"aspm">>
    BY <2>2, Short, Zenon
  <2>4. In(list) = {"speed", "width"} /\ In(<<"aspm">>) = {"aspm"}
    BY <1>2, Lists, Zenon
  <2> QED BY <2>1, <2>3, <2>4 DEF Names, ToGiveBack
<1>3. CASE list = <<"width">>
  <2>1. 3 - Len(list) = 2
    BY <1>3
  <2>2. /\ SubSeq(Settings, 1, 2) \in Seq(Names) /\ Len(SubSeq(Settings, 1, 2)) = 2
        /\ SubSeq(Settings, 1, 2)[1] = "aspm" /\ SubSeq(Settings, 1, 2)[2] = "speed"
    BY <1>0, SubSeqProperties
  <2>3. SubSeq(Settings, 1, 2) = <<"aspm", "speed">>
    BY <2>2, Short, Zenon
  <2>4. In(list) = {"width"} /\ In(<<"aspm", "speed">>) = {"aspm", "speed"}
    BY <1>3, Lists, Zenon
  <2> QED BY <2>1, <2>3, <2>4 DEF Names, ToGiveBack
<1> QED
  BY <1>1, <1>2, <1>3 DEF ToChange

-----------------------------------------------------------------------------
(* Where a call goes. *)
LEMMA IdlePlace == Idle \in Places /\ Idle.pc = "idle" /\ Idle.op = "-"
<1>1. <<>> \in Seq(Items)
  OBVIOUS
<1> QED
  BY <1>1 DEF Idle, Places, Points, Results

LEMMA Restores ==
    ASSUME at \in Places, NEW list \in ToGiveBack \cup {<<>>}, NEW r \in Results, Restore(list, r)
    PROVE  /\ at' \in Places
           /\ list = <<>> => at' = Idle
           /\ list # <<>> => at'.pc = "restore" /\ at'.todo = list /\ at'.op = at.op
<1>1. CASE list = <<>>
  BY <1>1, IdlePlace DEF Restore, Return
<1>2. CASE list # <<>>
  <2>1. list \in Seq(Items)
    BY <1>2, Ends
  <2>2. at' = [at EXCEPT !.pc = "restore", !.todo = list, !.then = r]
    BY <1>2 DEF Restore
  <2> QED
    BY <1>2, <2>1, <2>2 DEF Places, Points
<1> QED
  BY <1>1, <1>2

LEMMA Does ==
    ASSUME at \in Places, NEW kind \in Orders \cup Questions, Do(kind)
    PROVE  /\ at' \in Places /\ at'.pc = "write" /\ at'.doing = kind
           /\ at'.op = at.op /\ at'.lane = at.lane /\ at'.todo = at.todo
<1>1. at' = [at EXCEPT !.pc = "write", !.doing = kind]
  BY DEF Do
<1> QED
  BY <1>1 DEF Places, Points, Driving

LEMMA Goes ==
    ASSUME at \in Places, NEW to \in Points, Goto(to)
    PROVE  /\ at' \in Places /\ at'.pc = to /\ at'.doing = at.doing /\ at'.op = at.op
           /\ at'.lane = at.lane /\ at'.todo = at.todo /\ at'.steps = at.steps
<1>1. at' = [at EXCEPT !.pc = to]
  BY DEF Goto
<1> QED
  BY <1>1 DEF Places

LEMMA StepsOn ==
    ASSUME at \in Places, NEW n \in Nat, NEW limit \in Nat, NextStep(n, limit)
    PROVE  /\ at' \in Places /\ at'.pc = "write" /\ at'.doing \in {"step", "endClear"}
           /\ at'.op = at.op /\ at'.lane = at.lane
<1>1. at' = [at EXCEPT !.steps = n, !.limit = limit, !.pc = "write",
                       !.doing = IF n < limit THEN "step" ELSE "endClear"]
  BY DEF NextStep
<1> QED
  BY <1>1 DEF Places, Points, Driving, Orders

LEMMA Finishes ==
    ASSUME at \in Places, NEW v, Finish(v)
    PROVE  /\ at' \in Places /\ at'.op = at.op /\ at'.pc \in {"rx", "lane"}
           /\ at'.pc = "rx" => at'.lane = at.lane
<1>1. CASE Len(at.todo) > 1
  <2>1. at' = [at EXCEPT !.todo = Tail(@), !.pc = "rx"]
    BY <1>1 DEF Finish
  <2>2. Tail(at.todo) \in Seq(Items)
    BY <1>1 DEF Places
  <2> QED
    BY <2>1, <2>2 DEF Places, Points
<1>2. CASE ~(Len(at.todo) > 1)
  <2>1. at' = [at EXCEPT !.lane = @ + 1, !.slot = @ + 1, !.pc = "lane"]
    BY <1>2 DEF Finish
  <2>2. at.lane + 1 \in Nat /\ at.slot + 1 \in Nat /\ "lane" \in Points
    BY DEF Places, Points
  <2>3. at' = [[[at EXCEPT !.lane = at.lane + 1] EXCEPT !.slot = at.slot + 1] EXCEPT !.pc = "lane"]
    BY <2>1 DEF Places
  <2>4. at' \in Places
    BY <2>2, <2>3 DEF Places
  <2>5. at'.op = at.op /\ at'.pc = "lane"
    BY <2>3 DEF Places
  <2> QED
    BY <2>4, <2>5
<1> QED
  BY <1>1, <1>2

LEMMA Breaks ==
    ASSUME at \in Places, Break("failed")
    PROVE  /\ at' \in Places
           /\ at.op = "margin" => at'.op = "margin" /\ at'.pc = "restore" /\ at'.todo = Settings
           /\ at.op # "margin" => at' = Idle
<1>1. CASE at.op = "margin"
  <2>0. Settings \in ToGiveBack
    BY Lists DEF ToGiveBack
  <2>1. Settings \in ToGiveBack /\ Settings # <<>> /\ "failed" \in Results
    BY <2>0, Ends DEF Results
  <2>2. Restore(Settings, "failed")
    BY <1>1 DEF Break
  <2> QED
    BY <1>1, <2>1, <2>2, Restores
<1>2. CASE at.op # "margin"
  BY <1>2, IdlePlace DEF Break, Return
<1> QED
  BY <1>1, <1>2

(* A call that drives a lane goes on with it, or leaves it. *)
Onward ==
    /\ at' \in Places
    /\ \/ at.op = "capacities" /\ at' = Idle
       \/ /\ at.op = "margin" /\ at'.op = "margin"
          /\ \/ at'.pc = "restore" /\ at'.todo = Settings
             \/ at'.pc = "lane"
             \/ at'.pc = "rx" /\ at'.lane = at.lane
             \/ at'.pc \in Driving /\ at'.lane = at.lane /\ at'.doing \in Orders
       \/ /\ at.op = "capacities" /\ at'.op = "capacities" /\ at'.pc \in Driving /\ at'.lane = at.lane
          /\ at'.doing \in Questions /\ at'.todo \in Seq(Questions) /\ at'.todo # <<>>

LEMMA OnwardKeeps ==
    ASSUME Types, Whereabouts, Given, at.pc \in Driving \cup {"rx"}, Onward,
           UNCHANGED <<link, saved, before, lost>>
    PROVE  Whereabouts' /\ Given'
<1> USE DEF Driving
<1>1. CASE at.op = "capacities" /\ at' = Idle
  BY <1>1, IdlePlace DEF Whereabouts, Given, Kept
<1>2. CASE at.op = "margin" /\ at'.op = "margin" /\ at'.pc = "restore" /\ at'.todo = Settings
  <2>1. at'.todo \in ToGiveBack /\ In(at'.todo) = Names
    BY <1>2, Lists DEF ToGiveBack, Settings
  <2>2. Given'
    BY <1>2, <2>1 DEF Given
  <2> QED
    BY <1>2, <2>2 DEF Whereabouts
<1>3. CASE at.op = "margin" /\ at'.op = "margin" /\ at'.pc \in {"lane", "rx"} \cup Driving
           /\ (at'.pc # "lane" => at'.lane = at.lane) /\ (at'.pc \in Driving => at'.doing \in Orders)
  BY <1>3 DEF Whereabouts, Given
<1>4. CASE /\ at.op = "capacities" /\ at'.op = "capacities" /\ at'.pc \in Driving /\ at'.lane = at.lane
           /\ at'.doing \in Questions /\ at'.todo \in Seq(Questions) /\ at'.todo # <<>>
  BY <1>4 DEF Whereabouts, Given
<1> QED
  BY <1>1, <1>2, <1>3, <1>4 DEF Onward

(* The command of a call that drives a lane. *)
LEMMA CommandKind ==
    ASSUME Types, Whereabouts, at.pc \in Driving
    PROVE  /\ Command \in Commands /\ NoCommand \in Commands /\ NoCommand.kind = "none"
           /\ Command.kind = "step" <=> at.doing = "step"
           /\ Command.kind = "normal" <=> at.doing = "endNormal"
<1>1. Dir \in Items \cup {"-"} /\ at.steps \in Nat
  BY DEF Dir, Types, Places
<1>2. at.doing \in Orders \cup Questions
  BY DEF Whereabouts, Types, Places, Driving
<1>3. NoCommand \in Commands /\ NoCommand.kind = "none"
  BY DEF NoCommand, Commands
<1>4. CASE at.doing = "step"
  BY <1>1, <1>3, <1>4 DEF Command, Step, Commands, Orders
<1>5. CASE at.doing = "endClear"
  BY <1>3, <1>5 DEF Command, ClearErrorLog, Plain, Commands, Orders
<1>6. CASE at.doing = "endNormal"
  BY <1>3, <1>6 DEF Command, GoToNormalSettings, Plain, Commands, Orders
<1>7. CASE at.doing \notin {"step", "endClear", "endNormal"}
  <2>1. Command = Plain(at.doing)
    BY <1>7 DEF Command
  <2>2. at.doing # "normal"
    BY <1>2 DEF Orders, Questions
  <2> QED
    BY <1>2, <1>3, <1>7, <2>1, <2>2 DEF Plain, Commands
<1> QED
  BY <1>4, <1>5, <1>6, <1>7

LEMMA SameCommand ==
    ASSUME at'.doing = at.doing, at'.op = at.op, at'.todo = at.todo, at'.steps = at.steps
    PROVE  Command' = Command
BY DEF Command, Dir, Step, ClearErrorLog, GoToNormalSettings, Plain

(* Behind a command that failed or was not answered the call leaves the lane, or
   goes on to the way back. *)
LEMMA Unanswered ==
    ASSUME Types, Whereabouts, at.pc \in Driving, NotAnswered
    PROVE  /\ Onward /\ at'.pc \notin {"read", "noRead", "noWrite"}
           /\ at.doing = "endClear" => \A l \in {at.lane} : AtWork(l)'
<1>0. at \in Places /\ at.op \in {"margin", "capacities"} /\ (at.op = "capacities" => at.doing \in Questions)
  BY DEF Types, Whereabouts, Driving
<1>1. CASE at.doing = "endClear" /\ Do("endNormal")
  <2>1. at.op = "margin"
    BY <1>0, <1>1 DEF Questions
  <2>2. "endNormal" \in Orders
    BY DEF Orders
  <2> QED
    BY <1>0, <1>1, <2>1, <2>2, Does DEF Onward, AtWork, Driving
<1>2. CASE at.doing = "endNormal" /\ Finish(LastStep)
  <2>1. at.op = "margin"
    BY <1>0, <1>2 DEF Questions
  <2> QED
    BY <1>0, <1>2, <2>1, Finishes DEF Onward
<1>3. CASE at.doing = "limit" /\ Do("normalF")
  <2>1. at.op = "margin"
    BY <1>0, <1>3 DEF Questions
  <2>2. "normalF" \in Orders
    BY DEF Orders
  <2> QED
    BY <1>0, <1>3, <2>1, <2>2, Does DEF Onward, Driving
<1>4. CASE at.doing # "endClear" /\ Break("failed")
  BY <1>0, <1>4, Breaks, IdlePlace DEF Onward
<1> QED
  BY <1>1, <1>2, <1>3, <1>4 DEF NotAnswered

(* Behind an answer the call goes on, and stays with a lane that it stepped. *)
LEMMA Continues ==
    ASSUME Types, Whereabouts, at.pc = "noRead", Answered
    PROVE  /\ Onward /\ at'.pc \notin {"read", "noRead", "noWrite"}
           /\ at.op = "margin" /\ at.doing \in {"step", "clear", "endClear"} =>
                \A l \in {at.lane} : AtWork(l)'
<1>0. /\ at \in Places /\ at.op \in {"margin", "capacities"}
      /\ at.op = "capacities" =>
           at.doing \in Questions /\ at.todo \in Seq(Questions) /\ at.todo # <<>>
  BY DEF Types, Whereabouts, Driving
<1>1. CASE at.doing = "limit" /\ Do("caps")
  <2>1. at.op = "margin" /\ "caps" \in Orders
    BY <1>0, <1>1 DEF Questions, Orders
  <2> QED
    BY <1>0, <1>1, <2>1, Does DEF Onward, Driving
<1>2. CASE at.doing = "caps" /\ at.op = "margin" /\ Goto("rx")
  <2>1. "rx" \in Points
    BY DEF Points
  <2> QED
    BY <1>0, <1>2, <2>1, Goes DEF Onward
<1>3. CASE at.doing = "count" /\ NextStep(0, at.limit)
  <2>1. at.op = "margin" /\ at.limit \in Nat
    BY <1>0, <1>3 DEF Questions, Places
  <2> QED
    BY <1>0, <1>3, <2>1, StepsOn DEF Onward, Driving, Orders
<1>4. CASE at.doing = "step" /\ Do("clear")
  <2>1. at.op = "margin" /\ "clear" \in Orders
    BY <1>0, <1>4 DEF Questions, Orders
  <2> QED
    BY <1>0, <1>4, <2>1, Does DEF Onward, Driving, AtWork
<1>5. CASE at.doing = "clear" /\ NextStep(at.steps + 1, at.limit)
  <2>1. at.op = "margin" /\ at.limit \in Nat /\ at.steps + 1 \in Nat
    BY <1>0, <1>5 DEF Questions, Places
  <2> QED
    BY <1>0, <1>5, <2>1, StepsOn DEF Onward, Driving, Orders, AtWork
<1>6. CASE at.doing = "endClear" /\ Do("endNormal")
  <2>1. at.op = "margin" /\ "endNormal" \in Orders
    BY <1>0, <1>6 DEF Questions, Orders
  <2> QED
    BY <1>0, <1>6, <2>1, Does DEF Onward, Driving, AtWork
<1>7. CASE at.doing = "endNormal" /\ Finish(LastStep)
  <2>1. at.op = "margin"
    BY <1>0, <1>7 DEF Questions
  <2> QED
    BY <1>0, <1>7, <2>1, Finishes DEF Onward
<1>8. CASE at.doing = "normalF" /\ Break("failed")
  BY <1>0, <1>8, Breaks, IdlePlace DEF Onward
<1>9. CASE at.op = "capacities" /\ Len(at.todo) = 1 /\ Return("success")
  <2>1. at' = Idle
    BY <1>9 DEF Return
  <2> QED
    BY <1>9, <2>1, IdlePlace DEF Onward
<1>10. CASE /\ at.op = "capacities" /\ Len(at.todo) # 1
            /\ at' = [at EXCEPT !.todo = Tail(@), !.pc = "write", !.doing = at.todo[2]]
  <2>1. at.todo \in Seq(Questions) /\ at.todo # <<>>
    BY <1>0, <1>10
  <2>2. Len(at.todo) \in Nat /\ Len(at.todo) > 1
    <3>1. Len(at.todo) \in Nat \ {0}
      BY <2>1, EmptySeq, Zenon
    <3>2. Len(at.todo) # 1
      BY <1>10
    <3>3. \A n \in Nat \ {0} : n # 1 => n \in Nat /\ n > 1
      OBVIOUS
    <3> QED
      BY <3>1, <3>2, <3>3, Zenon
  <2>3. at.todo[2] \in Questions /\ Tail(at.todo) \in Seq(Questions) /\ Tail(at.todo) # <<>>
    <3>1. at.todo[2] \in Questions
      BY <2>1, <2>2
    <3>2. Tail(at.todo) \in Seq(Questions) /\ Len(Tail(at.todo)) = Len(at.todo) - 1
      BY <2>1, <2>2
    <3>3. Len(Tail(at.todo)) # 0
      <4>1. \A n \in Nat : n > 1 => n - 1 # 0
        OBVIOUS
      <4> QED
        BY <2>2, <3>2, <4>1, Zenon
    <3>4. Len(<<>>) = 0
      OBVIOUS
    <3>5. Tail(at.todo) # <<>>
      BY <3>3, <3>4, Zenon
    <3> QED
      BY <3>1, <3>2, <3>5
  <2>4. Tail(at.todo) \in Seq(Items)
    BY <1>0, <2>1, <2>2 DEF Places
  <2>5. at' \in Places
    BY <1>0, <1>10, <2>3, <2>4 DEF Places, Points, Driving
  <2>6. /\ at'.pc = "write" /\ at'.op = at.op /\ at'.lane = at.lane
        /\ at'.doing = at.todo[2] /\ at'.todo = Tail(at.todo)
    BY <1>0, <1>10 DEF Places
  <2> QED
    BY <1>10, <2>3, <2>5, <2>6 DEF Onward, Driving
<1> QED
  BY <1>1, <1>2, <1>3, <1>4, <1>5, <1>6, <1>7, <1>8, <1>9, <1>10 DEF Answered

(* A call that does not wait for an answer leaves no lane behind that it moved. *)
LEMMA FoundOn ==
    ASSUME Types, Found, at.pc \in Driving \cup {"rx"}, at.lane \in Lanes,
           \A l \in Lanes : /\ hw'[l].moved = hw[l].moved /\ hw'[l].answers = hw[l].answers
                            /\ l # at.lane => hw'[l] = hw[l] /\ (l \in hurt => l \in hurt'),
           at'.pc \notin {"read", "noRead", "noWrite"},
           \A l \in {at.lane} : Astray(l)' => l \in hurt' \/ AtWork(l)'
    PROVE  Found'
<1>1. \A l \in Lanes : Astray(l)' => l \in hurt' \/ AtWork(l)'
  <2> SUFFICES ASSUME NEW l \in Lanes, Astray(l)'
               PROVE  l \in hurt' \/ AtWork(l)'
    OBVIOUS
  <2>1. CASE l = at.lane
    BY <2>1
  <2>2. CASE l # at.lane
    <3>1. Astray(l) /\ ~AtWork(l)
      BY <2>2 DEF Astray, AtWork
    <3> QED
      BY <2>2, <3>1 DEF Found
  <2> QED
    BY <2>1, <2>2
<1>2. \A l \in Lanes : hw'[l].answers.kind = "normal" => ~hw'[l].moved
  BY DEF Found
<1> QED
  BY <1>1, <1>2 DEF Found

-----------------------------------------------------------------------------
(* The steps. *)
LEMMA Started == Init => IInv
<1> SUFFICES ASSUME Init
             PROVE  IInv
  OBVIOUS
<1>0. Width \in Nat /\ FirstLinks \subseteq Links
  BY MarginAssumption DEF Links, Names
<1>1. NoCommand \in Commands /\ NoCommand.kind = "none"
  BY DEF NoCommand, Commands
<1>2. hw \in [Lanes -> LaneStates]
  BY <1>1 DEF Init, LaneStates
<1>3. at = Idle /\ link \in Links /\ saved = link /\ before = link /\ lost = {} /\ hurt = {}
  BY <1>0 DEF Init
<1>4. \A l \in Lanes : hw[l].command = NoCommand /\ hw[l].answers = NoCommand /\ hw[l].moved = FALSE
  BY DEF Init
<1>5. Types
  BY <1>2, <1>3, IdlePlace DEF Types
<1>6. Whereabouts
  BY <1>3, IdlePlace DEF Whereabouts, Driving
<1>7. Given
  BY <1>3, IdlePlace DEF Given, Kept
<1>8. Found
  BY <1>1, <1>3, <1>4, IdlePlace DEF Found, Astray
<1> QED
  BY <1>5, <1>6, <1>7, <1>8 DEF IInv

LEMMA BeginKeeps == IInv /\ Begin => IInv'
<1> SUFFICES ASSUME IInv, Begin
             PROVE  IInv'
  OBVIOUS
<1>0. Width \in Nat /\ \A r \in Requests : r \in SUBSET Nat
  BY MarginAssumption
<1>1. at.pc = "idle" /\ Types /\ Found /\ UNCHANGED <<hw, link, saved, hurt>> /\ before' = link /\ lost' = {}
  BY DEF IInv, Begin
<1>2. /\ at' \in Places /\ at'.pc = "look" /\ at'.op \in {"margin", "capacities"}
  <2>1. CASE \E r \in Requests : at' = [Idle EXCEPT !.pc = "look", !.op = "margin", !.ask = r, !.left = r]
    <3>1. PICK r \in Requests : at' = [Idle EXCEPT !.pc = "look", !.op = "margin", !.ask = r, !.left = r]
      BY <2>1
    <3>2. r \in SUBSET Nat
      BY <1>0
    <3> QED
      BY <3>1, <3>2, IdlePlace DEF Places, Points
  <2>2. CASE \E l \in Lanes \cup {Width} :
               at' = [Idle EXCEPT !.pc = "look", !.op = "capacities", !.lane = l]
    <3>1. PICK l \in Lanes \cup {Width} :
               at' = [Idle EXCEPT !.pc = "look", !.op = "capacities", !.lane = l]
      BY <2>2
    <3>2. l \in Nat
      BY <1>0 DEF Lanes
    <3> QED
      BY <3>1, <3>2, IdlePlace DEF Places, Points
  <2> QED
    BY <2>1, <2>2 DEF Begin
<1>3. Types'
  BY <1>1, <1>2 DEF Types
<1>4. Whereabouts' /\ Given'
  BY <1>1, <1>2 DEF Whereabouts, Given, Driving
<1>5. Found'
  BY <1>1, <1>2 DEF Found, Astray, AtWork, Driving
<1> QED
  BY <1>3, <1>4, <1>5 DEF IInv

LEMMA AnswerKeeps == ASSUME NEW l \in Lanes PROVE IInv /\ Answer(l) => IInv'
<1> SUFFICES ASSUME IInv, Answer(l)
             PROVE  IInv'
  OBVIOUS
<1> DEFINE c == hw[l].command
<1> DEFINE moves(code) == ~IsNormal(c) /\ (hw[l].moved \/ code \in {"pass", "fail"})
<1>0. PICK code \in IF c.kind = "step" THEN {"pass", "fail", "refused"} ELSE {"-"} :
        hw' = [hw EXCEPT ![l].answers = c, ![l].code = code,
                         ![l].moved = ~IsNormal(c) /\ (@ \/ code \in {"pass", "fail"})]
  BY DEF Answer
<1>1. code \in {"pass", "fail", "refused", "-"} /\ (c.kind # "step" => code = "-")
  BY <1>0
<1>2. UNCHANGED <<link, at, saved, before, lost, hurt>>
  BY DEF Answer
<1>3. Types /\ Whereabouts /\ Given /\ Found
  BY DEF IInv
<1>4. hw[l] \in LaneStates /\ c \in Commands /\ hw[l].moved \in BOOLEAN
  BY <1>3 DEF Types, LaneStates
<1> DEFINE m == moves(code)
<1>5. m \in BOOLEAN
  OBVIOUS
<1>6. hw' = [hw EXCEPT ![l] = [hw[l] EXCEPT !.answers = c, !.code = code, !.moved = m]]
  BY <1>0, <1>3 DEF Types
<1>7. m => hw[l].moved \/ c.kind = "step"
  BY <1>1
<1>8. c.kind = "normal" => ~m
  BY DEF IsNormal
<1> HIDE DEF c, m, moves
<1>9. hw' \in [Lanes -> LaneStates]
  BY <1>3, <1>4, <1>5, <1>6 DEF Types, LaneStates
<1>10. /\ hw'[l].command = hw[l].command /\ hw'[l].answers = c /\ hw'[l].moved = m
       /\ \A k \in Lanes \ {l} : hw'[k] = hw[k]
  BY <1>3, <1>4, <1>6 DEF Types, LaneStates
<1>11. \A k \in Lanes : Astray(k)' => Astray(k)
  BY <1>7, <1>10 DEF Astray, c
<1>12. \A k \in Lanes : hw'[k].answers.kind = "normal" => ~hw'[k].moved
  BY <1>3, <1>8, <1>10 DEF Found
<1>13. \A k \in Lanes : hw'[k].command = hw[k].command
  BY <1>10
<1>14. Types'
  BY <1>2, <1>3, <1>9 DEF Types
<1>15. Whereabouts' /\ Given'
  BY <1>2, <1>3 DEF Whereabouts, Given, Kept
<1>16. Found'
  <2>1. \A k \in Lanes : Astray(k)' => k \in hurt' \/ AtWork(k)'
    BY <1>2, <1>3, <1>11 DEF Found, AtWork
  <2>2. at.pc \in {"noWrite", "noRead", "read"} => at.lane \in Lanes
    BY <1>3 DEF Whereabouts, Driving
  <2>3. /\ at'.pc = "read" => hw'[at'.lane].command = Command'
        /\ at'.pc = "noRead" => hw'[at'.lane].command = NoCommand
    <3>1. Command' = Command
      BY <1>2, SameCommand
    <3> QED
      BY <1>2, <1>3, <1>13, <2>2, <3>1 DEF Found
  <2>4. at.pc \in {"noWrite", "noRead"} /\ at.op = "margin" /\ at.doing = "endNormal" =>
          at.lane \in hurt \/ ~Astray(at.lane)'
    BY <1>2, <1>3, <1>11, <2>2 DEF Found, Astray
  <2> QED
    BY <1>2, <1>12, <2>1, <2>3, <2>4 DEF Found
<1> QED
  BY <1>14, <1>15, <1>16 DEF IInv

LEMMA LookKeeps == IInv /\ Look => IInv'
<1> SUFFICES ASSUME IInv, Look
             PROVE  IInv'
  OBVIOUS
<1>1. /\ at.pc = "look" /\ Types /\ Found /\ UNCHANGED <<hw, link, before, lost, hurt>>
      /\ link = before /\ lost = {}
  BY DEF IInv, Look, history, Given
<1>2. at \in Places /\ Width \in Nat /\ link \in Links
  BY <1>1, MarginAssumption DEF Types
<1>3. \A l \in Lanes : Astray(l) => l \in hurt
  BY <1>1 DEF Found, AtWork, Driving
<1>4. CASE at.op = "margin" /\ saved' = ReadSettings /\ at' = [at EXCEPT !.pc = "set", !.todo = Settings]
  <2>1. Settings \in ToChange /\ Settings \in Seq(Items)
    BY Lists DEF Settings, Items, Names
  <2>2. /\ at' \in Places /\ at'.pc = "set" /\ at'.todo = Settings /\ at'.op = "margin"
        /\ saved' = link
    BY <1>2, <1>4, <2>1 DEF Places, Points, ReadSettings
  <2>3. Types'
    BY <1>1, <1>2, <2>2 DEF Types
  <2>4. Whereabouts'
    BY <2>2 DEF Whereabouts, Driving
  <2>5. In(Settings) = Names
    BY Lists DEF Settings
  <2>6. Given'
    BY <1>1, <2>1, <2>2, <2>5 DEF Given
  <2>7. Found'
    BY <1>1, <1>3, <2>2 DEF Found, Astray
  <2> QED
    BY <2>3, <2>4, <2>6, <2>7 DEF IInv
<1>5. CASE /\ at.op = "capacities" /\ at.lane < Width /\ UNCHANGED saved
           /\ at' = [at EXCEPT !.pc = "write", !.doing = "caps", !.todo = Reports]
  <2>1. Reports \in Seq(Questions) /\ Len(Reports) = 5
    <3>1. <<"caps", "voltSteps", "timeSteps">> \in Seq(Questions) /\ Offsets \in Seq(Questions)
      BY DEF Questions, Offsets
    <3>2. Len(<<"caps", "voltSteps", "timeSteps">>) + Len(Offsets) = 5
      BY DEF Offsets
    <3> QED
      BY <3>1, <3>2, ConcatProperties DEF Reports
  <2>2. Reports \in Seq(Questions) /\ Reports \in Seq(Items) /\ Reports # <<>>
    <3>1. <<"caps", "voltSteps", "timeSteps">> \in Seq(Items) /\ Offsets \in Seq(Items)
      BY DEF Questions, Items, Offsets
    <3>2. Reports \in Seq(Items)
      BY <3>1, ConcatProperties DEF Reports
    <3>3. Len(<<>>) # 5
      OBVIOUS
    <3> QED
      BY <2>1, <3>2, <3>3, Zenon
  <2>3. /\ at' \in Places /\ at'.pc = "write" /\ at'.todo = Reports /\ at'.op = "capacities"
        /\ at'.doing = "caps" /\ at'.lane = at.lane
    BY <1>2, <1>5, <2>2 DEF Places, Points, Questions, Driving
  <2>4. at.lane \in Lanes
    BY <1>2, <1>5 DEF Places, Lanes
  <2>5. Types'
    BY <1>1, <1>5, <2>3 DEF Types
  <2>6. Whereabouts'
    BY <2>2, <2>3, <2>4 DEF Whereabouts, Driving, Questions
  <2>7. Given'
    BY <1>1, <2>3 DEF Given
  <2>8. Found'
    BY <1>1, <1>3, <2>3 DEF Found, Astray
  <2> QED
    BY <2>5, <2>6, <2>7, <2>8 DEF IInv
<1>6. CASE at' = Idle /\ UNCHANGED saved
  <2>1. Types'
    BY <1>1, <1>6, IdlePlace DEF Types
  <2>2. Whereabouts' /\ Given'
    BY <1>1, <1>6, IdlePlace DEF Whereabouts, Given, Kept, Driving
  <2>3. Found'
    BY <1>1, <1>3, <1>6, IdlePlace DEF Found, Astray
  <2> QED
    BY <2>1, <2>2, <2>3 DEF IInv
<1> QED
  BY <1>4, <1>5, <1>6 DEF Look, Return

(* Off the lanes, none of them changes. *)
LEMMA FoundOff ==
    ASSUME Found, at.pc \notin Driving, UNCHANGED <<hw, hurt>>,
           at'.pc \notin {"read", "noRead", "noWrite"}
    PROVE  Found'
<1>1. \A l \in Lanes : Astray(l) => l \in hurt
  BY DEF Found, AtWork
<1> QED
  BY <1>1 DEF Found, Astray

LEMMA ChangeKeeps == IInv /\ Change => IInv'
<1> SUFFICES ASSUME IInv, Change
             PROVE  IInv'
  OBVIOUS
<1> DEFINE s == Head(at.todo)
           changed == SubSeq(Settings, 1, 3 - Len(at.todo))
<1>1. at.pc = "set" /\ Types /\ Whereabouts /\ Given /\ Found /\ UNCHANGED <<hw, saved, before, hurt>>
  BY DEF IInv, Change
<1>2. /\ at \in Places /\ link \in Links /\ at.op = "margin"
      /\ at.todo \in ToChange /\ at.todo \in ToGiveBack
      /\ lost = {} /\ \A t \in In(at.todo) : link[t] = before[t]
  BY <1>1 DEF Types, Whereabouts, Given, Driving, ToGiveBack
<1>3. s \in Names /\ In(at.todo) = {s} \cup In(Tail(at.todo))
  BY <1>2, Ends
<1>4. Margining[s] \in {0, 1}
  BY <1>3 DEF Margining, Names
<1>5. CASE /\ Put(s, Margining[s])
           /\ at' = [at EXCEPT !.todo = Tail(@), !.pc = IF Len(at.todo) = 1 THEN "lane" ELSE @]
  <2>1. link' = [link EXCEPT ![s] = Margining[s]] /\ lost' = {}
    BY <1>2, <1>5 DEF Put
  <2>2. link' \in Links
    BY <1>2, <1>3, <1>4, <2>1 DEF Links
  <2>3. Tail(at.todo) \in ToGiveBack \cup {<<>>} /\ <<>> \in Seq(Items)
    BY <1>2, Ends
  <2>4. Tail(at.todo) \in Seq(Items)
    BY <2>3, Ends
  <2>5. /\ at' \in Places /\ at'.todo = Tail(at.todo) /\ at'.op = "margin"
        /\ at'.pc = IF Len(at.todo) = 1 THEN "lane" ELSE "set"
    BY <1>1, <1>2, <1>5, <2>4 DEF Places, Points
  <2>6. Types'
    BY <1>1, <2>1, <2>2, <2>5 DEF Types
  <2>7. Whereabouts'
    BY <2>5 DEF Whereabouts, Driving
  <2>8. Len(at.todo) # 1 => /\ Tail(at.todo) \in ToChange
                            /\ \A t \in In(Tail(at.todo)) : link'[t] = before[t]
    <3> SUFFICES ASSUME Len(at.todo) # 1
                 PROVE  /\ Tail(at.todo) \in ToChange
                        /\ \A t \in In(Tail(at.todo)) : link'[t] = before[t]
      OBVIOUS
    <3>1. /\ Tail(at.todo) \in ToChange /\ s \notin In(Tail(at.todo))
          /\ In(Tail(at.todo)) \subseteq In(at.todo)
      BY <1>2, Rests
    <3> QED
      BY <1>2, <2>1, <3>1 DEF Links
  <2>9. saved = before
    BY <1>1, <1>2 DEF Given
  <2>10. Given'
    BY <1>1, <2>1, <2>5, <2>8, <2>9 DEF Given
  <2>11. Found'
    BY <1>1, <2>5, FoundOff DEF Driving
  <2> QED
    BY <2>6, <2>7, <2>10, <2>11 DEF IInv
<1>6. CASE PutFails(s, Margining[s]) /\ Restore(changed, "failed")
  <2>1. lost' = {s} /\ link' \in Links /\ \A t \in Names \ {s} : link'[t] = link[t]
    BY <1>2, <1>3, <1>4, <1>6 DEF PutFails, Links
  <2>2. changed \in ToGiveBack \cup {<<>>} /\ In(at.todo) \cup In(changed) = Names
    BY <1>2, Changed
  <2>3. \A t \in Names \ In(changed) : Kept(t)'
    BY <1>1, <1>2, <2>1, <2>2 DEF Kept
  <2>4. "failed" \in Results
    BY DEF Results
  <2>5. /\ at' \in Places /\ (changed = <<>> => at' = Idle)
        /\ changed # <<>> => at'.pc = "restore" /\ at'.todo = changed /\ at'.op = "margin"
    BY <1>2, <1>6, <2>2, <2>4, Restores
  <2>6. saved = before
    BY <1>1, <1>2 DEF Given
  <2>7. Types'
    BY <1>1, <1>3, <2>1, <2>5 DEF Types
  <2> HIDE DEF changed
  <2>8. Whereabouts'
    BY <2>5, IdlePlace DEF Whereabouts, Driving
  <2>9. Given'
    <3>1. CASE changed = <<>>
      <4>1. In(changed) = {}
        BY <3>1, Lists
      <4> QED
        BY <2>3, <2>5, <3>1, <4>1, IdlePlace DEF Given
    <3>2. CASE changed # <<>>
      BY <1>1, <2>2, <2>3, <2>5, <2>6, <3>2 DEF Given
    <3> QED
      BY <3>1, <3>2
  <2>10. Found'
    BY <1>1, <2>5, FoundOff, IdlePlace DEF Driving
  <2> QED
    BY <2>7, <2>8, <2>9, <2>10 DEF IInv
<1> QED
  BY <1>5, <1>6 DEF Change

LEMMA GiveBackKeeps == IInv /\ GiveBack => IInv'
<1> SUFFICES ASSUME IInv, GiveBack
             PROVE  IInv'
  OBVIOUS
<1> DEFINE s == Head(at.todo)
           rest == Tail(at.todo)
<1>1. /\ at.pc = "restore" /\ Types /\ Whereabouts /\ Given /\ Found
      /\ UNCHANGED <<hw, saved, before, hurt>> /\ Restore(rest, at.then)
  BY DEF IInv, GiveBack
<1>2. /\ at \in Places /\ link \in Links /\ saved \in Links /\ lost \subseteq Names /\ at.op = "margin"
      /\ at.then \in Results /\ saved = before /\ at.todo \in ToGiveBack
      /\ \A t \in Names \ In(at.todo) : Kept(t)
  BY <1>1 DEF Types, Whereabouts, Given, Driving, Places
<1>3. s \in Names /\ rest \in ToGiveBack \cup {<<>>} /\ In(at.todo) = {s} \cup In(rest)
  BY <1>2, Ends
<1>4. /\ link' \in Links /\ lost' \subseteq Names /\ lost \subseteq lost'
      /\ \A t \in Names \ {s} : link'[t] = link[t]
      /\ link'[s] = before[s] \/ s \in lost'
  <2>1. saved[s] \in {0, 1}
    BY <1>2, <1>3 DEF Links
  <2>2. CASE Put(s, saved[s])
    BY <1>2, <1>3, <2>1, <2>2 DEF Put, Links
  <2>3. CASE PutFails(s, saved[s])
    BY <1>2, <1>3, <2>1, <2>3 DEF PutFails, Links
  <2> QED
    BY <2>2, <2>3 DEF GiveBack
<1>5. \A t \in Names \ In(rest) : Kept(t)'
  BY <1>1, <1>2, <1>3, <1>4 DEF Kept
<1>6. /\ at' \in Places /\ (rest = <<>> => at' = Idle)
      /\ rest # <<>> => at'.pc = "restore" /\ at'.todo = rest /\ at'.op = "margin"
  BY <1>1, <1>2, <1>3, Restores
<1>7. Types'
  BY <1>1, <1>4, <1>6 DEF Types
<1> HIDE DEF rest
<1>8. Whereabouts'
  BY <1>6, IdlePlace DEF Whereabouts, Driving
<1>9. Given'
  <2>1. CASE rest = <<>>
    <3>1. In(rest) = {}
      BY <2>1, Lists
    <3> QED
      BY <1>5, <1>6, <2>1, <3>1, IdlePlace DEF Given
  <2>2. CASE rest # <<>>
    BY <1>1, <1>2, <1>3, <1>5, <1>6, <2>2 DEF Given
  <2> QED
    BY <2>1, <2>2
<1>10. Found'
  BY <1>1, <1>6, FoundOff, IdlePlace DEF Driving
<1> QED
  BY <1>7, <1>8, <1>9, <1>10 DEF IInv

LEMMA NextLaneKeeps == IInv /\ NextLane => IInv'
<1> SUFFICES ASSUME IInv, NextLane
             PROVE  IInv'
  OBVIOUS
<1>1. /\ at.pc = "lane" /\ Types /\ Whereabouts /\ Given /\ Found
      /\ UNCHANGED <<hw, link, saved, before, lost, hurt>>
  BY DEF IInv, NextLane, history
<1>2. at \in Places /\ at.op = "margin" /\ saved = before /\ Width \in Nat
  BY <1>1, MarginAssumption DEF Types, Whereabouts, Given, Driving
<1>3. CASE \E r \in {"success", "invalid"} : Restore(Settings, r)
  <2>0. Settings \in ToGiveBack
    BY Lists DEF ToGiveBack
  <2>1. Settings # <<>> /\ {"success", "invalid"} \subseteq Results
    BY <2>0, Ends DEF Results
  <2>2. at' \in Places /\ at'.pc = "restore" /\ at'.todo = Settings /\ at'.op = "margin"
    BY <1>2, <1>3, <2>0, <2>1, Restores
  <2>3. In(Settings) = Names
    BY Lists DEF Settings
  <2>4. Types' /\ Whereabouts'
    BY <1>1, <2>2 DEF Types, Whereabouts, Driving
  <2>5. Given'
    BY <1>1, <1>2, <2>0, <2>2, <2>3 DEF Given
  <2>6. Found'
    BY <1>1, <2>2, FoundOff DEF Driving
  <2> QED
    BY <2>4, <2>5, <2>6 DEF IInv
<1>4. CASE /\ at.lane < Width
           /\ at' = [at EXCEPT !.left = @ \ {at.lane}, !.pc = "write", !.doing = "limit"]
  <2>1. at.left \ {at.lane} \in SUBSET Nat
    BY <1>2 DEF Places
  <2>2. /\ at' \in Places /\ at'.pc = "write" /\ at'.doing = "limit" /\ at'.op = "margin"
        /\ at'.lane = at.lane
    BY <1>2, <1>4, <2>1 DEF Places, Points, Driving, Orders
  <2>3. at.lane \in Lanes
    BY <1>2, <1>4 DEF Places, Lanes
  <2>4. Types' /\ Whereabouts' /\ Given'
    BY <1>1, <1>2, <2>2, <2>3 DEF Types, Whereabouts, Given, Driving, Orders
  <2>5. Found'
    BY <1>1, <2>2, FoundOff DEF Driving
  <2> QED
    BY <2>4, <2>5 DEF IInv
<1> QED
  BY <1>3, <1>4 DEF NextLane

LEMMA ReadReceiverKeeps == IInv /\ ReadReceiver => IInv'
<1> SUFFICES ASSUME IInv, ReadReceiver
             PROVE  IInv'
  OBVIOUS
<1>1. /\ at.pc = "rx" /\ Types /\ Whereabouts /\ Given /\ Found
      /\ UNCHANGED <<hw, link, saved, before, lost, hurt>>
  BY DEF IInv, ReadReceiver, history
<1>2. at \in Places /\ at.op = "margin" /\ at.lane \in Lanes
  BY <1>1 DEF Types, Whereabouts, Driving
<1>3. Onward /\ at'.pc \notin {"read", "noRead", "noWrite"}
  <2>1. CASE Do("count")
    <3>1. "count" \in Orders
      BY DEF Orders
    <3> QED
      BY <1>2, <2>1, <3>1, Does DEF Onward, Driving
  <2>2. CASE Break("failed")
    BY <1>2, <2>2, Breaks DEF Onward
  <2> QED
    BY <2>1, <2>2 DEF ReadReceiver
<1>4. Types'
  BY <1>1, <1>3 DEF Types, Onward
<1>5. Whereabouts' /\ Given'
  BY <1>1, <1>3, OnwardKeeps
<1>6. Found'
  BY <1>1, <1>3, FoundOff DEF Driving
<1> QED
  BY <1>4, <1>5, <1>6 DEF IInv

(* Where an access failed or an answer was missing, the lane is hurt unless only
   the clear of its error log was; then the way back follows. *)
LEMMA GivingUpKeeps ==
    ASSUME IInv, at.pc \in Driving, NotAnswered, Hurt(at.lane),
           hw' \in {hw, [hw EXCEPT ![at.lane].command = Command],
                    [hw EXCEPT ![at.lane].command = NoCommand]},
           UNCHANGED <<link, saved, before, lost>>
    PROVE  IInv'
<1>1. Types /\ Whereabouts /\ Given /\ Found /\ at.lane \in Lanes
  BY DEF IInv, Whereabouts
<1>2. Onward /\ at'.pc \notin {"read", "noRead", "noWrite"}
  BY <1>1, Unanswered
<1>3. at.doing = "endClear" => \A l \in {at.lane} : AtWork(l)'
  BY <1>1, Unanswered
<1>4. Command \in Commands /\ NoCommand \in Commands
  BY <1>1, CommandKind
<1>5. hw' \in [Lanes -> LaneStates]
  BY <1>1, <1>4 DEF Types, LaneStates
<1>6. \A l \in Lanes : /\ hw'[l].moved = hw[l].moved /\ hw'[l].answers = hw[l].answers
                       /\ l # at.lane => hw'[l] = hw[l]
  BY <1>1 DEF Types, LaneStates
<1>7. hurt' \subseteq Lanes /\ hurt \subseteq hurt' /\ (at.doing # "endClear" => at.lane \in hurt')
  BY <1>1 DEF Hurt, Types
<1>8. Types'
  BY <1>1, <1>2, <1>5, <1>7 DEF Types, Onward
<1>9. Whereabouts' /\ Given'
  BY <1>1, <1>2, OnwardKeeps
<1>10. Found'
  BY <1>1, <1>2, <1>3, <1>6, <1>7, FoundOn
<1> QED
  BY <1>8, <1>9, <1>10 DEF IInv

LEMMA WriteKeeps == IInv /\ Write => IInv'
<1> SUFFICES ASSUME IInv, Write
             PROVE  IInv'
  OBVIOUS
<1> DEFINE c == IF at.pc = "write" THEN Command ELSE NoCommand
           sent == [hw EXCEPT ![at.lane].command = c]
           next == IF at.pc = "write" THEN "read" ELSE "noRead"
<1>1. /\ at.pc \in {"write", "noWrite"} /\ at.pc \in Driving
      /\ Types /\ Whereabouts /\ Given /\ Found /\ UNCHANGED <<link, saved, before, lost>>
  BY DEF IInv, Write, Driving
<1>2. at \in Places /\ at.lane \in Lanes
  BY <1>1 DEF Types, Whereabouts
<1>3. CASE hw' = sent /\ UNCHANGED hurt /\ Goto(next)
  <2>1. next \in Points /\ next \in Driving
    BY DEF Points, Driving
  <2>2. /\ at' \in Places /\ at'.pc = next /\ at'.doing = at.doing /\ at'.op = at.op
        /\ at'.lane = at.lane /\ at'.todo = at.todo /\ at'.steps = at.steps
    BY <1>2, <1>3, <2>1, Goes
  <2>3. Command' = Command
    BY <2>2, SameCommand
  <2>4. /\ Command \in Commands /\ NoCommand \in Commands /\ NoCommand.kind = "none"
        /\ Command.kind = "step" <=> at.doing = "step"
    BY <1>1, CommandKind
  <2>5. c \in Commands /\ (c.kind = "step" => at.pc = "write" /\ at.doing = "step")
    BY <2>4
  <2> HIDE DEF c
  <2>6. /\ hw' \in [Lanes -> LaneStates] /\ hw'[at.lane].command = c
        /\ \A l \in Lanes : /\ hw'[l].moved = hw[l].moved /\ hw'[l].answers = hw[l].answers
                            /\ l # at.lane => hw'[l].command = hw[l].command
    BY <1>1, <1>2, <1>3, <2>5 DEF Types, LaneStates
  <2>7. Types'
    BY <1>1, <1>3, <2>2, <2>6 DEF Types
  <2>8. Whereabouts' /\ Given'
    BY <1>1, <1>2, <2>1, <2>2 DEF Whereabouts, Given, Driving
  <2>9. \A l \in Lanes : AtWork(l) => AtWork(l)'
    BY <2>1, <2>2 DEF AtWork
  <2>10. c.kind = "step" => at.op = "margin"
    BY <1>1, <2>5 DEF Whereabouts, Questions, Driving
  <2>11. \A l \in Lanes : Astray(l)' => l \in hurt' \/ AtWork(l)'
    <3> SUFFICES ASSUME NEW l \in Lanes, Astray(l)'
                 PROVE  l \in hurt' \/ AtWork(l)'
      OBVIOUS
    <3>1. CASE Astray(l)
      BY <1>1, <1>3, <2>9, <3>1 DEF Found
    <3>2. CASE ~Astray(l)
      <4>1. l = at.lane /\ c.kind = "step"
        BY <2>6, <3>2 DEF Astray
      <4> QED
        BY <2>1, <2>2, <2>5, <2>10, <4>1 DEF AtWork
    <3> QED
      BY <3>1, <3>2
  <2>12. at.pc = "noWrite" /\ at.op = "margin" /\ at.doing = "endNormal" =>
           at.lane \in hurt \/ ~(hw'[at.lane].moved \/ hw'[at.lane].command.kind = "step")
    BY <1>1, <1>2, <2>5, <2>6 DEF Found, Astray
  <2>13. Found'
    <3>1. /\ at'.pc = "read" => hw'[at'.lane].command = Command'
          /\ at'.pc = "noRead" => hw'[at'.lane].command = NoCommand
      BY <1>1, <2>2, <2>3, <2>6 DEF c
    <3>2. \A l \in Lanes : hw'[l].answers.kind = "normal" => ~hw'[l].moved
      BY <1>1, <2>6 DEF Found
    <3>3. at'.pc \in {"noWrite", "noRead"} => at.pc = "noWrite"
      BY <1>1, <2>2
    <3> QED
      BY <1>3, <2>2, <2>11, <2>12, <3>1, <3>2, <3>3 DEF Found, Astray
  <2> QED
    BY <2>7, <2>8, <2>13 DEF IInv
<1>4. CASE hw' \in {hw, sent} /\ Hurt(at.lane) /\ NotAnswered
  <2>1. hw' \in {hw, [hw EXCEPT ![at.lane].command = Command],
                 [hw EXCEPT ![at.lane].command = NoCommand]}
    BY <1>4
  <2> QED
    BY <1>1, <1>4, <2>1, GivingUpKeeps
<1> QED
  BY <1>3, <1>4 DEF Write

LEMMA DirectionsListed == ASSUME NEW caps PROVE DirectionsOf(caps) \in Seq(Items)
<1> DEFINE across == IF "leftRight" \in caps THEN <<"right", "left">> ELSE <<"right">>
           along == IF "voltage" \notin caps THEN <<>>
                    ELSE IF "upDown" \in caps THEN <<"up", "down">> ELSE <<"up">>
<1>0. {"right", "left", "up", "down"} \subseteq Items
  BY DEF Items, Directions
<1>1. across \in Seq(Items)
  <2>1. <<"right", "left">> \in Seq(Items) /\ <<"right">> \in Seq(Items)
    BY <1>0
  <2> QED
    BY <2>1, Zenon
<1>2. along \in Seq(Items)
  <2>1. <<"up", "down">> \in Seq(Items) /\ <<"up">> \in Seq(Items) /\ <<>> \in Seq(Items)
    BY <1>0
  <2> QED
    BY <2>1, Zenon
<1> QED
  BY <1>1, <1>2, ConcatProperties DEF DirectionsOf

(* A command that was answered is followed by NoCommand. *)
LEMMA TookGoes ==
    ASSUME Types, Whereabouts, at.pc = "read", Took
    PROVE  /\ at' \in Places /\ at'.pc = "noWrite" /\ at'.doing = at.doing /\ at'.op = at.op
           /\ at'.lane = at.lane /\ (at.op = "capacities" => at'.todo = at.todo)
<1>0. at \in Places /\ "noWrite" \in Points
  BY DEF Types, Points, Driving
<1>1. CASE /\ at.op = "margin"
           /\ at' = [at EXCEPT !.todo = DirectionsOf(Abilities[at.lane]), !.pc = "noWrite"]
  <2>1. DirectionsOf(Abilities[at.lane]) \in Seq(Items)
    BY DirectionsListed
  <2> QED
    BY <1>0, <1>1, <2>1 DEF Places
<1>2. CASE \E n \in Reported : at' = [at EXCEPT !.limit = Limit(n), !.pc = "noWrite"]
  <2>1. PICK n \in Reported : at' = [at EXCEPT !.limit = Limit(n), !.pc = "noWrite"]
    BY <1>2
  <2>2. Limit(n) \in Nat
    BY MarginAssumption DEF Limit
  <2> QED
    BY <1>0, <2>1, <2>2 DEF Places
<1>3. CASE at' = [at EXCEPT !.pc = "noWrite"]
  BY <1>0, <1>3 DEF Places
<1> QED
  BY <1>1, <1>2, <1>3 DEF Took

LEMMA ReadKeeps == IInv /\ Read => IInv'
<1> SUFFICES ASSUME IInv, Read
             PROVE  IInv'
  OBVIOUS
<1> DEFINE c == IF at.pc = "read" THEN Command ELSE NoCommand
<1>1. /\ at.pc \in {"read", "noRead"} /\ at.pc \in Driving
      /\ Types /\ Whereabouts /\ Given /\ Found /\ UNCHANGED <<hw, link, saved, before, lost>>
  BY DEF IInv, Read, Driving
<1>2. at \in Places /\ at.lane \in Lanes
  BY <1>1 DEF Types, Whereabouts
<1>3. /\ NoCommand.kind = "none" /\ (Command.kind = "step" <=> at.doing = "step")
      /\ Command.kind = "normal" <=> at.doing = "endNormal"
  BY <1>1, CommandKind
<1>4. CASE /\ at.pc = "read" /\ hw[at.lane].answers = c /\ Took
           /\ hurt' = IF c.kind = "normal" THEN hurt \ {at.lane} ELSE hurt
  <2>1. /\ at' \in Places /\ at'.pc = "noWrite" /\ at'.doing = at.doing /\ at'.op = at.op
        /\ at'.lane = at.lane /\ (at.op = "capacities" => at'.todo = at.todo)
    BY <1>1, <1>4, TookGoes
  <2>2. at.doing = "endNormal" => ~Astray(at.lane)
    BY <1>1, <1>2, <1>3, <1>4 DEF Found, Astray
  <2>3. Types'
    BY <1>1, <1>4, <2>1 DEF Types
  <2>4. Whereabouts' /\ Given'
    BY <1>1, <1>2, <2>1 DEF Whereabouts, Given, Driving
  <2>5. \A l \in Lanes : Astray(l)' => l \in hurt' \/ AtWork(l)'
    <3> SUFFICES ASSUME NEW l \in Lanes, Astray(l)
                 PROVE  l \in hurt' \/ AtWork(l)'
      BY <1>1 DEF Astray
    <3>1. CASE l \in hurt
      BY <1>3, <1>4, <2>2, <3>1
    <3>2. CASE AtWork(l)
      BY <2>1, <3>2 DEF AtWork, Driving
    <3> QED
      BY <1>1, <3>1, <3>2 DEF Found
  <2>6. Found'
    BY <1>1, <2>1, <2>2, <2>5 DEF Found, Astray
  <2> QED
    BY <2>3, <2>4, <2>6 DEF IInv
<1>5. CASE at.pc = "noRead" /\ Answered /\ UNCHANGED hurt
  <2>1. Onward /\ at'.pc \notin {"read", "noRead", "noWrite"}
    BY <1>1, <1>5, Continues
  <2>2. at.op = "margin" /\ at.doing \in {"step", "clear", "endClear"} =>
          \A l \in {at.lane} : AtWork(l)'
    BY <1>1, <1>5, Continues
  <2>3. Types'
    BY <1>1, <1>5, <2>1 DEF Types, Onward
  <2>4. Whereabouts' /\ Given'
    BY <1>1, <2>1, OnwardKeeps
  <2>5. \A l \in {at.lane} : Astray(l) => l \in hurt \/ AtWork(l)'
    BY <1>1, <1>2, <1>5, <2>2 DEF Found, AtWork
  <2>6. Found'
    BY <1>1, <1>2, <1>5, <2>1, <2>5, FoundOn DEF Astray
  <2> QED
    BY <2>3, <2>4, <2>6 DEF IInv
<1>6. CASE Hurt(at.lane) /\ NotAnswered
  BY <1>1, <1>6, GivingUpKeeps
<1> QED
  <2>1. c.kind = "normal" => at.pc = "read"
    BY <1>3
  <2> QED
    BY <1>1, <1>4, <1>5, <1>6, <2>1 DEF Read

LEMMA ReadStepKeeps == IInv /\ ReadStep => IInv'
<1> SUFFICES ASSUME IInv, ReadStep
             PROVE  IInv'
  OBVIOUS
<1>1. /\ at.pc = "read" /\ at.pc \in Driving /\ at.doing = "step"
      /\ Types /\ Whereabouts /\ Given /\ Found /\ UNCHANGED <<hw, link, saved, before, lost>>
  BY DEF IInv, ReadStep, Driving
<1>2. at \in Places /\ at.lane \in Lanes /\ at.op = "margin"
  BY <1>1 DEF Types, Whereabouts, Questions
<1>3. CASE Goto("noWrite") /\ UNCHANGED hurt
  <2>0. "noWrite" \in Points
    BY DEF Points, Driving
  <2>1. /\ at' \in Places /\ at'.pc = "noWrite" /\ at'.doing = "step" /\ at'.op = "margin"
        /\ at'.lane = at.lane
    BY <1>1, <1>2, <1>3, <2>0, Goes
  <2>2. Types'
    BY <1>1, <1>3, <2>1 DEF Types
  <2>3. Whereabouts' /\ Given'
    BY <1>1, <1>2, <2>1 DEF Whereabouts, Given, Driving
  <2>4. Found'
    BY <1>1, <1>2, <1>3, <2>1 DEF Found, Astray, AtWork, Driving
  <2> QED
    BY <2>2, <2>3, <2>4 DEF IInv
<1>4. CASE Do("endClear") /\ UNCHANGED hurt
  <2>1. Onward /\ at'.pc = "write" /\ \A l \in {at.lane} : AtWork(l)'
    <3>1. "endClear" \in Orders
      BY DEF Orders
    <3> QED
      BY <1>2, <1>4, <3>1, Does DEF Onward, Driving, AtWork
  <2>2. Types'
    BY <1>1, <1>4, <2>1 DEF Types, Onward
  <2>3. Whereabouts' /\ Given'
    BY <1>1, <2>1, OnwardKeeps
  <2>4. Found'
    BY <1>1, <1>2, <1>4, <2>1, FoundOn
  <2> QED
    BY <2>2, <2>3, <2>4 DEF IInv
<1>5. CASE Hurt(at.lane) /\ (Break("failed") \/ Finish(0))
  <2>1. Onward /\ at'.pc \notin {"read", "noRead", "noWrite"}
    BY <1>2, <1>5, Breaks, Finishes DEF Onward
  <2>2. hurt' = hurt \cup {at.lane} /\ hurt' \subseteq Lanes
    BY <1>1, <1>2, <1>5 DEF Hurt, Types
  <2>3. Types'
    BY <1>1, <2>1, <2>2 DEF Types, Onward
  <2>4. Whereabouts' /\ Given'
    BY <1>1, <2>1, OnwardKeeps
  <2>5. Found'
    BY <1>1, <1>2, <2>1, <2>2, FoundOn
  <2> QED
    BY <2>3, <2>4, <2>5 DEF IInv
<1> QED
  BY <1>3, <1>4, <1>5 DEF ReadStep

-----------------------------------------------------------------------------
LEMMA Invariance == Spec => []IInv
<1>1. IInv /\ [Next]_vars => IInv'
  <2> SUFFICES ASSUME IInv, [Next]_vars
               PROVE  IInv'
    OBVIOUS
  <2>1. CASE Begin
    BY <2>1, BeginKeeps
  <2>2. CASE \E l \in Lanes : Answer(l)
    BY <2>2, AnswerKeeps
  <2>3. CASE Look
    BY <2>3, LookKeeps
  <2>4. CASE Change
    BY <2>4, ChangeKeeps
  <2>5. CASE GiveBack
    BY <2>5, GiveBackKeeps
  <2>6. CASE NextLane
    BY <2>6, NextLaneKeeps
  <2>7. CASE ReadReceiver
    BY <2>7, ReadReceiverKeeps
  <2>8. CASE Write
    BY <2>8, WriteKeeps
  <2>9. CASE Read
    BY <2>9, ReadKeeps
  <2>10. CASE ReadStep
    BY <2>10, ReadStepKeeps
  <2>11. CASE UNCHANGED vars
    <3>1. UNCHANGED <<hw, link, at, saved, before, lost, hurt>>
      BY <2>11 DEF vars
    <3>2. Command' = Command
      BY <3>1, SameCommand
    <3>3. Types' /\ Whereabouts' /\ Given'
      BY <3>1 DEF IInv, Types, Whereabouts, Given, Kept
    <3>4. Found'
      BY <3>1, <3>2 DEF IInv, Found, Astray, AtWork
    <3> QED
      BY <3>3, <3>4 DEF IInv
  <2> QED
    BY <2>1, <2>2, <2>3, <2>4, <2>5, <2>6, <2>7, <2>8, <2>9, <2>10, <2>11 DEF Next, Program
<1> QED
  BY <1>1, Started, PTL DEF Spec

(* After a call the link is managed as it was before it, but for a setting of
   which an access failed (slmSetLinkAspm and its siblings, and the restores at
   the end of ScrutinySwitchPerformLaneMargining): wherever the call gave up. *)
THEOREM SettingsAreRestored == Spec => []SettingsRestored
<1>1. IInv => SettingsRestored
  <2>1. Types => DOMAIN link = Names
    BY DEF Types, Links
  <2> QED
    BY <2>1 DEF IInv, Given, Kept, SettingsRestored
<1> QED
  BY <1>1, Invariance, PTL

(* After a call a lane is moved only when it broke off among its own steps or its
   way back was not answered (slmTimeMargining, slmVoltageMargining). *)
THEOREM LanesAreNormal == Spec => []LanesBackToNormal
<1>1. IInv => LanesBackToNormal
  BY DEF IInv, Found, Astray, AtWork, LanesBackToNormal, Driving
<1> QED
  BY <1>1, Invariance, PTL

-----------------------------------------------------------------------------
(* What was measured.  MInv is kept by every step from a state with IInv: the
   answer is filled slot by slot, one for each lane asked for, and within the
   slot direction by direction; what is not done yet is still blank, and the
   steps counted for the direction at hand are those that really passed. *)

(* The answer: what it holds of the lanes that are done, and what is still to come. *)
Texts ==
    /\ resp \in [Slots -> [Directions -> Int]]
    /\ truth \in [Lanes -> [Directions -> Nat]]

(* Where a lane's answer goes: one slot for each lane of the request below it. *)
Below(l) == {m \in at.ask : m < l}
Packed ==
    /\ at.op # "margin" => at.ask = {}
    /\ at.left \subseteq at.ask
    /\ at.op = "margin" /\ at.pc \notin {"idle", "restore"} => at.slot = Cardinality(Below(at.lane))
    /\ at.pc \in {"rx"} \cup Driving /\ at.op = "margin" => at.lane \in at.ask

(* The lane at hand is not in its steps yet, or it is. *)
Ahead == at.op = "margin" /\ at.pc \in {"look", "set", "lane"}
Settling == at.op = "margin" /\ at.pc \in Driving /\ at.doing \in {"limit", "caps"}
Stepping ==
    /\ at.op = "margin"
    /\ \/ at.pc = "rx"
       \/ at.pc \in Driving /\ at.doing \in {"count", "step", "clear", "endClear", "endNormal"}
       \/ at.pc \in {"noWrite", "noRead"} /\ at.doing = "caps"

ToCome ==
    /\ Ahead => \A s \in Slots, d \in Directions : s >= at.slot => resp[s][d] = Unset
    /\ Settling \/ Stepping => \A s \in Slots, d \in Directions : s > at.slot => resp[s][d] = Unset
    /\ Ahead => \A l \in Lanes, d \in Directions : l >= at.lane => truth[l][d] = 0
    /\ Settling \/ Stepping => \A l \in Lanes, d \in Directions : l > at.lane => truth[l][d] = 0
    /\ Settling => \A d \in Directions : truth[at.lane][d] = 0 /\ resp[at.slot][d] = Blank

(* The directions that are not done: none of them twice, and nothing in the
   answer for them. *)
Once(list) == \A i, j \in 1..Len(list) : i # j => list[i] # list[j]
ToDo ==
    Stepping =>
        /\ at.todo \in Seq(Directions) /\ at.todo # <<>> /\ Once(at.todo)
        /\ \A i \in 1..Len(at.todo) : /\ resp[at.slot][at.todo[i]] = Blank
                                      /\ i > 1 => truth[at.lane][at.todo[i]] = 0

(* How many steps of the direction at hand have passed. *)
JustPassed == hw[at.lane].answers = Command /\ hw[at.lane].code = "pass"
OnePassed ==
    \/ at.doing = "clear"
    \/ at.doing = "step" /\ (at.pc \in {"noWrite", "noRead"} \/ (at.pc = "read" /\ JustPassed))
Passed == IF at.pc = "rx" \/ at.doing \in {"caps", "count"} THEN 0
          ELSE IF OnePassed THEN at.steps + 1 ELSE at.steps
Counted == Stepping /\ <<at.lane, Dir>> \notin blurred => truth[at.lane][Dir] = Passed

(* No answer to a step is there before the step is sent. *)
Quiet ==
    at.doing = "step" =>
        /\ at.pc = "write" => hw[at.lane].command = NoCommand /\ hw[at.lane].answers = NoCommand
        /\ at.pc = "read" => hw[at.lane].answers \in {NoCommand, Command}

MInv == Texts /\ Packed /\ ToCome /\ ToDo /\ Counted /\ Quiet /\ StepsMeasured

-----------------------------------------------------------------------------
(* The slots of the answer. *)
LEMMA BelowIsFinite ==
    ASSUME at.ask \subseteq Nat, NEW l \in Nat
    PROVE  IsFiniteSet(Below(l)) /\ Cardinality(Below(l)) \in Nat /\ Cardinality(Below(l)) <= l
<1>1. Below(l) \in SUBSET (0..l-1)
  BY DEF Below
<1>2. IsFiniteSet(0..l-1) /\ Cardinality(0..l-1) = l
  BY FS_Interval
<1>3. IsFiniteSet(Below(l)) /\ Cardinality(Below(l)) <= l
  BY <1>1, <1>2, FS_Subset
<1> QED
  BY <1>3, FS_CardinalityType

(* A lane above another one has a slot above. *)
LEMMA SlotsInOrder ==
    ASSUME at.ask \subseteq Nat, NEW k \in at.ask, NEW l \in Nat, k < l
    PROVE  Cardinality(Below(k)) < Cardinality(Below(l))
<1>1. /\ IsFiniteSet(Below(k)) /\ Cardinality(Below(k)) \in Nat
      /\ IsFiniteSet(Below(l)) /\ Cardinality(Below(l)) \in Nat
  BY BelowIsFinite
<1>2. k \notin Below(k)
  BY DEF Below
<1>3. IsFiniteSet(Below(k) \cup {k}) /\ Cardinality(Below(k) \cup {k}) = Cardinality(Below(k)) + 1
  BY <1>1, <1>2, FS_AddElement
<1>4. Below(k) \cup {k} \in SUBSET Below(l)
  BY DEF Below
<1>5. Cardinality(Below(k) \cup {k}) <= Cardinality(Below(l))
  BY <1>1, <1>4, FS_Subset
<1> QED
  BY <1>1, <1>3, <1>5

LEMMA NextSlot ==
    ASSUME at.ask \subseteq Nat, NEW l \in at.ask
    PROVE  Cardinality(Below(l + 1)) = Cardinality(Below(l)) + 1
<1>1. IsFiniteSet(Below(l)) /\ l \notin Below(l)
  BY BelowIsFinite DEF Below
<1>2. Below(l + 1) = Below(l) \cup {l}
  BY DEF Below
<1> QED
  BY <1>1, <1>2, FS_AddElement

(* The slot of the lane at hand is no other lane's. *)
LEMMA OwnSlot ==
    ASSUME IInv, MInv, at.op = "margin", at.pc \in {"rx"} \cup Driving
    PROVE  /\ at.lane \in Lanes /\ at.lane \in at.ask /\ at.lane \in Nat /\ at.ask \subseteq Nat
           /\ at.slot \in Slots /\ at.slot = Cardinality(Below(at.lane))
           /\ \A l \in Lanes : InSlot(l, at.slot) => l = at.lane
           /\ \A s \in Slots : InSlot(at.lane, s) => s = at.slot
<1>1. /\ at.lane \in Lanes /\ at.lane \in at.ask /\ at.ask \subseteq Nat
      /\ at.slot = Cardinality(Below(at.lane))
  BY DEF IInv, Whereabouts, Types, Places, MInv, Packed, Driving
<1>2. at.lane \in Nat /\ Width \in Nat
  BY <1>1, MarginAssumption DEF Lanes
<1>3. at.slot \in Slots
  <2>1. at.slot \in Nat /\ at.slot <= at.lane
    BY <1>1, <1>2, BelowIsFinite
  <2> QED
    BY <1>1, <1>2, <2>1 DEF Lanes, Slots
<1>4. \A l \in Lanes : InSlot(l, at.slot) => l = at.lane
  <2> SUFFICES ASSUME NEW l \in Lanes, InSlot(l, at.slot)
               PROVE  l = at.lane
    OBVIOUS
  <2>1. l \in at.ask /\ Cardinality(Below(l)) = at.slot /\ l \in Nat
    BY <1>1 DEF InSlot, Below
  <2>2. ~(l < at.lane) /\ ~(at.lane < l)
    <3>1. l < at.lane => Cardinality(Below(l)) < Cardinality(Below(at.lane))
      BY <1>1, <1>2, <2>1, SlotsInOrder
    <3>2. at.lane < l => Cardinality(Below(at.lane)) < Cardinality(Below(l))
      BY <1>1, <1>2, <2>1, SlotsInOrder
    <3>3. Cardinality(Below(l)) = Cardinality(Below(at.lane)) /\ Cardinality(Below(l)) \in Nat
      BY <1>1, <2>1, BelowIsFinite
    <3> QED
      BY <3>1, <3>2, <3>3
  <2> QED
    BY <1>2, <2>1, <2>2
<1>5. \A s \in Slots : InSlot(at.lane, s) => s = at.slot
  BY <1>1 DEF InSlot, Below
<1> QED
  BY <1>1, <1>2, <1>3, <1>4, <1>5

(* Where a call goes on within a lane. *)
SameLane ==
    /\ at'.op = at.op /\ at'.ask = at.ask /\ at'.left = at.left
    /\ at'.lane = at.lane /\ at'.slot = at.slot

LEMMA DoesThere ==
    ASSUME at \in Places, NEW kind, Do(kind)
    PROVE  /\ SameLane /\ at'.pc = "write" /\ at'.doing = kind
           /\ at'.todo = at.todo /\ at'.steps = at.steps
BY DEF Do, SameLane, Places

LEMMA GoesThere ==
    ASSUME at \in Places, NEW to, Goto(to)
    PROVE  /\ SameLane /\ at'.pc = to /\ at'.doing = at.doing
           /\ at'.todo = at.todo /\ at'.steps = at.steps
BY DEF Goto, SameLane, Places

LEMMA StepsThere ==
    ASSUME at \in Places, NEW n, NEW limit, NextStep(n, limit)
    PROVE  /\ SameLane /\ at'.pc = "write" /\ at'.doing \in {"step", "endClear"}
           /\ at'.todo = at.todo /\ at'.steps = n
BY DEF NextStep, SameLane, Places

LEMMA BreaksOff ==
    ASSUME at \in Places, Break("failed")
    PROVE  \/ at' = Idle
           \/ /\ at.op = "margin" /\ at'.pc = "restore" /\ at'.op = at.op
              /\ at'.ask = at.ask /\ at'.left = at.left
<1>1. Settings # <<>>
  BY DEF Settings
<1> QED
  BY <1>1 DEF Break, Restore, Return, Places

LEMMA RestoresThere ==
    ASSUME at \in Places, NEW list, NEW r, Restore(list, r)
    PROVE  \/ at' = Idle
           \/ at'.pc = "restore" /\ at'.op = at.op /\ at'.ask = at.ask /\ at'.left = at.left
BY DEF Restore, Return, Places

-----------------------------------------------------------------------------
(* What was measured stays measured. *)
LEMMA StaysMeasured ==
    ASSUME StepsMeasured, at'.ask \in {at.ask, {}}, UNCHANGED <<resp, truth>>,
           blurred \subseteq blurred'
    PROVE  StepsMeasured'
<1> SUFFICES ASSUME NEW l \in Lanes, NEW s \in Slots, NEW d \in Directions,
                    InSlot(l, s)', resp[s][d] \notin {Unset, Blank}, <<l, d>> \notin blurred'
             PROVE  resp[s][d] = IF truth[l][d] = 0 THEN NoStep ELSE truth[l][d] - 1
  BY DEF StepsMeasured
<1>1. at'.ask = at.ask
  BY DEF InSlot
<1>2. InSlot(l, s)
  BY <1>1 DEF InSlot
<1> QED
  BY <1>2 DEF StepsMeasured

(* A call that leaves its lanes. *)
LEMMA LeavesMeasured ==
    ASSUME MInv, UNCHANGED <<resp, truth>>, blurred \subseteq blurred',
           \/ at' = Idle
           \/ at'.pc = "restore" /\ at'.op = at.op /\ at'.ask = at.ask /\ at'.left = at.left
    PROVE  MInv'
<1>1. at'.ask \in {at.ask, {}} /\ at'.left \subseteq at'.ask /\ at'.pc \in {"idle", "restore"}
  BY DEF MInv, Packed, Idle
<1>2. StepsMeasured'
  BY <1>1, StaysMeasured DEF MInv
<1>3. ~Ahead' /\ ~Settling' /\ ~Stepping'
  BY <1>1 DEF Ahead, Settling, Stepping, Driving
<1>4. Texts'
  BY DEF MInv, Texts
<1>5. Packed'
  BY <1>1 DEF MInv, Packed, Idle, Driving
<1>6. ToCome' /\ ToDo' /\ Counted' /\ Quiet'
  BY <1>1, <1>3 DEF ToCome, ToDo, Counted, Quiet
<1> QED
  BY <1>2, <1>4, <1>5, <1>6 DEF MInv

(* A call that goes on with its lane, whatever it does next there. *)
LEMMA GoesOnMeasured ==
    ASSUME MInv, UNCHANGED <<resp, truth>>, blurred \subseteq blurred', SameLane,
           at.pc \in {"rx"} \cup Driving, at'.pc \in {"rx"} \cup Driving,
           Settling' => Settling,
           Stepping' => /\ Stepping /\ at'.todo = at.todo
                        /\ <<at.lane, Dir>> \notin blurred' => truth[at.lane][Dir] = Passed',
           Quiet'
    PROVE  MInv'
<1>1. at'.ask = at.ask /\ at'.lane = at.lane /\ at'.slot = at.slot /\ at'.op = at.op /\ at'.left = at.left
  BY DEF SameLane
<1>2. StepsMeasured'
  BY <1>1, StaysMeasured DEF MInv
<1>3. Texts'
  BY DEF MInv, Texts
<1>4. Packed'
  BY <1>1 DEF MInv, Packed, Below, Driving
<1>5. ~Ahead'
  BY DEF Ahead, Driving
<1>6. ToCome'
  BY <1>1, <1>5 DEF MInv, ToCome
<1>7. ToDo'
  BY <1>1 DEF MInv, ToDo, Once
<1>8. Counted'
  <2>1. Stepping' => Dir' = Dir
    BY <1>1 DEF Dir
  <2> QED
    BY <1>1, <2>1 DEF Counted
<1> QED
  BY <1>2, <1>3, <1>4, <1>6, <1>7, <1>8 DEF MInv

(* The end of a direction: its last step goes into the answer. *)
LEMMA FinishesMeasured ==
    ASSUME IInv, MInv, Stepping, NEW v \in Nat, Finish(v), truth' = truth, blurred \subseteq blurred',
           <<at.lane, Dir>> \notin blurred' =>
             v = IF truth[at.lane][Dir] = 0 THEN NoStep ELSE truth[at.lane][Dir] - 1
    PROVE  MInv'
<1>0. at \in Places /\ at.op = "margin" /\ at.pc \in {"rx"} \cup Driving
  BY DEF IInv, Types, Stepping, Driving
<1>1. /\ at.lane \in Lanes /\ at.lane \in at.ask /\ at.lane \in Nat /\ at.ask \subseteq Nat
      /\ at.slot \in Slots /\ at.slot = Cardinality(Below(at.lane))
      /\ \A l \in Lanes : InSlot(l, at.slot) => l = at.lane
  BY <1>0, OwnSlot
<1>2. /\ at.todo \in Seq(Directions) /\ at.todo # <<>> /\ Once(at.todo)
      /\ \A i \in 1..Len(at.todo) : /\ resp[at.slot][at.todo[i]] = Blank
                                    /\ i > 1 => truth[at.lane][at.todo[i]] = 0
  BY DEF MInv, ToDo
<1>3. Dir = Head(at.todo) /\ Dir \in Directions /\ Dir = at.todo[1] /\ Len(at.todo) \in Nat \ {0}
  BY <1>0, <1>2, HeadTailProperties, LenProperties, EmptySeq DEF Dir
<1>4. /\ resp' \in [Slots -> [Directions -> Int]] /\ resp'[at.slot][Dir] = v
      /\ \A s \in Slots, d \in Directions : s # at.slot \/ d # Dir => resp'[s][d] = resp[s][d]
  <2>1. resp' = [resp EXCEPT ![at.slot][Dir] = v] /\ resp \in [Slots -> [Directions -> Int]]
    BY DEF Finish, MInv, Texts
  <2> QED
    BY <1>1, <1>3, <2>1
<1>5. Texts'
  BY <1>4 DEF MInv, Texts
<1>6. at'.ask = at.ask /\ at'.left = at.left /\ at'.op = at.op
  BY <1>0 DEF Finish, Places
<1>7. StepsMeasured'
  <2> SUFFICES ASSUME NEW l \in Lanes, NEW s \in Slots, NEW d \in Directions,
                      InSlot(l, s)', resp'[s][d] \notin {Unset, Blank}, <<l, d>> \notin blurred'
               PROVE  resp'[s][d] = IF truth[l][d] = 0 THEN NoStep ELSE truth[l][d] - 1
    BY DEF StepsMeasured
  <2>1. InSlot(l, s)
    BY <1>6 DEF InSlot
  <2>2. CASE s = at.slot /\ d = Dir
    <3>1. l = at.lane
      BY <1>1, <2>1, <2>2
    <3> QED
      BY <1>4, <2>2, <3>1
  <2>3. CASE s # at.slot \/ d # Dir
    <3>1. resp'[s][d] = resp[s][d]
      BY <1>4, <2>3
    <3> QED
      BY <2>1, <3>1 DEF MInv, StepsMeasured
  <2> QED
    BY <2>2, <2>3
<1>8. CASE Len(at.todo) > 1
  <2>1. /\ at'.lane = at.lane /\ at'.slot = at.slot /\ at'.pc = "rx" /\ at'.todo = Tail(at.todo)
        /\ at'.doing = at.doing
    BY <1>0, <1>8 DEF Finish, Places
  <2>2. /\ Tail(at.todo) \in Seq(Directions) /\ Len(Tail(at.todo)) = Len(at.todo) - 1
        /\ \A i \in 1..Len(Tail(at.todo)) : Tail(at.todo)[i] = at.todo[i + 1]
    BY <1>2, HeadTailProperties
  <2>3. \A i \in 1..Len(Tail(at.todo)) : i + 1 \in 1..Len(at.todo) /\ i + 1 > 1
    BY <1>3, <2>2
  <2>4. Tail(at.todo) # <<>>
    <3>1. \A n \in Nat \ {0} : n > 1 => n - 1 # 0
      OBVIOUS
    <3>2. Len(<<>>) = 0
      OBVIOUS
    <3> QED
      BY <1>3, <1>8, <2>2, <3>1, <3>2, Zenon
  <2>5. Once(Tail(at.todo))
    BY <1>2, <2>2, <2>3 DEF Once
  <2>6. \A i \in 1..Len(Tail(at.todo)) : /\ Tail(at.todo)[i] # Dir /\ Tail(at.todo)[i] \in Directions
                                         /\ resp[at.slot][Tail(at.todo)[i]] = Blank
                                         /\ truth[at.lane][Tail(at.todo)[i]] = 0
    <3> SUFFICES ASSUME NEW i \in 1..Len(Tail(at.todo))
                 PROVE  /\ Tail(at.todo)[i] # Dir /\ Tail(at.todo)[i] \in Directions
                        /\ resp[at.slot][Tail(at.todo)[i]] = Blank
                        /\ truth[at.lane][Tail(at.todo)[i]] = 0
      OBVIOUS
    <3>1. i + 1 \in 1..Len(at.todo) /\ i + 1 > 1 /\ i + 1 # 1 /\ 1 \in 1..Len(at.todo)
      BY <1>3, <2>3
    <3>2. Tail(at.todo)[i] = at.todo[i + 1] /\ at.todo[i + 1] \in Directions
      BY <1>2, <2>2, <3>1, ElementOfSeq
    <3> QED
      BY <1>2, <1>3, <3>1, <3>2 DEF Once
  <2>7. Packed'
    BY <1>0, <1>1, <1>6, <2>1 DEF MInv, Packed, Below, Driving
  <2>8. ~Ahead' /\ ~Settling' /\ Stepping'
    BY <1>0, <1>6, <2>1 DEF Ahead, Settling, Stepping, Driving
  <2>9. ToCome'
    <3>1. \A s \in Slots, d \in Directions : s > at.slot => resp'[s][d] = Unset
      <4> SUFFICES ASSUME NEW s \in Slots, NEW d \in Directions, s > at.slot
                   PROVE  resp'[s][d] = Unset
        OBVIOUS
      <4>1. s # at.slot
        BY <1>1, MarginAssumption DEF Slots
      <4> QED
        BY <1>4, <4>1 DEF MInv, ToCome
    <3>2. \A l \in Lanes, d \in Directions : l > at.lane => truth[l][d] = 0
      BY DEF MInv, ToCome
    <3> QED
      BY <2>1, <2>8, <3>1, <3>2 DEF ToCome
  <2>10. ToDo'
    <3>1. at'.todo \in Seq(Directions) /\ at'.todo # <<>>
      BY <2>1, <2>2, <2>4, Zenon
    <3>2. \A i, j \in 1..Len(at'.todo) : i # j => at'.todo[i] # at'.todo[j]
      BY <2>1, <2>5, Zenon DEF Once
    <3>3. \A i \in 1..Len(Tail(at.todo)) : /\ resp'[at.slot][Tail(at.todo)[i]] = Blank
                                           /\ truth'[at.lane][Tail(at.todo)[i]] = 0
      BY <1>1, <1>4, <2>6, Zenon
    <3>4. \A i \in 1..Len(at'.todo) : /\ resp'[at'.slot][at'.todo[i]] = Blank
                                      /\ i > 1 => truth'[at'.lane][at'.todo[i]] = 0
      BY <2>1, <3>3, Zenon
    <3> QED
      BY <3>1, <3>2, <3>4 DEF ToDo, Once
  <2>11. Counted'
    <3>1. 1 \in 1..Len(Tail(at.todo))
      BY <1>3, <1>8, <2>2
    <3>2. Dir' = Tail(at.todo)[1]
      BY <1>0, <1>6, <2>1, <2>2, <2>4, HeadTailProperties DEF Dir
    <3>3. Passed' = 0
      BY <2>1 DEF Passed
    <3> QED
      BY <2>1, <2>6, <3>1, <3>2, <3>3 DEF Counted
  <2>12. Quiet'
    BY <2>1 DEF Quiet
  <2> QED
    BY <1>5, <1>7, <2>7, <2>9, <2>10, <2>11, <2>12 DEF MInv
<1>9. CASE ~(Len(at.todo) > 1)
  <2>0. at' = [at EXCEPT !.lane = @ + 1, !.slot = @ + 1, !.pc = "lane"]
    BY <1>9 DEF Finish
  <2>1. at'.lane = at.lane + 1 /\ at'.slot = at.slot + 1 /\ at'.pc = "lane"
    <3>1. at' = [[[at EXCEPT !.lane = at.lane + 1] EXCEPT !.slot = at.slot + 1] EXCEPT !.pc = "lane"]
      BY <1>0, <2>0 DEF Places
    <3> QED
      BY <1>0, <3>1 DEF Places
  <2>2. at'.slot = Cardinality(Below(at'.lane))
    BY <1>1, <2>1, NextSlot
  <2>3. Packed'
    BY <1>0, <1>6, <2>1, <2>2 DEF MInv, Packed, Below, Driving
  <2>4. Ahead' /\ ~Settling' /\ ~Stepping'
    BY <1>0, <1>6, <2>1 DEF Ahead, Settling, Stepping, Driving
  <2>5. Settling \/ Stepping
    OBVIOUS
  <2>6. at.slot \in Nat
    BY <1>1, MarginAssumption DEF Slots
  <2>7. \A s \in Slots, d \in Directions : s >= at'.slot => resp'[s][d] = Unset
    <3> SUFFICES ASSUME NEW s \in Slots, NEW d \in Directions, s >= at.slot + 1
                 PROVE  resp'[s][d] = Unset
      BY <2>1
    <3>1. s > at.slot /\ s # at.slot
      BY <2>6, MarginAssumption DEF Slots
    <3> QED
      BY <1>4, <3>1 DEF MInv, ToCome
  <2>8. \A l \in Lanes, d \in Directions : l >= at'.lane => truth'[l][d] = 0
    <3> SUFFICES ASSUME NEW l \in Lanes, NEW d \in Directions, l >= at.lane + 1
                 PROVE  truth[l][d] = 0
      BY <2>1
    <3>1. l > at.lane
      BY <1>1, MarginAssumption DEF Lanes
    <3> QED
      BY <3>1 DEF MInv, ToCome
  <2>9. ToCome'
    BY <2>4, <2>7, <2>8 DEF ToCome
  <2>10. ToDo' /\ Counted' /\ Quiet'
    BY <2>1, <2>4 DEF ToDo, Counted, Quiet
  <2> QED
    BY <1>5, <1>7, <2>3, <2>9, <2>10 DEF MInv
<1> QED
  BY <1>8, <1>9

-----------------------------------------------------------------------------
(* The steps and what was measured. *)
LEMMA StartedMeasured == Init => MInv
<1> SUFFICES ASSUME Init PROVE MInv
  OBVIOUS
<1>1. /\ at.pc = "idle" /\ at.op = "-" /\ at.ask = {} /\ at.left = {} /\ at.doing = "-"
      /\ resp = [s \in Slots |-> [d \in Directions |-> Unset]]
      /\ truth = [l \in Lanes |-> [d \in Directions |-> 0]]
  BY DEF Init, Idle
<1>2. Texts
  BY <1>1 DEF Texts, Unset
<1>3. Packed /\ ToCome /\ ToDo /\ Counted /\ Quiet
  BY <1>1 DEF Packed, ToCome, ToDo, Counted, Quiet, Ahead, Settling, Stepping, Driving
<1>4. StepsMeasured
  BY <1>1 DEF StepsMeasured, InSlot
<1> QED
  BY <1>2, <1>3, <1>4 DEF MInv

LEMMA BeginMeasures == IInv /\ MInv /\ Begin => MInv'
<1> SUFFICES ASSUME IInv, MInv, Begin PROVE MInv'
  OBVIOUS
<1>1. /\ resp' = [s \in Slots |-> [d \in Directions |-> Unset]]
      /\ truth' = [l \in Lanes |-> [d \in Directions |-> 0]]
  BY DEF Begin
<1>2. Texts'
  BY <1>1 DEF Texts, Unset
<1>3. StepsMeasured'
  BY <1>1 DEF StepsMeasured
<1>4. CASE \E r \in Requests : at' = [Idle EXCEPT !.pc = "look", !.op = "margin", !.ask = r, !.left = r]
  <2>1. PICK r \in Requests : at' = [Idle EXCEPT !.pc = "look", !.op = "margin", !.ask = r, !.left = r]
    BY <1>4
  <2>2. /\ at'.pc = "look" /\ at'.op = "margin" /\ at'.ask = r /\ at'.left = r
        /\ at'.lane = 0 /\ at'.slot = 0 /\ at'.doing = "-"
    BY <2>1 DEF Idle
  <2>3. r \subseteq Nat
    BY MarginAssumption
  <2>4. {m \in r : m < 0} = {} /\ Cardinality({}) = 0
    <3>1. \A m \in Nat : ~(m < 0)
      OBVIOUS
    <3>2. {m \in r : m < 0} = {}
      BY <2>3, <3>1, Zenon
    <3> QED
      BY <3>2, FS_EmptySet
  <2>5. Packed'
    BY <2>2, <2>4 DEF Packed, Below, Driving
  <2>6. ToCome' /\ ToDo' /\ Counted' /\ Quiet'
    BY <1>1, <2>2 DEF ToCome, ToDo, Counted, Quiet, Ahead, Settling, Stepping, Driving
  <2> QED
    BY <1>2, <1>3, <2>5, <2>6 DEF MInv
<1>5. CASE \E l \in Lanes \cup {Width} : at' = [Idle EXCEPT !.pc = "look", !.op = "capacities", !.lane = l]
  <2>1. at'.pc = "look" /\ at'.op = "capacities" /\ at'.ask = {} /\ at'.left = {} /\ at'.doing = "-"
    BY <1>5 DEF Idle
  <2>2. Packed' /\ ToCome' /\ ToDo' /\ Counted' /\ Quiet'
    BY <2>1 DEF Packed, ToCome, ToDo, Counted, Quiet, Ahead, Settling, Stepping, Driving
  <2> QED
    BY <1>2, <1>3, <2>2 DEF MInv
<1> QED
  BY <1>4, <1>5 DEF Begin

(* Before the first lane. *)
LEMMA AheadMeasured ==
    ASSUME MInv, UNCHANGED <<resp, truth, blurred>>, SameLane, Ahead, at'.pc \in {"set", "lane"}
    PROVE  MInv'
<1>1. /\ at'.ask = at.ask /\ at'.lane = at.lane /\ at'.slot = at.slot /\ at'.op = at.op
      /\ at'.left = at.left /\ at.op = "margin" /\ at.pc \in {"look", "set", "lane"}
  BY DEF SameLane, Ahead
<1>2. StepsMeasured'
  BY <1>1, StaysMeasured DEF MInv
<1>3. Texts'
  BY DEF MInv, Texts
<1>4. Packed'
  BY <1>1 DEF MInv, Packed, Below, Driving
<1>5. Ahead' /\ ~Settling' /\ ~Stepping'
  BY <1>1 DEF Ahead, Settling, Stepping, Driving
<1>6. ToCome'
  BY <1>1, <1>5 DEF MInv, ToCome
<1>7. ToDo' /\ Counted' /\ Quiet'
  BY <1>5 DEF ToDo, Counted, Quiet
<1> QED
  BY <1>2, <1>3, <1>4, <1>6, <1>7 DEF MInv

LEMMA LookMeasures == IInv /\ MInv /\ Look => MInv'
<1> SUFFICES ASSUME IInv, MInv, Look PROVE MInv'
  OBVIOUS
<1>0. at \in Places /\ at.pc = "look" /\ UNCHANGED <<resp, truth, blurred>>
  BY DEF IInv, Types, Look, history
<1>1. CASE at.op = "margin" /\ at' = [at EXCEPT !.pc = "set", !.todo = Settings]
  <2>1. SameLane /\ at'.pc = "set" /\ Ahead
    BY <1>0, <1>1 DEF SameLane, Places, Ahead
  <2> QED
    BY <1>0, <2>1, AheadMeasured
<1>2. CASE at.op = "capacities" /\ at' = [at EXCEPT !.pc = "write", !.doing = "caps", !.todo = Reports]
  <2>1. /\ at'.op = "capacities" /\ at'.doing = "caps" /\ at'.ask = at.ask /\ at'.left = at.left
        /\ at'.pc = "write"
    BY <1>0, <1>2 DEF Places
  <2>2. StepsMeasured' /\ Texts'
    BY <1>0, <2>1, StaysMeasured DEF MInv, Texts
  <2>3. Packed' /\ ToCome' /\ ToDo' /\ Counted' /\ Quiet'
    BY <1>2, <2>1 DEF MInv, Packed, ToCome, ToDo, Counted, Quiet, Ahead, Settling, Stepping
  <2> QED
    BY <2>2, <2>3 DEF MInv
<1>3. CASE at' = Idle
  BY <1>0, <1>3, LeavesMeasured
<1> QED
  BY <1>1, <1>2, <1>3 DEF Look, Return

LEMMA ChangeMeasures == IInv /\ MInv /\ Change => MInv'
<1> SUFFICES ASSUME IInv, MInv, Change PROVE MInv'
  OBVIOUS
<1>0. at \in Places /\ at.pc = "set" /\ at.op = "margin" /\ UNCHANGED <<resp, truth, blurred>>
  BY DEF IInv, Types, Whereabouts, Change, Driving
<1>1. CASE at' = [at EXCEPT !.todo = Tail(@), !.pc = IF Len(at.todo) = 1 THEN "lane" ELSE @]
  <2>1. SameLane /\ at'.pc \in {"set", "lane"} /\ Ahead
    BY <1>0, <1>1 DEF SameLane, Places, Ahead
  <2> QED
    BY <1>0, <2>1, AheadMeasured
<1>2. CASE \E list : Restore(list, "failed")
  BY <1>0, <1>2, RestoresThere, LeavesMeasured
<1> QED
  BY <1>1, <1>2 DEF Change

LEMMA GiveBackMeasures == IInv /\ MInv /\ GiveBack => MInv'
<1> SUFFICES ASSUME IInv, MInv, GiveBack PROVE MInv'
  OBVIOUS
<1>1. at \in Places /\ UNCHANGED <<resp, truth, blurred>> /\ Restore(Tail(at.todo), at.then)
  BY DEF IInv, Types, GiveBack
<1> QED
  BY <1>1, RestoresThere, LeavesMeasured

LEMMA NextLaneMeasures == IInv /\ MInv /\ NextLane => MInv'
<1> SUFFICES ASSUME IInv, MInv, NextLane PROVE MInv'
  OBVIOUS
<1>0. at \in Places /\ at.pc = "lane" /\ UNCHANGED <<truth, blurred>>
  BY DEF IInv, Types, NextLane, history
<1>1. CASE UNCHANGED resp /\ \E r : Restore(Settings, r)
  BY <1>0, <1>1, RestoresThere, LeavesMeasured
<1>2. CASE /\ at.lane \in at.left /\ at.lane < Width
           /\ resp' = [resp EXCEPT ![at.slot] = [d \in Directions |-> Blank]]
           /\ at' = [at EXCEPT !.left = @ \ {at.lane}, !.pc = "write", !.doing = "limit"]
  <2>1. /\ at'.op = at.op /\ at'.ask = at.ask /\ at'.lane = at.lane /\ at'.slot = at.slot
        /\ at'.left = at.left \ {at.lane} /\ at'.pc = "write" /\ at'.doing = "limit"
    BY <1>0, <1>2 DEF Places
  <2>2. at.lane \in at.ask /\ at.ask \subseteq Nat /\ at.lane \in Lanes /\ at.op = "margin" /\ Ahead
    <3>1. at.op = "margin"
      BY <1>0 DEF IInv, Whereabouts, Driving
    <3>2. at.lane \in at.ask /\ at.ask \subseteq Nat
      BY <1>0, <1>2 DEF MInv, Packed, Places
    <3>3. at.lane \in Lanes
      BY <1>2, <3>2, MarginAssumption DEF Lanes
    <3> QED
      BY <1>0, <3>1, <3>2, <3>3 DEF Ahead
  <2>3. at.slot = Cardinality(Below(at.lane)) /\ at.slot \in Nat /\ at.slot <= at.lane
    BY <1>0, <2>2, BelowIsFinite DEF MInv, Packed
  <2>4. at.slot \in Slots
    BY <1>0, <1>2, <2>2, <2>3, MarginAssumption DEF Slots, Lanes
  <2>5. /\ resp' \in [Slots -> [Directions -> Int]]
        /\ \A d \in Directions : resp'[at.slot][d] = Blank
        /\ \A s \in Slots : s # at.slot => resp'[s] = resp[s]
    <3>1. [d \in Directions |-> Blank] \in [Directions -> Int]
      BY DEF Blank
    <3>2. resp \in [Slots -> [Directions -> Int]]
      BY DEF MInv, Texts
    <3> QED
      BY <1>2, <2>4, <3>1, <3>2
  <2>6. StepsMeasured'
    <3> SUFFICES ASSUME NEW l \in Lanes, NEW s \in Slots, NEW d \in Directions,
                        InSlot(l, s)', resp'[s][d] \notin {Unset, Blank}, <<l, d>> \notin blurred
                 PROVE  resp'[s][d] = IF truth[l][d] = 0 THEN NoStep ELSE truth[l][d] - 1
      BY <1>0 DEF StepsMeasured
    <3>1. InSlot(l, s) /\ s # at.slot
      BY <2>1, <2>5 DEF InSlot
    <3> QED
      BY <2>5, <3>1 DEF MInv, StepsMeasured
  <2>7. Packed'
    BY <2>1, <2>2, <2>3 DEF MInv, Packed, Below, Driving
  <2>8. ~Ahead' /\ Settling' /\ ~Stepping'
    BY <2>1, <2>2 DEF Ahead, Settling, Stepping, Driving
  <2>9. ToCome'
    <3>1. \A s \in Slots, d \in Directions : s > at.slot => resp'[s][d] = Unset
      <4> SUFFICES ASSUME NEW s \in Slots, NEW d \in Directions, s > at.slot
                   PROVE  resp'[s][d] = Unset
        OBVIOUS
      <4>1. s >= at.slot /\ s # at.slot
        BY <2>3, MarginAssumption DEF Slots
      <4> QED
        BY <2>2, <2>5, <4>1 DEF MInv, ToCome
    <3>2. /\ \A d \in Directions : truth[at.lane][d] = 0
          /\ \A l \in Lanes, d \in Directions : l > at.lane => truth[l][d] = 0
      <4>1. \A l \in Lanes : l > at.lane \/ l = at.lane => l >= at.lane
        BY <2>2, MarginAssumption DEF Lanes
      <4> QED
        BY <2>2, <4>1 DEF MInv, ToCome
    <3> QED
      BY <1>0, <2>1, <2>5, <2>8, <3>1, <3>2 DEF ToCome
  <2>10. ToDo' /\ Counted' /\ Quiet'
    BY <2>1, <2>8 DEF ToDo, Counted, Quiet
  <2>11. Texts'
    BY <1>0, <2>5 DEF MInv, Texts
  <2> QED
    BY <2>6, <2>7, <2>9, <2>10, <2>11 DEF MInv
<1> QED
  BY <1>1, <1>2 DEF NextLane

(* A lane that answers: only the answer to a step that is waited for counts. *)
LEMMA AnswerMeasures == ASSUME NEW l \in Lanes PROVE IInv /\ MInv /\ Answer(l) => MInv'
<1> SUFFICES ASSUME IInv, MInv, Answer(l) PROVE MInv'
  OBVIOUS
<1> DEFINE c == hw[l].command
<1>1. PICK code \in {"pass", "fail", "refused", "-"} :
        /\ code = "pass" => c.kind = "step"
        /\ hw' = [hw EXCEPT ![l].answers = c, ![l].code = code,
                            ![l].moved = ~IsNormal(c) /\ (@ \/ code \in {"pass", "fail"})]
        /\ truth' = IF code = "pass" /\ c.step = truth[l][c.dir] /\ WaitsFor(l, c)
                    THEN [truth EXCEPT ![l][c.dir] = @ + 1] ELSE truth
  BY DEF Answer
<1>2. c # hw[l].answers /\ UNCHANGED <<at, resp, blurred>>
  BY DEF Answer
<1>3. /\ at \in Places /\ hw \in [Lanes -> LaneStates] /\ truth \in [Lanes -> [Directions -> Nat]]
      /\ Types /\ Whereabouts
  BY DEF IInv, Types, MInv, Texts
<1>4. /\ hw'[l].answers = c /\ hw'[l].code = code /\ hw'[l].command = c
      /\ \A k \in Lanes : k # l => hw'[k] = hw[k]
  BY <1>1, <1>3 DEF LaneStates
<1>5. Command' = Command
  BY <1>2, SameCommand
<1>6. at.pc = "read" => hw[at.lane].command = Command /\ at.lane \in Lanes
  BY DEF IInv, Found, Whereabouts, Driving
<1>7. at.pc = "write" => at.lane \in Lanes
  BY <1>3 DEF Whereabouts, Driving
<1>8. Quiet'
  <2>1. at.doing = "step" /\ at.pc = "write" => l # at.lane
    BY <1>2 DEF MInv, Quiet
  <2>2. at.pc = "read" /\ l = at.lane => hw'[at.lane].answers = Command
    BY <1>4, <1>6
  <2> QED
    BY <1>2, <1>4, <1>5, <1>6, <1>7, <2>1, <2>2 DEF MInv, Quiet
<1>9. Packed'
  BY <1>2 DEF MInv, Packed, Below
<1>10. (Ahead' <=> Ahead) /\ (Settling' <=> Settling) /\ (Stepping' <=> Stepping) /\ Dir' = Dir
  BY <1>2 DEF Ahead, Settling, Stepping, Dir
<1>11. CASE code = "pass" /\ c.step = truth[l][c.dir] /\ WaitsFor(l, c)
  <2>1. at.pc = "read" /\ at.lane = l /\ Command = c /\ c.kind = "step"
    BY <1>1, <1>11 DEF WaitsFor
  <2>2. at.doing = "step" /\ at.op = "margin"
    <3>1. at.doing = "step"
      BY <1>3, <2>1, CommandKind DEF Driving
    <3> QED
      BY <1>3, <2>1, <3>1 DEF Whereabouts, Places, Driving, Questions
  <2>3. c.dir = Dir /\ c.step = at.steps
    BY <2>1, <2>2 DEF Command, Step
  <2>4. Stepping /\ ~Settling /\ ~Ahead
    BY <2>1, <2>2 DEF Stepping, Settling, Ahead, Driving
  <2>5. /\ at.todo \in Seq(Directions) /\ at.todo # <<>> /\ Once(at.todo)
        /\ \A i \in 1..Len(at.todo) : /\ resp[at.slot][at.todo[i]] = Blank
                                      /\ i > 1 => truth[at.lane][at.todo[i]] = 0
    BY <2>4 DEF MInv, ToDo
  <2>6. Dir = at.todo[1] /\ Dir \in Directions /\ 1 \in 1..Len(at.todo)
    <3>1. Dir = Head(at.todo)
      BY <2>2, <2>5 DEF Dir
    <3> QED
      BY <2>5, <3>1
  <2>7. /\ truth' \in [Lanes -> [Directions -> Nat]] /\ truth'[at.lane][Dir] = at.steps + 1
        /\ \A k \in Lanes, d \in Directions : k # at.lane \/ d # Dir => truth'[k][d] = truth[k][d]
    <3>1. truth' = [truth EXCEPT ![l][Dir] = truth[l][Dir] + 1] /\ truth[l][Dir] = at.steps
      BY <1>1, <1>11, <2>3
    <3>2. truth[l][Dir] + 1 \in Nat
      BY <1>3, <2>6
    <3> QED
      BY <1>3, <2>1, <2>6, <3>1, <3>2
  <2>8. Texts'
    BY <1>2, <2>7 DEF MInv, Texts
  <2>9. StepsMeasured'
    <3> SUFFICES ASSUME NEW k \in Lanes, NEW s \in Slots, NEW d \in Directions,
                        InSlot(k, s)', resp[s][d] \notin {Unset, Blank}, <<k, d>> \notin blurred
                 PROVE  resp[s][d] = IF truth'[k][d] = 0 THEN NoStep ELSE truth'[k][d] - 1
      BY <1>2 DEF StepsMeasured
    <3>1. InSlot(k, s)
      BY <1>2 DEF InSlot
    <3>2. k # at.lane \/ d # Dir
      <4>1. k = at.lane => s = at.slot
        BY <2>1, <2>2, <3>1, OwnSlot DEF Driving
      <4> QED
        BY <2>5, <2>6, <4>1
    <3>3. truth'[k][d] = truth[k][d]
      BY <2>7, <3>2
    <3> QED
      BY <3>1, <3>3 DEF MInv, StepsMeasured
  <2>10. ToCome'
    <3>1. \A k \in Lanes, d \in Directions : k > at.lane => k # at.lane
      BY <1>3 DEF Lanes, Places
    <3>2. \A k \in Lanes, d \in Directions : k > at.lane => truth'[k][d] = 0
      BY <2>4, <2>7, <3>1 DEF MInv, ToCome
    <3>3. \A s \in Slots, d \in Directions : s > at.slot => resp'[s][d] = Unset
      BY <1>2, <2>4 DEF MInv, ToCome
    <3> QED
      BY <1>2, <1>10, <2>4, <3>2, <3>3 DEF ToCome
  <2>11. ToDo'
    <3>1. \A i \in 1..Len(at.todo) : i > 1 => truth'[at.lane][at.todo[i]] = 0
      <4> SUFFICES ASSUME NEW i \in 1..Len(at.todo), i > 1
                   PROVE  truth'[at.lane][at.todo[i]] = 0
        OBVIOUS
      <4>1. at.todo[i] # Dir /\ at.todo[i] \in Directions
        BY <2>5, <2>6, ElementOfSeq DEF Once
      <4> QED
        BY <2>1, <2>5, <2>7, <4>1
    <3> QED
      BY <1>2, <2>5, <3>1 DEF ToDo, Once
  <2>12. Counted'
    <3>1. JustPassed'
      BY <1>2, <1>4, <1>5, <1>11, <2>1 DEF JustPassed
    <3>2. Passed' = at.steps + 1
      BY <1>2, <2>1, <2>2, <3>1 DEF Passed, OnePassed
    <3> QED
      BY <1>2, <1>10, <2>7, <3>2 DEF Counted
  <2> QED
    BY <1>8, <1>9, <2>8, <2>9, <2>10, <2>11, <2>12 DEF MInv
<1>12. CASE ~(code = "pass" /\ c.step = truth[l][c.dir] /\ WaitsFor(l, c))
  <2>1. truth' = truth
    BY <1>1, <1>12
  <2>2. StepsMeasured'
    BY <1>2, <2>1, StaysMeasured DEF MInv
  <2>3. Texts' /\ ToCome' /\ ToDo'
    <3>1. Texts'
      BY <1>2, <2>1 DEF MInv, Texts
    <3>2. ToCome'
      BY <1>2, <1>10, <2>1 DEF MInv, ToCome
    <3>3. ToDo'
      BY <1>2, <1>10, <2>1 DEF MInv, ToDo, Once
    <3> QED
      BY <3>1, <3>2, <3>3
  <2>4. Counted'
    <3> SUFFICES ASSUME Stepping, <<at.lane, Dir>> \notin blurred
                 PROVE  truth[at.lane][Dir] = Passed'
      BY <1>2, <1>10, <2>1 DEF Counted
    <3>1. truth[at.lane][Dir] = Passed
      BY DEF MInv, Counted
    <3>2. CASE at.pc = "read" /\ at.doing = "step" /\ l = at.lane
      <4>1. c = Command
        BY <1>6, <3>2
      <4>2. c = Step(Dir, at.steps)
        BY <3>2, <4>1 DEF Command
      <4>3. ~JustPassed
        BY <1>2, <3>2, <4>1 DEF JustPassed
      <4>4. Passed = at.steps
        BY <3>2, <4>3 DEF Passed, OnePassed
      <4>5. WaitsFor(l, c) /\ c.step = truth[l][c.dir]
        <5>1. c.dir = Dir /\ c.step = at.steps
          BY <4>2 DEF Step
        <5>2. truth[l][Dir] = at.steps
          BY <3>1, <3>2, <4>4
        <5> QED
          BY <3>2, <4>1, <5>1, <5>2 DEF WaitsFor
      <4>6. code # "pass"
        BY <1>12, <4>5
      <4>7. ~JustPassed'
        BY <1>2, <1>4, <3>2, <4>6 DEF JustPassed
      <4> QED
        BY <1>2, <3>1, <3>2, <4>4, <4>7 DEF Passed, OnePassed
    <3>3. CASE at.pc = "read" /\ at.doing = "step" /\ l # at.lane
      <4>1. JustPassed' <=> JustPassed
        BY <1>2, <1>4, <1>5, <1>6, <3>3 DEF JustPassed
      <4> QED
        BY <1>2, <3>1, <4>1 DEF Passed, OnePassed
    <3>4. CASE ~(at.pc = "read" /\ at.doing = "step")
      BY <1>2, <3>1, <3>4 DEF Passed, OnePassed
    <3> QED
      BY <3>2, <3>3, <3>4
  <2> QED
    BY <1>8, <1>9, <2>2, <2>3, <2>4 DEF MInv
<1> QED
  BY <1>11, <1>12

LEMMA ReadReceiverMeasures == IInv /\ MInv /\ ReadReceiver => MInv'
<1> SUFFICES ASSUME IInv, MInv, ReadReceiver PROVE MInv'
  OBVIOUS
<1>1. at \in Places /\ at.pc = "rx" /\ at.op = "margin" /\ UNCHANGED <<resp, truth, blurred>>
  BY DEF IInv, Types, Whereabouts, ReadReceiver, history, Driving
<1>2. CASE Do("count")
  <2>1. /\ SameLane /\ at'.pc = "write" /\ at'.doing = "count"
        /\ at'.todo = at.todo /\ at'.steps = at.steps
    BY <1>1, <1>2, DoesThere
  <2>2. Stepping /\ Passed = 0 /\ Passed' = 0
    BY <1>1, <2>1 DEF Stepping, Passed
  <2>3. ~Settling' /\ Quiet'
    BY <2>1 DEF Settling, Quiet
  <2>4. <<at.lane, Dir>> \notin blurred' => truth[at.lane][Dir] = Passed'
    BY <1>1, <2>2 DEF MInv, Counted
  <2> QED
    BY <1>1, <2>1, <2>2, <2>3, <2>4, GoesOnMeasured DEF Driving
<1>3. CASE Break("failed")
  BY <1>1, <1>3, BreaksOff, LeavesMeasured
<1> QED
  BY <1>2, <1>3 DEF ReadReceiver

(* The last step is a number, and the one the lane really passed. *)
LEMMA LastStepMeasured ==
    ASSUME IInv, MInv, Stepping, at.doing = "endNormal", at.pc \in Driving
    PROVE  /\ LastStep \in Nat
           /\ <<at.lane, Dir>> \notin blurred =>
                LastStep = IF truth[at.lane][Dir] = 0 THEN NoStep ELSE truth[at.lane][Dir] - 1
<1>1. at.steps \in Nat
  BY DEF IInv, Types, Places
<1>2. Passed = at.steps
  BY DEF Passed, OnePassed, Driving
<1>3. LastStep \in Nat
  BY <1>1 DEF LastStep, NoStep
<1> QED
  BY <1>2, <1>3 DEF MInv, Counted, LastStep

(* An access that failed, or an answer that is missing. *)
LEMMA GivingUpMeasures ==
    ASSUME IInv, MInv, at.pc \in Driving, NotAnswered, truth' = truth, blurred \subseteq blurred'
    PROVE  MInv'
<1>1. at \in Places
  BY DEF IInv, Types
<1>2. at.op = "margin" /\ at.doing \in {"endClear", "endNormal"} => Stepping
  BY DEF Stepping
<1>3. at.doing \in {"endClear", "endNormal"} => at.op = "margin"
  BY DEF IInv, Whereabouts, Questions, Types, Places, Driving
<1>4. CASE at.doing = "endClear" /\ Do("endNormal") /\ UNCHANGED resp
  <2>1. /\ SameLane /\ at'.pc = "write" /\ at'.doing = "endNormal"
        /\ at'.todo = at.todo /\ at'.steps = at.steps
    BY <1>1, <1>4, DoesThere
  <2>2. Passed = at.steps /\ Passed' = at.steps
    BY <1>4, <2>1 DEF Passed, OnePassed, Driving
  <2>3. ~Settling' /\ Quiet'
    BY <2>1 DEF Settling, Quiet
  <2>4. Stepping /\ (<<at.lane, Dir>> \notin blurred' => truth[at.lane][Dir] = Passed')
    BY <1>2, <1>3, <1>4, <2>2 DEF MInv, Counted
  <2> QED
    BY <1>4, <2>1, <2>3, <2>4, GoesOnMeasured DEF Driving
<1>5. CASE at.doing = "endNormal" /\ Finish(LastStep)
  BY <1>2, <1>3, <1>5, LastStepMeasured, FinishesMeasured
<1>6. CASE at.doing = "limit" /\ Do("normalF") /\ UNCHANGED resp
  <2>1. /\ SameLane /\ at'.pc = "write" /\ at'.doing = "normalF"
        /\ at'.todo = at.todo /\ at'.steps = at.steps
    BY <1>1, <1>6, DoesThere
  <2>2. ~Settling' /\ ~Stepping' /\ Quiet'
    BY <2>1 DEF Settling, Stepping, Quiet
  <2> QED
    BY <1>6, <2>1, <2>2, GoesOnMeasured DEF Driving
<1>7. CASE Break("failed") /\ UNCHANGED resp
  BY <1>1, <1>7, BreaksOff, LeavesMeasured
<1> QED
  BY <1>4, <1>5, <1>6, <1>7 DEF NotAnswered

LEMMA WriteMeasures == IInv /\ MInv /\ Write => MInv'
<1> SUFFICES ASSUME IInv, MInv, Write PROVE MInv'
  OBVIOUS
<1> DEFINE c == IF at.pc = "write" THEN Command ELSE NoCommand
           sent == [hw EXCEPT ![at.lane].command = c]
           next == IF at.pc = "write" THEN "read" ELSE "noRead"
<1>1. /\ at.pc \in {"write", "noWrite"} /\ at.pc \in Driving /\ UNCHANGED <<truth, blurred>>
      /\ Types /\ Whereabouts
  BY DEF Write, Driving, IInv
<1>2. at \in Places /\ at.lane \in Lanes /\ hw \in [Lanes -> LaneStates]
  BY <1>1 DEF Types, Whereabouts
<1>3. CASE hw' = sent /\ UNCHANGED resp /\ Goto(next)
  <2>1. /\ SameLane /\ at'.pc = next /\ at'.doing = at.doing
        /\ at'.todo = at.todo /\ at'.steps = at.steps
    BY <1>2, <1>3, GoesThere
  <2>2. Command' = Command /\ hw'[at.lane].answers = hw[at.lane].answers
    <3>1. Command' = Command
      BY <2>1, SameCommand DEF SameLane
    <3> HIDE DEF c
    <3>2. hw'[at.lane].answers = hw[at.lane].answers
      BY <1>2, <1>3 DEF LaneStates
    <3> QED
      BY <3>1, <3>2
  <2>3. at.pc = "write" /\ at.doing = "step" => hw[at.lane].answers = NoCommand /\ Command # NoCommand
    <3>1. at.doing = "step" => Command # NoCommand
      BY <1>1, CommandKind
    <3> QED
      BY <3>1 DEF MInv, Quiet
  <2>4. at'.lane = at.lane /\ at'.op = at.op
    BY <2>1 DEF SameLane
  <2>5. Quiet'
    BY <1>1, <2>1, <2>2, <2>3, <2>4 DEF Quiet
  <2>6. Settling' => Settling
    BY <1>1, <2>1, <2>4 DEF Settling
  <2>7. Stepping' => Stepping
    BY <1>1, <2>1, <2>4 DEF Stepping, Driving
  <2>8. Passed' = Passed
    <3>1. at'.pc = "read" /\ at'.doing = "step" => ~JustPassed'
      BY <1>1, <2>1, <2>2, <2>3, <2>4 DEF JustPassed
    <3> QED
      BY <1>1, <2>1, <3>1 DEF Passed, OnePassed
  <2>9. Stepping' => (<<at.lane, Dir>> \notin blurred' => truth[at.lane][Dir] = Passed')
    BY <1>1, <2>7, <2>8 DEF MInv, Counted
  <2>10. at'.pc \in Driving
    BY <2>1 DEF Driving
  <2> QED
    BY <1>1, <1>3, <2>1, <2>5, <2>6, <2>7, <2>9, <2>10, GoesOnMeasured
<1>4. CASE NotAnswered
  BY <1>1, <1>4, GivingUpMeasures
<1> QED
  BY <1>3, <1>4 DEF Write

(* A command that was answered, and NoCommand after it. *)
LEMMA ContinuesMeasured ==
    ASSUME IInv, MInv, at.pc = "noRead", Answered, hw[at.lane].answers = NoCommand,
           UNCHANGED <<hw, truth, blurred>>
    PROVE  MInv'
<1>1. at \in Places /\ at.pc \in Driving /\ hw[at.lane].command = NoCommand /\ at.steps \in Nat
  BY DEF IInv, Types, Found, Driving, Places
<1>2. /\ at.op = "margin" /\ at.doing \in {"caps", "count", "step", "clear"} => Stepping
      /\ at.op \in {"margin", "capacities"}
      /\ at.op = "capacities" => at.doing \in Questions
  BY <1>1 DEF Stepping, IInv, Whereabouts, Driving
<1>3. at.doing \in {"count", "step", "clear"} => at.op = "margin"
  BY <1>2 DEF Questions
<1>4. CASE at.doing = "limit" /\ Do("caps") /\ UNCHANGED resp
  <2>1. /\ SameLane /\ at'.pc = "write" /\ at'.doing = "caps"
        /\ at'.todo = at.todo /\ at'.steps = at.steps
    BY <1>1, <1>4, DoesThere
  <2>2. ~Stepping' /\ Quiet' /\ (Settling' => Settling)
    BY <1>1, <1>4, <2>1 DEF Stepping, Quiet, Settling, SameLane
  <2> QED
    BY <1>1, <1>4, <2>1, <2>2, GoesOnMeasured DEF Driving
<1>5. CASE at.doing = "caps" /\ at.op = "margin" /\ Goto("rx") /\ UNCHANGED resp
  <2>1. /\ SameLane /\ at'.pc = "rx" /\ at'.doing = "caps"
        /\ at'.todo = at.todo /\ at'.steps = at.steps
    BY <1>1, <1>5, GoesThere
  <2>2. ~Settling' /\ Quiet' /\ Stepping /\ Passed = 0 /\ Passed' = 0
    BY <1>2, <1>5, <2>1 DEF Quiet, Settling, Passed, Driving
  <2>3. <<at.lane, Dir>> \notin blurred' => truth[at.lane][Dir] = Passed'
    BY <2>2 DEF MInv, Counted
  <2> QED
    BY <1>1, <1>5, <2>1, <2>2, <2>3, GoesOnMeasured
<1>6. CASE at.doing = "count" /\ NextStep(0, at.limit) /\ UNCHANGED resp
  <2>1. /\ SameLane /\ at'.pc = "write" /\ at'.doing \in {"step", "endClear"}
        /\ at'.todo = at.todo /\ at'.steps = 0
    BY <1>1, <1>6, StepsThere
  <2>2. ~Settling' /\ Quiet' /\ Stepping /\ Passed = 0 /\ Passed' = 0
    BY <1>1, <1>2, <1>3, <1>6, <2>1 DEF Quiet, Settling, Passed, OnePassed, SameLane
  <2>3. <<at.lane, Dir>> \notin blurred' => truth[at.lane][Dir] = Passed'
    BY <2>2 DEF MInv, Counted
  <2> QED
    BY <1>1, <1>6, <2>1, <2>2, <2>3, GoesOnMeasured DEF Driving
<1>7. CASE at.doing = "step" /\ Do("clear") /\ UNCHANGED resp
  <2>1. /\ SameLane /\ at'.pc = "write" /\ at'.doing = "clear"
        /\ at'.todo = at.todo /\ at'.steps = at.steps
    BY <1>1, <1>7, DoesThere
  <2>2. ~Settling' /\ Quiet' /\ Stepping /\ Passed = at.steps + 1 /\ Passed' = at.steps + 1
    BY <1>1, <1>2, <1>3, <1>7, <2>1 DEF Quiet, Settling, Passed, OnePassed
  <2>3. <<at.lane, Dir>> \notin blurred' => truth[at.lane][Dir] = Passed'
    BY <2>2 DEF MInv, Counted
  <2> QED
    BY <1>1, <1>7, <2>1, <2>2, <2>3, GoesOnMeasured DEF Driving
<1>8. CASE at.doing = "clear" /\ NextStep(at.steps + 1, at.limit) /\ UNCHANGED resp
  <2>1. /\ SameLane /\ at'.pc = "write" /\ at'.doing \in {"step", "endClear"}
        /\ at'.todo = at.todo /\ at'.steps = at.steps + 1
    BY <1>1, <1>8, StepsThere
  <2>2. ~Settling' /\ Quiet' /\ Stepping /\ Passed = at.steps + 1 /\ Passed' = at.steps + 1
    BY <1>1, <1>2, <1>3, <1>8, <2>1 DEF Quiet, Settling, Passed, OnePassed, SameLane
  <2>3. <<at.lane, Dir>> \notin blurred' => truth[at.lane][Dir] = Passed'
    BY <2>2 DEF MInv, Counted
  <2> QED
    BY <1>1, <1>8, <2>1, <2>2, <2>3, GoesOnMeasured DEF Driving
<1>9. CASE \/ at.doing = "endClear" /\ Do("endNormal") /\ UNCHANGED resp
           \/ at.doing = "endNormal" /\ Finish(LastStep)
           \/ at.doing = "normalF" /\ Break("failed") /\ UNCHANGED resp
  <2>1. NotAnswered
    BY <1>9 DEF NotAnswered
  <2> QED
    BY <1>1, <2>1, GivingUpMeasures
<1>10. CASE /\ at.op = "capacities" /\ UNCHANGED resp
            /\ IF Len(at.todo) = 1 THEN Return("success")
               ELSE at' = [at EXCEPT !.todo = Tail(@), !.pc = "write", !.doing = at.todo[2]]
  <2>1. CASE at' = Idle
    BY <1>10, <2>1, LeavesMeasured
  <2>2. CASE Len(at.todo) # 1 /\ at' = [at EXCEPT !.todo = Tail(@), !.pc = "write", !.doing = at.todo[2]]
    <3>1. SameLane /\ at'.pc = "write" /\ at'.doing = at.todo[2]
      BY <1>1, <2>2 DEF SameLane, Places
    <3>2. at.todo[2] \in Questions
      <4>1. at.todo \in Seq(Questions) /\ at.todo # <<>>
        BY <1>1, <1>10 DEF IInv, Whereabouts, Driving
      <4>2. Len(at.todo) \in Nat /\ Len(at.todo) # 0
        BY <4>1, EmptySeq, LenProperties
      <4>3. \A n \in Nat : n # 0 /\ n # 1 => 2 \in 1..n
        OBVIOUS
      <4> QED
        BY <2>2, <4>1, <4>2, <4>3, ElementOfSeq, Zenon
    <3>3. Quiet'
      BY <3>1, <3>2 DEF Quiet, Questions
    <3>4. ~Settling' /\ ~Stepping'
      BY <1>10, <3>1 DEF SameLane, Settling, Stepping
    <3> QED
      BY <1>1, <1>10, <3>1, <3>3, <3>4, GoesOnMeasured DEF Driving
  <2> QED
    BY <1>10, <2>1, <2>2 DEF Return
<1> QED
  BY <1>4, <1>5, <1>6, <1>7, <1>8, <1>9, <1>10 DEF Answered

(* What a lane can be margined in: every direction at most once. *)
LEMMA OnceEach ==
    ASSUME NEW s \in Seq(Directions), NEW t \in Seq(Directions), Once(s), Once(t),
           \A i \in 1..Len(s), j \in 1..Len(t) : s[i] # t[j]
    PROVE  s \o t \in Seq(Directions) /\ Len(s \o t) = Len(s) + Len(t) /\ Once(s \o t)
<1>1. Len(s) \in Nat /\ Len(t) \in Nat
  OBVIOUS
<1>2. /\ s \o t \in Seq(Directions) /\ Len(s \o t) = Len(s) + Len(t)
      /\ \A i \in 1..Len(s) + Len(t) :
           (s \o t)[i] = IF i <= Len(s) THEN s[i] ELSE t[i - Len(s)]
  BY ConcatProperties
<1>3. \A i \in 1..Len(s) + Len(t) :
        IF i <= Len(s) THEN i \in 1..Len(s) ELSE i - Len(s) \in 1..Len(t)
  BY <1>1
<1>4. ASSUME NEW i \in 1..Len(s) + Len(t), NEW j \in 1..Len(s) + Len(t), i # j
      PROVE  (s \o t)[i] # (s \o t)[j]
  <2>1. CASE i <= Len(s) /\ j <= Len(s)
    BY <1>2, <1>3, <1>4, <2>1, Zenon DEF Once
  <2>2. CASE ~(i <= Len(s)) /\ ~(j <= Len(s))
    <3>1. i - Len(s) # j - Len(s)
      BY <1>1, <1>4
    <3> QED
      BY <1>2, <1>3, <2>2, <3>1, Zenon DEF Once
  <2>3. CASE ~(i <= Len(s) <=> j <= Len(s))
    BY <1>2, <1>3, <2>3, Zenon
  <2> QED
    BY <2>1, <2>2, <2>3
<1> QED
  BY <1>2, <1>4 DEF Once

LEMMA DirectionsOnce ==
    ASSUME NEW caps
    PROVE  /\ DirectionsOf(caps) \in Seq(Directions) /\ DirectionsOf(caps) # <<>>
           /\ Once(DirectionsOf(caps))
<1> DEFINE across == IF "leftRight" \in caps THEN <<"right", "left">> ELSE <<"right">>
           along == IF "voltage" \notin caps THEN <<>>
                    ELSE IF "upDown" \in caps THEN <<"up", "down">> ELSE <<"up">>
<1>1. across \in Seq({"right", "left"}) /\ Len(across) \in {1, 2} /\ Once(across)
  <2>1. CASE "leftRight" \in caps
    <3>1. <<"right", "left">> \in Seq({"right", "left"}) /\ Len(<<"right", "left">>) = 2
      OBVIOUS
    <3>2. Once(<<"right", "left">>)
      BY DEF Once
    <3> QED
      BY <2>1, <3>1, <3>2
  <2>2. CASE "leftRight" \notin caps
    <3>1. <<"right">> \in Seq({"right", "left"}) /\ Len(<<"right">>) = 1
      OBVIOUS
    <3>2. Once(<<"right">>)
      BY DEF Once
    <3> QED
      BY <2>2, <3>1, <3>2
  <2> QED
    BY <2>1, <2>2
<1>2. along \in Seq({"up", "down"}) /\ Len(along) \in Nat /\ Once(along)
  <2>1. /\ <<>> \in Seq({"up", "down"}) /\ <<"up">> \in Seq({"up", "down"})
        /\ <<"up", "down">> \in Seq({"up", "down"})
    OBVIOUS
  <2>2. Once(<<>>) /\ Once(<<"up">>) /\ Once(<<"up", "down">>)
    BY DEF Once
  <2>3. along \in {<<>>, <<"up">>, <<"up", "down">>}
    OBVIOUS
  <2> HIDE DEF along
  <2>4. along \in Seq({"up", "down"}) /\ Once(along)
    BY <2>1, <2>2, <2>3
  <2> QED
    BY <2>4, LenProperties
<1>3. DirectionsOf(caps) = across \o along
  BY DEF DirectionsOf
<1> HIDE DEF across, along
<1>4. across \in Seq(Directions) /\ along \in Seq(Directions)
  BY <1>1, <1>2 DEF Directions
<1>5. \A i \in 1..Len(across), j \in 1..Len(along) : across[i] # along[j]
  <2>1. /\ \A i \in 1..Len(across) : across[i] \in {"right", "left"}
        /\ \A j \in 1..Len(along) : along[j] \in {"up", "down"}
    BY <1>1, <1>2, ElementOfSeq
  <2> QED
    BY <2>1
<1>6. /\ across \o along \in Seq(Directions)
      /\ Len(across \o along) = Len(across) + Len(along) /\ Once(across \o along)
  BY <1>1, <1>2, <1>4, <1>5, OnceEach
<1>7. Len(across \o along) # 0
  BY <1>1, <1>2, <1>6
<1>8. Len(<<>>) = 0
  OBVIOUS
<1> QED
  BY <1>3, <1>6, <1>7, <1>8, Zenon

(* The answers to all commands but the steps. *)
LEMMA ReadMeasures == IInv /\ MInv /\ Read => MInv'
<1> SUFFICES ASSUME IInv, MInv, Read PROVE MInv'
  OBVIOUS
<1>1. /\ at.pc \in Driving /\ UNCHANGED <<hw, truth, blurred>> /\ at \in Places
      /\ at.pc = "read" => at.doing # "step"
  BY DEF Read, Driving, IInv, Types
<1>2. CASE /\ at.pc = "read" /\ at.doing = "caps" /\ at.op = "margin" /\ UNCHANGED resp
           /\ at' = [at EXCEPT !.todo = DirectionsOf(Abilities[at.lane]), !.pc = "noWrite"]
  <2> DEFINE list == DirectionsOf(Abilities[at.lane])
  <2>1. list \in Seq(Directions) /\ list # <<>> /\ Once(list)
    BY DirectionsOnce
  <2> HIDE DEF list
  <2>2. SameLane /\ at'.pc = "noWrite" /\ at'.doing = "caps" /\ at'.todo = list
    BY <1>1, <1>2 DEF SameLane, Places, list
  <2>3. /\ at'.ask = at.ask /\ at'.lane = at.lane /\ at'.slot = at.slot /\ at'.op = at.op
        /\ at'.left = at.left
    BY <2>2 DEF SameLane
  <2>4. Settling /\ Settling' /\ Stepping' /\ ~Ahead'
    BY <1>2, <2>2, <2>3 DEF Settling, Stepping, Ahead, Driving
  <2>5. StepsMeasured'
    BY <1>1, <1>2, <2>3, StaysMeasured DEF MInv
  <2>6. Texts'
    BY <1>1, <1>2 DEF MInv, Texts
  <2>7. Packed'
    BY <1>1, <2>2, <2>3 DEF MInv, Packed, Below, Driving
  <2>8. ToCome'
    BY <1>1, <1>2, <2>3, <2>4 DEF MInv, ToCome
  <2>9. \A d \in Directions : truth[at.lane][d] = 0 /\ resp[at.slot][d] = Blank
    BY <2>4 DEF MInv, ToCome
  <2>10. \A i \in 1..Len(list) : list[i] \in Directions
    BY <2>1, ElementOfSeq
  <2>11. ToDo'
    <3>1. at'.todo \in Seq(Directions) /\ at'.todo # <<>>
      BY <2>1, <2>2, Zenon
    <3>2. \A i, j \in 1..Len(at'.todo) : i # j => at'.todo[i] # at'.todo[j]
      BY <2>1, <2>2, Zenon DEF Once
    <3>3. \A i \in 1..Len(at'.todo) : /\ resp'[at'.slot][at'.todo[i]] = Blank
                                      /\ i > 1 => truth'[at'.lane][at'.todo[i]] = 0
      BY <1>1, <1>2, <2>2, <2>3, <2>9, <2>10, Zenon
    <3> QED
      BY <3>1, <3>2, <3>3 DEF ToDo, Once
  <2>12. Counted'
    <3>1. Dir' = Head(list) /\ Head(list) \in Directions
      BY <1>2, <2>1, <2>2, <2>3, HeadTailProperties DEF Dir
    <3>2. Passed' = 0
      BY <2>2 DEF Passed
    <3> QED
      BY <1>1, <2>3, <2>9, <3>1, <3>2 DEF Counted
  <2>13. Quiet'
    BY <2>2 DEF Quiet
  <2> QED
    BY <2>5, <2>6, <2>7, <2>8, <2>11, <2>12, <2>13 DEF MInv
<1>3. CASE /\ at.pc = "read" /\ Took /\ UNCHANGED resp
           /\ ~(at.doing = "caps" /\ at.op = "margin")
  <2>1. /\ SameLane /\ at'.pc = "noWrite" /\ at'.doing = at.doing
        /\ at'.todo = at.todo /\ at'.steps = at.steps
    BY <1>1, <1>3 DEF Took, SameLane, Places
  <2>2. at'.op = at.op
    BY <2>1 DEF SameLane
  <2>3. Quiet' /\ (Settling' => Settling)
    BY <1>1, <1>3, <2>1, <2>2 DEF Quiet, Settling, Driving
  <2>4. Stepping' => Stepping
    BY <1>1, <1>3, <2>1, <2>2 DEF Stepping, Driving
  <2>5. Passed' = Passed
    BY <1>1, <1>3, <2>1 DEF Passed, OnePassed
  <2>6. Stepping' => (<<at.lane, Dir>> \notin blurred' => truth[at.lane][Dir] = Passed')
    BY <1>1, <2>4, <2>5 DEF MInv, Counted
  <2>7. at'.pc \in Driving
    BY <2>1 DEF Driving
  <2> QED
    BY <1>1, <1>3, <2>1, <2>3, <2>4, <2>6, <2>7, GoesOnMeasured
<1>4. CASE at.pc = "noRead" /\ hw[at.lane].answers = NoCommand /\ Answered
  BY <1>1, <1>4, ContinuesMeasured
<1>5. CASE NotAnswered
  BY <1>1, <1>5, GivingUpMeasures
<1> QED
  <2>1. \/ /\ hw[at.lane].answers = (IF at.pc = "read" THEN Command ELSE NoCommand)
           /\ IF at.pc = "read" THEN Took /\ UNCHANGED <<resp, result>> ELSE Answered
        \/ NotAnswered
    BY DEF Read
  <2>2. at.pc \in {"read", "noRead"}
    BY DEF Read
  <2>3. CASE at.pc = "read" /\ Took /\ UNCHANGED resp
    BY <1>2, <1>3, <2>3 DEF Took
  <2> QED
    BY <1>4, <1>5, <2>1, <2>2, <2>3

(* The answer to a step: when it is late the direction is not what it seems. *)
LEMMA ReadStepMeasures == IInv /\ MInv /\ ReadStep => MInv'
<1> SUFFICES ASSUME IInv, MInv, ReadStep PROVE MInv'
  OBVIOUS
<1>1. /\ at.pc = "read" /\ at.pc \in Driving /\ at.doing = "step" /\ UNCHANGED <<hw, truth>>
      /\ at \in Places
  BY DEF ReadStep, Driving, IInv, Types
<1>2. at.op = "margin" /\ Stepping /\ Command.kind = "step" /\ NoCommand.kind = "none"
  <2>1. at.op = "margin"
    BY <1>1 DEF IInv, Whereabouts, Places, Questions
  <2> QED
    BY <1>1, <2>1, CommandKind DEF IInv, Stepping
<1>3. CASE /\ IF Code(at.lane) = "pass" THEN Goto("noWrite") ELSE Do("endClear")
           /\ blurred' = IF hw[at.lane].answers # Command THEN blurred \cup {<<at.lane, Dir>>} ELSE blurred
           /\ UNCHANGED resp
  <2>1. /\ SameLane /\ at'.todo = at.todo /\ at'.steps = at.steps
        /\ IF Code(at.lane) = "pass" THEN at'.pc = "noWrite" /\ at'.doing = "step"
           ELSE at'.pc = "write" /\ at'.doing = "endClear"
    BY <1>1, <1>3, GoesThere, DoesThere
  <2>2. at'.pc \in Driving /\ ~Settling' /\ Quiet'
    BY <2>1 DEF Driving, Settling, Quiet
  <2>3. blurred \subseteq blurred'
    BY <1>3
  <2>4. ASSUME <<at.lane, Dir>> \notin blurred'
        PROVE  truth[at.lane][Dir] = Passed'
    <3>1. hw[at.lane].answers = Command /\ <<at.lane, Dir>> \notin blurred
      BY <1>3, <2>4
    <3>2. Code(at.lane) = "pass" <=> JustPassed
      BY <1>2, <3>1 DEF Code, JustPassed
    <3>3. truth[at.lane][Dir] = Passed
      BY <1>2, <3>1 DEF MInv, Counted
    <3>4. CASE JustPassed
      <4>1. Passed = at.steps + 1 /\ Passed' = at.steps + 1
        BY <1>1, <2>1, <3>2, <3>4 DEF Passed, OnePassed
      <4> QED
        BY <3>3, <4>1
    <3>5. CASE ~JustPassed
      <4>1. Passed = at.steps /\ Passed' = at.steps
        BY <1>1, <2>1, <3>2, <3>5 DEF Passed, OnePassed
      <4> QED
        BY <3>3, <4>1
    <3> QED
      BY <3>4, <3>5
  <2> QED
    BY <1>1, <1>2, <1>3, <2>1, <2>2, <2>3, <2>4, GoesOnMeasured
<1>4. CASE Break("failed") /\ UNCHANGED <<blurred, resp>>
  BY <1>1, <1>4, BreaksOff, LeavesMeasured
<1>5. CASE blurred' = blurred \cup {<<at.lane, Dir>>} /\ Finish(0)
  BY <1>1, <1>2, <1>5, FinishesMeasured
<1> QED
  BY <1>3, <1>4, <1>5 DEF ReadStep

(* What the answer holds are the steps that passed, of the lane, the direction
   and the step they are given for (slmTimeMargining, slmVoltageMargining): the
   answers are not shifted by a lane that was skipped, a direction that was not
   supported, or a command that was answered late, unless the answer to a step
   itself came late or was all ones. *)
THEOREM StepsAreMeasured == Spec => []StepsMeasured
<1>1. IInv /\ MInv /\ [Next]_vars => MInv'
  <2> SUFFICES ASSUME IInv, MInv, [Next]_vars
               PROVE  MInv'
    OBVIOUS
  <2>1. CASE Begin
    BY <2>1, BeginMeasures
  <2>2. CASE \E l \in Lanes : Answer(l)
    BY <2>2, AnswerMeasures
  <2>3. CASE Look
    BY <2>3, LookMeasures
  <2>4. CASE Change
    BY <2>4, ChangeMeasures
  <2>5. CASE GiveBack
    BY <2>5, GiveBackMeasures
  <2>6. CASE NextLane
    BY <2>6, NextLaneMeasures
  <2>7. CASE ReadReceiver
    BY <2>7, ReadReceiverMeasures
  <2>8. CASE Write
    BY <2>8, WriteMeasures
  <2>9. CASE Read
    BY <2>9, ReadMeasures
  <2>10. CASE ReadStep
    BY <2>10, ReadStepMeasures
  <2>11. CASE UNCHANGED vars
    <3>1. UNCHANGED <<hw, at, resp, truth, blurred>>
      BY <2>11 DEF vars
    <3>2. Command' = Command
      BY <3>1, SameCommand
    <3>3. Dir' = Dir /\ Passed' = Passed
      BY <3>1, <3>2 DEF Dir, Passed, OnePassed, JustPassed
    <3>4. Texts' /\ Packed' /\ StepsMeasured'
      BY <3>1, StaysMeasured DEF MInv, Texts, Packed, Below
    <3>5. ToCome'
      BY <3>1 DEF MInv, ToCome, Ahead, Settling, Stepping
    <3>6. ToDo'
      BY <3>1 DEF MInv, ToDo, Once, Stepping
    <3>7. Counted' /\ Quiet'
      BY <3>1, <3>2, <3>3 DEF MInv, Counted, Quiet, Stepping
    <3> QED
      BY <3>4, <3>5, <3>6, <3>7 DEF MInv
  <2> QED
    BY <2>1, <2>2, <2>3, <2>4, <2>5, <2>6, <2>7, <2>8, <2>9, <2>10, <2>11 DEF Next, Program
<1>2. MInv => StepsMeasured
  BY DEF MInv
<1> QED
  BY <1>1, <1>2, Invariance, StartedMeasured, PTL DEF Spec

(***************************************************************************)
(* The health checks.                                                      *)
(***************************************************************************)
(* What loading an ini file comes to, by its text alone. *)
SwhLoad(file) ==
    IF file = Missing THEN Loaded("FILE_OPEN_FAILED", ZeroData("switch"), file)
    ELSE LET pages == LcpParserParseIniContent(file)
             load == ShmiEnumerateConfigDictionaries(pages)
         IN IF LcpiParserProcessINIFile(file) /\ LcpiHasAnyValidEntries(pages)
            THEN Loaded(IF load.ok THEN "SUCCESS" ELSE "FAILED", load.data, file)
            ELSE Loaded("FAILED", ZeroData("switch"), file)

ExpLoad(file) ==
    LET there == IF file = Missing THEN Directory ELSE file
        pages == LcpParserParseIniContent(there)
        load == EhmiEnumerateConfigDictionaries(pages)
    IN IF LcpiParserProcessINIFile(there) /\ LcpiHasAnyValidEntries(pages)
       THEN Loaded(IF load.ok THEN "SUCCESS" ELSE "FAILED", load.data, there)
       ELSE Loaded("FAILED", ZeroData("expander"), there)

LoadOf(fam, file) == IF fam = "switch" THEN SwhLoad(file) ELSE ExpLoad(file)

(* While a check is at work its reference is what its ini file says, whatever the
   references of earlier checks said, and only a switch without such a file makes a
   baseline. *)
ReferenceIsFile ==
    pc # "idle" =>
        /\ ref[Family(dev)] = LoadOf(Family(dev), ini[Family(dev)]).data
        /\ baseline <=> ini[Family(dev)] = Missing
        /\ baseline => Family(dev) = "switch"

HealthInv ==
    /\ ini = [f \in Families |-> ini[f]] /\ ref = [f \in Families |-> ref[f]]
    /\ ReferenceIsFile

(* Loading goes by the file of the family only. *)
LEMMA LoadsFile ==
    /\ ShmiInitializeHealthConfigurations = SwhLoad(ini["switch"])
    /\ EhmiInitializeHealthConfigurations = ExpLoad(ini["expander"])
<1>1. ShmiInitializeHealthConfigurations = SwhLoad(ini["switch"])
  BY Zenon DEF ShmiInitializeHealthConfigurations, SwhLoad
<1>2. EhmiInitializeHealthConfigurations = ExpLoad(ini["expander"])
  BY Zenon DEF EhmiInitializeHealthConfigurations, ExpLoad
<1> QED
  BY <1>1, <1>2

(* A file that is there is left as it is, and one that cannot be opened is told from one
   that says nothing. *)
LEMMA FileStays ==
    ASSUME NEW file
    PROVE  /\ SwhLoad(file).file = file
           /\ file # Missing => ExpLoad(file).file = file
           /\ SwhLoad(file).status = "FILE_OPEN_FAILED" <=> file = Missing
           /\ ExpLoad(file).status \in {"SUCCESS", "FAILED"}
           /\ ExpLoad(file).status = "SUCCESS" => file # Missing
<1>1. \A s, data : /\ Loaded(s, data, file).file = file /\ Loaded(s, data, file).status = s
  BY DEF Loaded
<1>2. SwhLoad(file).file = file /\ (SwhLoad(file).status = "FILE_OPEN_FAILED" <=> file = Missing)
  <2>1. CASE file = Missing
    BY <1>1, <2>1 DEF SwhLoad
  <2>2. CASE file # Missing
    <3> DEFINE load == ShmiEnumerateConfigDictionaries(LcpParserParseIniContent(file))
               said == LcpiParserProcessINIFile(file) /\ LcpiHasAnyValidEntries(LcpParserParseIniContent(file))
    <3>1. SwhLoad(file) = IF said THEN Loaded(IF load.ok THEN "SUCCESS" ELSE "FAILED", load.data, file)
                                  ELSE Loaded("FAILED", ZeroData("switch"), file)
      BY <2>2 DEF SwhLoad
    <3> HIDE DEF load, said
    <3> QED
      BY <3>1, <2>2, <1>1
  <2> QED
    BY <2>1, <2>2
<1>3. /\ ExpLoad(file).status \in {"SUCCESS", "FAILED"}
      /\ file # Missing => ExpLoad(file).file = file
      /\ ExpLoad(file).status = "SUCCESS" => file # Missing
  <2> DEFINE there == IF file = Missing THEN Directory ELSE file
             load == EhmiEnumerateConfigDictionaries(LcpParserParseIniContent(there))
             said == LcpiParserProcessINIFile(there) /\ LcpiHasAnyValidEntries(LcpParserParseIniContent(there))
  <2>1. ExpLoad(file) = IF said THEN Loaded(IF load.ok THEN "SUCCESS" ELSE "FAILED", load.data, there)
                                ELSE Loaded("FAILED", ZeroData("expander"), there)
    BY Zenon DEF ExpLoad
  <2>2. file = Missing => ~said
    BY DEF LcpiParserProcessINIFile
  <2>3. file # Missing => there = file
    OBVIOUS
  <2>4. \A s, data : Loaded(s, data, there).file = there /\ Loaded(s, data, there).status = s
    BY DEF Loaded
  <2> HIDE DEF load, said, there
  <2> QED
    BY <2>1, <2>2, <2>3, <2>4
<1> QED
  BY <1>2, <1>3

(* The beginning of a check. *)
LEMMA CheckStarts ==
    ASSUME HealthInv, NEW d \in Devices, NEW toFile \in BOOLEAN, StartCheck(d, toFile)
    PROVE  /\ HealthInv'
           /\ \A fam \in Families : ini[fam] # Missing => ini'[fam] = ini[fam]
<1> DEFINE fam == Family(d)
           load == LoadOf(fam, ini[fam])
<1>1. fam \in Families /\ (fam = "switch" \/ fam = "expander")
  BY DEF Family, Families
<1>2. /\ dev' = d
      /\ ini' = [ini EXCEPT ![fam] = load.file] /\ ref' = [ref EXCEPT ![fam] = load.data]
      /\ baseline' = (load.status = "FILE_OPEN_FAILED")
      /\ load.status \in {"SUCCESS", "FILE_OPEN_FAILED"} \/ pc' = "idle"
  <2>1. load = IF fam = "switch" THEN ShmiInitializeHealthConfigurations ELSE EhmiInitializeHealthConfigurations
    BY <1>1, LoadsFile DEF LoadOf
  <2> HIDE DEF load, fam
  <2> QED
    BY <2>1 DEF StartCheck, EndsWith, fam
<1>3. /\ ini[fam] # Missing => load.file = ini[fam]
      /\ load.status = "FILE_OPEN_FAILED" <=> fam = "switch" /\ ini[fam] = Missing
      /\ load.status \in {"SUCCESS", "FILE_OPEN_FAILED"} => load.file = ini[fam]
      /\ load.status = "SUCCESS" => ini[fam] # Missing
  BY <1>1, FileStays DEF LoadOf
<1> HIDE DEF fam
<1>4. /\ ini'[fam] = load.file /\ ref'[fam] = load.data
      /\ \A f \in Families : f # fam => ini'[f] = ini[f]
      /\ ini' = [f \in Families |-> ini'[f]] /\ ref' = [f \in Families |-> ref'[f]]
  BY <1>1, <1>2 DEF HealthInv
<1> HIDE DEF load
<1>5. ReferenceIsFile'
  <2> SUFFICES ASSUME pc' # "idle"
               PROVE  /\ ref'[fam] = LoadOf(fam, ini'[fam]).data
                      /\ baseline' <=> ini'[fam] = Missing
                      /\ baseline' => fam = "switch"
    BY <1>2 DEF ReferenceIsFile, fam
  <2>1. ini'[fam] = ini[fam]
    BY <1>2, <1>3, <1>4
  <2> QED
    BY <1>2, <1>3, <1>4, <2>1 DEF load
<1> QED
  BY <1>3, <1>4, <1>5 DEF HealthInv

(* What the other steps of a check leave as it is. *)
LEMMA CheckGoesOn ==
    ASSUME HealthNext, ~UserWrites, ~\E d \in Devices, toFile \in BOOLEAN : StartCheck(d, toFile),
           ~ShmiSwitchHealthCheck
    PROVE  UNCHANGED << dev, ini, ref, baseline >> /\ (pc # "idle" \/ pc' = "idle")
<1>1. CASE ReadGlobal \/ ReadingsDone
  BY <1>1 DEF ReadGlobal, ReadingsDone, AccessFails, EndsWith
<1>2. CASE ShmiGetHealthData \/ EhmiGetHealthData
  BY <1>2 DEF ShmiGetHealthData, EhmiGetHealthData, AccessFails, EndsWith
<1>3. CASE SppGetPciePortProperties \/ SppGetPcieOnePortProperties
  BY <1>3 DEF SppGetPciePortProperties, SppGetPcieOnePortProperties, AccessFails, EndsWith
<1>4. CASE SswPropertiesDone \/ BswPropertiesDone
  BY <1>4 DEF SswPropertiesDone, BswPropertiesDone, PropertiesEnd, AccessFails, EndsWith
<1>5. CASE EhmiExpanderHealthCheck
  BY <1>5 DEF EhmiExpanderHealthCheck, EndsWith
<1> QED
  BY <1>1, <1>2, <1>3, <1>4, <1>5 DEF HealthNext

(* The end of a check of a switch: its readings go to an ini file only if there is none. *)
LEMMA CheckEnds ==
    ASSUME HealthInv, ShmiSwitchHealthCheck
    PROVE  /\ HealthInv'
           /\ \A fam \in Families : ini[fam] # Missing => ini'[fam] = ini[fam]
<1>1. pc = "verdict" /\ Family(dev) = "switch" /\ pc' = "idle" /\ ref' = ref
  BY DEF ShmiSwitchHealthCheck, EndsWith
<1>2. CASE ini' = ini
  BY <1>1, <1>2 DEF HealthInv, ReferenceIsFile
<1>3. CASE ini' # ini
  <2>1. PICK text : ini' = [ini EXCEPT !["switch"] = text]
    BY <1>3 DEF ShmiSwitchHealthCheck
  <2>2. ini["switch"] = Missing
    BY <1>1, <1>3 DEF ShmiSwitchHealthCheck, HealthInv, ReferenceIsFile
  <2>3. ini' = [f \in Families |-> ini'[f]] /\ \A f \in Families : f # "switch" => ini'[f] = ini[f]
    BY <2>1 DEF HealthInv
  <2> QED
    BY <1>1, <2>2, <2>3 DEF HealthInv, ReferenceIsFile
<1> QED
  BY <1>2, <1>3

(* The user writes between two checks. *)
LEMMA UserStep ==
    ASSUME HealthInv, UserWrites
    PROVE  HealthInv'
<1>1. PICK fam, file : ini' = [ini EXCEPT ![fam] = file]
  BY DEF UserWrites
<1>2. pc' = "idle" /\ ref' = ref
  BY DEF UserWrites
<1>3. ini' = [f \in Families |-> ini'[f]]
  BY <1>1 DEF HealthInv
<1> QED
  BY <1>2, <1>3 DEF HealthInv, ReferenceIsFile

(* Every step keeps the invariant, and only the user changes a file that is there. *)
LEMMA HealthStep ==
    ASSUME HealthInv, [HealthNext]_healthVars
    PROVE  /\ HealthInv'
           /\ \A fam \in Families : ini[fam] # Missing => ini'[fam] = ini[fam] \/ UserWrites
<1>1. CASE UserWrites
  BY <1>1, UserStep
<1>2. CASE \E d \in Devices, toFile \in BOOLEAN : StartCheck(d, toFile)
  BY <1>2, CheckStarts
<1>3. CASE ShmiSwitchHealthCheck
  BY <1>3, CheckEnds
<1>4. ASSUME UNCHANGED << dev, ini, ref, baseline >>, pc # "idle" \/ pc' = "idle"
      PROVE  HealthInv' /\ \A fam \in Families : ini'[fam] = ini[fam]
  BY <1>4 DEF HealthInv, ReferenceIsFile, Family
<1>5. CASE UNCHANGED healthVars
  BY <1>4, <1>5 DEF healthVars
<1> QED
  BY <1>1, <1>2, <1>3, <1>4, <1>5, CheckGoesOn

(* The limits of a check are those of its own ini file (shmiInitializeHealthConfigurations
   and ehmiInitializeHealthConfigurations), for every file and every order of checks of any
   devices, and a baseline is made only where there was no file. *)
THEOREM LimitsAreOfThisFile == HealthSpec => []ReferenceIsFile
<1>1. HealthInit => HealthInv
  BY DEF HealthInit, HealthInv, ReferenceIsFile, Families
<1>2. HealthInv /\ [HealthNext]_healthVars => HealthInv'
  BY HealthStep
<1>3. HealthInv => ReferenceIsFile
  BY DEF HealthInv
<1> QED
  BY <1>1, <1>2, <1>3, PTL DEF HealthSpec

(* Only the user changes an ini file that is there (the baselines of
   shmiSwitchHealthCheck), for every file and every order of checks. *)
THEOREM UserFilesAreKept == HealthSpec => UserFileKept
<1>1. HealthInit => HealthInv
  BY DEF HealthInit, HealthInv, ReferenceIsFile, Families
<1>2. HealthInv /\ [HealthNext]_healthVars => HealthInv'
  BY HealthStep
<1>3. HealthInv /\ [HealthNext]_healthVars
          => [\A fam \in Families : ini[fam] # Missing => ini'[fam] = ini[fam] \/ UserWrites]_healthVars
  BY HealthStep
<1> QED
  BY <1>1, <1>2, <1>3, PTL DEF HealthSpec, UserFileKept

==============================================================================
