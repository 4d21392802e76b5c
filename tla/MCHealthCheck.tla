---- MODULE MCHealthCheck ----
(* A switch in both modes and an expander, with four ports each. *)
EXTENDS HealthCheck

MCPortWidth == (0 :> 2) @@ (1 :> 1) @@ (2 :> 1) @@ (3 :> 1)
MCX1Ports == <<3>>

Reading(t, e, s) == [temperature |-> t, enclosure |-> e, identity |-> 1, sce |-> s]
MCGlobalValues == {Reading(0, {}, {}), Reading(1, {"b"}, {"a"})}

MCErrorValues == {[count |-> 0, uncorrectable |-> {}], [count |-> 1, uncorrectable |-> {"a"}]}
MCLinkValues == {[up |-> 1, max |-> 1, negotiated |-> 1], [up |-> 0, max |-> 1, negotiated |-> 0]}
MCStackValues ==
    {[bits |-> {}, phy |-> [up |-> 0, max |-> 0, negotiated |-> 0, count |-> 0]],
     [bits |-> {"b"}, phy |-> [up |-> 1, max |-> 0, negotiated |-> 1, count |-> 1]]}

Whole ==
    << Remark, Header(Global), Entry("temperature", 1), Entry("enclosure", {"b"}), Entry("identity", 1),
       Header(<<0, 2>>), Entry("up", 1), Entry("max", 1), Entry("count", 1),
       Header(<<2, 2>>), Entry("negotiated", 1), Entry("uncorrectable", {"b"}), Entry("max", 1) >>
Twice == << Header(Global), Entry("total", 3), Header(<<0, 0>>), Entry("count", 1), Entry("count", 2),
            BrokenHeader, Entry("max", 1), Header(Global), Entry("total", 2), Entry("sce", {"b"}) >>
Unknown == << Header(<<0, 1>>), Entry("up", 1), Entry("colour", 1), Header(Other), Entry("max", 1) >>
Backwards == << Header(Global), Entry("temperature", 2), Header(<<2, 1>>), Entry("up", 1) >>
MCUserFiles == {Whole, Twice, Unknown, Backwards, << Remark >>, << Header(Global), Unprintable >>}
====
