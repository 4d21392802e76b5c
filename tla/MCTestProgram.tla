--------------------------- MODULE MCTestProgram ---------------------------
(***************************************************************************)
(* The test program with four devices: a switch at each of the three ways  *)
(* to reach one and an expander.  A READ BUFFER can ask for 8 bytes only   *)
(* and a port counter comes round at 32.                                   *)
(***************************************************************************)
EXTENDS TestProgram

MCInband == <<0, 1, 2>>
MCFamily == [d \in 0 .. 3 |-> IF d = 1 THEN "expander" ELSE "switch"]
MCVia == (0 :> "pci") @@ (1 :> "scsi") @@ (2 :> "scsi") @@ (3 :> "sdb")

Group(type, readings) == [type |-> type, readings |-> readings]
MCEnclosures ==
    (1 :> <<Group(23, <<7, 8>>), Group(3, <<>>), Group(4, <<64, 70>>), Group(4, <<90>>)>>)
        @@ (2 :> <<Group(23, <<7>>)>>)

MCMaxWidth == (0 :> 1) @@ (1 :> 0) @@ (2 :> 0) @@ (3 :> 1)
Packet(port, dir, kind, payload) == [port |-> port, dir |-> dir, kind |-> kind, payload |-> payload]
MCTlps == {Packet(0, "ingress", "P", 1), Packet(0, "egress", "Cpl", 2), Packet(3, "egress", "P", 1),
           Packet(3, "ingress", "DLLP", 0)}

Index(d, c, words) == [option |-> "i", value |-> Val(d), command |-> c, words |-> words]
Serial(c, words) == [option |-> "sdb", value |-> Val(9), command |-> c, words |-> words]
Other(option) == [option |-> option, value |-> Opt("x"), command |-> "", words |-> <<>>]
Menu == [option |-> "", value |-> Val(0), command |-> "", words |-> <<>>]

\* -option n -option n ...
Pairs(options, n) == FlattenSeq([i \in DOMAIN options |-> <<Opt(options[i]), Val(n)>>])
Access(addr, size) == <<Opt("addr"), Val(addr), Opt("size"), Val(size)>>
Bytes(n) == [i \in 1 .. n |-> Val(i)]
Perf(statistic, time) ==
    <<Opt("loop"), Val(1), Opt("delay"), Val(0), Opt("statistic"), Val(statistic), Opt("stattime"), Val(time)>>

Wordless == {"temperature", "getcoredump", "erasecoredump", "gettrace", "geterrstat", "getportprop",
             "getccr", "getpos", "gethealth", "getlogs", "healthcheck", "reset", "alllogs", "unknown"}

WithoutWords ==
    {Index(d, c, <<>>) : d \in 0 .. 2, c \in Wordless} \union {Serial(c, <<>>) : c \in Wordless}

\* Lines of the commands that take options, as they should be and not.
WithWords ==
    { <<"getlmcap", Pairs(<<"port", "lane">>, 1)>>, <<"getlmcap", <<Opt("port"), Opt("lane"), Val(1)>> >>,
      <<"perflm", Pairs(<<"port", "lanes", "timesteps", "volsteps", "errlmt">>, 2)>>,
      <<"perflm", Pairs(<<"port", "lanes">>, 17)>>, <<"perflm", <<Opt("port")>> >>,
      <<"rxeq", Pairs(<<"startport", "num", "startport">>, 1)>>, <<"rxeq", <<>> >>,
      <<"rxeq", <<Opt("startport"), Val(1), Opt("num"), Val(2)>> >>,
      <<"txcoeff", <<Opt("startport"), Val(1), Opt("num"), Val(2)>> >>,
      <<"txcoeff", <<Opt("num"), Val(2), Opt("num"), Val(1)>> >>, <<"txcoeff", <<Val(1)>> >>,
      <<"hweye", Pairs(<<"startport", "num">>, 1) \o <<Opt("to"), Val(2)>> >>,
      <<"sweye", Pairs(<<"startport", "num">>, 1)>>, <<"sweye", <<Opt("to"), Val(1)>> >>,
      <<"getconfigpage", Pairs(<<"pagenum">>, 1)>>, <<"getconfigpage", <<Opt("region"), Val(1), Val(2)>> >>,
      <<"ltssm", Pairs(<<"port", "interval", "count">>, 1)>>, <<"ltssm", Pairs(<<"port", "count">>, 2)>>,
      <<"ltssmtrace", Pairs(<<"port", "poll">>, 1)>>, <<"ltssmtrace", <<Opt("poll")>> >>,
      <<"memread", Access(4, 4)>>, <<"memread", Access(4, 2)>>, <<"memread", Access(0, 1)>>,
      <<"memread", Access(0, 12)>>, <<"memread", Access(0, 8) \o Access(4, 4)>>,
      <<"memread", <<Opt("addr"), Val(4)>> >>,
      <<"memread", Access(4, 0)>>, <<"memread", Access(999, 4)>>,
      <<"memwrite", Access(4, 0)>>, <<"memwrite", Access(4, 999) \o <<Opt("val"), Val(1)>> >>,
      <<"memwrite", Access(4, 4) \o <<Opt("val")>> \o Bytes(4)>>,
      <<"memwrite", Access(4, 8) \o <<Opt("val")>> \o Bytes(8)>>,
      <<"memwrite", Access(0, 2) \o <<Opt("val")>> \o Bytes(2)>>,
      <<"memwrite", Access(8, 1) \o <<Opt("val")>> \o Bytes(1)>>,
      <<"memwrite", Access(4, 4) \o <<Opt("val")>> \o Bytes(3)>>,
      <<"memwrite", Access(4, 4) \o <<Opt("val")>> \o Bytes(4) \o <<Opt("size"), Val(8)>> >>,
      <<"memwrite", <<Opt("val"), Val(1)>> \o Access(4, 4)>>,
      <<"memwrite", Access(4, 4)>>,
      <<"cli", <<Val(1)>> >>, <<"cli", <<>> >>,
      <<"gethealthlogs", <<Val(1)>> >>, <<"gethealthlogs", <<Opt("x")>> >>,
      <<"scsipassthru", <<Opt("cdblen"), Val(1), Opt("rw"), Val(1), Opt("cdb"), Val(1)>> >>,
      <<"scsipassthru", <<Opt("cdblen"), Opt("x"), Opt("rw"), Val(1), Opt("cdb"), Val(1)>> >>,
      <<"scsipassthru", <<Opt("cdblen"), Val(2), Opt("rw"), Val(1), Opt("cdb"), Val(1)>> >> }

MCLines ==
    WithoutWords
    \union {Index(d, w[1], w[2]) : d \in 0 .. 2, w \in WithWords}
    \union {Serial(w[1], w[2]) : w \in WithWords}
    \union {Index(0, "perf", Perf(1, time)) : time \in {0, 1}}
    \union {Index(1, "perf", Perf(1, 1)), Index(2, "perf", Perf(0, 0)), Index(0, "perf", <<Opt("loop"), Opt("delay")>>)}
    \union {Menu, Other("sdb"), Serial("", <<>>), Other("i"), Other("list"), Index(7, "temperature", <<>>)}

\* A menu command for each way a command comes to its request.
MCMenuChoices ==
    {"gethealthlogs", "coredump", "cli", "aladin", "temperature", "perflm", "hweye",
     "memread", "memwrite", "getconfigpage", "ltssm", "reset", "sbr"}

MCTyped ==
    [port |-> {1, 2}, lanes |-> {1}, timesteps |-> {1}, volsteps |-> {1}, errlmt |-> {1},
     lane |-> {1}, startport |-> {0}, num |-> {1}, to |-> {1}, addr |-> {4}, size |-> {1, 4},
     val |-> {5}, pagenum |-> {1}, region |-> {0}, interval |-> {0}, count |-> {1},
     loop |-> {1}, delay |-> {0}, statistic |-> {1}, stattime |-> {1}, poll |-> {1},
     type |-> {1, 9}, operation |-> {1, 2}, text |-> {1}, choice |-> {1, 9}]

=============================================================================
