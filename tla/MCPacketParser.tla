--------------------------- MODULE MCPacketParser ---------------------------
(* Small instances of PacketParser.                                        *)
EXTENDS PacketParser

Answer(known, type, otherwise) ==
    [v \in Values |-> IF v \in known THEN type ELSE otherwise]

(* Bindings a caller may add: an application protocol over Tcp, on its     *)
(* port only or on all of them, a marker of any size behind it or behind   *)
(* an unknown ether type, and a tunnelled Ipv4 packet behind the marker.   *)
(* Both custom layers may take no byte, but none is chained to itself.     *)
MCRules ==
    {<<"Tcp", Answer({"App"}, "Http", None)>>,
     <<"Tcp", Answer({"App", "Other"}, "Http", None)>>,
     <<"Http", Answer({}, None, "Mark")>>,
     <<"Mark", Answer({}, None, "Ipv4")>>,
     <<"Ether", Answer({"Other"}, "Mark", None)>>}

MCInitialRules == {DefaultRules, WithoutBindings}

(* Sizes at which each layer of a stack starts, ends and lacks a byte.     *)
MCInputSizes == {13, 14, 35, 55, 78}
=============================================================================
