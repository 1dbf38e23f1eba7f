----------------------------- MODULE MCOptions -----------------------------
(* Small instances of Options.                                             *)
EXTENDS Options

Zeros(n) == [j \in 1 .. n |-> 0]

(* Bytes of single options: of every kind, with lengths that are right,    *)
(* too small, too large or no multiple of a SAck block, and of a kind Tcp  *)
(* has no variant for.                                                     *)
Pieces ==
    {<<0>>, <<1>>, <<129>>, <<2, 4, 5, 180>>, <<2, 1, 5, 180>>, <<3, 3, 7>>, <<4, 2>>,
     <<5, 10>> \o Zeros(8), <<5, 12>> \o Zeros(10), <<5, 1>>, <<8, 10>> \o Zeros(8),
     <<9, 3, 1>>, <<134, 6, 1, 1, 1, 1>>}

MaxPieces == 3

MCReceived ==
    {FlattenSeq(ps) : ps \in UNION {[1 .. n -> Pieces] : n \in 0 .. MaxPieces}}

(* Payloads that read like no option, or like the start of several.        *)
MCPayloads == {<<>>, <<1, 9>>}

Opt(type, length, size) ==
    [copied |-> 0, class |-> 0, type |-> type, length |-> length, value |-> Zeros(size)]

(* Lists a program may build: length fields as yet unset, right, stale (a  *)
(* value was replaced by a shorter or a longer one), and one that says     *)
(* seven or eight bytes more than the SAck blocks have.  A SAck of 31      *)
(* blocks has the largest length that update can store.                    *)
MCBuilt ==
    [p \in {"Tcp", "Ipv4"} |->
        IF p = "Tcp"
        THEN {<<Opt(2, 4, 2), Opt(4, 2, 0), Opt(8, 10, 8), Opt(1, 0, 0), Opt(3, 3, 1)>>,
              <<Opt(1, 0, 0), Opt(5, 0, 16), Opt(3, 0, 1)>>,
              <<Opt(5, 0, 8), Opt(5, 0, 8)>>,
              <<Opt(5, 17, 8), Opt(1, 0, 0)>>, <<Opt(5, 18, 8), Opt(5, 10, 16)>>,
              <<Opt(5, 0, 8 * 31)>>, <<Opt(5, 0, 8 * 32)>>}
        ELSE {<<[Opt(6, 0, 2) EXCEPT !.copied = 1, !.class = 2]>>,
              <<Opt(7, 0, 3), Opt(1, 0, 0), Opt(3, 0, 4)>>,
              <<Opt(7, 7, 5), Opt(1, 0, 0)>>, <<Opt(7, 9, 3), Opt(3, 0, 5)>>,
              <<Opt(7, 4, 6)>>, <<Opt(7, 0, 38)>>, <<Opt(7, 0, 1)>>}]
=============================================================================
