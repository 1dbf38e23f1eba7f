------------------------------ MODULE Options ------------------------------
(***************************************************************************)
(* The options of a Tcp or Ipv4 header: how the derived parsers read them  *)
(* from the bytes behind the fixed part until as many bytes were read as   *)
(* the header counts, how they are written back, and the update call that  *)
(* brings the length field of an option in line with its value.            *)
(*                                                                         *)
(* Either a program builds a list of options and sends it, or a header     *)
(* arrives with any bytes behind it; one option is read a step.            *)
(***************************************************************************)
EXTENDS Integers, SequencesExt

CONSTANTS
    Built,      \* for each protocol, lists of options a program builds
    Received,   \* bytes that may follow the fixed part of a header
    Payloads,   \* bytes that may follow the options a program sends
    Counts      \* the header sizes, in words, that may be received or set

Byte == 0 .. 255

(* A Tcp kind is a whole byte, an Ipv4 type the last five bits of one.     *)
Option == [copied : 0 .. 1, class : 0 .. 3, type : Byte, length : Byte, value : Seq(Byte)]

(* The options a program can build: the fields of each variant, no value   *)
(* wider than the bits it is written in, and no Unknown of a type that has *)
(* a variant.  A field that the variant does not have is zero or empty.    *)
Buildable(p) ==
    {o \in Option :
        /\ o.type \in {0, 1} => o.length = 0 /\ o.value = <<>>
        /\ p = "Ipv4" => o.type < 32
        /\ p = "Tcp" =>
               /\ o.copied = 0 /\ o.class = 0
               /\ \/ <<o.type, Len(o.value)>> \in
                         {<<0, 0>>, <<1, 0>>, <<2, 2>>, <<3, 1>>, <<4, 0>>, <<8, 8>>}
                  \/ o.type = 5 /\ Len(o.value) % 8 = 0}

ASSUME CountsAssumption == Counts \subseteq 0 .. 15
ASSUME BytesAssumption == Received \subseteq Seq(Byte) /\ Payloads \subseteq Seq(Byte)
ASSUME BuiltAssumption ==
    \A p \in {"Tcp", "Ipv4"} : \A os \in Built[p] : os \in Seq(Buildable(p))

VARIABLES
    proto,     \* "Tcp" or "Ipv4"
    built,     \* the list a program built, empty for a received header
    updated,   \* history: which options of built had a successful update
    count,     \* offset or ihl
    input,     \* the bytes behind the fixed part
    read,      \* how many of them the options read so far take
    options,   \* the options read so far
    result     \* "none", "reading", "ok", "incomplete" or "error"

vars == <<proto, built, updated, count, input, read, options, result>>

Known(type) == proto = "Ipv4" \/ type \in {0, 1, 2, 3, 4, 5, 8}

(* Type 0 ends the list and type 1 is no operation, in both protocols.     *)
HasLength(type) == type > 1

(* The parser looks at the length of Ipv4 options and of SAck only.        *)
LengthCounts(type) == HasLength(type) /\ (proto = "Ipv4" \/ type = 5)

(* Mutant: the SAck blocks are the length in units of eight, rounded up.   *)
ValueBytesUp(type, length) ==
    IF proto = "Ipv4" THEN length - 2
    ELSE CASE type = 2 -> 2
           [] type = 3 -> 1
           [] type = 4 -> 0
           [] type = 5 -> 8 * ((length + 7) \div 8)
           [] type = 8 -> 8

ValueBytes(type, length) ==
    IF proto = "Ipv4" THEN length - 2
    ELSE CASE type = 2 -> 2
           [] type = 3 -> 1
           [] type = 4 -> 0
           [] type = 5 -> 8 * ((length - 2) \div 8)
           [] type = 8 -> 8

Split(byte) ==
    IF proto = "Tcp" THEN [copied |-> 0, class |-> 0, type |-> byte]
    ELSE [copied |-> byte \div 128, class |-> (byte \div 32) % 4, type |-> byte % 32]

OptionToBytes(o) ==
    LET id == 128 * o.copied + 32 * o.class + o.type
    IN  IF HasLength(o.type) THEN <<id, o.length>> \o o.value ELSE <<id>>

ToBytes(os) == FlattenSeq([j \in DOMAIN os |-> OptionToBytes(os[j])])

-----------------------------------------------------------------------------
Init ==
    /\ proto \in {"Tcp", "Ipv4"}
    /\ built = <<>>
    /\ updated = {}
    /\ count = 5
    /\ input = <<>>
    /\ read = 0
    /\ options = <<>>
    /\ result = "none"

Build ==
    /\ result = "none" /\ built = <<>>
    /\ built' \in Built[proto]
    /\ UNCHANGED <<proto, updated, count, input, read, options, result>>

(* Mutant: the two bytes in front of the value are left out.               *)
NewLengthOfValue(o) == Len(o.value)

NewLength(o) == 2 + Len(o.value)

(* Mutant: update does not look at the range of the length.                *)
UpdateUnchecked(j) ==
    /\ result = "none"
    /\ LengthCounts(built[j].type) /\ j \notin updated
    /\ built' = [built EXCEPT ![j].length = NewLength(built[j])]
    /\ updated' = updated \cup {j}
    /\ UNCHANGED <<proto, count, input, read, options, result>>

(* update of one option: refused when the new length is no u8.             *)
Update(j) ==
    /\ result = "none"
    /\ LengthCounts(built[j].type) /\ j \notin updated
    /\ NewLength(built[j]) \in Byte
    /\ built' = [built EXCEPT ![j].length = NewLength(built[j])]
    /\ updated' = updated \cup {j}
    /\ UNCHANGED <<proto, count, input, read, options, result>>

EndOfList == [copied |-> 0, class |-> 0, type |-> 0, length |-> 0, value |-> <<>>]

(* What Tcp::finalize makes of the options; Ipv4::finalize leaves them.    *)
Padded(os) ==
    LET pad == IF proto = "Tcp" THEN (-Len(ToBytes(os))) % 4 ELSE 0
    IN  os \o [j \in 1 .. pad |-> EndOfList]

(* The header a program sends.  Tcp::finalize counts its words, the owner  *)
(* of an Ipv4 header sets ihl; what does not fit four bits is not sent.    *)
Send ==
    LET bytes == ToBytes(Padded(built))
    IN  /\ result = "none" /\ built # <<>> /\ Len(bytes) <= 40
        /\ count' \in IF proto = "Tcp" THEN {5 + Len(bytes) \div 4} ELSE Counts
        /\ \E p \in Payloads : input' = bytes \o p
        /\ result' = "reading"
        /\ UNCHANGED <<proto, built, updated, read, options>>

(* A header arrives; a Tcp offset below five is refused at once.           *)
Receive ==
    /\ result = "none" /\ built = <<>>
    /\ input' \in Received
    /\ count' \in Counts
    /\ result' = IF proto = "Tcp" /\ count' < 5 THEN "error" ELSE "reading"
    /\ UNCHANGED <<proto, built, updated, read, options>>

-----------------------------------------------------------------------------
(* Reading: deku stops when exactly Limit bytes were read.                 *)

Limit == IF count < 5 THEN 0 ELSE 4 * (count - 5)

(* Mutant: reading stops at the first option that ends past the limit.     *)
ReachedLoosely == read >= Limit

Reached == read = Limit

Rest == SubSeq(input, read + 1, Len(input))

Return(r) ==
    /\ result' = r
    /\ UNCHANGED <<proto, built, updated, count, input, read, options>>

Finish == result = "reading" /\ Reached /\ Return("ok")

(* What keeps the next option from being read: its kind has no variant or  *)
(* its length underflows; nothing is left of it, or its value is cut off.  *)
Refused ==
    /\ Rest # <<>>
    /\ LET type == Split(Rest[1]).type
       IN  ~Known(type) \/ (LengthCounts(type) /\ Len(Rest) > 1 /\ Rest[2] < 2)

CutOff ==
    /\ ~Refused
    /\ Rest # <<>> =>
           LET type == Split(Rest[1]).type
           IN  /\ HasLength(type)
               /\ Len(Rest) > 1 => Len(Rest) < 2 + ValueBytes(type, Rest[2])

ReadFails ==
    /\ result = "reading" /\ ~Reached
    /\ (Refused /\ Return("error")) \/ (CutOff /\ Return("incomplete"))

ReadOption ==
    /\ result = "reading" /\ ~Reached /\ ~Refused /\ ~CutOff
    /\ LET id    == Split(Rest[1])
           valued == HasLength(id.type)
           o == [copied |-> id.copied, class |-> id.class, type |-> id.type,
                 length |-> IF valued THEN Rest[2] ELSE 0,
                 value  |-> IF valued
                            THEN SubSeq(Rest, 3, 2 + ValueBytes(id.type, Rest[2]))
                            ELSE <<>>]
       IN  /\ options' = Append(options, o)
           /\ read' = read + Len(OptionToBytes(o))
    /\ UNCHANGED <<proto, built, updated, count, input, result>>

ReadStep == Finish \/ ReadFails \/ ReadOption

Next ==
    \/ Build \/ Send \/ Receive \/ ReadStep
    \/ \E j \in DOMAIN built : Update(j)

Spec == Init /\ [][Next]_vars

-----------------------------------------------------------------------------
(* Properties.                                                             *)

(* Every variable has its type; the options read never reach beyond the    *)
(* input.                                                                  *)
TypeOK ==
    /\ proto \in {"Tcp", "Ipv4"}
    /\ built \in Seq(Option)
    /\ updated \subseteq DOMAIN built
    /\ count \in 0 .. 15
    /\ input \in Seq(Byte)
    /\ read \in 0 .. Len(input)
    /\ options \in Seq(Option)
    /\ result \in {"none", "reading", "ok", "incomplete", "error"}

(* A header that parses holds exactly the bytes it counts: no option takes *)
(* a byte of the payload, whatever lengths the options claim, and to_bytes *)
(* gives back the bytes that were read.                                    *)
HeaderExact == result = "ok" => ToBytes(options) = SubSeq(input, 1, Limit)

(* The lengths the formats prescribe.                                      *)
RightLength(type, length) ==
    \/ proto = "Ipv4" /\ length >= 2
    \/ proto = "Tcp" /\ <<type, length>> \in {<<2, 4>>, <<3, 3>>, <<4, 2>>, <<8, 10>>}
    \/ proto = "Tcp" /\ type = 5 /\ length % 8 = 2

(* The options by their length bytes alone, as a receiver that knows none  *)
(* of them steps through them: they fill the header, or end with a list    *)
(* end behind which there are only zeros.                                  *)
WellFormed ==
    LET from[p \in 0 .. Limit] ==
            LET type == Split(input[p + 1]).type
                next == p + IF HasLength(type) THEN input[p + 2] ELSE 1
            IN  \/ p = Limit
                \/ type = 0 /\ \A q \in p + 1 .. Limit : input[q] = 0
                \/ /\ type # 0
                   /\ HasLength(type) => p + 1 < Limit /\ RightLength(type, input[p + 2])
                   /\ next <= Limit /\ from[next]
    IN  Len(input) >= Limit /\ from[0]

(* A header whose options are well formed is accepted, and split into them *)
(* as their lengths say.                                                   *)
WellFormedAccepted ==
    result \notin {"none", "reading"} /\ count >= 5 /\ WellFormed =>
        /\ result = "ok"
        /\ \A j \in DOMAIN options : LET o == options[j] IN
               HasLength(o.type) => o.length = Len(OptionToBytes(o))

(* The length field of an option, where the parser looks at it, says how   *)
(* long the value is; of a SAck it may say up to seven bytes too many.     *)
LengthRight(o) ==
    LengthCounts(o.type) =>
        o.length - 2 - Len(o.value) \in IF proto = "Tcp" THEN 0 .. 7 ELSE {0}

(* Options a program builds come back from the bytes of a header that      *)
(* counts them all, followed by the padding of Tcp::finalize, exactly when *)
(* their length fields are right.  They are once each was updated, which   *)
(* is the program's own concern: finalize does not call update.            *)
OptionsComeBack ==
    result \notin {"none", "reading"} /\ built # <<>>
    /\ 4 * (count - 5) = Len(ToBytes(Padded(built)))
    => /\ (result = "ok" /\ options = Padded(built))
              = (\A j \in DOMAIN built : LengthRight(built[j]))
       /\ (\A j \in DOMAIN built : LengthCounts(built[j].type) => j \in updated)
              => \A j \in DOMAIN built : LengthRight(built[j])
=============================================================================
