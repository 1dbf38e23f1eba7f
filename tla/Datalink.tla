------------------------------ MODULE Datalink ------------------------------
(***************************************************************************)
(* A live Pnet or Pcap interface and the handles on it: the Interface that *)
(* init returns, the halves it is split into by reference or for good, the *)
(* read-only and write-only interfaces, and the iterators over them.       *)
(*                                                                         *)
(* The device is external: frames arrive on it at any time, and one that   *)
(* loops back (lo) captures what is written to it.  The programs are       *)
(* read_write_interface, which answers every packet it reads, icmp_ping,   *)
(* which writes one and then reads, one that reads on after every error,   *)
(* and any other.                                                          *)
(***************************************************************************)
EXTENDS Integers, Sequences

CONSTANTS
    MaxFrames,   \* bound on the frames a device captures
    MaxWrites    \* bound on the packets written

ASSUME BoundsAssumption == MaxFrames \in Nat /\ MaxWrites \in Nat

VARIABLES
    program,   \* "echo", "ping", "patient" or "free"
    pc,        \* the next operation of the program, "ended" or "any"
    loops,     \* the device captures what is written to it
    device,    \* frames captured so far: "frame", "rejected" or "own"
    taken,     \* how many of them the receiver has handed out
    got,       \* positions of those that reached the program as packets
    handle,    \* "none", "interface", "refs" or "halves"
    alive,     \* the halves that were not dropped
    last,      \* what the last operation returned
    writes     \* packets written to the device

vars == <<program, pc, loops, device, taken, got, handle, alive, last, writes>>

(* Mutant: packets are read and not answered.                              *)
EchoScriptSilent == [open |-> "into_split", into_split |-> "read", read |-> "read", write |-> "read"]

(* The operation that follows each one in the two examples.                *)
EchoScript == [open |-> "into_split", into_split |-> "read", read |-> "write", write |-> "read"]
PingScript == [open |-> "split", split |-> "write", write |-> "read", read |-> "read"]

May(op) == program = "free" \/ pc = op

Advance(op) ==
    pc' = CASE program = "free" -> pc
            [] program = "patient" -> "read"
            [] program = "echo" -> EchoScript[op]
            [] program = "ping" -> PingScript[op]

(* The examples unwrap every result but that of the iterator, which takes  *)
(* any error of read for the end and so ends their loops.  It is not fused *)
(* and neither is read: who calls again gets the next frame.               *)
GiveUp == pc' = IF program = "free" \/ (pc = "read" /\ program = "patient") THEN pc ELSE "ended"

Init ==
    /\ program \in {"echo", "ping", "patient", "free"}
    /\ pc = IF program = "free" THEN "any" ELSE "open"
    /\ loops \in BOOLEAN
    /\ device = <<>>
    /\ taken = 0
    /\ got = <<>>
    /\ handle = "none"
    /\ alive = {}
    /\ last = "none"
    /\ writes = 0

-----------------------------------------------------------------------------
(* Opening: the name is unknown, the channel is not Ethernet, or it cannot *)
(* be opened.  A read-only or write-only interface is a half of a whole    *)
(* one whose other half is dropped.                                        *)
OpenFails ==
    /\ May("open") /\ handle = "none"
    /\ last' \in {"InterfaceNotFound", "UnhandledInterfaceType", "IoError"}
    /\ GiveUp
    /\ UNCHANGED <<program, loops, device, taken, got, handle, alive, writes>>

Open ==
    /\ May("open") /\ handle = "none"
    /\ handle' = "interface"
    \* icmp_ping unwraps the address of the device, which may have none
    /\ Advance("open") \/ (program = "ping" /\ GiveUp)
    /\ last' = "ok"
    /\ UNCHANGED <<program, loops, device, taken, got, alive, writes>>

(* Borrowed halves leave the interface whole once they go out of scope.    *)
Split ==
    /\ May("split") /\ handle = "interface"
    /\ handle' = "refs"
    /\ Advance("split")
    /\ UNCHANGED <<program, loops, device, taken, got, alive, last, writes>>

Rejoin ==
    /\ program = "free" /\ handle = "refs"
    /\ handle' = "interface"
    /\ UNCHANGED <<program, pc, loops, device, taken, got, alive, last, writes>>

IntoSplit ==
    /\ May("into_split") /\ handle = "interface"
    /\ handle' = "halves"
    /\ alive' = {"reader", "writer"}
    /\ Advance("into_split")
    /\ UNCHANGED <<program, loops, device, taken, got, last, writes>>

DropHalf ==
    /\ program = "free" /\ handle = "halves"
    /\ \E p \in alive : alive' = alive \ {p}
    /\ UNCHANGED <<program, pc, loops, device, taken, got, handle, last, writes>>

-----------------------------------------------------------------------------
(* Reading, through whichever handle there is.                             *)

CanRead == May("read") /\ (handle \in {"interface", "refs"} \/ "reader" \in alive)

Frame == device[taken + 1]

ReadPacket ==
    /\ CanRead /\ taken < Len(device) /\ Frame # "rejected"
    /\ taken' = taken + 1
    /\ got' = Append(got, taken + 1)
    /\ last' = "packet"
    /\ Advance("read")
    /\ UNCHANGED <<program, loops, device, handle, alive, writes>>

(* Mutant: the frame stays with the receiver.                              *)
ReadRejectedAgain ==
    /\ CanRead /\ taken < Len(device) /\ Frame = "rejected"
    /\ last' = "PacketError"
    /\ GiveUp
    /\ UNCHANGED <<program, loops, device, taken, got, handle, alive, writes>>

(* The receiver has handed the frame out when parse_packet rejects it.     *)
ReadRejected ==
    /\ CanRead /\ taken < Len(device) /\ Frame = "rejected"
    /\ taken' = taken + 1
    /\ last' = "PacketError"
    /\ GiveUp
    /\ UNCHANGED <<program, loops, device, got, handle, alive, writes>>

(* Mutant: the frame that comes next is dropped.                           *)
ReadFailsSkipping ==
    /\ CanRead /\ taken < Len(device)
    /\ taken' = taken + 1
    /\ last' = "IoError"
    /\ GiveUp
    /\ UNCHANGED <<program, loops, device, got, handle, alive, writes>>

(* Mutant: a frame is counted where none was captured.                     *)
ReadFailsCounting ==
    /\ CanRead /\ taken <= Len(device)
    /\ taken' = taken + 1
    /\ last' = "IoError"
    /\ GiveUp
    /\ UNCHANGED <<program, loops, device, got, handle, alive, writes>>

ReadFails ==
    /\ CanRead
    /\ last' = "IoError"
    /\ GiveUp
    /\ UNCHANGED <<program, loops, device, taken, got, handle, alive, writes>>

-----------------------------------------------------------------------------
(* Writing.                                                                *)

CanWrite == May("write") /\ (handle \in {"interface", "refs"} \/ "writer" \in alive)

Write ==
    /\ CanWrite /\ writes < MaxWrites
    /\ loops => Len(device) < MaxFrames
    /\ writes' = writes + 1
    /\ device' = IF loops THEN Append(device, "own") ELSE device
    /\ last' = "ok"
    /\ Advance("write")
    /\ UNCHANGED <<program, loops, taken, got, handle, alive>>

(* The packet does not serialize, the device has no buffer, or the sending *)
(* fails.                                                                  *)
WriteFails ==
    /\ CanWrite
    /\ last' \in {"PacketError", "BufferError", "IoError"}
    /\ GiveUp
    /\ UNCHANGED <<program, loops, device, taken, got, handle, alive, writes>>

(* A frame from elsewhere.                                                 *)
Arrive ==
    /\ handle # "none" /\ Len(device) < MaxFrames
    /\ \E f \in {"frame", "rejected"} : device' = Append(device, f)
    /\ UNCHANGED <<program, pc, loops, taken, got, handle, alive, last, writes>>

Next ==
    \/ Open \/ OpenFails \/ Split \/ Rejoin \/ IntoSplit \/ DropHalf
    \/ ReadPacket \/ ReadRejected \/ ReadFails
    \/ Write \/ WriteFails \/ Arrive

(* A frame that is there is read at some time by a program that goes on    *)
(* reading: the device does not fail for ever.                             *)
Spec == Init /\ [][Next]_vars /\ WF_vars(ReadPacket \/ ReadRejected)

-----------------------------------------------------------------------------
(* Properties.                                                             *)

(* Every variable has its type.                                            *)
TypeOK ==
    /\ program \in {"echo", "ping", "patient", "free"}
    /\ pc \in {"open", "split", "into_split", "read", "write", "ended", "any"}
    /\ loops \in BOOLEAN
    /\ device \in Seq({"frame", "rejected", "own"}) /\ Len(device) <= MaxFrames
    /\ taken \in 0 .. Len(device)
    /\ got \in Seq(1 .. Len(device))
    /\ handle \in {"none", "interface", "refs", "halves"}
    /\ alive \subseteq {"reader", "writer"}
    /\ last \in {"none", "ok", "packet", "InterfaceNotFound", "UnhandledInterfaceType",
                 "IoError", "PacketError", "BufferError"}
    /\ writes \in 0 .. MaxWrites

(* Splitting, joining and dropping handles, and errors in between, neither *)
(* lose nor repeat a packet: what the program got are the frames the       *)
(* parser accepts among those taken from the device, in order.             *)
InOrder ==
    /\ \A m, n \in DOMAIN got : m < n => got[m] < got[n]
    /\ {got[n] : n \in DOMAIN got} = {n \in 1 .. taken : device[n] # "rejected"}

(* On a device that loops back, read_write_interface does not wait for one *)
(* more frame from elsewhere: once it has answered a packet, there is      *)
(* another frame whenever it reads.  Only a rejected frame or an error of  *)
(* the device can end it.                                                  *)
EchoNeverIdle ==
    program = "echo" /\ loops /\ got # <<>> /\ pc = "read" => taken < Len(device)

(* A frame the parser rejects does not keep a program that goes on reading *)
(* from the frames behind it.                                              *)
RejectedPassed ==
    \A n \in 1 .. MaxFrames :
        (program = "patient" /\ Len(device) >= n) ~> taken >= n
=============================================================================
