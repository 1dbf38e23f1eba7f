--------------------------- MODULE DatalinkProofs ---------------------------
(***************************************************************************)
(* Proofs about Datalink for any number of frames and writes: what reaches *)
(* a program through the handles on a live interface, and that the echo    *)
(* program of read_write_interface feeds itself on a looping device.       *)
(***************************************************************************)
EXTENDS Datalink, SequenceTheorems, TLAPS

(* Where each program can be.                                              *)
Script ==
    /\ program = "echo" => pc \in {"open", "into_split", "read", "write", "ended"}
    /\ program = "ping" => pc \in {"open", "split", "write", "read", "ended"}
    /\ program = "patient" => pc \in {"open", "read", "ended"}
    /\ program = "free" => pc = "any"

(* read_write_interface reads nothing before it has split its interface.   *)
EchoStart == program = "echo" /\ pc \in {"open", "into_split"} => got = <<>>

(* No packet comes from a frame that was not taken.                        *)
GotTaken == \A n \in DOMAIN got : got[n] <= taken

IInv == TypeOK /\ Script /\ EchoStart /\ GotTaken /\ InOrder /\ EchoNeverIdle

Ops == {"open", "split", "into_split", "read", "write"}

-----------------------------------------------------------------------------
(* The programs stay on their scripts.                                     *)

(* What the script of the echo loop says.                                  *)
LEMMA EchoNext ==
    /\ EchoScript["open"] = "into_split" /\ EchoScript["into_split"] = "read"
    /\ EchoScript["read"] = "write" /\ EchoScript["write"] = "read"
  BY DEF EchoScript

(* What the script of icmp_ping says.                                      *)
LEMMA PingNext ==
    /\ PingScript["open"] = "split" /\ PingScript["split"] = "write"
    /\ PingScript["write"] = "read" /\ PingScript["read"] = "read"
  BY DEF PingScript

(* A call that succeeds leaves the program on its script.                  *)
LEMMA AdvanceStep ==
    ASSUME TypeOK, Script, NEW op \in Ops, May(op), Advance(op), UNCHANGED program
    PROVE  Script'
<1>1. CASE program = "echo"
  <2>1. pc = op /\ pc' = EchoScript[op] /\ pc \in {"open", "into_split", "read", "write", "ended"}
    BY <1>1 DEF May, Advance, Script
  <2> QED BY <1>1, <2>1, EchoNext DEF Script, Ops
<1>2. CASE program = "ping"
  <2>1. pc = op /\ pc' = PingScript[op] /\ pc \in {"open", "split", "write", "read", "ended"}
    BY <1>2 DEF May, Advance, Script
  <2> QED BY <1>2, <2>1, PingNext DEF Script, Ops
<1>3. CASE program = "patient"
  BY <1>3 DEF Advance, Script
<1>4. CASE program = "free"
  BY <1>4 DEF Advance, Script
<1> QED BY <1>1, <1>2, <1>3, <1>4 DEF TypeOK

(* A call that fails does too, and ends the echo loop.                     *)
LEMMA GiveUpStep ==
    ASSUME TypeOK, Script, GiveUp, UNCHANGED program
    PROVE  Script' /\ (program = "echo" => pc' = "ended")
  BY DEF TypeOK, Script, GiveUp

(* What a script says of pc is all there is to its type.                   *)
LEMMA ScriptType ==
    ASSUME program \in {"echo", "ping", "patient", "free"}, Script
    PROVE  pc \in {"open", "split", "into_split", "read", "write", "ended", "any"}
  BY DEF Script

-----------------------------------------------------------------------------
(* A step that moves handles or fails, and neither reads nor writes.       *)
Quiet ==
    /\ UNCHANGED <<program, loops, device, taken, got, writes>>
    /\ handle' \in {"none", "interface", "refs", "halves"}
    /\ alive' \subseteq {"reader", "writer"}
    /\ last' \in {"none", "ok", "packet", "InterfaceNotFound", "UnhandledInterfaceType",
                  "IoError", "PacketError", "BufferError"}
    /\ Script'
    /\ program = "echo" => \/ pc' \in {pc, "ended"}
                           \/ pc = "open" /\ pc' = "into_split"
                           \/ pc = "into_split" /\ pc' = "read"

(* A quiet step preserves the inductive invariant.                         *)
LEMMA QuietStep ==
    ASSUME IInv, Quiet
    PROVE  IInv'
<1>1. TypeOK'
  <2>1. program' \in {"echo", "ping", "patient", "free"}
    BY DEF IInv, TypeOK, Quiet
  <2>2. pc' \in {"open", "split", "into_split", "read", "write", "ended", "any"}
    BY <2>1, ScriptType DEF Quiet, Script
  <2> QED BY <2>1, <2>2 DEF IInv, TypeOK, Quiet
<1>2. GotTaken' /\ InOrder'
  BY DEF IInv, GotTaken, InOrder, Quiet
<1>3. EchoStart' /\ EchoNeverIdle'
  BY DEF IInv, EchoStart, EchoNeverIdle, Quiet
<1> QED BY <1>1, <1>2, <1>3 DEF IInv, Quiet

(* All actions are quiet but those that move a frame.                      *)
LEMMA QuietActions ==
    ASSUME IInv,
           \/ OpenFails \/ Open \/ Split \/ Rejoin \/ IntoSplit \/ DropHalf
           \/ ReadFails \/ WriteFails \/ UNCHANGED vars
    PROVE  Quiet
<1>1. CASE OpenFails \/ ReadFails \/ WriteFails
  <2>1. GiveUp /\ UNCHANGED <<program, loops, device, taken, got, handle, alive, writes>>
    BY <1>1 DEF OpenFails, ReadFails, WriteFails
  <2>2. Script' /\ (program = "echo" => pc' = "ended")
    BY <2>1, GiveUpStep DEF IInv
  <2>3. last' \in {"InterfaceNotFound", "UnhandledInterfaceType", "IoError",
                   "PacketError", "BufferError"}
    BY <1>1 DEF OpenFails, ReadFails, WriteFails
  <2> QED BY <2>1, <2>2, <2>3 DEF Quiet, IInv, TypeOK
<1>2. CASE Open
  <2>1. /\ May("open") /\ handle' = "interface" /\ last' = "ok"
        /\ Advance("open") \/ (program = "ping" /\ GiveUp)
        /\ UNCHANGED <<program, loops, device, taken, got, alive, writes>>
    BY <1>2 DEF Open
  <2>2. Script'
    BY <2>1, AdvanceStep, GiveUpStep DEF IInv, Ops
  <2>3. program = "echo" => pc = "open" /\ pc' = "into_split"
    BY <2>1, EchoNext DEF May, Advance
  <2> QED BY <2>1, <2>2, <2>3 DEF Quiet, IInv, TypeOK
<1>3. CASE Split
  <2>1. /\ May("split") /\ handle' = "refs" /\ Advance("split")
        /\ UNCHANGED <<program, loops, device, taken, got, alive, last, writes>>
    BY <1>3 DEF Split
  <2>2. Script' /\ program # "echo"
    BY <2>1, AdvanceStep DEF IInv, Ops, Script, May
  <2> QED BY <2>1, <2>2 DEF Quiet, IInv, TypeOK
<1>4. CASE IntoSplit
  <2>1. /\ May("into_split") /\ handle' = "halves" /\ alive' = {"reader", "writer"}
        /\ Advance("into_split")
        /\ UNCHANGED <<program, loops, device, taken, got, last, writes>>
    BY <1>4 DEF IntoSplit
  <2>2. Script'
    BY <2>1, AdvanceStep DEF IInv, Ops
  <2>3. program = "echo" => pc = "into_split" /\ pc' = "read"
    BY <2>1, EchoNext DEF May, Advance
  <2> QED BY <2>1, <2>2, <2>3 DEF Quiet, IInv, TypeOK
<1>5. CASE Rejoin \/ DropHalf \/ UNCHANGED vars
  <2>1. /\ UNCHANGED <<program, pc, loops, device, taken, got, last, writes>>
        /\ handle' \in {handle, "interface"} /\ alive' \subseteq alive
    BY <1>5 DEF Rejoin, DropHalf, vars
  <2>2. Script'
    BY <2>1 DEF IInv, Script
  <2> QED BY <2>1, <2>2 DEF Quiet, IInv, TypeOK
<1> QED BY <1>1, <1>2, <1>3, <1>4, <1>5

-----------------------------------------------------------------------------
(* The frames of the device and those that were handed out, by number.     *)
LEMMA DeviceType ==
    ASSUME TypeOK
    PROVE  /\ Len(device) \in Nat /\ taken \in Nat /\ taken <= Len(device)
           /\ Len(got) \in Nat /\ DOMAIN got = 1 .. Len(got)
           /\ \A n \in DOMAIN got : got[n] \in 1 .. Len(device)
<1>1. device \in Seq({"frame", "rejected", "own"}) /\ got \in Seq(1 .. Len(device))
  BY DEF TypeOK
<1>2. Len(device) \in Nat /\ Len(got) \in Nat /\ DOMAIN got = 1 .. Len(got)
  BY <1>1, LenProperties
<1>3. \A n \in DOMAIN got : got[n] \in 1 .. Len(device)
  BY <1>1, <1>2, ElementOfSeq
<1> QED BY <1>2, <1>3 DEF TypeOK

(* Reading a frame the parser accepts: it is the next one, after all that  *)
(* were read before.                                                       *)
LEMMA ReadPacketStep ==
    ASSUME IInv, ReadPacket
    PROVE  IInv'
<1>1. /\ May("read") /\ taken < Len(device) /\ device[taken + 1] # "rejected"
      /\ taken' = taken + 1 /\ got' = Append(got, taken + 1) /\ last' = "packet"
      /\ Advance("read") /\ UNCHANGED <<program, loops, device, handle, alive, writes>>
  BY DEF ReadPacket, CanRead, Frame
<1>2. Script'
  BY <1>1, AdvanceStep DEF IInv, Ops
<1>3. /\ Len(device) \in Nat /\ taken \in Nat /\ Len(got) \in Nat
      /\ DOMAIN got = 1 .. Len(got) /\ \A n \in DOMAIN got : got[n] \in 1 .. Len(device)
      /\ got \in Seq(1 .. Len(device))
  BY DeviceType DEF IInv, TypeOK
<1>4. taken + 1 \in 1 .. Len(device) /\ taken' \in 0 .. Len(device)
  BY <1>1, <1>3
<1>5. /\ got' \in Seq(1 .. Len(device)) /\ DOMAIN got' = 1 .. Len(got) + 1
      /\ \A n \in DOMAIN got : n \in DOMAIN got' /\ got'[n] = got[n]
      /\ got'[Len(got) + 1] = taken + 1 /\ Len(got) + 1 \in DOMAIN got'
      /\ \A n \in DOMAIN got' : n \in DOMAIN got \/ n = Len(got) + 1
  <2>1. /\ got' \in Seq(1 .. Len(device)) /\ Len(got') = Len(got) + 1
        /\ \A n \in 1 .. Len(got) : got'[n] = got[n]
        /\ got'[Len(got) + 1] = taken + 1
    BY <1>1, <1>3, <1>4, AppendProperties
  <2>2. DOMAIN got' = 1 .. Len(got')
    BY <2>1, LenProperties
  <2> QED BY <1>3, <2>1, <2>2
<1>6. TypeOK'
  <2>1. pc' \in {"open", "split", "into_split", "read", "write", "ended", "any"}
    BY <1>1, <1>2, ScriptType DEF IInv, TypeOK, Script
  <2> QED BY <1>1, <1>4, <1>5, <2>1 DEF IInv, TypeOK
<1>7. GotTaken'
  <2> SUFFICES ASSUME NEW n \in DOMAIN got'
               PROVE  got'[n] <= taken'
    BY DEF GotTaken
  <2>1. CASE n \in DOMAIN got
    BY <1>1, <1>3, <1>5, <2>1 DEF IInv, GotTaken
  <2>2. CASE n = Len(got) + 1
    BY <1>1, <1>3, <1>5, <2>2
  <2> QED BY <1>5, <2>1, <2>2
<1>8. InOrder'
  <2>1. \A m, n \in DOMAIN got' : m < n => got'[m] < got'[n]
    <3> SUFFICES ASSUME NEW m \in DOMAIN got', NEW n \in DOMAIN got', m < n
                 PROVE  got'[m] < got'[n]
      OBVIOUS
    <3>1. m \in DOMAIN got
      BY <1>3, <1>5
    <3>2. CASE n \in DOMAIN got
      BY <1>5, <3>1, <3>2 DEF IInv, InOrder
    <3>3. CASE n = Len(got) + 1
      BY <1>3, <1>5, <3>1, <3>3 DEF IInv, GotTaken
    <3> QED BY <1>5, <3>2, <3>3
  <2>2. {got'[n] : n \in DOMAIN got'} = {got[n] : n \in DOMAIN got} \cup {taken + 1}
    BY <1>5
  <2>3. {n \in 1 .. taken + 1 : device[n] # "rejected"} =
            {n \in 1 .. taken : device[n] # "rejected"} \cup {taken + 1}
    BY <1>1, <1>3
  <2> QED BY <1>1, <2>1, <2>2, <2>3 DEF IInv, InOrder
<1>9. EchoStart' /\ EchoNeverIdle'
  <2>1. program = "echo" => pc' = "write"
    BY <1>1, EchoNext DEF Advance
  <2> QED BY <1>1, <2>1 DEF EchoStart, EchoNeverIdle
<1> QED BY <1>2, <1>6, <1>7, <1>8, <1>9 DEF IInv

(* A frame the parser rejects is taken and nothing else happens.           *)
LEMMA ReadRejectedStep ==
    ASSUME IInv, ReadRejected
    PROVE  IInv'
<1>1. /\ taken < Len(device) /\ device[taken + 1] = "rejected"
      /\ taken' = taken + 1 /\ last' = "PacketError" /\ GiveUp
      /\ UNCHANGED <<program, loops, device, got, handle, alive, writes>>
  BY DEF ReadRejected, Frame
<1>2. Script' /\ (program = "echo" => pc' = "ended")
  BY <1>1, GiveUpStep DEF IInv
<1>3. Len(device) \in Nat /\ taken \in Nat /\ \A n \in DOMAIN got : got[n] \in 1 .. Len(device)
  BY DeviceType DEF IInv
<1>4. TypeOK'
  <2>1. pc' \in {"open", "split", "into_split", "read", "write", "ended", "any"}
    BY <1>1, <1>2, ScriptType DEF IInv, TypeOK, Script
  <2>2. taken' \in 0 .. Len(device)
    BY <1>1, <1>3
  <2> QED BY <1>1, <2>1, <2>2 DEF IInv, TypeOK
<1>5. GotTaken'
  BY <1>1, <1>3 DEF IInv, GotTaken
<1>6. InOrder'
  <2>1. {n \in 1 .. taken + 1 : device[n] # "rejected"} =
            {n \in 1 .. taken : device[n] # "rejected"}
    BY <1>1, <1>3
  <2> QED BY <1>1, <2>1 DEF IInv, InOrder
<1>7. EchoStart' /\ EchoNeverIdle'
  BY <1>1, <1>2 DEF EchoStart, EchoNeverIdle
<1> QED BY <1>2, <1>4, <1>5, <1>6, <1>7 DEF IInv

-----------------------------------------------------------------------------
(* The device captures one more frame: what was taken stays as it was.     *)
LEMMA Captured ==
    ASSUME IInv, NEW f \in {"frame", "rejected", "own"}, device' = Append(device, f),
           UNCHANGED <<taken, got>>
    PROVE  /\ device' \in Seq({"frame", "rejected", "own"})
           /\ Len(device') = Len(device) + 1 /\ taken \in 0 .. Len(device')
           /\ taken < Len(device')
           /\ got' \in Seq(1 .. Len(device')) /\ GotTaken' /\ InOrder'
<1>1. /\ device \in Seq({"frame", "rejected", "own"}) /\ Len(device) \in Nat
      /\ taken \in 0 .. Len(device) /\ got \in Seq(1 .. Len(device))
  BY DeviceType DEF IInv, TypeOK
<1>2. /\ device' \in Seq({"frame", "rejected", "own"})
      /\ Len(device') = Len(device) + 1
      /\ \A n \in 1 .. Len(device) : device'[n] = device[n]
  BY <1>1, AppendProperties
<1>3. got' \in Seq(1 .. Len(device'))
  <2>1. 1 .. Len(device) \subseteq 1 .. Len(device')
    BY <1>1, <1>2
  <2> QED BY <1>1, <2>1, SeqMonotonic
<1>4. InOrder'
  <2>1. {n \in 1 .. taken : device'[n] # "rejected"} =
            {n \in 1 .. taken : device[n] # "rejected"}
    BY <1>1, <1>2
  <2> QED BY <2>1 DEF IInv, InOrder
<1>5. GotTaken'
  BY DEF IInv, GotTaken
<1> QED BY <1>1, <1>2, <1>3, <1>4, <1>5

(* Writing a frame, which the device hands back or not, preserves the      *)
(* inductive invariant.                                                    *)
LEMMA WriteStep ==
    ASSUME IInv, Write
    PROVE  IInv'
<1>1. /\ May("write") /\ writes < MaxWrites /\ writes' = writes + 1 /\ last' = "ok"
      /\ Advance("write") /\ UNCHANGED <<program, loops, taken, got, handle, alive>>
  BY DEF Write, CanWrite
<1>2. Script'
  BY <1>1, AdvanceStep DEF IInv, Ops
<1>3. /\ pc' \in {"open", "split", "into_split", "read", "write", "ended", "any"}
      /\ writes' \in 0 .. MaxWrites
  BY <1>1, <1>2, ScriptType, BoundsAssumption DEF IInv, TypeOK, Script
<1>4. program = "echo" => pc' = "read"
  BY <1>1, EchoNext DEF Advance
<1>5. CASE loops
  <2>1. device' = Append(device, "own") /\ Len(device) < MaxFrames
    BY <1>5 DEF Write
  <2>2. /\ device' \in Seq({"frame", "rejected", "own"})
        /\ Len(device') = Len(device) + 1 /\ taken \in 0 .. Len(device')
        /\ taken < Len(device')
        /\ got' \in Seq(1 .. Len(device')) /\ GotTaken' /\ InOrder'
    BY <1>1, <2>1, Captured
  <2>3. Len(device') <= MaxFrames
    BY <2>1, <2>2, DeviceType, BoundsAssumption DEF IInv
  <2>4. TypeOK'
    BY <1>1, <1>3, <2>2, <2>3 DEF IInv, TypeOK
  <2>5. EchoStart' /\ EchoNeverIdle'
    BY <1>1, <1>4, <2>2 DEF EchoStart, EchoNeverIdle
  <2> QED BY <1>2, <2>2, <2>4, <2>5 DEF IInv
<1>6. CASE ~loops
  <2>1. device' = device
    BY <1>6 DEF Write
  <2>2. TypeOK'
    BY <1>1, <1>3, <2>1 DEF IInv, TypeOK
  <2>3. GotTaken' /\ InOrder'
    BY <1>1, <2>1 DEF IInv, GotTaken, InOrder
  <2>4. EchoStart' /\ EchoNeverIdle'
    BY <1>1, <1>4, <1>6 DEF EchoStart, EchoNeverIdle
  <2> QED BY <1>2, <2>2, <2>3, <2>4 DEF IInv
<1> QED BY <1>5, <1>6

(* A frame that arrives preserves the inductive invariant: it is behind    *)
(* all that were taken.                                                    *)
LEMMA ArriveStep ==
    ASSUME IInv, Arrive
    PROVE  IInv'
<1>1. PICK f \in {"frame", "rejected"} : device' = Append(device, f)
  BY DEF Arrive
<1>2. /\ Len(device) < MaxFrames
      /\ UNCHANGED <<program, pc, loops, taken, got, handle, alive, last, writes>>
  BY DEF Arrive
<1>3. /\ device' \in Seq({"frame", "rejected", "own"})
      /\ Len(device') = Len(device) + 1 /\ taken \in 0 .. Len(device')
      /\ taken < Len(device')
      /\ got' \in Seq(1 .. Len(device')) /\ GotTaken' /\ InOrder'
  BY <1>1, <1>2, Captured
<1>4. Len(device') <= MaxFrames
  BY <1>2, <1>3, DeviceType, BoundsAssumption DEF IInv
<1>5. TypeOK'
  BY <1>2, <1>3, <1>4 DEF IInv, TypeOK
<1>6. Script' /\ EchoStart' /\ EchoNeverIdle'
  BY <1>2, <1>3 DEF IInv, Script, EchoStart, EchoNeverIdle
<1> QED BY <1>3, <1>5, <1>6 DEF IInv

-----------------------------------------------------------------------------
(* The inductive invariant holds in every reachable state.                 *)
THEOREM Invariance == Spec => []IInv
<1>1. Init => IInv
  <2> SUFFICES ASSUME Init
               PROVE  IInv
    OBVIOUS
  <2>1. Len(device) = 0 /\ taken = 0 /\ DOMAIN got = {} /\ got = <<>>
    BY EmptySeq DEF Init
  <2>2. TypeOK
    <3>1. device \in Seq({"frame", "rejected", "own"}) /\ got \in Seq(1 .. Len(device))
      BY EmptySeq DEF Init
    <3>2. loops \in BOOLEAN
      BY DEF Init
    <3>3. taken \in 0 .. Len(device) /\ Len(device) <= MaxFrames /\ writes \in 0 .. MaxWrites
      BY <2>1, BoundsAssumption DEF Init
    <3> QED BY <3>1, <3>2, <3>3 DEF Init, TypeOK
  <2>3. Script /\ EchoStart /\ GotTaken /\ EchoNeverIdle
    BY <2>1 DEF Init, Script, EchoStart, GotTaken, EchoNeverIdle
  <2>4. InOrder
    BY <2>1 DEF InOrder
  <2> QED BY <2>2, <2>3, <2>4 DEF IInv
<1>2. IInv /\ [Next]_vars => IInv'
  BY QuietActions, QuietStep, ReadPacketStep, ReadRejectedStep, WriteStep, ArriveStep
     DEF Next
<1> QED BY <1>1, <1>2, PTL DEF Spec

(* Every variable of an interface, its handles and the programs keeps its  *)
(* type.                                                                   *)
THEOREM TypeCorrect == Spec => []TypeOK
<1>1. IInv => TypeOK
  BY DEF IInv
<1> QED BY <1>1, Invariance, PTL

(* Whatever is split, joined, dropped or fails in between, the packets     *)
(* read returns are the frames the parser accepts among those taken from   *)
(* the device, each once and in order.                                     *)
THEOREM InOrderHolds == Spec => []InOrder
<1>1. IInv => InOrder
  BY DEF IInv
<1> QED BY <1>1, Invariance, PTL

(* On a device that loops back, read_write_interface always finds another  *)
(* frame, its own if no other, once it has answered one.                   *)
THEOREM EchoNeverIdleHolds == Spec => []EchoNeverIdle
<1>1. IInv => EchoNeverIdle
  BY DEF IInv
<1> QED BY <1>1, Invariance, PTL
=============================================================================
