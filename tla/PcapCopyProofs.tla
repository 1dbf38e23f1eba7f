--------------------------- MODULE PcapCopyProofs ---------------------------
(***************************************************************************)
(* Proofs about PcapCopy for captures of any number and kind of records:   *)
(* what a copy holds, in which order, and which files are touched.         *)
(***************************************************************************)
EXTENDS PcapCopy, SequenceTheorems, TLAPS

(* What has been checked before a file is touched, and what the copying    *)
(* rests on.                                                               *)
Opened ==
    /\ pc = "open" => ~same
    /\ opened => ~same
    /\ pc = "create" => opened
    /\ created => opened
    /\ pc \in {"loop", "error", "write", "done"} \/ out # <<>> => created

(* The packet in hand is the record just read, and later than every one    *)
(* written.                                                                *)
InHand ==
    /\ packet = IF pc = "write" THEN pos - 1 ELSE 0
    /\ pc = "write" => pos >= 2
    /\ \A n \in DOMAIN out : out[n] < pos /\ (pc = "write" => out[n] < packet)

(* As long as every record is accepted the copy is the input so far.       *)
Verbatim ==
    (\A n \in 1 .. pos - 1 : Accepts(n)) /\ pc # "panic" =>
        /\ Len(out) = IF pc = "write" THEN pos - 2 ELSE pos - 1
        /\ \A n \in 1 .. Len(out) : out[n] = n

(* The reading ends at the end of the file, or, in the for loop, with an   *)
(* error, which some record before the end is to blame for.                *)
Unaccepted == \E n \in 1 .. Len(file) : ~Accepts(n)

Ended ==
    /\ pc = "error" => Unaccepted
    /\ pc = "done" => pos > Len(file) \/ (client = "for" /\ Unaccepted)

IInv == TypeOK /\ Opened /\ InHand /\ NothingSkipped /\ Verbatim /\ Ended

-----------------------------------------------------------------------------
(* The records of the file and those that were written, by number.         *)
LEMMA FileType ==
    ASSUME TypeOK
    PROVE  /\ Len(file) \in Nat /\ DOMAIN file = 1 .. Len(file)
           /\ \A n \in 1 .. Len(file) : file[n] \in {"frame", "rejected", "corrupt"}
           /\ out \in Seq(1 .. Len(file)) /\ Len(out) \in Nat /\ DOMAIN out = 1 .. Len(out)
           /\ \A n \in 1 .. Len(out) : out[n] \in 1 .. Len(file)
<1>1. file \in Seq({"frame", "rejected", "corrupt"}) /\ out \in Seq(1 .. Len(file))
  BY CapturesAssumption DEF TypeOK
<1> QED BY <1>1, LenProperties, ElementOfSeq

(* Records are never corrupt and accepted at once.                         *)
LEMMA AcceptedIntact ==
    ASSUME NEW n, Accepts(n)
    PROVE  file[n] # "corrupt"
  BY DEF Accepts

(* Which files are touched: no step opens or creates anything before the   *)
(* paths were compared.                                                    *)
LEMMA OpenedStep ==
    ASSUME TypeOK, Opened, [Next]_vars
    PROVE  Opened'
<1>1. CASE ComparePaths
  <2>1. same => pc' # "open"
    BY <1>1 DEF ComparePaths
  <2>2. pc' \in {"open", "exit", "panic"} /\ UNCHANGED <<same, opened, created, out>>
    BY <1>1 DEF ComparePaths
  <2> QED BY <2>1, <2>2 DEF Opened
<1>2. CASE OpenReader
  <2>1. /\ ~same /\ pc' \in {"create", "panic"} /\ UNCHANGED <<same, created, out>>
        /\ pc' = "create" => opened'
        /\ opened => opened'
    BY <1>2 DEF OpenReader, Opened
  <2> QED BY <2>1 DEF Opened
<1>3. CASE CreateWriter
  <2>1. /\ opened /\ pc' \in {"loop", "panic"} /\ UNCHANGED <<same, opened, out>>
        /\ created \/ pc' = "loop" => created'
    BY <1>3 DEF CreateWriter, Opened
  <2> QED BY <2>1 DEF Opened
<1>4. CASE ReadFrame \/ ReadRejected \/ ReadCorrupt \/ ReadEof \/ OnError \/ Write \/ WriteFails
  <2>1. /\ pc \in {"loop", "error", "write"} /\ pc' \notin {"open", "create"}
        /\ UNCHANGED <<same, opened, created>>
    BY <1>4 DEF ReadFrame, ReadRejected, ReadCorrupt, ReadEof, OnError, Write, WriteFails
  <2> QED BY <2>1 DEF Opened
<1>5. CASE UNCHANGED vars
  BY <1>5 DEF Opened, vars
<1> QED BY <1>1, <1>2, <1>3, <1>4, <1>5 DEF Next

-----------------------------------------------------------------------------
(* A step that neither reads nor writes.                                   *)
LEMMA IdleStep ==
    ASSUME IInv, Opened', pc # "write",
           UNCHANGED <<file, link, same, client, pos, packet, out>>,
           opened' \in BOOLEAN, created' \in BOOLEAN,
           pc' \in {"start", "open", "create", "loop", "error", "done", "exit", "panic"},
           pc = "panic" => pc' = "panic",
           pc' = "error" => pc = "error",
           pc' = "done" => \/ pc = "done"
                           \/ pos > Len(file)
                           \/ client = "for" /\ pc = "error"
    PROVE  IInv'
<1>1. TypeOK'
  BY DEF IInv, TypeOK
<1>2. InHand'
  BY DEF IInv, InHand
<1>3. \A n : Accepts(n)' <=> Accepts(n)
  BY DEF Accepts
<1>4. NothingSkipped'
  BY <1>3 DEF IInv, NothingSkipped, Frames
<1>5. Verbatim'
  BY <1>3 DEF IInv, Verbatim
<1>6. Ended'
  BY <1>3 DEF IInv, Ended, Unaccepted
<1> QED BY <1>1, <1>2, <1>4, <1>5, <1>6 DEF IInv

(* Reading a packet preserves the inductive invariant: it is the next one  *)
(* of the file.                                                            *)
LEMMA ReadFrameStep ==
    ASSUME IInv, Opened', ReadFrame
    PROVE  IInv'
<1>1. /\ pc = "loop" /\ pos <= Len(file) /\ Accepts(pos) /\ packet' = pos
      /\ pos' = pos + 1 /\ pc' = "write"
      /\ UNCHANGED <<file, link, same, client, opened, created, out>>
  BY DEF ReadFrame
<1>2. TypeOK'
  BY <1>1, FileType DEF IInv, TypeOK
<1>3. InHand'
  BY <1>1, FileType DEF IInv, InHand, TypeOK
<1>4. \A n : Accepts(n)' <=> Accepts(n)
  BY <1>1 DEF Accepts
<1>5. Frames(pos - 1)' = Frames(pos - 1) \cup {pos}
  BY <1>1, <1>4, FileType DEF IInv, TypeOK, Frames
<1>6. packet = 0 /\ packet' # 0 /\ pos \in Nat
  BY <1>1, FileType DEF IInv, InHand, TypeOK
<1>7. NothingSkipped'
  <2>1. (\A n \in 1 .. pos' - 1 : file'[n] # "corrupt") =>
            \A n \in 1 .. pos - 1 : file[n] # "corrupt"
    BY <1>1, <1>6
  <2>2. (\A n \in 1 .. pos - 1 : file[n] # "corrupt") =>
            {out[n] : n \in DOMAIN out} = Frames(pos - 1)
    BY <1>1, <1>6 DEF IInv, NothingSkipped
  <2>3. (\A n \in 1 .. pos' - 1 : file'[n] # "corrupt") =>
            {out'[n] : n \in DOMAIN out'} \cup ({packet'} \ {0}) = Frames(pos - 1)'
    BY <1>1, <1>5, <1>6, <2>1, <2>2
  <2> QED BY <1>1, <2>3 DEF IInv, NothingSkipped
<1>8. Verbatim'
  BY <1>1, <1>4, <1>6, FileType DEF IInv, Verbatim
<1> QED BY <1>1, <1>2, <1>3, <1>7, <1>8 DEF IInv, Ended

(* A record that gives no frame is passed, and only an error follows.      *)
LEMMA ReadErrorStep ==
    ASSUME IInv, Opened', ReadRejected \/ ReadCorrupt
    PROVE  IInv'
<1>1. /\ pc = "loop" /\ pos <= Len(file) /\ ~Accepts(pos) /\ pc' = "error"
      /\ UNCHANGED <<file, link, same, client, opened, created, packet, out>>
      /\ pos' \in {pos, pos + 1, Len(file) + 1}
      /\ pos' # pos /\ file[pos] # "corrupt" => pos' = pos + 1
  BY AcceptedIntact DEF ReadRejected, ReadCorrupt
<1>2. /\ pos \in 1 .. Len(file) /\ Len(file) \in Nat /\ pos' \in pos .. Len(file) + 1
      /\ pos' # pos => pos \in 1 .. pos' - 1
  <2>1. pos \in 1 .. Len(file) /\ Len(file) \in Nat
    BY <1>1, FileType DEF IInv, TypeOK
  <2>2. CASE pos' = pos
    BY <2>1, <2>2
  <2>3. CASE pos' = pos + 1
    BY <2>1, <2>3
  <2>4. CASE pos' = Len(file) + 1
    BY <2>1, <2>4
  <2> QED BY <1>1, <2>1, <2>2, <2>3, <2>4
<1>3. TypeOK'
  BY <1>1, <1>2 DEF IInv, TypeOK
<1>4. packet = 0
  BY <1>1 DEF IInv, InHand
<1>5. InHand'
  BY <1>1, <1>2, <1>4, FileType DEF IInv, InHand
<1>6. \A n : Accepts(n)' <=> Accepts(n)
  BY <1>1 DEF Accepts
<1>7. NothingSkipped'
  <2>1. CASE pos' = pos
    BY <1>1, <1>6, <2>1 DEF IInv, NothingSkipped, Frames
  <2>2. CASE pos' # pos /\ file[pos] = "corrupt"
    <3>1. pos \in 1 .. pos' - 1
      BY <1>2, <2>2
    <3> QED BY <1>1, <2>2, <3>1 DEF IInv, NothingSkipped
  <2>3. CASE pos' # pos /\ file[pos] # "corrupt"
    <3>1. pos' = pos + 1
      BY <1>1, <2>3
    <3>2. Frames(pos - 1)' = Frames(pos - 1)
      BY <1>1, <1>2, <1>6, <3>1 DEF Frames
    <3>3. (\A n \in 1 .. pos' - 1 : file'[n] # "corrupt") =>
              \A n \in 1 .. pos - 1 : file[n] # "corrupt"
      BY <1>1, <1>2, <3>1
    <3> QED BY <1>1, <3>2, <3>3 DEF IInv, NothingSkipped
  <2> QED BY <2>1, <2>2, <2>3
<1>8. Verbatim'
  <2>1. CASE pos' = pos
    BY <1>1, <1>6, <2>1 DEF IInv, Verbatim
  <2>2. CASE pos' # pos
    <3>1. pos \in 1 .. pos' - 1
      BY <1>2, <2>2
    <3> QED BY <1>1, <1>6, <3>1 DEF Verbatim
  <2> QED BY <2>1, <2>2
<1>9. Ended'
  BY <1>1, <1>2, <1>6 DEF Ended, Unaccepted
<1> QED BY <1>3, <1>5, <1>7, <1>8, <1>9 DEF IInv

(* A frame written is appended; one that cannot be written ends the copy.  *)
LEMMA WriteStep ==
    ASSUME IInv, Opened', Write
    PROVE  IInv'
<1>1. /\ pc = "write" /\ out' = Append(out, packet) /\ packet' = 0 /\ pc' = "loop"
      /\ UNCHANGED <<file, link, same, client, opened, created, pos>>
  BY DEF Write
<1>2. /\ packet = pos - 1 /\ pos \in 1 .. Len(file) + 1 /\ packet \in 0 .. Len(file)
      /\ Len(file) \in Nat /\ \A n \in DOMAIN out : out[n] < packet
  BY <1>1, FileType DEF IInv, TypeOK, InHand
<1>3. packet \in 1 .. Len(file)
  BY <1>1, <1>2 DEF IInv, InHand
<1>4. /\ out' \in Seq(1 .. Len(file)) /\ Len(out') = Len(out) + 1 /\ Len(out) \in Nat
      /\ \A n \in 1 .. Len(out) : out'[n] = out[n]
      /\ out'[Len(out) + 1] = packet /\ DOMAIN out = 1 .. Len(out)
      /\ DOMAIN out' = 1 .. Len(out) + 1
      /\ \A n \in 1 .. Len(out) : out[n] \in Nat
  <2>1. /\ out \in Seq(1 .. Len(file)) /\ Len(out) \in Nat /\ DOMAIN out = 1 .. Len(out)
        /\ \A n \in 1 .. Len(out) : out[n] \in Nat
    BY FileType DEF IInv
  <2>2. /\ out' \in Seq(1 .. Len(file)) /\ Len(out') = Len(out) + 1
        /\ \A n \in 1 .. Len(out) : out'[n] = out[n]
        /\ out'[Len(out) + 1] = packet
    BY <1>1, <1>3, <2>1, AppendProperties
  <2>3. DOMAIN out' = 1 .. Len(out')
    BY <2>2, LenProperties
  <2> QED BY <2>1, <2>2, <2>3
<1>5. \A n \in DOMAIN out' : n \in DOMAIN out \/ n = Len(out) + 1
  BY <1>4
<1>6. TypeOK'
  BY <1>1, <1>2, <1>4 DEF IInv, TypeOK
<1>7. InHand'
  <2>1. \A n \in DOMAIN out' : out'[n] < pos
    <3> TAKE n \in DOMAIN out'
    <3>1. CASE n \in DOMAIN out
      BY <1>4, <3>1 DEF IInv, InHand
    <3>2. CASE n = Len(out) + 1
      BY <1>2, <1>4, <3>2
    <3> QED BY <1>5, <3>1, <3>2
  <2> QED BY <1>1, <2>1 DEF InHand
<1>8. \A n : Accepts(n)' <=> Accepts(n)
  BY <1>1 DEF Accepts
<1>9. NothingSkipped'
  <2>1. \A m, n \in DOMAIN out' : m < n => out'[m] < out'[n]
    <3> SUFFICES ASSUME NEW m \in DOMAIN out', NEW n \in DOMAIN out', m < n
                 PROVE  out'[m] < out'[n]
      OBVIOUS
    <3>1. m \in DOMAIN out
      BY <1>4
    <3>2. CASE n \in DOMAIN out
      BY <1>4, <3>1, <3>2 DEF IInv, NothingSkipped
    <3>3. CASE n = Len(out) + 1
      BY <1>2, <1>4, <3>1, <3>3
    <3> QED BY <1>5, <3>2, <3>3
  <2>2. {out'[n] : n \in DOMAIN out'} = {out[n] : n \in DOMAIN out} \cup {packet}
    <3>1. \A n \in DOMAIN out : n \in DOMAIN out' /\ out'[n] = out[n]
      BY <1>4
    <3>2. Len(out) + 1 \in DOMAIN out' /\ out'[Len(out) + 1] = packet
      BY <1>4
    <3> HIDE DEF NothingSkipped
    <3> QED BY <1>5, <3>1, <3>2
  <2>3. Frames(pos - 1)' = Frames(pos - 1)
    BY <1>1, <1>8 DEF Frames
  <2>4. packet # 0 /\ packet' = 0 /\ {packet} \ {0} = {packet} /\ {packet'} \ {0} = {}
    BY <1>1, <1>3
  <2>5. (\A n \in 1 .. pos - 1 : file[n] # "corrupt") =>
            {out[n] : n \in DOMAIN out} \cup {packet} = Frames(pos - 1)
    BY <1>1, <2>4 DEF IInv, NothingSkipped
  <2> QED BY <1>1, <2>1, <2>2, <2>3, <2>4, <2>5 DEF NothingSkipped
<1>10. Verbatim'
  <2> SUFFICES ASSUME \A n \in 1 .. pos - 1 : Accepts(n)
               PROVE  Len(out') = pos - 1 /\ \A n \in 1 .. Len(out') : out'[n] = n
    BY <1>1, <1>8 DEF Verbatim
  <2>1. Len(out) = pos - 2 /\ \A n \in 1 .. Len(out) : out[n] = n
    BY <1>1 DEF IInv, Verbatim
  <2>2. Len(out') = pos - 1
    BY <1>2, <1>4, <2>1
  <2>3. ASSUME NEW n \in 1 .. Len(out')
        PROVE  out'[n] = n
    <3>1. CASE n \in 1 .. Len(out)
      BY <1>4, <2>1, <3>1
    <3>2. CASE n = Len(out) + 1
      BY <1>2, <1>4, <2>1, <3>2
    <3> QED BY <1>4, <2>3, <3>1, <3>2
  <2> QED BY <2>2, <2>3
<1>11. Ended'
  BY <1>1 DEF Ended
<1> QED BY <1>6, <1>7, <1>9, <1>10, <1>11 DEF IInv

(* A failed write preserves the inductive invariant.                       *)
LEMMA WriteFailsStep ==
    ASSUME IInv, Opened', WriteFails
    PROVE  IInv'
<1>1. /\ pc = "write" /\ packet' = 0 /\ pc' = "panic"
      /\ UNCHANGED <<file, link, same, client, opened, created, pos, out>>
  BY DEF WriteFails
<1>2. TypeOK'
  BY <1>1, FileType DEF IInv, TypeOK
<1>3. InHand'
  BY <1>1 DEF IInv, InHand
<1> QED BY <1>1, <1>2, <1>3 DEF IInv, NothingSkipped, Verbatim, Ended

(* The steps before the first record and after the last.                   *)
LEMMA OtherSteps ==
    ASSUME IInv, Opened',
           ComparePaths \/ OpenReader \/ CreateWriter \/ ReadEof \/ OnError
    PROVE  IInv'
<1>1. CASE ComparePaths
  <2>1. /\ pc = "start" /\ pc' \in {"panic", "exit", "open"}
        /\ UNCHANGED <<file, link, same, client, opened, created, pos, packet, out>>
    BY <1>1 DEF ComparePaths
  <2> QED BY <2>1, IdleStep DEF IInv, TypeOK
<1>2. CASE OpenReader
  <2>1. /\ pc = "open" /\ pc' \in {"panic", "create"} /\ opened' \in BOOLEAN
        /\ UNCHANGED <<file, link, same, client, created, pos, packet, out>>
    BY <1>2 DEF OpenReader, IInv, TypeOK
  <2> QED BY <2>1, IdleStep DEF IInv, TypeOK
<1>3. CASE CreateWriter
  <2>1. /\ pc = "create" /\ pc' \in {"panic", "loop"} /\ created' \in BOOLEAN
        /\ UNCHANGED <<file, link, same, client, opened, pos, packet, out>>
    BY <1>3 DEF CreateWriter, IInv, TypeOK
  <2> QED BY <2>1, IdleStep DEF IInv, TypeOK
<1>4. CASE ReadEof
  <2>1. /\ pc = "loop" /\ pc' = "done" /\ pos > Len(file)
        /\ UNCHANGED <<file, link, same, client, opened, created, pos, packet, out>>
    BY <1>4 DEF ReadEof
  <2> QED BY <2>1, IdleStep DEF IInv, TypeOK
<1>5. CASE OnError
  <2>1. /\ pc = "error" /\ pc' \in {"done", "loop"} /\ (pc' = "done" => client = "for")
        /\ UNCHANGED <<file, link, same, client, opened, created, pos, packet, out>>
    BY <1>5 DEF OnError
  <2> QED BY <2>1, IdleStep DEF IInv, TypeOK
<1> QED BY <1>1, <1>2, <1>3, <1>4, <1>5

-----------------------------------------------------------------------------
(* The inductive invariant holds in every reachable state.                 *)
THEOREM Invariance == Spec => []IInv
<1>1. Init => IInv
  <2> SUFFICES ASSUME Init
               PROVE  IInv
    OBVIOUS
  <2>1. /\ file \in Captures /\ pos = 1 /\ packet = 0 /\ out = <<>> /\ pc = "start"
        /\ link \in {"ethernet", "other"} /\ client \in {"for", "read"}
    BY DEF Init
  <2>2. same \in BOOLEAN /\ opened = FALSE /\ created = FALSE
    BY DEF Init
  <2>3. file \in Seq({"frame", "rejected", "corrupt"}) /\ Len(file) \in Nat
    BY <2>1, CapturesAssumption, LenProperties
  <2>4. out \in Seq(1 .. Len(file)) /\ Len(out) = 0 /\ DOMAIN out = {}
    BY <2>1, EmptySeq
  <2>5. TypeOK
    <3>1. pos \in 1 .. Len(file) + 1 /\ packet \in 0 .. Len(file)
      BY <2>1, <2>3
    <3>2. opened \in BOOLEAN /\ created \in BOOLEAN
      BY <2>2
    <3> QED BY <2>1, <2>2, <2>4, <3>1, <3>2 DEF TypeOK
  <2>6. Opened
    BY <2>1, <2>2 DEF Opened
  <2>7. InHand /\ Verbatim /\ Ended
    BY <2>1, <2>4 DEF InHand, Verbatim, Ended
  <2>8. NothingSkipped
    <3>1. Frames(pos - 1) = {} /\ {packet} \ {0} = {} /\ {out[n] : n \in DOMAIN out} = {}
      BY <2>1, <2>4 DEF Frames
    <3> QED BY <2>4, <3>1 DEF NothingSkipped
  <2> QED BY <2>5, <2>6, <2>7, <2>8 DEF IInv
<1>2. ASSUME IInv, [Next]_vars
      PROVE  IInv'
  <2>1. Opened'
    BY <1>2, OpenedStep DEF IInv
  <2>2. CASE UNCHANGED vars
    BY <1>2, <2>2 DEF vars, IInv, TypeOK, Opened, InHand, NothingSkipped, Verbatim,
                      Ended, Unaccepted, Frames, Accepts
  <2> QED BY <1>2, <2>1, <2>2, ReadFrameStep, ReadErrorStep, WriteStep, WriteFailsStep,
             OtherSteps DEF Next
<1> QED BY <1>1, <1>2, PTL DEF Spec

(* Every variable of the two programs keeps its type: the reader never     *)
(* goes beyond the end of the file.                                        *)
THEOREM TypeCorrect == Spec => []TypeOK
<1>1. IInv => TypeOK
  BY DEF IInv
<1> QED BY <1>1, Invariance, PTL

(* read_write_pcap truncates its output only when the input is open and    *)
(* has another path, and does so before it copies anything.                *)
THEOREM FilesKeptHolds == Spec => []FilesKept
<1>1. IInv => FilesKept
  BY DEF IInv, Opened, FilesKept
<1> QED BY <1>1, Invariance, PTL

(* No frame is lost, repeated or reordered between PcapFileReader::read    *)
(* and PcapFileWriter::write, until a corrupt record or a failed write.    *)
THEOREM NothingSkippedHolds == Spec => []NothingSkipped
<1>1. IInv => NothingSkipped
  BY DEF IInv
<1> QED BY <1>1, Invariance, PTL

(* Which copies are complete: every one of a program that tells Eof from   *)
(* other errors; of a for loop over the reader those of captures whose     *)
(* every record the parser accepts.                                        *)
THEOREM CopyCompleteHolds == Spec => []CopyComplete
<1>1. IInv => CopyComplete
  <2> SUFFICES ASSUME IInv, pc = "done", Intact
               PROVE  /\ client = "read" => {out[n] : n \in DOMAIN out} = Frames(Len(file))
                      /\ link = "other" \/ (\A n \in DOMAIN file : file[n] = "frame") =>
                             out = [n \in 1 .. Len(file) |-> n]
    BY DEF CopyComplete
  <2>1. /\ Len(file) \in Nat /\ DOMAIN file = 1 .. Len(file)
        /\ \A n \in 1 .. Len(file) : file[n] \in {"frame", "rejected", "corrupt"}
        /\ out \in Seq(1 .. Len(file)) /\ pos \in 1 .. Len(file) + 1 /\ packet = 0
    BY FileType DEF IInv, TypeOK, InHand
  <2>2. pos > Len(file) \/ (client = "for" /\ Unaccepted)
    BY DEF IInv, Ended
  <2>3. ASSUME client = "read"
        PROVE  {out[n] : n \in DOMAIN out} = Frames(Len(file))
    <3>1. pos - 1 = Len(file)
      BY <2>1, <2>2, <2>3
    <3>2. {packet} \ {0} = {}
      BY <2>1
    <3>3. \A n \in 1 .. pos - 1 : file[n] # "corrupt"
      BY <2>1, <3>1 DEF Intact
    <3>4. {out[n] : n \in DOMAIN out} \cup ({packet} \ {0}) = Frames(pos - 1)
      BY <3>3 DEF IInv, NothingSkipped
    <3> QED BY <3>1, <3>2, <3>4
  <2>4. ASSUME link = "other" \/ (\A n \in DOMAIN file : file[n] = "frame")
        PROVE  out = [n \in 1 .. Len(file) |-> n]
    <3>1. \A n \in 1 .. Len(file) : Accepts(n)
      BY <2>1, <2>4 DEF Accepts, Intact
    <3>2. pos - 1 = Len(file)
      BY <2>1, <2>2, <3>1 DEF Unaccepted
    <3>3. Len(out) = pos - 1 /\ \A n \in 1 .. Len(out) : out[n] = n
      BY <3>1, <3>2 DEF IInv, Verbatim
    <3>4. out \in [1 .. Len(file) -> 1 .. Len(file)]
      BY <2>1, <3>2, <3>3, LenProperties
    <3> QED BY <3>2, <3>3, <3>4
  <2> QED BY <2>3, <2>4
<1> QED BY <1>1, Invariance, PTL
=============================================================================
