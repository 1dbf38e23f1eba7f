------------------------------ MODULE PcapCopy ------------------------------
(***************************************************************************)
(* Offline I/O: PcapFileReader, the iterator over it, PcapFileWriter, and  *)
(* two programs that copy a capture with them.  One is the repository's    *)
(* read_write_pcap, a for loop over the reader; the other calls read and   *)
(* goes on after an error until it sees Eof.                               *)
(*                                                                         *)
(* A capture is a sequence of records, known by their positions: a frame   *)
(* that parse_packet::<Ether> accepts, one that it rejects, or a record    *)
(* pcap_file itself cannot read.                                           *)
(***************************************************************************)
EXTENDS Integers, Sequences

CONSTANTS Captures   \* input files: sequences of "frame", "rejected", "corrupt"

ASSUME CapturesAssumption == Captures \subseteq Seq({"frame", "rejected", "corrupt"})

VARIABLES
    file,      \* the records of the input
    link,      \* its link type: "ethernet" or "other"
    same,      \* canonicalize resolves both names to one path
    client,    \* "for" or "read": which program runs
    opened,    \* the reader is open
    created,   \* the writer is: what the output held is gone
    pos,       \* the next record of the reader
    packet,    \* position of the packet in hand, 0 when there is none
    out,       \* positions of the frames in the output capture
    pc         \* "start", "open", "create", "loop", "error", "write", "done",
               \* "exit" or "panic"

vars == <<file, link, same, client, opened, created, pos, packet, out, pc>>

Init ==
    /\ file \in Captures
    /\ link \in {"ethernet", "other"}
    /\ same \in BOOLEAN
    /\ client \in {"for", "read"}
    /\ opened = FALSE
    /\ created = FALSE
    /\ pos = 1
    /\ packet = 0
    /\ out = <<>>
    /\ pc = "start"

-----------------------------------------------------------------------------
(* Starting up.  Every error is a panic of the program.                    *)

(* Mutant: the paths are compared as they were given.                      *)
ComparePathsAsGiven ==
    /\ pc = "start"
    /\ pc' \in {"open", "exit", "panic"}
    /\ UNCHANGED <<file, link, same, client, opened, created, pos, packet, out>>

(* The input must exist; both paths are resolved before they are compared. *)
ComparePaths ==
    /\ pc = "start"
    /\ pc' \in {"panic", IF same THEN "exit" ELSE "open"}
    /\ UNCHANGED <<file, link, same, client, opened, created, pos, packet, out>>

(* Mutant: the output is created before the input is opened.               *)
OpenReaderLate ==
    /\ pc = "open"
    /\ \/ opened' = TRUE /\ created' = TRUE /\ pc' = "create"
       \/ created' = TRUE /\ pc' = "panic" /\ UNCHANGED opened
    /\ UNCHANGED <<file, link, same, client, pos, packet, out>>

(* Opening also reads the header of the capture, with its link type.       *)
OpenReader ==
    /\ pc = "open"
    /\ \/ opened' = TRUE /\ pc' = "create"
       \/ pc' = "panic" /\ UNCHANGED opened
    /\ UNCHANGED <<file, link, same, client, created, pos, packet, out>>

(* File::create truncates, also when writing the header then fails.        *)
CreateWriter ==
    /\ pc = "create"
    /\ \/ created' = TRUE /\ pc' \in {"loop", "panic"}
       \/ pc' = "panic" /\ UNCHANGED created
    /\ UNCHANGED <<file, link, same, client, opened, pos, packet, out>>

-----------------------------------------------------------------------------
(* Reading.                                                                *)

(* Mutant: every capture is parsed as Ethernet.                            *)
AcceptsEther(n) == file[n] = "frame"

(* A capture of another link type is parsed as Raw, which takes anything.  *)
Accepts(n) == file[n] = "frame" \/ (link = "other" /\ file[n] = "rejected")

ReadFrame ==
    /\ pc = "loop" /\ pos <= Len(file) /\ Accepts(pos)
    /\ packet' = pos
    /\ pos' = pos + 1
    /\ pc' = "write"
    /\ UNCHANGED <<file, link, same, client, opened, created, out>>

(* The record is consumed before it is parsed.                             *)
ReadRejected ==
    /\ pc = "loop" /\ pos <= Len(file) /\ file[pos] # "corrupt" /\ ~Accepts(pos)
    /\ pos' = pos + 1
    /\ pc' = "error"
    /\ UNCHANGED <<file, link, same, client, opened, created, packet, out>>

(* pcap_file does not say whether it skips what it cannot read, meets it   *)
(* again, or gives the rest of the file up.                                *)
ReadCorrupt ==
    /\ pc = "loop" /\ pos <= Len(file) /\ file[pos] = "corrupt"
    /\ pos' \in {pos, pos + 1, Len(file) + 1}
    /\ pc' = "error"
    /\ UNCHANGED <<file, link, same, client, opened, created, packet, out>>

(* Mutants: every error ends the copy; no error ends it.                   *)
OnErrorStop ==
    /\ pc = "error"
    /\ pc' = "done"
    /\ UNCHANGED <<file, link, same, client, opened, created, pos, packet, out>>

OnErrorGoOn ==
    /\ pc = "error"
    /\ pc' = "loop"
    /\ UNCHANGED <<file, link, same, client, opened, created, pos, packet, out>>

(* next takes every error of read for the end, so the for loop is over;    *)
(* the other program goes on.                                              *)
OnError ==
    /\ pc = "error"
    /\ \/ client = "for" /\ pc' = "done"
       \/ client = "read" /\ pc' = "loop"
    /\ UNCHANGED <<file, link, same, client, opened, created, pos, packet, out>>

(* Mutant: the end of the file counts as a record.                         *)
ReadEofCounting ==
    /\ pc = "loop" /\ pos > Len(file)
    /\ pos' = pos + 1
    /\ pc' = "done"
    /\ UNCHANGED <<file, link, same, client, opened, created, packet, out>>

ReadEof ==
    /\ pc = "loop" /\ pos > Len(file)
    /\ pc' = "done"
    /\ UNCHANGED <<file, link, same, client, opened, created, pos, packet, out>>

Write ==
    /\ pc = "write"
    /\ out' = Append(out, packet)
    /\ packet' = 0
    /\ pc' = "loop"
    /\ UNCHANGED <<file, link, same, client, opened, created, pos>>

(* Mutant: the program ignores the error.                                  *)
WriteFailsIgnored ==
    /\ pc = "write"
    /\ packet' = 0
    /\ pc' = "loop"
    /\ UNCHANGED <<file, link, same, client, opened, created, pos, out>>

(* write fails and the program's expect ends it; write took the packet.    *)
WriteFails ==
    /\ pc = "write"
    /\ packet' = 0
    /\ pc' = "panic"
    /\ UNCHANGED <<file, link, same, client, opened, created, pos, out>>

Next ==
    \/ ComparePaths \/ OpenReader \/ CreateWriter
    \/ ReadFrame \/ ReadRejected \/ ReadCorrupt \/ ReadEof
    \/ OnError \/ Write \/ WriteFails

(* Neither program waits for anything.                                     *)
Spec == Init /\ [][Next]_vars /\ WF_vars(Next)

-----------------------------------------------------------------------------
(* Properties.                                                             *)

(* Every variable has its type.                                            *)
TypeOK ==
    /\ file \in Captures
    /\ link \in {"ethernet", "other"}
    /\ same \in BOOLEAN
    /\ client \in {"for", "read"}
    /\ opened \in BOOLEAN /\ created \in BOOLEAN
    /\ pos \in 1 .. Len(file) + 1
    /\ packet \in 0 .. Len(file)
    /\ out \in Seq(1 .. Len(file))
    /\ pc \in {"start", "open", "create", "loop", "error", "write", "done", "exit", "panic"}

(* What the output held is lost only once the input is open and its path   *)
(* known to be another one, and is lost in every run that ends well or has *)
(* written a frame.  A run can also lose it and copy nothing, when the     *)
(* header of the new capture cannot be written.                            *)
FilesKept ==
    /\ created => opened /\ ~same
    /\ pc = "done" \/ out # <<>> => created

Intact == \A n \in DOMAIN file : file[n] # "corrupt"

Frames(upTo) == {n \in 1 .. upTo : Accepts(n)}

(* No frame the reader passed is lost, repeated or reordered on its way    *)
(* through read and write, until a corrupt record or a failed write.       *)
NothingSkipped ==
    /\ \A m, n \in DOMAIN out : m < n => out[m] < out[n]
    /\ (\A n \in 1 .. pos - 1 : file[n] # "corrupt") /\ pc # "panic" =>
           {out[n] : n \in DOMAIN out} \cup ({packet} \ {0}) = Frames(pos - 1)

(* Which copies of a capture without corrupt records are complete: those   *)
(* of a client that tells Eof from other errors hold every frame the       *)
(* parser accepts; those of the for loop too, when it rejects none, and    *)
(* it rejects none of another link type than Ethernet.                     *)
CopyComplete ==
    pc = "done" /\ Intact =>
        /\ client = "read" => {out[n] : n \in DOMAIN out} = Frames(Len(file))
        /\ link = "other" \/ (\A n \in DOMAIN file : file[n] = "frame") =>
               out = [n \in 1 .. Len(file) |-> n]

(* The for loop ends on every capture, corrupt records included.           *)
ForLoopEnds == client = "for" => <>(pc \in {"done", "exit", "panic"})

(* read_write_pcap.rs: "each captured frame is decoded into typed layers,  *)
(* serialized again, and stored in a new PCAP file".                       *)
EachFrameStored ==
    client = "for" /\ pc = "done" /\ Intact =>
        {out[n] : n \in DOMAIN out} = Frames(Len(file))
=============================================================================
