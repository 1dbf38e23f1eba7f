----------------------------- MODULE HttpServer -----------------------------
(***************************************************************************)
(* A live interface and its client: the HTTP server of the examples, which *)
(* reads every frame a Pcap interface captures and injects replies through *)
(* the other half of the split interface.  It keeps no state about         *)
(* connections; what a reply says is computed from the frame in hand.      *)
(*                                                                         *)
(* The clients and the network are external: clients retransmit, frames    *)
(* are lost, duplicated and reordered, the link layer pads short ones, and *)
(* the interface also captures what the server itself injects.             *)
(***************************************************************************)
EXTENDS Integers, FiniteSetsExt

CONSTANTS
    Clients,         \* hosts that fetch the page once
    Server,          \* the server's address and port
    SeqMod,          \* sequence numbers, 2^32 in the code
    ServerIsn,       \* SERVER_INITIAL_SEQUENCE
    FirstSeqs,       \* initial sequence numbers of clients
    GetBytes,        \* bytes of a request
    ResponseBytes,   \* bytes of HTTP_RESPONSE
    Pads             \* bytes of padding a captured frame may end with

ASSUME ServerAssumption == Server \notin Clients
ASSUME SeqAssumption ==
    /\ SeqMod \in Nat \ {0}
    /\ ServerIsn \in 0 .. SeqMod - 1
    /\ FirstSeqs \subseteq 0 .. SeqMod - 1
ASSUME BytesAssumption ==
    GetBytes \in Nat /\ GetBytes >= 4 /\ ResponseBytes \in Nat /\ Pads \subseteq Nat

VARIABLES
    server,   \* "starting", "listening", "exited" or "panicked"
    net,      \* frames that may still be delivered, any number of times
    state,    \* of each client: "closed", "connecting", "established",
              \* "requested" or "served"
    iss,      \* of each client: its first sequence number
    rcv       \* of each client: the next sequence number it expects

vars == <<server, net, state, iss, rcv>>

(* The flags a segment may have set, of those the server looks at or sets. *)
Flags == {"syn", "ack", "push", "fin"}

Plus(n, bytes) == (n + bytes) % SeqMod

(* An Ipv4 and Tcp header with their sizes, and the payload behind them.   *)
Frame(from, to, seq, ack, flags, offset, bytes, get) ==
    [from |-> from, to |-> to, seq |-> seq, ack |-> ack, flags |-> flags,
     ihl |-> 5, offset |-> offset, length |-> 20 + 4 * offset + bytes,
     bytes |-> bytes, get |-> get]

Init ==
    /\ server = "starting"
    /\ net = {}
    /\ state = [c \in Clients |-> "closed"]
    /\ iss = [c \in Clients |-> 0]
    /\ rcv = [c \in Clients |-> 0]

-----------------------------------------------------------------------------
(* The server.                                                             *)

(* The interface is missing, is not Ethernet, cannot be opened or has no   *)
(* MAC address: main panics.                                               *)
Open ==
    /\ server = "starting"
    /\ server' \in {"listening", "panicked"}
    /\ UNCHANGED <<net, state, iss, rcv>>

(* Mutant: everything captured behind the header is payload.               *)
TcpPayloadUntrimmed(f, captured) == captured

TcpPayload(f, captured) ==
    Min({Max({f.length - 4 * f.ihl - 4 * f.offset, 0}), captured})

(* Mutants: SYN and FIN do not count; the addition does not wrap.          *)
NextClientSequenceBytes(f, payload) == Plus(f.seq, payload)

NextClientSequenceWide(f, payload) ==
    f.seq + payload + Cardinality(f.flags \cap {"syn", "fin"})

NextClientSequence(f, payload) ==
    Plus(f.seq, payload + Cardinality(f.flags \cap {"syn", "fin"}))

BuildReply(f, seq, ack, flags, bytes) ==
    Frame(f.to, f.from, seq, ack, flags, 5, bytes, FALSE)

(* writer.write with the program's expect: an error of send_to, or no      *)
(* buffer for it, ends the server.                                         *)
Write(reply) ==
    \/ net' = net \cup {reply} /\ UNCHANGED server
    \/ server' = "panicked" /\ UNCHANGED net

IsSyn(f) == "syn" \in f.flags /\ "ack" \notin f.flags

(* Mutant: every segment that acknowledges something is answered.          *)
IsGetAnyAck(f, payload) == "ack" \in f.flags

(* The payload starts with "GET ".                                         *)
IsGet(f, payload) == "ack" \in f.flags /\ f.get /\ payload >= 4

(* One iteration of the server's loop, for a captured frame.               *)
Iterate(f, pad) ==
    LET payload == TcpPayload(f, f.bytes + pad)
        ack     == NextClientSequence(f, payload)
    IN  /\ server = "listening"
        /\ \/ /\ f.to = Server /\ IsSyn(f)
              /\ Write(BuildReply(f, ServerIsn, ack, {"syn", "ack"}, 0))
           \/ /\ f.to = Server /\ ~IsSyn(f) /\ IsGet(f, payload)
              /\ Write(BuildReply(f, f.ack, ack, {"ack", "push", "fin"}, ResponseBytes))
           \/ /\ f.to # Server \/ (~IsSyn(f) /\ ~IsGet(f, payload))
              /\ UNCHANGED <<server, net>>
        /\ UNCHANGED <<state, iss, rcv>>

Capture == \E f \in net, pad \in Pads : Iterate(f, pad)

(* A captured frame that parse_packet rejects, or an error of the device:  *)
(* the iterator ends, and main returns.                                    *)
ReadFails ==
    /\ server = "listening"
    /\ server' = "exited"
    /\ UNCHANGED <<net, state, iss, rcv>>

-----------------------------------------------------------------------------
(* The clients and the network.                                            *)

Syn(c, s) == Frame(c, Server, s, 0, {"syn"}, 10, 0, FALSE)

Acknowledge(c, r) == Frame(c, Server, Plus(iss[c], 1), r, {"ack"}, 5, 0, FALSE)

Get(c) == Frame(c, Server, Plus(iss[c], 1), rcv[c], {"ack", "push"}, 8, GetBytes, TRUE)

Close(c, r) ==
    Frame(c, Server, Plus(iss[c], 1 + GetBytes), r, {"ack", "fin"}, 8, 0, FALSE)

Connect(c) ==
    /\ state[c] = "closed"
    /\ \E s \in FirstSeqs :
           iss' = [iss EXCEPT ![c] = s] /\ net' = net \cup {Syn(c, s)}
    /\ state' = [state EXCEPT ![c] = "connecting"]
    /\ UNCHANGED <<server, rcv>>

(* A client takes the segments it expects and no others.                   *)
ReceiveSynAck(c) ==
    /\ state[c] = "connecting"
    /\ \E f \in net :
           /\ f.to = c /\ f.flags = {"syn", "ack"} /\ f.ack = Plus(iss[c], 1)
           /\ rcv' = [rcv EXCEPT ![c] = Plus(f.seq, 1)]
           /\ net' = net \cup {Acknowledge(c, Plus(f.seq, 1))}
    /\ state' = [state EXCEPT ![c] = "established"]
    /\ UNCHANGED <<server, iss>>

SendGet(c) ==
    /\ state[c] = "established"
    /\ state' = [state EXCEPT ![c] = "requested"]
    /\ net' = net \cup {Get(c)}
    /\ UNCHANGED <<server, iss, rcv>>

ReceiveResponse(c) ==
    /\ state[c] = "requested"
    /\ \E f \in net :
           /\ f.to = c /\ "fin" \in f.flags
           /\ f.seq = rcv[c] /\ f.ack = Plus(iss[c], 1 + GetBytes)
    /\ rcv' = [rcv EXCEPT ![c] = Plus(@, ResponseBytes + 1)]
    /\ net' = net \cup {Close(c, rcv'[c])}
    /\ state' = [state EXCEPT ![c] = "served"]
    /\ UNCHANGED <<server, iss>>

(* What a client sends again until it is answered.                         *)
Pending(c) == IF state[c] = "connecting" THEN Syn(c, iss[c]) ELSE Get(c)

Retransmit(c) ==
    /\ state[c] \in {"connecting", "requested"}
    /\ net' = net \cup {Pending(c)}
    /\ UNCHANGED <<server, state, iss, rcv>>

Lose ==
    /\ \E f \in net : net' = net \ {f}
    /\ UNCHANGED <<server, state, iss, rcv>>

Client(c) ==
    \/ Connect(c) \/ ReceiveSynAck(c) \/ SendGet(c) \/ ReceiveResponse(c)
    \/ Retransmit(c)

Next == Open \/ Capture \/ ReadFails \/ Lose \/ \E c \in Clients : Client(c)

(* The server runs, clients persist, and the network does not lose every   *)
(* copy of what is sent again and again.                                   *)
CapturePending(c) == Pending(c) \in net /\ \E pad \in Pads : Iterate(Pending(c), pad)

Fairness ==
    /\ WF_vars(Open)
    /\ \A c \in Clients :
           /\ WF_vars(Retransmit(c))
           /\ WF_vars(SendGet(c))
           /\ SF_vars(ReceiveSynAck(c))
           /\ SF_vars(ReceiveResponse(c))
           /\ SF_vars(CapturePending(c))

Spec == Init /\ [][Next]_vars /\ Fairness

-----------------------------------------------------------------------------
(* Properties.                                                             *)

(* Every variable has its type.                                            *)
TypeOK ==
    /\ server \in {"starting", "listening", "exited", "panicked"}
    /\ \A f \in net :
           /\ {f.from, f.to} \subseteq Clients \cup {Server}
           /\ f.seq \in 0 .. SeqMod - 1 /\ f.ack \in 0 .. SeqMod - 1
           /\ f.flags \subseteq Flags
           /\ f.offset \in 5 .. 15 /\ f.length \in Nat
    /\ state \in [Clients ->
                  {"closed", "connecting", "established", "requested", "served"}]
    /\ iss \in [Clients -> 0 .. SeqMod - 1]
    /\ rcv \in [Clients -> 0 .. SeqMod - 1]

Replies == {f \in net : f.from = Server}

(* Every reply on its way acknowledges exactly what its client sent, link  *)
(* layer padding and wrapped sequence numbers notwithstanding, and a       *)
(* response starts where the handshake left off: a client that ignores     *)
(* anything else is not left waiting because a reply was miscounted.       *)
RepliesFit ==
    \A f \in Replies :
        /\ "syn" \in f.flags => f.ack = Plus(iss[f.to], 1)
        /\ "fin" \in f.flags =>
               /\ f.seq = Plus(ServerIsn, 1)
               /\ f.ack = Plus(iss[f.to], 1 + GetBytes)

(* The server, which remembers nothing, answers no client before its       *)
(* request, nor the frames it injected itself: acknowledgments, duplicates *)
(* and late segments of a connection provoke no response.                  *)
NoEarlyResponse ==
    \A f \in Replies :
        /\ f.to \in Clients
        /\ "fin" \in f.flags => state[f.to] \in {"requested", "served"}

(* While the server runs, every client that connects is served, however    *)
(* often its frames are lost, duplicated or overtaken.                     *)
EveryoneServed ==
    [](server \in {"starting", "listening"}) =>
        \A c \in Clients : state[c] = "connecting" ~> state[c] = "served"
=============================================================================
