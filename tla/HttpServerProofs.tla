-------------------------- MODULE HttpServerProofs --------------------------
(***************************************************************************)
(* Proofs about HttpServer for every set of clients, modulus of sequence   *)
(* numbers, size of request and response, and padding.  The server keeps   *)
(* no connection state, so the argument is about the frames in flight: at  *)
(* all times each is one of the seven a client or the server may send,     *)
(* given what that client has done so far.                                 *)
(***************************************************************************)
EXTENDS HttpServer, NatLemmas

(* Where the handshake leaves a client: the server's number and its SYN.   *)
Greeted == Plus(ServerIsn, 1)

(* The frames a client may have in flight in its present state.            *)
FromClient(f, c) ==
    /\ state[c] # "closed"
    /\ \/ f = Syn(c, iss[c])
       \/ f = Acknowledge(c, Greeted)
       \/ /\ state[c] \in {"requested", "served"}
          /\ f = Frame(c, Server, Plus(iss[c], 1), Greeted, {"ack", "push"}, 8,
                       GetBytes, TRUE)
       \/ f = Close(c, Plus(Greeted, ResponseBytes + 1))

(* The replies to a client that may be in flight.                          *)
ToClient(f, c) ==
    /\ state[c] # "closed"
    /\ \/ f = Frame(Server, c, ServerIsn, Plus(iss[c], 1), {"syn", "ack"}, 5, 0, FALSE)
       \/ /\ state[c] \in {"requested", "served"}
          /\ f = Frame(Server, c, Greeted, Plus(iss[c], 1 + GetBytes),
                       {"ack", "push", "fin"}, 5, ResponseBytes, FALSE)

Known(f) == \E c \in Clients : FromClient(f, c) \/ ToClient(f, c)

VarsOK ==
    /\ server \in {"starting", "listening", "exited", "panicked"}
    /\ state \in [Clients ->
                  {"closed", "connecting", "established", "requested", "served"}]
    /\ iss \in [Clients -> 0 .. SeqMod - 1]
    /\ rcv \in [Clients -> 0 .. SeqMod - 1]

(* The inductive invariant: every frame in flight is known, and a client   *)
(* between handshake and response expects the byte after the server's SYN. *)
IInv ==
    /\ VarsOK
    /\ \A f \in net : Known(f)
    /\ \A c \in Clients : state[c] \in {"established", "requested"} => rcv[c] = Greeted

-----------------------------------------------------------------------------
(* Sequence numbers stay below their modulus.                              *)
LEMMA PlusType ==
    ASSUME NEW n \in Nat, NEW bytes \in Nat
    PROVE  Plus(n, bytes) \in 0 .. SeqMod - 1 /\ Plus(n, bytes) \in Nat
<1>1. n + bytes \in Nat
  OBVIOUS
<1>2. (n + bytes) % SeqMod \in 0 .. SeqMod - 1
  BY <1>1, SeqAssumption, Euclid
<1> QED BY <1>2, SeqAssumption DEF Plus

(* Advancing twice is advancing once by the sum, across the wrap.          *)
LEMMA PlusPlus ==
    ASSUME NEW n \in Nat, NEW a \in Nat, NEW b \in Nat
    PROVE  Plus(Plus(n, a), b) = Plus(n, a + b)
<1>1. n + a \in Nat
  OBVIOUS
<1>2. (((n + a) % SeqMod) + b) % SeqMod = ((n + a) + b) % SeqMod
  BY <1>1, SeqAssumption, ModAdd
<1>3. (n + a) + b = n + (a + b)
  OBVIOUS
<1> QED BY <1>2, <1>3 DEF Plus

(* The numbers of the handshake are sequence numbers.                      *)
LEMMA GreetedType ==
    /\ ServerIsn \in Nat /\ Greeted \in Nat /\ Greeted \in 0 .. SeqMod - 1
    /\ 0 \in 0 .. SeqMod - 1 /\ ServerIsn \in 0 .. SeqMod - 1
  BY SeqAssumption, PlusType DEF Greeted

(* The payload a reply counts is the one that was sent: tcp_payload cuts   *)
(* off the padding whatever its length.                                    *)
LEMMA PayloadExact ==
    ASSUME NEW f, NEW pad \in Nat, f.ihl = 5, f.offset \in Nat, f.bytes \in Nat,
           f.length = 20 + 4 * f.offset + f.bytes
    PROVE  TcpPayload(f, f.bytes + pad) = f.bytes
<1>1. f.length - 4 * f.ihl - 4 * f.offset = f.bytes
  OBVIOUS
<1>2. Max({f.bytes, 0}) = f.bytes
  BY DEF Max
<1>3. Min({f.bytes, f.bytes + pad}) = f.bytes
  BY DEF Min
<1> QED BY <1>1, <1>2, <1>3 DEF TcpPayload

(* A SYN counts for one byte of sequence space, a request for none.        *)
LEMMA FlagsCount ==
    /\ Cardinality({"syn"} \cap {"syn", "fin"}) = 1
    /\ Cardinality({"ack", "push"} \cap {"syn", "fin"}) = 0
<1>1. {"syn"} \cap {"syn", "fin"} = {"syn"} /\ {"ack", "push"} \cap {"syn", "fin"} = {}
  OBVIOUS
<1> QED BY <1>1, FS_Singleton, FS_EmptySet

(* What is known of a frame's fields.                                      *)
LEMMA KnownFields ==
    ASSUME VarsOK, NEW f, NEW c \in Clients
    PROVE  /\ FromClient(f, c) => f.from = c /\ f.to = Server
           /\ ToClient(f, c) => f.from = Server /\ f.to = c
  BY DEF FromClient, ToClient, Syn, Acknowledge, Close, Frame

-----------------------------------------------------------------------------
(* What the server writes in answer to a known frame is known: the reply   *)
(* acknowledges the frame exactly.                                         *)
LEMMA ReplyKnown ==
    ASSUME IInv, NEW f \in net, NEW pad \in Pads, Iterate(f, pad)
    PROVE  /\ \A g \in net' : g \in net \/ Known(g)
           /\ server' \in {"listening", "panicked"}
<1> DEFINE payload == TcpPayload(f, f.bytes + pad)
           ack     == NextClientSequence(f, payload)
           synack  == BuildReply(f, ServerIsn, ack, {"syn", "ack"}, 0)
           answer  == BuildReply(f, f.ack, ack, {"ack", "push", "fin"}, ResponseBytes)
<1>1. /\ \/ f.to = Server /\ IsSyn(f) /\ Write(synack)
         \/ f.to = Server /\ ~IsSyn(f) /\ IsGet(f, payload) /\ Write(answer)
         \/ UNCHANGED <<server, net>>
      /\ server = "listening"
  BY DEF Iterate
<1>2. PICK c \in Clients : FromClient(f, c) \/ ToClient(f, c)
  BY DEF IInv, Known
<1>3. iss[c] \in Nat /\ pad \in Nat /\ iss[c] \in 0 .. SeqMod - 1
  BY BytesAssumption, SeqAssumption DEF IInv, VarsOK
<1>4. CASE f.to = Server
  <2>1. FromClient(f, c) /\ f.from = c
    BY <1>2, <1>4, ServerAssumption, KnownFields DEF IInv
  <2>2. CASE f = Syn(c, iss[c])
    <3>1. payload = 0
      <4>1. /\ f.ihl = 5 /\ f.offset \in Nat /\ f.bytes = 0
            /\ f.length = 20 + 4 * f.offset + f.bytes
        BY <2>2 DEF Syn, Frame
      <4> QED BY <1>3, <4>1, PayloadExact
    <3>2. f.seq = iss[c] /\ f.flags = {"syn"}
      BY <2>2 DEF Syn, Frame
    <3>3. ack = Plus(iss[c], 1)
      BY <3>1, <3>2, FlagsCount DEF NextClientSequence
    <3>4. synack = Frame(Server, c, ServerIsn, Plus(iss[c], 1), {"syn", "ack"}, 5, 0, FALSE)
      BY <1>4, <2>1, <3>3 DEF BuildReply
    <3>5. Known(synack)
      BY <2>1, <3>4 DEF Known, ToClient, FromClient
    <3>6. IsSyn(f)
      BY <3>2 DEF IsSyn
    <3> HIDE DEF synack, answer, payload
    <3> QED BY <1>1, <3>5, <3>6 DEF Write
  <2>3. CASE f # Syn(c, iss[c])
    <3>1. ~IsSyn(f)
      BY <2>1, <2>3 DEF IsSyn, FromClient, Acknowledge, Close, Frame
    <3>2. CASE ~IsGet(f, payload)
      <4> HIDE DEF synack, answer, payload
      <4> QED BY <1>1, <3>1, <3>2
    <3>3. CASE IsGet(f, payload)
      <4>1. /\ f = Frame(c, Server, Plus(iss[c], 1), Greeted, {"ack", "push"}, 8,
                         GetBytes, TRUE)
            /\ state[c] \in {"requested", "served"}
        <5>1. f.get
          BY <3>3 DEF IsGet
        <5> QED BY <2>1, <2>3, <5>1 DEF FromClient, Acknowledge, Close, Frame
      <4>2. payload = GetBytes
        <5>1. /\ f.ihl = 5 /\ f.offset \in Nat /\ f.bytes = GetBytes
              /\ f.length = 20 + 4 * f.offset + f.bytes
          BY <4>1, BytesAssumption DEF Frame
        <5> QED BY <1>3, <5>1, PayloadExact, BytesAssumption
      <4>3. f.seq = Plus(iss[c], 1) /\ f.ack = Greeted /\ f.flags = {"ack", "push"}
        BY <4>1 DEF Frame
      <4>4. ack = Plus(Plus(iss[c], 1), GetBytes)
        BY <4>2, <4>3, FlagsCount, BytesAssumption DEF NextClientSequence
      <4>5. ack = Plus(iss[c], 1 + GetBytes)
        BY <1>3, <4>4, PlusPlus, BytesAssumption
      <4>6. answer = Frame(Server, c, Greeted, Plus(iss[c], 1 + GetBytes),
                           {"ack", "push", "fin"}, 5, ResponseBytes, FALSE)
        BY <1>4, <2>1, <4>3, <4>5 DEF BuildReply
      <4>7. Known(answer)
        BY <2>1, <4>1, <4>6 DEF Known, ToClient, FromClient
      <4> HIDE DEF synack, answer, payload
      <4> QED BY <1>1, <3>1, <4>7 DEF Write
    <3> QED BY <3>2, <3>3
  <2> QED BY <2>2, <2>3
<1>5. CASE f.to # Server
  <2> HIDE DEF synack, answer, payload
  <2> QED BY <1>1, <1>5
<1> QED BY <1>4, <1>5

(* A step that only advances clients, and gives a first sequence number    *)
(* only to those that had none, leaves the frames in flight known.         *)
Advance ==
    \A c \in Clients :
        /\ state[c] # "closed" => state'[c] # "closed" /\ iss'[c] = iss[c]
        /\ state[c] \in {"requested", "served"} => state'[c] \in {"requested", "served"}

(* Such a step leaves every frame in flight known.                         *)
LEMMA StayKnown ==
    ASSUME Advance, NEW f, Known(f)
    PROVE  Known(f)'
<1>1. PICK c \in Clients : FromClient(f, c) \/ ToClient(f, c)
  BY DEF Known
<1>2. /\ state[c] # "closed" /\ state'[c] # "closed" /\ iss'[c] = iss[c]
      /\ state[c] \in {"requested", "served"} => state'[c] \in {"requested", "served"}
  BY <1>1 DEF Advance, FromClient, ToClient
<1>3. FromClient(f, c) => FromClient(f, c)'
  BY <1>2 DEF FromClient, Syn, Acknowledge, Close
<1>4. ToClient(f, c) => ToClient(f, c)'
  BY <1>2 DEF ToClient
<1> QED BY <1>1, <1>3, <1>4 DEF Known

-----------------------------------------------------------------------------
(* The steps of the clients, each with the frame it sends.                 *)

(* Connecting preserves the inductive invariant: the SYN it sends is       *)
(* known.                                                                  *)
LEMMA ConnectStep ==
    ASSUME IInv, NEW c \in Clients, Connect(c)
    PROVE  IInv'
<1>1. PICK s \in FirstSeqs : iss' = [iss EXCEPT ![c] = s] /\ net' = net \cup {Syn(c, s)}
  BY DEF Connect
<1>2. /\ state[c] = "closed" /\ state' = [state EXCEPT ![c] = "connecting"]
      /\ UNCHANGED <<server, rcv>>
  BY DEF Connect
<1>3. VarsOK'
  BY <1>1, <1>2, SeqAssumption DEF IInv, VarsOK
<1>4. Advance
  BY <1>1, <1>2 DEF Advance, IInv, VarsOK
<1>5. Known(Syn(c, s))'
  <2>1. state'[c] # "closed" /\ iss'[c] = s
    BY <1>1, <1>2 DEF IInv, VarsOK
  <2> QED BY <2>1 DEF Known, FromClient, Syn
<1>6. \A f \in net' : Known(f)'
  BY <1>1, <1>4, <1>5, StayKnown DEF IInv
<1>7. \A d \in Clients : state'[d] \in {"established", "requested"} => rcv'[d] = Greeted
  BY <1>2 DEF IInv, VarsOK
<1> QED BY <1>3, <1>6, <1>7 DEF IInv, Greeted, Plus

(* The only SYN-ACK in flight to a client carries the server's number, so  *)
(* that is where the client's window starts.                               *)
LEMMA ReceiveSynAckStep ==
    ASSUME IInv, NEW c \in Clients, ReceiveSynAck(c)
    PROVE  IInv'
<1>1. PICK f \in net : /\ f.to = c /\ f.flags = {"syn", "ack"}
                       /\ rcv' = [rcv EXCEPT ![c] = Plus(f.seq, 1)]
                       /\ net' = net \cup {Acknowledge(c, Plus(f.seq, 1))}
  BY DEF ReceiveSynAck
<1>2. /\ state[c] = "connecting" /\ state' = [state EXCEPT ![c] = "established"]
      /\ UNCHANGED <<server, iss>>
  BY DEF ReceiveSynAck
<1>3. f.seq = ServerIsn
  <2>1. PICK d \in Clients : FromClient(f, d) \/ ToClient(f, d)
    BY DEF IInv, Known
  <2>2. ToClient(f, d)
    BY <1>1, <2>1, ServerAssumption, KnownFields DEF IInv
  <2>3. f.flags # {"ack", "push", "fin"}
    <3>1. "push" \notin f.flags
      BY <1>1
    <3> QED BY <3>1
  <2> QED BY <2>2, <2>3 DEF ToClient, Frame
<1>4. Plus(f.seq, 1) = Greeted
  BY <1>3 DEF Greeted
<1>5. VarsOK'
  BY <1>1, <1>2, <1>4, GreetedType DEF IInv, VarsOK
<1>6. Advance
  BY <1>2 DEF Advance, IInv, VarsOK
<1>7. ASSUME NEW g, g = Acknowledge(c, Greeted)
      PROVE  Known(g)'
  <2>1. state'[c] # "closed" /\ iss' = iss
    BY <1>2 DEF IInv, VarsOK
  <2>2. FromClient(g, c)'
    BY <1>7, <2>1 DEF FromClient, Acknowledge, Greeted, Plus
  <2> QED BY <2>2 DEF Known
<1>8. \A g \in net' : Known(g)'
  BY <1>1, <1>4, <1>6, <1>7, StayKnown DEF IInv
<1>9. \A d \in Clients : state'[d] \in {"established", "requested"} => rcv'[d] = Greeted
  BY <1>1, <1>2, <1>4 DEF IInv, VarsOK
<1> QED BY <1>5, <1>8, <1>9 DEF IInv, Greeted, Plus

(* Sending the request preserves the inductive invariant.                  *)
LEMMA SendGetStep ==
    ASSUME IInv, NEW c \in Clients, SendGet(c)
    PROVE  IInv'
<1>1. /\ state[c] = "established" /\ state' = [state EXCEPT ![c] = "requested"]
      /\ net' = net \cup {Get(c)} /\ UNCHANGED <<server, iss, rcv>>
  BY DEF SendGet
<1>2. VarsOK' /\ Advance
  BY <1>1 DEF Advance, IInv, VarsOK
<1>3. ASSUME NEW g, g = Get(c)
      PROVE  Known(g)'
  <2>1. state'[c] = "requested" /\ iss' = iss /\ rcv[c] = Greeted
    BY <1>1 DEF IInv, VarsOK
  <2>2. FromClient(g, c)'
    BY <1>3, <2>1 DEF FromClient, Get, Greeted, Plus
  <2> QED BY <2>2 DEF Known
<1>4. \A g \in net' : Known(g)'
  BY <1>1, <1>2, <1>3, StayKnown DEF IInv
<1>5. \A d \in Clients : state'[d] \in {"established", "requested"} => rcv'[d] = Greeted
  BY <1>1 DEF IInv, VarsOK
<1> QED BY <1>2, <1>4, <1>5 DEF IInv, Greeted, Plus

(* Receiving the response preserves the inductive invariant.               *)
LEMMA ReceiveResponseStep ==
    ASSUME IInv, NEW c \in Clients, ReceiveResponse(c)
    PROVE  IInv'
<1>1. /\ state[c] = "requested" /\ state' = [state EXCEPT ![c] = "served"]
      /\ rcv' = [rcv EXCEPT ![c] = Plus(rcv[c], ResponseBytes + 1)]
      /\ net' = net \cup {Close(c, rcv'[c])} /\ UNCHANGED <<server, iss>>
  BY DEF ReceiveResponse
<1>2. rcv[c] = Greeted
  BY <1>1 DEF IInv
<1>3. Plus(Greeted, ResponseBytes + 1) \in 0 .. SeqMod - 1
  <2>1. ResponseBytes + 1 \in Nat
    BY BytesAssumption
  <2> QED BY <2>1, GreetedType, PlusType
<1>4. VarsOK' /\ Advance
  BY <1>1, <1>2, <1>3 DEF Advance, IInv, VarsOK
<1>5. ASSUME NEW g, g = Close(c, rcv'[c])
      PROVE  Known(g)'
  <2>1. /\ state'[c] = "served" /\ iss' = iss
        /\ rcv'[c] = Plus(Greeted, ResponseBytes + 1)
    BY <1>1, <1>2 DEF IInv, VarsOK
  <2>2. FromClient(g, c)'
    BY <1>5, <2>1 DEF FromClient, Close, Greeted, Plus
  <2> QED BY <2>2 DEF Known
<1>6. \A g \in net' : Known(g)'
  BY <1>1, <1>4, <1>5, StayKnown DEF IInv
<1>7. \A d \in Clients : state'[d] \in {"established", "requested"} => rcv'[d] = Greeted
  BY <1>1 DEF IInv, VarsOK
<1> QED BY <1>4, <1>6, <1>7 DEF IInv, Greeted, Plus

(* Sending a frame again preserves the inductive invariant: it was known   *)
(* before.                                                                 *)
LEMMA RetransmitStep ==
    ASSUME IInv, NEW c \in Clients, Retransmit(c)
    PROVE  IInv'
<1>1. /\ state[c] \in {"connecting", "requested"} /\ net' = net \cup {Pending(c)}
      /\ UNCHANGED <<server, state, iss, rcv>>
  BY DEF Retransmit
<1>2. VarsOK' /\ Advance
  BY <1>1 DEF Advance, IInv, VarsOK
<1>3. ASSUME NEW g, g = Pending(c)
      PROVE  Known(g)'
  <2>1. FromClient(g, c)
    <3>1. CASE state[c] = "connecting"
      BY <1>3, <3>1 DEF FromClient, Pending
    <3>2. CASE state[c] = "requested"
      <4>1. rcv[c] = Greeted
        BY <3>2 DEF IInv
      <4> QED BY <1>3, <3>2, <4>1 DEF FromClient, Pending, Get
    <3> QED BY <1>1, <3>1, <3>2
  <2> QED BY <1>2, <2>1, StayKnown DEF Known
<1>4. \A g \in net' : Known(g)'
  BY <1>1, <1>2, <1>3, StayKnown DEF IInv
<1> QED BY <1>1, <1>2, <1>4 DEF IInv, Greeted, Plus

-----------------------------------------------------------------------------
(* Every frame in flight is known at all times.                            *)
THEOREM Invariance == Spec => []IInv
<1>1. Init => IInv
  BY SeqAssumption DEF Init, IInv, VarsOK
<1>2. ASSUME IInv, [Next]_vars
      PROVE  IInv'
  <2>1. CASE Open \/ ReadFails
    <3>1. VarsOK' /\ Advance /\ net' = net /\ UNCHANGED <<state, iss, rcv>>
      BY <1>2, <2>1 DEF Open, ReadFails, IInv, VarsOK, Advance
    <3> QED BY <1>2, <3>1, StayKnown DEF IInv, Greeted, Plus
  <2>2. CASE Capture
    <3>1. PICK f \in net, pad \in Pads : Iterate(f, pad)
      BY <2>2 DEF Capture
    <3>2. UNCHANGED <<state, iss, rcv>>
      BY <3>1 DEF Iterate
    <3>3. \A g \in net' : Known(g)
      BY <1>2, <3>1, ReplyKnown DEF IInv
    <3>4. VarsOK' /\ Advance
      BY <1>2, <3>1, <3>2, ReplyKnown DEF IInv, VarsOK, Advance
    <3>5. \A g \in net' : Known(g)'
      BY <3>3, <3>4, StayKnown
    <3> QED BY <1>2, <3>2, <3>4, <3>5 DEF IInv, Greeted, Plus
  <2>3. CASE Lose
    <3>1. /\ VarsOK' /\ Advance /\ UNCHANGED <<state, iss, rcv>>
          /\ \A g \in net' : g \in net
      BY <1>2, <2>3 DEF Lose, IInv, VarsOK, Advance
    <3> QED BY <1>2, <3>1, StayKnown DEF IInv, Greeted, Plus
  <2>4. ASSUME NEW c \in Clients, Client(c)
        PROVE  IInv'
    BY <1>2, <2>4, ConnectStep, ReceiveSynAckStep, SendGetStep, ReceiveResponseStep,
       RetransmitStep DEF Client
  <2>5. CASE UNCHANGED vars
    <3>1. VarsOK' /\ Advance /\ net' = net /\ UNCHANGED <<state, iss, rcv>>
      BY <1>2, <2>5 DEF vars, IInv, VarsOK, Advance
    <3> QED BY <1>2, <3>1, StayKnown DEF IInv, Greeted, Plus
  <2> QED BY <1>2, <2>1, <2>2, <2>3, <2>4, <2>5 DEF Next
<1> QED BY <1>1, <1>2, PTL DEF Spec

(* The variables of the server, the clients and the network keep their     *)
(* types; in particular no number on the wire exceeds the modulus, though  *)
(* every one is computed by an addition.                                   *)
THEOREM TypeCorrect == Spec => []TypeOK
<1>1. IInv => TypeOK
  <2> SUFFICES ASSUME IInv, NEW f \in net
               PROVE  /\ {f.from, f.to} \subseteq Clients \cup {Server}
                      /\ f.seq \in 0 .. SeqMod - 1 /\ f.ack \in 0 .. SeqMod - 1
                      /\ f.flags \subseteq Flags
                      /\ f.offset \in 5 .. 15 /\ f.length \in Nat
    BY DEF IInv, TypeOK, VarsOK
  <2>1. PICK c \in Clients : FromClient(f, c) \/ ToClient(f, c)
    BY DEF IInv, Known
  <2>2. /\ iss[c] \in Nat /\ iss[c] \in 0 .. SeqMod - 1
        /\ Plus(iss[c], 1) \in 0 .. SeqMod - 1
        /\ Plus(iss[c], 1 + GetBytes) \in 0 .. SeqMod - 1
        /\ Plus(Greeted, ResponseBytes + 1) \in 0 .. SeqMod - 1
    <3>1. iss[c] \in Nat /\ iss[c] \in 0 .. SeqMod - 1
      BY SeqAssumption DEF IInv, VarsOK
    <3>2. 1 + GetBytes \in Nat /\ ResponseBytes + 1 \in Nat
      BY BytesAssumption
    <3> QED BY <3>1, <3>2, PlusType, GreetedType
  <2>3. CASE FromClient(f, c)
    BY <2>2, <2>3, GreetedType, BytesAssumption
       DEF FromClient, Syn, Acknowledge, Close, Frame, Flags
  <2>4. CASE ToClient(f, c)
    BY <2>2, <2>4, GreetedType, BytesAssumption DEF ToClient, Frame, Flags
  <2> QED BY <2>1, <2>3, <2>4
<1> QED BY <1>1, Invariance, PTL

(* What a reply in flight says.                                            *)
LEMMA ReplyShape ==
    ASSUME IInv, NEW f \in Replies
    PROVE  f.to \in Clients /\ ToClient(f, f.to)
<1>1. PICK c \in Clients : FromClient(f, c) \/ ToClient(f, c)
  BY DEF IInv, Known, Replies
<1> QED BY <1>1, KnownFields, ServerAssumption DEF IInv, Replies

(* Every reply the loop of spoof_http_server injects acknowledges exactly  *)
(* what its client sent, whatever the link layer padded and wherever the   *)
(* sequence numbers wrap, and a response starts where the handshake ended. *)
THEOREM RepliesFitHolds == Spec => []RepliesFit
<1>1. IInv => RepliesFit
  <2> SUFFICES ASSUME IInv, NEW f \in Replies
               PROVE  /\ "syn" \in f.flags => f.ack = Plus(iss[f.to], 1)
                      /\ "fin" \in f.flags =>
                             /\ f.seq = Plus(ServerIsn, 1)
                             /\ f.ack = Plus(iss[f.to], 1 + GetBytes)
    BY DEF RepliesFit
  <2>1. ToClient(f, f.to)
    BY ReplyShape
  <2> QED BY <2>1 DEF ToClient, Frame, Greeted
<1> QED BY <1>1, Invariance, PTL

(* The loop answers no client before its request, and none of the frames   *)
(* it injected itself.                                                     *)
THEOREM NoEarlyResponseHolds == Spec => []NoEarlyResponse
<1>1. IInv => NoEarlyResponse
  <2> SUFFICES ASSUME IInv, NEW f \in Replies
               PROVE  /\ f.to \in Clients
                      /\ "fin" \in f.flags => state[f.to] \in {"requested", "served"}
    BY DEF NoEarlyResponse
  <2>1. f.to \in Clients /\ ToClient(f, f.to)
    BY ReplyShape
  <2> QED BY <2>1 DEF ToClient, Frame
<1> QED BY <1>1, Invariance, PTL
=============================================================================
