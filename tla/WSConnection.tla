---------------------------- MODULE WSConnection ----------------------------
(***************************************************************************)
(* What the client is connected to: a TCP stream and a WebSocket server.   *)
(* None of it is in the repository; it is modelled from how client.rs uses *)
(* std::net::TcpStream and from the mock server of tests/sync_client.rs.   *)
(*                                                                         *)
(* Bytes are modelled in whole items.  An item of which only a part has    *)
(* arrived is an item that has not arrived: neither Response::parse nor    *)
(* bytes_to_frame takes anything out of an incomplete one.                 *)
(***************************************************************************)
EXTENDS WSEvents

CONSTANTS
    ServerFrames,      \* the frames the server may send; val is 0 for an empty
                       \* payload, 1 for one that is given the next number
    ServerStatuses,    \* the statuses its Close may carry, 0 for none
    MayReject,         \* whether it may refuse the handshake
    SpeaksFirst,       \* FALSE: it sends nothing before a client frame arrived
    SpeaksAfterClose,  \* whether it goes on after its own Close, against RFC 6455
    PeerFaults,        \* what may happen to the stream: "eof", "reset"
    PartialWrites,     \* whether a write may stop half way
    MaxServer          \* bound: items the server sends on a connection

ASSUME ServerAssumption ==
    /\ ServerFrames \subseteq Item
    /\ \A frame \in ServerFrames :
          frame.op \in DataOps \cup {"PING", "PONG", "UNDEFINED", "RESERVED"}
    /\ ServerStatuses \subseteq Nat
    /\ {MayReject, SpeaksFirst, SpeaksAfterClose, PartialWrites} \subseteq BOOLEAN
    /\ PeerFaults \subseteq {"eof", "reset"}
    /\ MaxServer \in Nat

VARIABLES
    stream,     \* the field stream: "None", or an open or shut down TcpStream
    wire,       \* items the client has written on the current connection
    srv_sent,   \* items the server has written on it
    rd,         \* how many of them the client has read
    peer        \* "up", or what the client's socket will say of the server

connVars == <<stream, wire, srv_sent, rd, peer>>

ConnTypeOK ==
    /\ stream \in {"None", "Connected", "Shutdown"}
    /\ wire \in Seq(Item)
    /\ srv_sent \in Seq(Item)
    /\ rd \in 0 .. Len(srv_sent)
    /\ peer \in {"up", "eof", "reset"}

ConnInit ==
    /\ stream = "None"
    /\ wire = <<>>
    /\ srv_sent = <<>>
    /\ rd = 0
    /\ peer = "up"

-----------------------------------------------------------------------------
(* The server. *)

Serving == stream = "Connected" /\ peer = "up" /\ Len(srv_sent) < MaxServer

\* It reads a request and accepts its key, or refuses.
Respond ==
    /\ Serving /\ srv_sent = <<>>
    /\ wire # <<>> /\ Head(wire).op = "REQUEST"
    /\ \E key \in {Head(wire).val} \cup (IF MayReject THEN {0} ELSE {}) :
          srv_sent' = <<Make("RESPONSE", key)>>
    /\ UNCHANGED <<stream, wire, rd, peer>>

Established ==
    /\ srv_sent # <<>> /\ Head(srv_sent).val # 0
    /\ SpeaksFirst \/ \E i \in DOMAIN wire : is_websocket_data(wire[i])
    /\ SpeaksAfterClose \/ \A i \in DOMAIN srv_sent : srv_sent[i].op # "CLOSE"

\* Messages are fragmented as RFC 6455 allows, and each one is valid UTF-8.
LegalNext(frame) ==
    LET data == DataIn(srv_sent)
        last == IF data = <<>> THEN NoData ELSE data[Len(data)]
    IN  IsData(frame) =>
            /\ (frame.op = "CONTINUATION") <=> ~last.fin
            /\ (frame.cut = "tail") <=> (~last.fin /\ last.cut = "head")
            /\ frame.cut = "head" => ~frame.fin

ServerFrame ==
    /\ Serving /\ Established
    /\ \E frame \in ServerFrames :
          /\ LegalNext(frame)
          /\ srv_sent' = Append(srv_sent, [frame EXCEPT !.val = @ * Len(srv_sent)])
    /\ UNCHANGED <<stream, wire, rd, peer>>

ServerClose ==
    /\ Serving /\ Established
    /\ \E code \in ServerStatuses : srv_sent' = Append(srv_sent, Make("CLOSE", code))
    /\ UNCHANGED <<stream, wire, rd, peer>>

\* The server closes its end, or the connection is lost.
PeerFault ==
    /\ stream = "Connected" /\ peer # "reset"
    /\ peer' \in PeerFaults \ {peer}
    /\ UNCHANGED <<stream, wire, srv_sent, rd>>

ServerNext == Respond \/ ServerFrame \/ ServerClose \/ PeerFault

-----------------------------------------------------------------------------
(* The operations of the stream that client.rs calls. *)

\* A non-blocking read returns nothing when the bytes are still on their way.
AtEof     == stream = "Shutdown" \/ (peer = "eof" /\ rd = Len(srv_sent))
Readable  == {k \in 0 .. Len(srv_sent) - rd : k = 0 => ~AtEof /\ peer # "reset"}
Arrived(k) == SubSeq(srv_sent, rd + 1, rd + k)

\* After a reset the first read reports it and the later ones report the end.
ReadError == (IF peer = "reset" THEN {"IOError", "ConnectionClose"} ELSE {})
                \cup (IF AtEof THEN {"ConnectionClose"} ELSE {})

Writable == stream = "Connected" /\ peer # "reset"

\* write_all: all the bytes, or WouldBlock before or after the first of them.
WriteAll(item) == Writable /\ wire' = Append(wire, item)
WouldBlock(item) ==
    /\ Writable
    /\ \/ wire' = wire
       \/ /\ PartialWrites
          /\ \A i \in DOMAIN wire : wire[i].op # "TORN"
          /\ wire' = Append(wire, Make("TORN", item.val))

\* shutdown(Shutdown::Both) fails on a connection that is gone.
ShutdownFails == peer = "reset"
=============================================================================
