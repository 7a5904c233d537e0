------------------------------- MODULE WSWire --------------------------------
(***************************************************************************)
(* The client at the level of bytes: one text is sent, the connection is   *)
(* opened, and frames come back in pieces that the network chooses.        *)
(*                                                                         *)
(* A call to event_loop is one step here: what the other side may do       *)
(* within it, blocked writes, lost connections, init and Drop are the      *)
(* subject of WSClient.  A callback is set, and the program stops at the   *)
(* first error, as those of examples/ do.                                  *)
(***************************************************************************)
EXTENDS WSSend, WSHttp

CONSTANTS
    Cases,          \* conversations: what the program and the server say
    BufferSize      \* of the buffer of read_bytes_from_socket

(***************************************************************************)
(* A case holds the text, the message size, the protocols offered (<<>>    *)
(* for None), the bytes of the server's response, whether they accept the  *)
(* client's key and which protocol they name (<<>> for None), and the      *)
(* frames with which the server answers the first frame it gets: the upper *)
(* and the lower four bits of the first byte, and the payload.  The name   *)
(* of a protocol is in one line.                                           *)
(***************************************************************************)
Case == [payload : Payloads, size : MessageSizes, protocols : Seq(Seq(Seq(Byte \ {13, 10}))),
         response : Seq(Byte), accepts : BOOLEAN, protocol : Seq(Seq(Byte)),
         frames : Seq([flag : {16 * k : k \in 0 .. 15}, code : 0 .. 15, data : Seq(Byte)])]

\* Bound: no payload is longer than TLC's integers count, 2^31 - 1.
ASSUME WireAssumption ==
    /\ Cases \subseteq Case /\ BufferSize \in Nat \ {0}
    /\ \A c \in Cases : Len(c.protocols) <= 1      \* an Option
    /\ \A text \in Payloads : Len(text) <= 2147483647
    /\ \A c \in Cases : \A i \in DOMAIN c.frames : Len(c.frames[i].data) <= 2147483647

VARIABLES
    case,               \* the conversation, fixed at the start
    connection_status, output_events, recv_storage, recv_data, protocol,
    result,             \* what the last event_loop returned
    events,             \* history: the callback's events
    written,            \* history: the events written, the request first
    to_server,          \* bytes written that the server has not read
    to_client,          \* bytes the server wrote that have not arrived
    offered,            \* <<protocols of the request>> when the server read it
    srv_in              \* history: the frames the server has read

vars == <<sendVars, case, connection_status, output_events, recv_storage, recv_data,
          protocol, result, events, written, to_server, to_client, offered, srv_in>>

Status == INSTANCE WSEvents

Active == {"HANDSHAKE", "OPEN", "CLIENT_WANTS_TO_CLOSE", "SERVER_WANTS_TO_CLOSE"}

key    == <<107>>           \* gen_key
accept == <<97>>            \* what a server makes of it
verify_key(value) == value = accept

Init ==
    /\ SendInit /\ case \in Cases /\ payload = case.payload /\ message_size = case.size
    /\ connection_status = "START_INIT" /\ result = "Ok"
    /\ output_events = <<>> /\ recv_storage = <<>> /\ recv_data = <<>>
    /\ protocol = <<>> /\ events = <<>> /\ written = <<>>
    /\ to_server = <<>> /\ to_client = <<>> /\ offered = <<>> /\ srv_in = <<>>

-----------------------------------------------------------------------------
(* The client *)

is_websocket_data(event) == "header" \in DOMAIN event

BytesOf(event) == IF is_websocket_data(event) THEN serialize(event) ELSE event.request

Headers ==
    <<<<KEY, key>>>> \o
    (IF case.protocols = <<>> THEN <<>> ELSE <<<<PROTOCOL, Joined(case.protocols[1])>>>>)

\* An empty list of protocols has no last separator to cut.
start_init ==
    /\ pc = "sent" /\ connection_status = "START_INIT"
    /\ IF case.protocols = <<<<>>>>
       THEN /\ pc' = "panicked" /\ UNCHANGED <<output_events, connection_status>>
       ELSE /\ \E headers \in {Headers, Reverse(Headers)} :
                  output_events' = <<[request |-> RequestBytes(<<47>>, headers)]>> \o frames
            /\ connection_status' = "HANDSHAKE" /\ UNCHANGED pc
    /\ UNCHANGED <<payload, message_size, data_sent, frames, case, recv_storage,
                   recv_data, protocol, result, events, written, to_server,
                   to_client, offered, srv_in>>

\* pop_output_event: what it takes, if anything, and what it leaves.
Popped_Early ==          \* faulty: frames do not wait for the handshake
    IF output_events = <<>> THEN <<>> ELSE <<Head(output_events)>>

Popped ==
    IF \/ output_events = <<>>
       \/ connection_status = "HANDSHAKE" /\ is_websocket_data(Head(output_events))
    THEN <<>> ELSE <<Head(output_events)>>

Left == SubSeq(output_events, Len(Popped) + 1, Len(output_events))

Closing_Never(status) == FALSE          \* faulty: the answer does not close

Closing(status) ==
    /\ status = "SERVER_WANTS_TO_CLOSE" /\ Popped # <<>>
    /\ is_websocket_data(Popped[1]) /\ IsControlCode(Popped[1].header.code)

Event(kind, bytes) == [kind |-> kind, bytes |-> bytes]

\* The input left status, outs and evs; the event popped before it is written.
Output(status, outs, evs) ==
    /\ output_events' = outs /\ result' = "Ok" /\ UNCHANGED pc
    /\ written' = written \o Popped
    /\ to_server' = to_server \o (IF Popped = <<>> THEN <<>> ELSE BytesOf(Popped[1]))
    /\ IF Closing(status)
       THEN /\ connection_status' = "CLOSE"
            /\ events' = Append(evs, Event("SERVER_CLOSE",
                  IF Popped[1].header.code = CLOSE THEN SubSeq(Popped[1].data, 1, 2)
                  ELSE be16(0)))
       ELSE connection_status' = status /\ events' = evs

Fails(error, outs) ==
    /\ result' = error /\ output_events' = outs
    /\ UNCHANGED <<pc, connection_status, events, written, to_server>>

Panics ==
    /\ pc' = "panicked"
    /\ UNCHANGED <<connection_status, output_events, result, events, written, to_server>>

NotReceived == UNCHANGED <<recv_data, protocol>>

CodeIsChecked(response) == response.status_code = 101

handle_recv_http_response(response) ==
    LET sec_websocket_accept == header(response, ACCEPT)
    IN  IF /\ sec_websocket_accept # <<>> /\ verify_key(sec_websocket_accept[1])
           /\ CodeIsChecked(response)
        THEN /\ protocol' = header(response, PROTOCOL) /\ UNCHANGED recv_data
             /\ Output("OPEN", Left, Append(events, Event("ON_CONNECT", response.body)))
        ELSE NotReceived /\ Fails("HandShake", Left)

Kept_Always(frame) == recv_data \o frame.data    \* faulty: the flag is ignored

Kept(frame) == IF frame.header.flag # FIN THEN recv_data \o frame.data ELSE recv_data

handle_data(frame) ==
    /\ UNCHANGED protocol
    /\ IF from_utf8(frame.data) /\ from_utf8(Kept(frame))
       THEN /\ recv_data' = <<>>
            /\ Output(connection_status, Left,
                      Append(events, Event("ON_TEXT", Kept(frame) \o frame.data)))
       ELSE recv_data' = Kept(frame) /\ Fails("DecodingFromUTF8", Left)

Reason_Whole(frame) == frame.data       \* faulty: the status is sent twice

Reason(frame) == SubSeq(frame.data, 3, Len(frame.data))

handle_control_frame(frame) ==
    /\ NotReceived
    /\ \/ /\ frame.header.code = PING
          /\ \E mask \in MaskKeys :
                Output(connection_status,
                       <<ControlFrame(FIN, PONG, <<>>, frame.data, mask)>> \o Left, events)
       \/ frame.header.code = PONG /\ Panics
       \/ /\ frame.header.code = CLOSE /\ connection_status = "OPEN"
          /\ LET code == Status!ReplyStatus(bytes_to_u16(frame.data))
             IN  \E mask \in MaskKeys :
                    Output("SERVER_WANTS_TO_CLOSE",
                           <<ControlFrame(FIN, CLOSE, be16(code), Reason(frame), mask)>>,
                           events)
       \/ /\ frame.header.code = CLOSE /\ connection_status # "OPEN"
          /\ Output(connection_status, Left, events)

handle_recv_frame(frame) ==
    \/ IsDataCode(frame.header.code) /\ handle_data(frame)
    \/ IsControlCode(frame.header.code) /\ handle_control_frame(frame)
    \/ /\ ~IsDataCode(frame.header.code) /\ ~IsControlCode(frame.header.code)
       /\ NotReceived /\ Fails("InvalidFrame", Left)

Drained_Short(storage, offset) == SubSeq(storage, offset, Len(storage))    \* faulty

Drained(storage, offset) == SubSeq(storage, offset + 1, Len(storage))

\* What read_bytes_from_socket finds in the bytes, and what becomes of it.
Found(storage) ==
    IF storage = <<>> THEN Incomplete
    ELSE IF connection_status = "HANDSHAKE" THEN parse(storage) ELSE bytes_to_frame(storage)

event_loop ==
    /\ pc = "sent" /\ connection_status \in Active /\ result = "Ok"
    /\ \E n \in 0 .. Least(BufferSize, Len(to_client)) :
          LET storage == recv_storage \o SubSeq(to_client, 1, n)
              found   == Found(storage)
          IN  /\ to_client' = SubSeq(to_client, n + 1, Len(to_client))
              /\ \/ /\ found.kind = "none" /\ recv_storage' = storage
                    /\ NotReceived /\ Output(connection_status, Left, events)
                 \/ /\ found.kind = "panic" /\ recv_storage' = storage
                    /\ NotReceived /\ Panics
                 \/ /\ found.kind = "InvalidFrame" /\ recv_storage' = storage
                    /\ NotReceived /\ Fails("InvalidFrame", output_events)
                 \/ /\ found.kind = "response" /\ recv_storage' = <<>>
                    /\ handle_recv_http_response(found)
                 \/ /\ found.kind = "frame" /\ recv_storage' = Drained(storage, found.offset)
                    /\ handle_recv_frame(found.frame)
    /\ UNCHANGED <<payload, message_size, data_sent, frames, case, offered, srv_in>>

-----------------------------------------------------------------------------
(* The server, by RFC 6455. *)

ServerReadsRequest ==
    /\ offered = <<>> /\ Finds(to_server, END_LINE \o END_LINE) # {}
    /\ LET end   == Min(Finds(to_server, END_LINE \o END_LINE))
           lines == Split(SubSeq(to_server, 1, end - 1), END_LINE)
           named == {k \in 2 .. Len(lines) : SubSeq(lines[k], 1, 1) = PROTOCOL}
       IN  /\ offered' = <<IF named = {} THEN <<>>
                           ELSE Split(ValueOf(lines[Min(named)]), <<COMMA, SP>>)>>
           /\ to_server' = SubSeq(to_server, end + 4, Len(to_server))
    /\ to_client' = case.response
    /\ UNCHANGED <<sendVars, case, connection_status, output_events, recv_storage,
                   recv_data, protocol, result, events, written, srv_in>>

\* The frame that begins a stream of bytes which holds all of it.
Unframed(bytes) ==
    LET short  == bytes[2] % 128
        masks  == bytes[2] \div 128
        i      == payload_at(short)
        len    == payload_len(bytes, short)
        start  == i + 4 * masks
        mask   == SubSeq(bytes, i + 1, start)
    IN  [flag |-> bytes[1] - (bytes[1] % 16), code |-> bytes[1] % 16, masks |-> masks,
         size |-> start + len,
         data |-> [k \in 1 .. len |-> xor(bytes[start + k], mask[1 + ((k - 1) % 4)])]]

Framed(frame) ==
    LET n == Len(frame.data)
    IN  <<frame.flag + frame.code>>
          \o (IF n <= 125 THEN <<n>> ELSE IF n <= 65535 THEN <<126>> \o be16(n)
              ELSE <<127>> \o be64(n))
          \o frame.data

Stream(all) == FlattenSeq([i \in DOMAIN all |-> Framed(all[i])])

\* The first frame it reads makes the server speak.
ServerReadsFrame ==
    /\ offered # <<>> /\ to_server # <<>>
    /\ LET frame == Unframed(to_server)
       IN  /\ srv_in' = Append(srv_in, frame)
           /\ to_server' = SubSeq(to_server, frame.size + 1, Len(to_server))
    /\ to_client' = IF srv_in = <<>> THEN to_client \o Stream(case.frames) ELSE to_client
    /\ UNCHANGED <<sendVars, case, connection_status, output_events, recv_storage,
                   recv_data, protocol, result, events, written, offered>>

-----------------------------------------------------------------------------
send ==
    /\ SendNext
    /\ UNCHANGED <<case, connection_status, output_events, recv_storage, recv_data,
                   protocol, result, events, written, to_server, to_client, offered,
                   srv_in>>

Next == send \/ start_init \/ event_loop \/ ServerReadsRequest \/ ServerReadsFrame

Spec == Init /\ [][Next]_vars
=============================================================================
