-------------------------- MODULE WSWireProperties ---------------------------
(***************************************************************************)
(* What the bytes on the connection are promised to be, in both directions *)
(* and however the network cuts them.                                      *)
(***************************************************************************)
EXTENDS WSWire

WireTypeOK ==
    /\ SendTypeOK
    /\ case \in Cases
    /\ connection_status \in Active \cup {"START_INIT", "CLOSE"}
    /\ {recv_storage, recv_data, to_server, to_client} \subseteq Seq(Byte)
    /\ protocol \in Seq(Seq(Byte))
    /\ result \in {"Ok", "HandShake", "InvalidFrame", "DecodingFromUTF8"}
    /\ \A i \in DOMAIN events :
          /\ events[i].kind \in {"ON_CONNECT", "ON_TEXT", "SERVER_CLOSE"}
          /\ events[i].bytes \in Seq(Byte)

\* The data frames among all.
DataOf(all) ==
    FlattenSeq([i \in DOMAIN all |-> IF IsDataCode(all[i].code) THEN <<all[i]>> ELSE <<>>])

\* The head of the response ends before the response does, as it is read.
HasBody ==
    \E n \in 0 .. Len(case.response) - 1 :
        Finds(lossy(SubSeq(case.response, 1, n)), END_LINE \o END_LINE) # {}

-----------------------------------------------------------------------------
(* Towards the server *)

\* What the server makes of the masked frames is the text, from its first byte
\* on, in frames of which the first is TEXT and only the last is final
\* (client.rs 191-207, frame.rs 35-53, header.rs 67-101).
ServerGetsText ==
    LET got  == DataOf(srv_in)
        text == FlattenSeq([i \in DOMAIN got |-> got[i].data])
    IN  /\ IsPrefix(text, payload)
        /\ \A i \in DOMAIN got :
              /\ got[i].masks = 1
              /\ got[i].code = IF i = 1 THEN TEXT ELSE CONTINUATION
              /\ got[i].flag = FIN <=> i = Len(got) /\ text = payload

\* The protocols are named by tokens, as RFC 6455 has it.
Tokens ==
    \A p \in DOMAIN case.protocols : \A i \in DOMAIN case.protocols[p] :
        LET name == case.protocols[p][i]
        IN  name # <<>> /\ \A k \in DOMAIN name : name[k] \notin White \cup {COMMA}

\* The server reads the protocols that the program gave, whatever the order of
\* the headers (client.rs 155-163, request.rs 38-60).
ProtocolsOffered ==
    offered # <<>> /\ Tokens =>
        offered[1] = IF case.protocols = <<>> THEN <<>> ELSE case.protocols[1]

\* What of a payload is sent back: all of it, or the beginning of one that no
\* control frame may have.
Mirrors(data, asked) ==
    /\ Len(data) \in IF Len(asked) <= 125 THEN {Len(asked)} ELSE {124, 125}
    /\ data = SubSeq(asked, 1, Len(data))

\* A PONG carries the payload of a PING, and the answer to a Close its reason
\* behind the status that answers it (client.rs 470-474, 476-498, frame.rs
\* 104-123, 213-215).
Answers(code, data) ==
    \E j \in DOMAIN case.frames :
        LET asked  == case.frames[j].data
            status == be16(Status!ReplyStatus(bytes_to_u16(asked)))
        IN  \/ /\ code = PONG /\ case.frames[j].code = PING
               /\ Mirrors(data, asked)
            \/ /\ code = CLOSE /\ case.frames[j].code = CLOSE
               /\ Mirrors(data, status \o SubSeq(asked, 3, Len(asked)))

ControlMirrored ==
    ~HasBody =>
        \A i \in DOMAIN srv_in :
            ~IsDataCode(srv_in[i].code) => Answers(srv_in[i].code, srv_in[i].data)

-----------------------------------------------------------------------------
(* From the server *)

\* recv_storage begins where a frame begins: with the bytes in flight it is the
\* response, or the frames not yet taken, wherever reads cut them (client.rs
\* 240-250, 300-310, 415-417, frame.rs 204).
Aligned ==
    LET ahead == recv_storage \o to_client
    IN  ~HasBody /\ srv_in # <<>> =>
            \E j \in 0 .. Len(case.frames) :
                ahead = Stream(SubSeq(case.frames, j + 1, Len(case.frames)))

\* The connection opens on the acceptance of the client's key and on nothing
\* else, with the protocol the server named, however the response was cut, and
\* whatever bytes that are not text it held (client.rs 312-349, response.rs
\* 40-88).
HandshakeAgrees ==
    /\ connection_status \notin {"START_INIT", "HANDSHAKE"} =>
          case.accepts /\ protocol = case.protocol
    /\ result = "HandShake" => ~case.accepts

\* What a case says of its response is what the client would make of it if it
\* arrived at once.
CaseIsTrue ==
    LET whole == parse(case.response)
        value == header(whole, ACCEPT)
    IN  /\ case.accepts <=> /\ whole.kind = "response" /\ CodeIsChecked(whole)
                            /\ value # <<>> /\ verify_key(value[1])
        /\ case.accepts => case.protocol = header(whole, PROTOCOL)

TextsSent  == DataOf(case.frames)
WholeTexts == \A i \in DOMAIN TextsSent : TextsSent[i].flag = FIN

PayloadsOf(all) == [i \in DOMAIN all |-> all[i].data]

\* The texts that the callback got.
Heard ==
    FlattenSeq([i \in DOMAIN events |->
                   IF events[i].kind = "ON_TEXT" THEN <<events[i].bytes>> ELSE <<>>])

\* The texts heard are, byte for byte, those the server sent in single frames,
\* in order (client.rs 252-298).
HeardIsSent ==
    ~HasBody /\ WholeTexts => IsPrefix(Heard, PayloadsOf(TextsSent))

\* What RFC 6455 lets a server send, less what the client is known to stumble
\* over: extended lengths, empty control frames, PONGs, split characters, a PING
\* just before a Close.
Ordinary ==
    /\ case.accepts /\ ~HasBody /\ case.protocols # <<<<>>>>
    /\ \A i \in DOMAIN case.frames :
          LET frame == case.frames[i]
          IN  IF IsDataCode(frame.code)
              THEN frame.flag \in {FIN, NOFLAG} /\ Len(frame.data) < 126 /\ from_utf8(frame.data)
              ELSE /\ frame.code \in {PING, CLOSE} /\ frame.flag = FIN
                   /\ Len(frame.data) \in 2 .. 125
                   /\ frame.code = CLOSE =>
                         i = Len(case.frames) /\ (i > 1 => case.frames[i - 1].code # PING)

\* Ordinary traffic neither panics nor is refused, however it is cut into reads
\* (frame.rs 148-153, 187, response.rs 45).
OrdinaryIsUnderstood ==
    Ordinary => result = "Ok" /\ (pc = "panicked" => connection_status = "START_INIT")

\* The bytes of an incomplete frame never make the client panic (frame.rs 152,
\* "This is not an error, bytes could arrive later").
IncompleteWaits == pc # "panicked"

-----------------------------------------------------------------------------
(***************************************************************************)
(* Why the bytes are right: what was written and is not yet read, what the *)
(* server wrote and the client has not yet taken, and which of it belongs  *)
(* to which step of the conversation.                                      *)
(***************************************************************************)

Sent(evs) == FlattenSeq([i \in DOMAIN evs |-> BytesOf(evs[i])])

\* The events that the server has read.
Taken == Len(offered) + Len(srv_in)

\* What a server makes of a frame.
Reading(frame) ==
    [flag |-> frame.header.flag, code |-> frame.header.code, masks |-> 1,
     size |-> Len(serialize(frame)), data |-> frame.data]

\* The bytes to the server are those of the events written and not yet read, and
\* each frame that was read is the one written.
InTransit ==
    /\ Taken <= Len(written)
    /\ to_server = Sent(SubSeq(written, Taken + 1, Len(written)))
    /\ \A i \in DOMAIN srv_in : srv_in[i] = Reading(written[i + 1])

TextFrames(evs) ==
    FlattenSeq([i \in DOMAIN evs |->
                   IF is_websocket_data(evs[i]) /\ IsDataCode(evs[i].header.code)
                   THEN <<evs[i]>> ELSE <<>>])

\* The frames of the text leave in the order send gave them, none between lost,
\* until an error ends the conversation.
TextInOrder ==
    IsPrefix(TextFrames(written) \o (IF result = "Ok" THEN TextFrames(output_events) ELSE <<>>),
             frames)

\* Every control frame, waiting or written, answers one of the server's.
ControlsAnswer ==
    ~HasBody =>
        \A evs \in {written, output_events} : \A i \in DOMAIN evs :
            is_websocket_data(evs[i]) /\ ~IsDataCode(evs[i].header.code) =>
                Answers(evs[i].header.code, evs[i].data)

\* The request is the first event and the only one before the handshake is over;
\* the server speaks after it, and in frames after the first frame.
Phases ==
    /\ offered = <<>> =>
          /\ connection_status \in {"START_INIT", "HANDSHAKE"}
          /\ recv_storage = <<>> /\ to_client = <<>>
    /\ connection_status = "START_INIT" =>
          offered = <<>> /\ written = <<>> /\ output_events = <<>>
    /\ connection_status # "START_INIT" =>
          /\ pc # "send" /\ Len(frames) * as_usize(message_size) >= Len(payload)
          /\ \A i \in DOMAIN (written \o output_events) :
                is_websocket_data((written \o output_events)[i]) <=> i > 1
    /\ connection_status = "HANDSHAKE" =>
          /\ srv_in = <<>>
          /\ \/ Len(written) = 1 /\ output_events = frames
             \/ written = <<>> /\ output_events # <<>> /\ Tail(output_events) = frames
    /\ connection_status \in {"START_INIT", "HANDSHAKE"} => events = <<>> /\ recv_data = <<>>
    /\ connection_status \notin {"START_INIT", "HANDSHAKE"} => written # <<>>
    /\ connection_status = "HANDSHAKE" /\ offered # <<>> /\ result = "Ok" =>
          recv_storage \o to_client = case.response

\* The first j of the server's frames were taken, and they are what was heard.
InStepAt(j) ==
    LET before == SubSeq(case.frames, 1, j)
        after  == SubSeq(case.frames, j + 1, Len(case.frames))
    IN  /\ IF srv_in = <<>> THEN j = 0 /\ recv_storage \o to_client = <<>>
           ELSE recv_storage \o to_client = Stream(after)
        /\ WholeTexts =>
              /\ IsPrefix(Heard, PayloadsOf(DataOf(before)))
              /\ result = "Ok" => Heard = PayloadsOf(DataOf(before)) /\ recv_data = <<>>

IsOpen == connection_status \notin {"START_INIT", "HANDSHAKE"}

InStep == ~HasBody /\ IsOpen => \E j \in 0 .. Len(case.frames) : InStepAt(j)

ServerCloses == \E j \in DOMAIN case.frames : case.frames[j].code = CLOSE

\* The text is written or waits, and only a PING just taken is still to be
\* answered.
Talking(j) ==
    /\ connection_status = "OPEN"
    /\ \A i \in 1 .. j : case.frames[i].code # CLOSE
    /\ TextFrames(written) \o TextFrames(output_events) = frames
    /\ \A i \in DOMAIN output_events :
          ~IsDataCode(output_events[i].header.code) =>
              i = 1 /\ j > 0 /\ case.frames[j].code = PING

\* The answer to the Close is all that waits, or it was written and reported.
Ending(j) ==
    /\ ServerCloses /\ j = Len(case.frames)
    /\ \/ /\ connection_status = "SERVER_WANTS_TO_CLOSE"
          /\ Len(output_events) = 1 /\ output_events[1].header.code = CLOSE
       \/ /\ connection_status = "CLOSE"
          /\ LET answer == Last(written)
             IN  /\ is_websocket_data(answer) /\ answer.header.code = CLOSE
                 /\ Last(events) = Event("SERVER_CLOSE", SubSeq(answer.data, 1, 2))

\* An ordinary conversation takes its course.
Course ==
    Ordinary /\ CaseIsTrue =>
        /\ result = "Ok" /\ recv_data = <<>>
        /\ pc = "panicked" => connection_status = "START_INIT"
        /\ IsOpen => \E j \in 0 .. Len(case.frames) : InStepAt(j) /\ (Talking(j) \/ Ending(j))

\* All of it, in every state: what the bytes and the frames of both directions
\* have to do with each other (client.rs 209-431).
WireInv == Phases /\ InTransit /\ TextInOrder /\ ControlsAnswer /\ InStep /\ Course

-----------------------------------------------------------------------------
(* Both ways *)

\* Nothing is in flight, queued, or to be taken out of recv_storage.
Quiet ==
    /\ pc = "sent" /\ connection_status # "START_INIT"
    /\ to_server = <<>> /\ to_client = <<>>
    /\ connection_status = "CLOSE" \/
          (output_events = <<>> /\ Found(recv_storage).kind = "none")

\* An ordinary conversation never comes to rest before its end: every text of the
\* server is heard, and either it closed, which was answered and reported with
\* the status of the answer, or it has the whole text (client.rs 209-226, 489).
NothingIsLeft ==
    Ordinary /\ Quiet /\ payload # <<>> =>
        /\ WholeTexts => Len(Heard) = Len(TextsSent)
        /\ IF ServerCloses
           THEN /\ Last(srv_in).code = CLOSE
                /\ Last(events) = Event("SERVER_CLOSE", SubSeq(Last(srv_in).data, 1, 2))
           ELSE \E i \in DOMAIN srv_in : srv_in[i].flag = FIN /\ IsDataCode(srv_in[i].code)
=============================================================================
