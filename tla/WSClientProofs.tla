--------------------------- MODULE WSClientProofs ---------------------------
(***************************************************************************)
(* What holds of WSClient for every value of its constants: any server,    *)
(* any callback, any bounds.                                               *)
(*                                                                         *)
(* TypeOK is inductive by itself.  StreamPresent and SilentAfterClose are  *)
(* not: they rest on StatusInv, which says in which statuses each step of  *)
(* event_loop can find itself.                                             *)
(***************************************************************************)
EXTENDS WSClient, SequenceTheorems, TLAPS

(***************************************************************************)
(* While an input is handled the status is one in which bytes are read;    *)
(* by the time of the output, the input's handler or its callback may have *)
(* closed the connection, and then the socket is shut down, or begun a new *)
(* one.  Drop stays between its Close and CLOSE as long as no callback     *)
(* calls init.                                                             *)
(***************************************************************************)
StatusInv ==
    /\ pc = "input" => connection_status \in Active
    /\ pc = "output" /\ connection_status = "CLOSE" => stream = "Shutdown"
    /\ /\ dropping /\ "init" \notin CallbackOps
       /\ pc \in {"idle", "input", "output"}
       => connection_status \in {"CLIENT_WANTS_TO_CLOSE", "CLOSE"}

IInv == TypeOK /\ StatusInv /\ StreamPresent

-----------------------------------------------------------------------------
(* Lemmas on the operators *)

LEMMA MakeType == \A op \in Ops, val \in Nat : Make(op, val) \in Item
BY DEF Make, Item

LEMMA NoDataType == NoData \in Item
BY MakeType DEF NoData, Ops

LEMMA RestType == RestOfResponse \in Item
<1>1. Make("RESPONSE", 0) \in Item
  BY MakeType DEF Ops, HttpOps
<1> QED
  BY <1>1 DEF RestOfResponse, Item

LEMMA ReplyStatusType == \A code \in Nat : ReplyStatus(code) \in Nat
BY DEF ReplyStatus, PROTOCOL_ERROR

LEMMA PrefixType ==
    ASSUME NEW item \in Item, NEW items \in Seq(Item)
    PROVE  <<item>> \o items \in Seq(Item)
BY ConcatProperties

LEMMA NumbersType ==
    ASSUME NEW items \in Seq(Item)
    PROVE  Numbers(items) \in Seq(Nat)
<1>1. DOMAIN items = 1 .. Len(items) /\ Len(items) \in Nat
  BY LenProperties
<1>2. \A i \in 1 .. Len(items) : items[i] \in Item
  BY ElementOfSeq
<1>3. \A i \in 1 .. Len(items) : items[i].val \in Nat
  BY <1>2 DEF Item
<1> QED
  BY <1>1, <1>3, IsASeq DEF Numbers

LEMMA DataFramesType ==
    ASSUME queued \in Nat, NEW n \in Nat
    PROVE  DataFrames(n) \in Seq(Item)
<1>1. \A i \in 1 .. n : [op  |-> IF i = 1 THEN "TEXT" ELSE "CONTINUATION",
                         fin |-> i = n, val |-> queued + i, cut |-> "whole"] \in Item
  BY DEF Item, Ops, DataOps
<1> QED
  BY <1>1, IsASeq DEF DataFrames

\* A callback's or a program's send leaves well-typed queues.
LEMMA SendType ==
    ASSUME NEW text \in Texts, NEW status, NEW outs \in Seq(Item), NEW next,
           queued \in Nat, send(text, status, outs, next)
    PROVE  /\ output_events' \in Seq(Item)
           /\ queued' \in Nat
           /\ pc' \in {next, "panicked", "diverged"}
<1>1. CASE \E n \in 1 .. text.len :
              /\ output_events' = outs \o DataFrames(n)
              /\ queued' = queued + n
              /\ pc' = next
  <2>1. PICK n \in 1 .. text.len : /\ output_events' = outs \o DataFrames(n)
                                   /\ queued' = queued + n
                                   /\ pc' = next
    BY <1>1
  <2>2. n \in Nat
    OBVIOUS
  <2> QED
    BY <2>1, <2>2, DataFramesType, ConcatProperties
<1>2. CASE /\ output_events' = outs /\ UNCHANGED queued
           /\ pc' \in {next, "panicked", "diverged"}
  BY <1>2
<1> QED
  BY <1>1, <1>2 DEF send

LEMMA ReinitType ==
    ASSUME inits \in Nat, callback \in BOOLEAN, reinit
    PROVE  inits' \in Nat /\ callback' \in BOOLEAN /\ connection_status' = "START_INIT"
BY ClientAssumption DEF reinit

\* A handler that reports an event leaves its own status, or START_INIT if the
\* callback called init.
LEMMA ReportType ==
    ASSUME NEW event \in WSEvent, NEW status \in ConnectionStatus,
           NEW outs \in Seq(Item), NEW next,
           queued \in Nat, inits \in Nat, callback \in BOOLEAN,
           events \in Seq(WSEvent),
           Report(event, status, outs, next)
    PROVE  /\ output_events' \in Seq(Item) /\ queued' \in Nat
           /\ events' \in Seq(WSEvent)
           /\ inits' \in Nat /\ callback' \in BOOLEAN
           /\ pc' \in {next, "panicked", "diverged"}
           /\ \/ connection_status' = status
              \/ connection_status' = "START_INIT" /\ "init" \in CallbackOps
<1>1. CASE ~callback
  BY <1>1 DEF Report
<1>2. CASE callback
  <2>1. events' \in Seq(WSEvent)
    BY <1>2, AppendProperties DEF Report
  <2>2. CASE /\ connection_status' = status /\ output_events' = outs
             /\ pc' = next /\ UNCHANGED <<queued, callback, inits>>
    BY <2>1, <2>2
  <2>3. CASE /\ \E text \in Texts : send(text, status, outs, next)
             /\ connection_status' = status /\ UNCHANGED <<callback, inits>>
    BY <2>1, <2>3, SendType
  <2>4. CASE /\ "init" \in CallbackOps /\ reinit
             /\ output_events' = outs /\ pc' = next /\ UNCHANGED queued
    BY <2>1, <2>4, ReinitType
  <2> QED
    BY <1>2, <2>2, <2>3, <2>4 DEF Report
<1> QED
  BY <1>1, <1>2

-----------------------------------------------------------------------------
(* Type correctness, one lemma per part of Next *)

USE DEF connVars, reported, received, call, fixed, InProgram, Calls, Active, ConnectionStatus, Results

LEMMA InitType == Init => TypeOK
<1> SUFFICES ASSUME Init PROVE TypeOK
  OBVIOUS
<1>1. ConnTypeOK
  BY DEF Init, ConnInit, ConnTypeOK
<1>2. <<>> \in Seq(Item) /\ <<>> \in Seq(WSEvent)
  BY EmptySeq
<1>3. DefaultMessageSize \in Nat /\ DefaultTimeout \in Nat
  BY ClientAssumption
<1>4. /\ recv_storage \in Seq(Item) /\ recv_data \in Seq(Item)
      /\ output_events \in Seq(Item) /\ events \in Seq(WSEvent)
  BY <1>2 DEF Init
<1>5. in_event \in Item /\ out_event \in Item
  BY NoDataType DEF Init
<1>6. message_size \in Nat /\ timeout \in Nat
  BY <1>3 DEF Init
<1> QED
  BY <1>1, <1>4, <1>5, <1>6 DEF Init, TypeOK

LEMMA ServerType == TypeOK /\ Server => TypeOK'
<1> SUFFICES ASSUME TypeOK, Server PROVE TypeOK'
  OBVIOUS
<1>1. ConnTypeOK'
  <2>1. CASE Respond
    <3>1. PICK key \in {Head(wire).val} \cup (IF MayReject THEN {0} ELSE {}) :
             srv_sent' = <<Make("RESPONSE", key)>>
      BY <2>1 DEF Respond
    <3>2. Head(wire) \in Item
      BY <2>1, HeadTailProperties DEF Respond, TypeOK, ConnTypeOK
    <3>3. Make("RESPONSE", key) \in Item
      BY <3>1, <3>2, MakeType DEF Item, Ops, HttpOps
    <3> QED
      BY <2>1, <3>1, <3>3 DEF Respond, TypeOK, ConnTypeOK
  <2>2. CASE ServerFrame
    <3>1. PICK frame \in ServerFrames :
             srv_sent' = Append(srv_sent, [frame EXCEPT !.val = @ * Len(srv_sent)])
      BY <2>2 DEF ServerFrame
    <3>2. frame.val * Len(srv_sent) \in Nat
      BY <3>1, ServerAssumption, LenProperties DEF Item, TypeOK, ConnTypeOK
    <3>3. [frame EXCEPT !.val = @ * Len(srv_sent)] \in Item
      BY <3>1, <3>2, ServerAssumption DEF Item
    <3> QED
      BY <2>2, <3>1, <3>3, AppendProperties DEF ServerFrame, TypeOK, ConnTypeOK
  <2>3. CASE ServerClose
    <3>1. PICK code \in ServerStatuses : srv_sent' = Append(srv_sent, Make("CLOSE", code))
      BY <2>3 DEF ServerClose
    <3>2. Make("CLOSE", code) \in Item
      BY <3>1, MakeType, ServerAssumption DEF Ops, ControlOps
    <3> QED
      BY <2>3, <3>1, <3>2, AppendProperties DEF ServerClose, TypeOK, ConnTypeOK
  <2>4. CASE PeerFault
    BY <2>4, ServerAssumption DEF PeerFault, TypeOK, ConnTypeOK
  <2> QED
    BY <2>1, <2>2, <2>3, <2>4 DEF Server, ServerNext
<1> QED
  BY <1>1 DEF Server, TypeOK

LEMMA ProgramType == TypeOK /\ Program => TypeOK'
<1> SUFFICES ASSUME TypeOK, Program PROVE TypeOK'
  OBVIOUS
<1> USE DEF TypeOK, ConnTypeOK
<1>1. CASE init
  BY <1>1, ReinitType DEF init
<1>2. CASE set_message_size
  BY <1>2, ClientAssumption DEF set_message_size
<1>3. CASE set_timeout
  BY <1>3, ClientAssumption DEF set_timeout
<1>4. CASE Send
  <2>1. PICK text \in Texts : send(text, connection_status, output_events, "idle")
    BY <1>4 DEF Send
  <2>2. /\ output_events' \in Seq(Item)
        /\ queued' \in Nat
        /\ pc' \in {"idle", "panicked", "diverged"}
    BY <2>1, SendType
  <2> QED
    BY <1>4, <2>2 DEF Send
<1>5. CASE drop_now
  BY <1>5 DEF drop_now
<1>6. CASE drop
  <2>1. Make("CLOSE", 1000) \in Item
    BY MakeType DEF Ops, ControlOps
  <2>2. <<Make("CLOSE", 1000)>> \in Seq(Item)
    BY <2>1
  <2> QED
    BY <1>6, <2>2 DEF drop, FinalQueue
<1> QED
  BY <1>1, <1>2, <1>3, <1>4, <1>5, <1>6 DEF Program

LEMMA DropType == TypeOK /\ (drop_ends \/ Tick) => TypeOK'
<1> USE DEF TypeOK, ConnTypeOK
<1>1. TypeOK /\ drop_ends => TypeOK'
  BY DEF drop_ends
<1>2. TypeOK /\ Tick => TypeOK'
  BY DEF Tick
<1> QED
  BY <1>1, <1>2

LEMMA StartType == TypeOK /\ (event_loop_idle \/ start_init) => TypeOK'
<1> USE DEF TypeOK, ConnTypeOK
<1>1. TypeOK /\ event_loop_idle => TypeOK'
  BY DEF event_loop_idle
<1>2. ASSUME TypeOK, start_init PROVE TypeOK'
  <2>1. Make("REQUEST", websocket_key + 1) \in Item
    <3>1. websocket_key + 1 \in Nat
      BY <1>2
    <3> QED
      BY <3>1, MakeType DEF Ops, HttpOps
  <2>2. <<Make("REQUEST", websocket_key + 1)>> \o output_events \in Seq(Item)
    BY <1>2, <2>1, PrefixType
  <2>3. CASE Unreachable
    BY <1>2, <2>3 DEF start_init, Unreachable
  <2>4. CASE StaysBlocking
    BY <1>2, <2>2, <2>4 DEF start_init, StaysBlocking
  <2>5. CASE Connects
    <3>1. /\ wire' \in Seq(Item) /\ srv_sent' \in Seq(Item)
          /\ rd' \in 0 .. Len(srv_sent') /\ events' \in Seq(WSEvent)
      BY <2>5, EmptySeq DEF Connects
    <3> QED
      BY <1>2, <2>2, <2>5, <3>1 DEF start_init, Connects
  <2> QED
    BY <1>2, <2>3, <2>4, <2>5 DEF start_init
<1> QED
  BY <1>1, <1>2

\* Taking an event out of a storage leaves the call where the event sends it.
LEMMA TakeType ==
    ASSUME TypeOK, pc = "idle",
           NEW event \in Item, NEW rest \in Seq(Item), Take(event, rest)
    PROVE  /\ in_event' \in Item /\ out_event' \in Item
           /\ recv_storage' \in Seq(Item) /\ output_events' \in Seq(Item)
           /\ result' \in Results
           /\ pc' \in {"idle", "input", "output"}
           /\ pc' = "idle" => in_event' = NoData /\ out_event' = NoData
           /\ pc' = "output" => in_event' = NoData /\ out_event' # NoData
           /\ pc' = "input" => in_event' # NoData
<1>1. out_event' \in Item /\ output_events' \in Seq(Item)
  <2>1. CASE output_events = <<>> \/ Held(Head(output_events))
    BY <2>1, NoDataType DEF Take, pop_output_event, TypeOK
  <2>2. CASE ~(output_events = <<>> \/ Held(Head(output_events)))
    BY <2>2, HeadTailProperties DEF Take, pop_output_event, TypeOK
  <2> QED
    BY <2>1, <2>2
<1>2. /\ in_event' = event /\ recv_storage' = rest
      /\ IF event # NoData THEN pc' = "input" /\ result' = result
         ELSE IF out_event' # NoData THEN pc' = "output" /\ result' = result
         ELSE pc' = "idle" /\ result' = "Ok"
  BY DEF Take
<1>3. result \in Results
  BY DEF TypeOK
<1> QED
  BY <1>1, <1>2, <1>3

LEMMA ReceivedType ==
    ASSUME TypeOK, NEW k \in Readable
    PROVE  /\ rd + k \in 0 .. Len(srv_sent)
           /\ recv_storage \o Arrived(k) \in Seq(Item)
<1>1. /\ rd \in 0 .. Len(srv_sent) /\ Len(srv_sent) \in Nat
      /\ k \in 0 .. Len(srv_sent) - rd
      /\ srv_sent \in Seq(Item) /\ recv_storage \in Seq(Item)
  BY LenProperties DEF Readable, TypeOK, ConnTypeOK
<1>2. Arrived(k) \in Seq(Item)
  <2>1. \A i \in rd + 1 .. rd + k : srv_sent[i] \in Item
    BY <1>1, ElementOfSeq
  <2> QED
    BY <1>1, <2>1, SubSeqProperties DEF Arrived
<1> QED
  BY <1>1, <1>2, ConcatProperties

LEMMA ReadType == TypeOK /\ (read_bytes_from_socket \/ read_fails) => TypeOK'
<1>1. ASSUME TypeOK, read_fails PROVE TypeOK'
  BY <1>1 DEF read_fails, ReadError, TypeOK, ConnTypeOK
<1>2. ASSUME TypeOK, read_bytes_from_socket PROVE TypeOK'
  <2>1. PICK k \in Readable :
          /\ rd' = rd + k
          /\ IF connection_status = "HANDSHAKE"
             THEN handle_recv_bytes_http_response(recv_storage \o Arrived(k))
             ELSE handle_recv_bytes_frame(recv_storage \o Arrived(k))
    BY <1>2 DEF read_bytes_from_socket
  <2> DEFINE storage == recv_storage \o Arrived(k)
  <2>2. rd' \in 0 .. Len(srv_sent) /\ storage \in Seq(Item)
    BY <1>2, <2>1, ReceivedType
  <2>3. /\ pc = "idle"
        /\ UNCHANGED <<stream, wire, srv_sent, peer, connection_status, recv_data, websocket_key, queued, events, message_size, timeout, callback, inits, dropping, elapsed>>
    BY <1>2 DEF read_bytes_from_socket
  <2>4. CASE \E event \in Item, rest \in Seq(Item) : Take(event, rest)
    <3>1. /\ in_event' \in Item /\ out_event' \in Item
          /\ recv_storage' \in Seq(Item) /\ output_events' \in Seq(Item)
          /\ result' \in Results
          /\ pc' \in {"idle", "input", "output"}
          /\ pc' = "idle" => in_event' = NoData /\ out_event' = NoData
          /\ pc' = "output" => in_event' = NoData /\ out_event' # NoData
          /\ pc' = "input" => in_event' # NoData
      BY <1>2, <2>3, <2>4, TakeType
    <3> QED
      BY <1>2, <2>2, <2>3, <3>1 DEF TypeOK, ConnTypeOK
  <2>5. CASE handle_recv_bytes_http_response(storage)
    <3>1. CASE Take(NoData, storage)
      BY <2>2, <2>4, <3>1, NoDataType
    <3>2. CASE Panics(storage)
      BY <1>2, <2>2, <2>3, <3>2 DEF Panics, TypeOK, ConnTypeOK
    <3>3. CASE \E i \in Responses(storage) : Take(storage[i], <<>>)
      <4>1. PICK i \in Responses(storage) : Take(storage[i], <<>>)
        BY <3>3
      <4>2. storage[i] \in Item /\ <<>> \in Seq(Item)
        BY <2>2, <4>1, ElementOfSeq, LenProperties, EmptySeq DEF Responses
      <4> QED
        BY <2>4, <4>1, <4>2
    <3> QED
      BY <2>5, <3>1, <3>2, <3>3 DEF handle_recv_bytes_http_response
  <2>6. CASE handle_recv_bytes_frame(storage)
    <3>1. storage # <<>> => Head(storage) \in Item /\ Tail(storage) \in Seq(Item)
      BY <2>2, HeadTailProperties
    <3>2. ResponseAsFrame \in Item
      BY MakeType DEF ResponseAsFrame, Ops, ControlOps
    <3>3. storage # <<>> => <<RestOfResponse>> \o Tail(storage) \in Seq(Item)
      BY <3>1, RestType, PrefixType
    <3>4. CASE /\ recv_storage' = storage /\ result' = "InvalidFrame"
               /\ UNCHANGED <<pc, in_event, out_event, output_events>>
      BY <1>2, <2>2, <2>3, <3>4 DEF TypeOK, ConnTypeOK
    <3>5. CASE Panics(storage)
      BY <1>2, <2>2, <2>3, <3>5 DEF Panics, TypeOK, ConnTypeOK
    <3>6. CASE Take(NoData, storage)
      BY <2>2, <2>4, <3>6, NoDataType
    <3>7. CASE storage # <<>> /\ Take(ResponseAsFrame, <<RestOfResponse>> \o Tail(storage))
      BY <2>4, <3>2, <3>7, <3>3
    <3>8. CASE storage # <<>> /\ Take(Head(storage), Tail(storage))
      BY <2>4, <3>1, <3>8
    <3> QED
      BY <2>6, <3>4, <3>5, <3>6, <3>7, <3>8 DEF handle_recv_bytes_frame
  <2> QED
    BY <2>1, <2>5, <2>6
<1> QED
  BY <1>1, <1>2

LEMMA KeptType == TypeOK => Kept \in Seq(Item) /\ Append(Kept, in_event) \in Seq(Item)
BY AppendProperties DEF TypeOK, Kept

LEMMA EventTypes ==
    /\ ON_CONNECT \in WSEvent
    /\ \A pieces \in Seq(Item) : ON_TEXT(pieces) \in WSEvent
    /\ \A code \in Nat : ON_CLOSE("CLIENT_CLOSE", code) \in WSEvent
    /\ \A code \in Nat : ON_CLOSE("SERVER_CLOSE", code) \in WSEvent
<1>1. ON_CONNECT \in WSEvent
  BY EmptySeq DEF ON_CONNECT, WSEvent
<1>2. \A pieces \in Seq(Item) : ON_TEXT(pieces) \in WSEvent
  BY NumbersType DEF ON_TEXT, WSEvent
<1>3. \A code \in Nat : <<code>> \in Seq(Nat)
  OBVIOUS
<1> QED
  BY <1>1, <1>2, <1>3 DEF ON_CLOSE, WSEvent

\* Where a handled input leaves the locals, whatever its handler did.
LEMMA LocalsAfterInput ==
    ASSUME TypeOK, pc = "input", Handled, pc' \in {AfterInput, "panicked", "diverged"}
    PROVE  /\ in_event' \in Item /\ out_event' \in Item /\ result' \in Results
           /\ pc' \in {"idle", "output", "panicked", "diverged"}
           /\ pc' = "idle" => in_event' = NoData /\ out_event' = NoData
           /\ pc' = "output" => in_event' = NoData /\ out_event' # NoData
BY NoDataType DEF TypeOK, Handled, AfterInput

LEMMA LocalsAfterFailure ==
    ASSUME NEW error \in Results, Fails(error)
    PROVE  /\ in_event' = NoData /\ out_event' = NoData /\ result' \in Results
           /\ in_event' \in Item /\ out_event' \in Item /\ pc' = "idle"
BY NoDataType DEF Fails

LEMMA TextType == TypeOK /\ handle_recv_frame => TypeOK'
<1> SUFFICES ASSUME TypeOK, handle_recv_frame PROVE TypeOK'
  OBVIOUS
<1>1. CASE /\ recv_data' = Kept /\ pc' = AfterInput /\ Handled
           /\ UNCHANGED <<connection_status, output_events, queued, events, callback, inits>>
  BY <1>1, KeptType, LocalsAfterInput DEF handle_recv_frame, TypeOK, ConnTypeOK
<1>2. CASE /\ recv_data' = Kept /\ Fails("DecodingFromUTF8")
           /\ UNCHANGED <<connection_status, output_events, queued, events, callback, inits>>
  <2>1. "DecodingFromUTF8" \in Results
    OBVIOUS
  <2> QED
    BY <1>2, <2>1, KeptType, LocalsAfterFailure DEF handle_recv_frame, TypeOK, ConnTypeOK
<1>3. CASE /\ recv_data' = <<>> /\ Handled
           /\ Report(ON_TEXT(Append(Kept, in_event)), connection_status,
                     output_events, AfterInput)
  <2>1. ON_TEXT(Append(Kept, in_event)) \in WSEvent
    BY KeptType, EventTypes
  <2>2. /\ output_events' \in Seq(Item) /\ queued' \in Nat
        /\ events' \in Seq(WSEvent)
        /\ inits' \in Nat /\ callback' \in BOOLEAN
        /\ pc' \in {AfterInput, "panicked", "diverged"}
        /\ connection_status' \in ConnectionStatus
    BY <1>3, <2>1, ReportType DEF TypeOK
  <2>3. recv_data' \in Seq(Item)
    BY <1>3, EmptySeq
  <2> QED
    BY <1>3, <2>2, <2>3, LocalsAfterInput DEF handle_recv_frame, TypeOK, ConnTypeOK
<1> QED
  BY <1>1, <1>2, <1>3 DEF handle_recv_frame

LEMMA ResponseType == TypeOK /\ handle_recv_http_response => TypeOK'
<1> SUFFICES ASSUME TypeOK, handle_recv_http_response PROVE TypeOK'
  OBVIOUS
<1>1. CASE /\ Fails("HandShake")
           /\ UNCHANGED <<connection_status, output_events, queued, events, callback, inits>>
  <2>1. "HandShake" \in Results
    OBVIOUS
  <2> QED
    BY <1>1, <2>1, LocalsAfterFailure DEF handle_recv_http_response, TypeOK, ConnTypeOK
<1>2. CASE Handled /\ Report(ON_CONNECT, "OPEN", output_events, AfterInput)
  <2>1. /\ output_events' \in Seq(Item) /\ queued' \in Nat
        /\ events' \in Seq(WSEvent)
        /\ inits' \in Nat /\ callback' \in BOOLEAN
        /\ pc' \in {AfterInput, "panicked", "diverged"}
        /\ connection_status' \in ConnectionStatus
    BY <1>2, EventTypes, ReportType DEF TypeOK
  <2> QED
    BY <1>2, <2>1, LocalsAfterInput DEF handle_recv_http_response, TypeOK, ConnTypeOK
<1> QED
  BY <1>1, <1>2 DEF handle_recv_http_response

LEMMA ControlType ==
    TypeOK /\ (recv_ping \/ recv_pong \/ recv_undefined
                 \/ recv_close_from_server \/ recv_close_ignored) => TypeOK'
<1> SUFFICES ASSUME TypeOK PROVE
      recv_ping \/ recv_pong \/ recv_undefined
        \/ recv_close_from_server \/ recv_close_ignored => TypeOK'
  OBVIOUS
<1>1. in_event.val \in Nat
  BY DEF TypeOK, Item
<1>2. ASSUME recv_ping PROVE TypeOK'
  <2>1. Pong(in_event) \in Item
    BY <1>1, MakeType DEF Pong, Ops, ControlOps
  <2>2. output_events' \in Seq(Item)
    BY <1>2, <2>1, PrefixType DEF recv_ping, TypeOK
  <2> QED
    BY <1>2, <2>2, LocalsAfterInput DEF recv_ping, TypeOK, ConnTypeOK
<1>3. ASSUME recv_pong PROVE TypeOK'
  BY <1>3 DEF recv_pong, TypeOK, ConnTypeOK
<1>4. ASSUME recv_undefined PROVE TypeOK'
  <2>1. "InvalidFrame" \in Results
    OBVIOUS
  <2> QED
    BY <1>4, <2>1, LocalsAfterFailure DEF recv_undefined, TypeOK, ConnTypeOK
<1>5. ASSUME recv_close_from_server PROVE TypeOK'
  <2>1. Make("CLOSE", ReplyStatus(in_event.val)) \in Item
    BY <1>1, ReplyStatusType, MakeType DEF Ops, ControlOps
  <2>2. output_events' \in Seq(Item)
    BY <1>5, <2>1 DEF recv_close_from_server, Answer
  <2> QED
    BY <1>5, <2>2, LocalsAfterInput DEF recv_close_from_server, TypeOK, ConnTypeOK
<1>6. ASSUME recv_close_ignored PROVE TypeOK'
  BY <1>6, LocalsAfterInput DEF recv_close_ignored, TypeOK, ConnTypeOK
<1> QED
  BY <1>2, <1>3, <1>4, <1>5, <1>6

LEMMA AnswerType == TypeOK /\ recv_close_answer => TypeOK'
<1> SUFFICES ASSUME TypeOK, recv_close_answer PROVE TypeOK'
  OBVIOUS
<1> USE DEF ShutDown
<1>1. CASE ShutdownFails
  <2>1. "IOError" \in Results
    OBVIOUS
  <2> QED
    BY <1>1, <2>1, LocalsAfterFailure DEF recv_close_answer, TypeOK, ConnTypeOK
<1>2. CASE ~ShutdownFails
  <2>1. ON_CLOSE("CLIENT_CLOSE", in_event.val) \in WSEvent
    BY EventTypes DEF TypeOK, Item
  <2>2. /\ output_events' \in Seq(Item) /\ queued' \in Nat
        /\ events' \in Seq(WSEvent)
        /\ inits' \in Nat /\ callback' \in BOOLEAN
        /\ pc' \in {AfterInput, "panicked", "diverged"}
        /\ connection_status' \in ConnectionStatus
    BY <1>2, <2>1, ReportType DEF recv_close_answer, TypeOK
  <2> QED
    BY <1>2, <2>2, LocalsAfterInput DEF recv_close_answer, TypeOK, ConnTypeOK
<1> QED
  BY <1>1, <1>2

LEMMA OutputType == TypeOK /\ handle_output => TypeOK'
<1> SUFFICES ASSUME TypeOK PROVE handle_output => TypeOK'
  OBVIOUS
<1>1. WriteAll(out_event) => wire' \in Seq(Item)
  BY AppendProperties DEF WriteAll, TypeOK, ConnTypeOK
<1>2. ASSUME write_sent PROVE TypeOK'
  BY <1>1, <1>2, NoDataType DEF write_sent, TypeOK, ConnTypeOK
<1>3. ASSUME write_sent_closing PROVE TypeOK'
  <2> DEFINE code == IF out_event.op = "CLOSE" THEN out_event.val ELSE 0
  <2>1. ON_CLOSE("SERVER_CLOSE", code) \in WSEvent
    BY EventTypes DEF TypeOK, Item
  <2>2. Report(ON_CLOSE("SERVER_CLOSE", code), "CLOSE", output_events, "idle")
    BY <1>3 DEF write_sent_closing
  <2>3. /\ output_events' \in Seq(Item) /\ queued' \in Nat
        /\ events' \in Seq(WSEvent)
        /\ inits' \in Nat /\ callback' \in BOOLEAN
        /\ pc' \in {"idle", "panicked", "diverged"}
        /\ connection_status' \in ConnectionStatus
    BY <2>1, <2>2, ReportType DEF TypeOK
  <2> QED
    BY <1>1, <1>3, <2>3, NoDataType DEF write_sent_closing, TypeOK, ConnTypeOK
<1>4. ASSUME write_sent_shutdown_fails PROVE TypeOK'
  BY <1>1, <1>4, NoDataType DEF write_sent_shutdown_fails, TypeOK, ConnTypeOK
<1>5. ASSUME write_blocks PROVE TypeOK'
  <2>1. Make("TORN", out_event.val) \in Item
    BY MakeType DEF TypeOK, Item, Ops
  <2>2. wire' \in Seq(Item)
    <3>1. wire \in Seq(Item)
      BY DEF TypeOK, ConnTypeOK
    <3>2. wire' = wire \/ wire' = Append(wire, Make("TORN", out_event.val))
      BY <1>5 DEF write_blocks, WouldBlock
    <3> QED
      BY <2>1, <3>1, <3>2, AppendProperties
  <2>3. output_events' \in Seq(Item)
    BY <1>5, PrefixType DEF write_blocks, Requeue, TypeOK
  <2> QED
    BY <1>5, <2>2, <2>3, NoDataType DEF write_blocks, TypeOK, ConnTypeOK
<1>6. ASSUME write_fails PROVE TypeOK'
  BY <1>6, NoDataType DEF write_fails, TypeOK, ConnTypeOK
<1> QED
  BY <1>2, <1>3, <1>4, <1>5, <1>6 DEF handle_output

LEMMA NextType == TypeOK /\ [Next]_vars => TypeOK'
<1>1. TypeOK /\ UNCHANGED vars => TypeOK'
  BY DEF TypeOK, ConnTypeOK, vars
<1>2. TypeOK /\ event_loop => TypeOK'
  BY StartType, ReadType, TextType, ResponseType, ControlType, AnswerType, OutputType
     DEF event_loop, handle_input
<1> QED
  BY <1>1, <1>2, ProgramType, DropType, ServerType DEF Next

\* Every state has the type invariant (all of client.rs).
THEOREM TypeCorrect == Spec => []TypeOK
<1> QED
  BY InitType, NextType, PTL DEF Spec

-----------------------------------------------------------------------------
(* The statuses in which a step can find the client, and the stream *)

\* What the first step of event_loop leaves, whichever event it takes.
LEMMA ReadStatus ==
    ASSUME read_bytes_from_socket
    PROVE  /\ pc = "idle" /\ connection_status \in Active
           /\ pc' \in {"idle", "input", "output", "panicked"}
           /\ UNCHANGED <<stream, connection_status, dropping>>
<1>1. PICK k \in Readable :
        IF connection_status = "HANDSHAKE"
        THEN handle_recv_bytes_http_response(recv_storage \o Arrived(k))
        ELSE handle_recv_bytes_frame(recv_storage \o Arrived(k))
  BY DEF read_bytes_from_socket
<1>2. pc = "idle" /\ connection_status \in Active
  BY DEF read_bytes_from_socket
<1>3. \A event, rest : Take(event, rest) => pc' \in {"idle", "input", "output"}
  BY DEF Take
<1>4. pc' \in {"idle", "input", "output", "panicked"}
  BY <1>1, <1>2, <1>3 DEF handle_recv_bytes_http_response, handle_recv_bytes_frame, Panics
<1> QED
  BY <1>2, <1>4 DEF read_bytes_from_socket

\* A callback leaves the status of the handler, or START_INIT.
LEMMA ReportStatus ==
    ASSUME TypeOK, NEW event \in WSEvent, NEW status \in ConnectionStatus, NEW next,
           Report(event, status, output_events, next)
    PROVE  /\ pc' \in {next, "panicked", "diverged"}
           /\ \/ connection_status' = status
              \/ connection_status' = "START_INIT" /\ "init" \in CallbackOps
BY ReportType DEF TypeOK

LEMMA InputStatus ==
    ASSUME IInv, handle_input
    PROVE  /\ pc = "input"
           /\ pc' \in {"idle", "output", "panicked", "diverged"}
           /\ stream' # "None"
           /\ connection_status' = "CLOSE" => stream' = "Shutdown"
           /\ UNCHANGED dropping
           /\ dropping /\ "init" \notin CallbackOps =>
                connection_status' \in {"CLIENT_WANTS_TO_CLOSE", "CLOSE"}
<1> USE DEF IInv, StatusInv, StreamPresent, AfterInput
<1>1. CASE handle_recv_frame
  <2>1. ON_TEXT(Append(Kept, in_event)) \in WSEvent
    BY KeptType, EventTypes
  <2>2. CASE Report(ON_TEXT(Append(Kept, in_event)), connection_status,
                    output_events, AfterInput)
    <3>1. connection_status \in ConnectionStatus
      BY DEF TypeOK
    <3>2. /\ pc' \in {AfterInput, "panicked", "diverged"}
          /\ \/ connection_status' = connection_status
             \/ connection_status' = "START_INIT" /\ "init" \in CallbackOps
      BY <2>1, <2>2, <3>1, ReportStatus
    <3> QED
      BY <1>1, <3>2 DEF handle_recv_frame
  <2>3. CASE connection_status' = connection_status /\ pc' \in {AfterInput, "idle"}
    BY <1>1, <2>3 DEF handle_recv_frame
  <2> QED
    BY <1>1, <2>2, <2>3 DEF handle_recv_frame, Fails
<1>2. CASE handle_recv_http_response
  <2>1. CASE Report(ON_CONNECT, "OPEN", output_events, AfterInput)
    <3>1. /\ pc' \in {AfterInput, "panicked", "diverged"}
          /\ \/ connection_status' = "OPEN"
             \/ connection_status' = "START_INIT" /\ "init" \in CallbackOps
      BY <2>1, EventTypes, ReportStatus
    <3> QED
      BY <1>2, <3>1 DEF handle_recv_http_response
  <2>2. CASE connection_status' = connection_status /\ pc' = "idle"
    BY <1>2, <2>2 DEF handle_recv_http_response
  <2> QED
    BY <1>2, <2>1, <2>2 DEF handle_recv_http_response, Fails
<1>3. CASE recv_ping \/ recv_pong \/ recv_undefined \/ recv_close_from_server
             \/ recv_close_ignored
  BY <1>3 DEF recv_ping, recv_pong, recv_undefined, recv_close_from_server,
              recv_close_ignored, Fails
<1>4. CASE recv_close_answer
  <2>1. ON_CLOSE("CLIENT_CLOSE", in_event.val) \in WSEvent
    BY EventTypes DEF TypeOK, Item
  <2>2. CASE Report(ON_CLOSE("CLIENT_CLOSE", in_event.val), "CLOSE",
                    output_events, AfterInput)
    <3>1. /\ pc' \in {AfterInput, "panicked", "diverged"}
          /\ \/ connection_status' = "CLOSE"
             \/ connection_status' = "START_INIT" /\ "init" \in CallbackOps
      BY <2>1, <2>2, ReportStatus
    <3> QED
      BY <1>4, <3>1 DEF recv_close_answer, ShutDown
  <2>3. CASE connection_status' = "CLOSE" /\ pc' = "idle"
    BY <1>4, <2>3 DEF recv_close_answer, ShutDown
  <2> QED
    BY <1>4, <2>2, <2>3 DEF recv_close_answer, Fails
<1> QED
  BY <1>1, <1>2, <1>3, <1>4 DEF handle_input

LEMMA OutputStatus ==
    ASSUME IInv, handle_output
    PROVE  /\ pc = "output"
           /\ pc' \in {"idle", "panicked", "diverged"}
           /\ \/ UNCHANGED <<stream, connection_status>>
              \/ stream' # "None" /\ connection_status' = "CLOSE"
                   /\ connection_status = "SERVER_WANTS_TO_CLOSE"
              \/ /\ connection_status = "SERVER_WANTS_TO_CLOSE"
                 /\ connection_status' \in {"CLOSE", "START_INIT"}
           /\ UNCHANGED dropping
<1> USE DEF IInv
<1>1. CASE write_sent_closing
  <2> DEFINE code == IF out_event.op = "CLOSE" THEN out_event.val ELSE 0
  <2>1. ON_CLOSE("SERVER_CLOSE", code) \in WSEvent
    BY EventTypes DEF TypeOK, Item
  <2>2. Report(ON_CLOSE("SERVER_CLOSE", code), "CLOSE", output_events, "idle")
    BY <1>1 DEF write_sent_closing
  <2>3. /\ pc' \in {"idle", "panicked", "diverged"}
        /\ connection_status' \in {"CLOSE", "START_INIT"}
    BY <2>1, <2>2, ReportStatus
  <2> QED
    BY <1>1, <2>3 DEF write_sent_closing, Completes
<1>2. CASE write_sent_shutdown_fails
  BY <1>2 DEF write_sent_shutdown_fails, Completes
<1>3. CASE write_sent \/ write_blocks \/ write_fails
  BY <1>3 DEF write_sent, write_blocks, write_fails
<1> QED
  BY <1>1, <1>2, <1>3 DEF handle_output

LEMMA ProgramStatus == IInv /\ (Program \/ drop_ends \/ Tick) => (StatusInv /\ StreamPresent)'
<1> SUFFICES ASSUME IInv PROVE
      Program \/ drop_ends \/ Tick => (StatusInv /\ StreamPresent)'
  OBVIOUS
<1> USE DEF IInv, StatusInv, StreamPresent
<1>1. ASSUME init PROVE (StatusInv /\ StreamPresent)'
  BY <1>1 DEF init, reinit
<1>2. ASSUME set_message_size \/ set_timeout \/ Tick PROVE (StatusInv /\ StreamPresent)'
  BY <1>2 DEF set_message_size, set_timeout, Tick
<1>3. ASSUME Send PROVE (StatusInv /\ StreamPresent)'
  <2>1. PICK text \in Texts : send(text, connection_status, output_events, "idle")
    BY <1>3 DEF Send
  <2>2. pc' \in {"idle", "panicked", "diverged"}
    BY <2>1, SendType DEF TypeOK
  <2> QED
    BY <1>3, <2>2 DEF Send
<1>4. ASSUME drop_now \/ drop \/ drop_ends PROVE (StatusInv /\ StreamPresent)'
  BY <1>4 DEF drop_now, drop, drop_ends
<1> QED
  BY <1>1, <1>2, <1>3, <1>4 DEF Program

LEMMA NextStatus == IInv /\ [Next]_vars => IInv'
<1> SUFFICES ASSUME IInv, [Next]_vars PROVE (StatusInv /\ StreamPresent)'
  BY NextType DEF IInv
<1> USE DEF IInv, StatusInv, StreamPresent
<1>1. CASE Program \/ drop_ends \/ Tick
  BY <1>1, ProgramStatus
<1>2. CASE Server
  <2>1. UNCHANGED <<stream, pc, connection_status, dropping>>
    BY <1>2 DEF Server, ServerNext, Respond, ServerFrame, ServerClose, PeerFault
  <2> QED
    BY <2>1
<1>3. CASE event_loop_idle \/ read_fails
  BY <1>3 DEF event_loop_idle, read_fails
<1>4. CASE start_init
  BY <1>4 DEF start_init, Unreachable, StaysBlocking, Connects
<1>5. CASE read_bytes_from_socket
  BY <1>5, ReadStatus
<1>6. CASE handle_input
  BY <1>6, InputStatus
<1>7. CASE handle_output
  BY <1>7, OutputStatus
<1>8. CASE UNCHANGED vars
  BY <1>8 DEF vars
<1> QED
  BY <1>1, <1>2, <1>3, <1>4, <1>5, <1>6, <1>7, <1>8 DEF Next, event_loop

LEMMA InitStatus == Init => IInv
BY InitType DEF Init, IInv, StatusInv, StreamPresent

LEMMA Invariance == Spec => []IInv
BY InitStatus, NextStatus, PTL DEF Spec

\* Wherever event_loop, and Drop under callbacks that do not call init, unwrap
\* the stream, it is there (client.rs 364, 412, 453, 509, 563).
THEOREM StreamSafe == Spec => []StreamPresent
<1>1. IInv => StreamPresent
  BY DEF IInv
<1> QED
  BY <1>1, Invariance, PTL

\* In no step that begins with the client closed is anything written: an
\* output popped before the Close was handled finds the socket shut down
\* (client.rs 209-226, 504-509).
THEOREM ClosedIsSilent == Spec => SilentAfterClose
<1>1. ASSUME IInv, [Next]_vars, connection_status = "CLOSE"
      PROVE  UNCHANGED wire
  <2>1. CASE Program \/ drop_ends \/ Tick
    BY <2>1 DEF Program, init, set_message_size, set_timeout, Send, drop_now, drop,
                drop_ends, Tick
  <2>2. CASE Server
    BY <2>2 DEF Server, ServerNext, Respond, ServerFrame, ServerClose, PeerFault
  <2>3. CASE event_loop_idle \/ start_init \/ read_bytes_from_socket \/ read_fails
    BY <1>1, <2>3 DEF event_loop_idle, start_init, read_bytes_from_socket, read_fails
  <2>4. CASE handle_input
    BY <2>4 DEF handle_input, handle_recv_frame, handle_recv_http_response, recv_ping,
                recv_pong, recv_undefined, recv_close_from_server,
                recv_close_answer, recv_close_ignored
  <2>5. CASE handle_output
    <3>1. ~Writable
      BY <1>1, <2>5, OutputStatus DEF IInv, StatusInv, Writable
    <3> QED
      BY <2>5, <3>1 DEF handle_output, write_sent, write_sent_closing,
                        write_sent_shutdown_fails, write_blocks, write_fails,
                        WriteAll, WouldBlock
  <2>6. CASE UNCHANGED vars
    BY <2>6 DEF vars
  <2> QED
    BY <1>1, <2>1, <2>2, <2>3, <2>4, <2>5, <2>6 DEF Next, event_loop
<1>2. IInv /\ [Next]_vars => [connection_status = "CLOSE" => UNCHANGED wire]_vars
  BY <1>1
<1> QED
  BY <1>2, Invariance, PTL DEF Spec, SilentAfterClose
=============================================================================
