----------------------------- MODULE WSEventLoop ----------------------------
(***************************************************************************)
(* The synchronous client, sync/client.rs, up to its Drop: its fields, the *)
(* calls a program makes, and event_loop.                                  *)
(*                                                                         *)
(* The client is single threaded.  Between calls, and between the read,    *)
(* the handling of the input and the write of one event_loop, the server   *)
(* and the network act.  pc says where a call is:                          *)
(*   "idle"      in the program, or at the head of Drop's loop             *)
(*   "input"     event_loop has read and popped, in_event is to be handled *)
(*   "output"    in_event is done, out_event is to be handled              *)
(*   "dropped"   the client is gone                                        *)
(*   "panicked", "diverged"   the call never returned                      *)
(*                                                                         *)
(* The field input_events is pushed and popped in one call to event_loop,  *)
(* so it is empty whenever a step of this module ends: the event in it is  *)
(* in_event, and the variable is left out.                                 *)
(***************************************************************************)
EXTENDS WSConnection

CONSTANTS
    Handlers,             \* which of Some / None init may give as callback
    CallbackOps,          \* what the callback calls: "send", "init"
    Texts,                \* the texts sent: length in bytes, and whether made
                          \* of two-byte characters
    MessageSizes, DefaultMessageSize,   \* set_message_size, DEFAULT_MESSAGE_SIZE
    Timeouts, DefaultTimeout,           \* set_timeout, DEFAULT_TIMEOUT, in
                                        \* half seconds
    Spaces,               \* whether payloads contain a space
    MaxInits,             \* bound: calls to init
    MaxKeys,              \* bound: keys generated, that is, sockets connected
    MaxQueued             \* bound: data frames queued by send

ASSUME ClientAssumption ==
    /\ Handlers \subseteq BOOLEAN
    /\ CallbackOps \subseteq {"send", "init"}
    /\ Texts \subseteq [len : Nat \ {0}, wide : BOOLEAN]
    /\ MessageSizes \cup {DefaultMessageSize} \subseteq Nat
    /\ Timeouts \cup {DefaultTimeout} \subseteq Nat
    /\ Spaces \in BOOLEAN
    /\ {MaxInits, MaxKeys, MaxQueued} \subseteq Nat

VARIABLES
    connection_status,
    recv_storage,       \* items received and not yet taken
    recv_data,          \* payloads of the fragments kept
    callback,           \* whether a callback is set
    output_events,
    websocket_key,      \* the number of the key generated last
    message_size,
    timeout,
    pc,                 \* where the current call is
    in_event,           \* event_loop's local in_event
    out_event,          \* event_loop's local out_event
    result,             \* what the last call to event_loop returned
    dropping,           \* the calls to event_loop come from Drop
    elapsed,            \* half seconds since Drop began
    inits,              \* calls to init so far
    queued,             \* data frames queued so far: the number of the last
    events              \* history: the callback's events on this connection

reported == <<connection_status, output_events, queued, events, callback, inits>>
received == <<recv_storage, recv_data>>
call     == <<pc, result, in_event, out_event>>
fixed    == <<websocket_key, message_size, timeout, dropping, elapsed>>
vars     == <<connVars, reported, received, call, fixed>>

ConnectionStatus == {"NOT_INIT", "START_INIT", "HANDSHAKE", "OPEN",
                     "CLIENT_WANTS_TO_CLOSE", "SERVER_WANTS_TO_CLOSE", "CLOSE"}

\* The statuses in which event_loop uses the stream.
Active == ConnectionStatus \ {"NOT_INIT", "START_INIT", "CLOSE"}

Results == {"Ok", "UnreachableHost", "HandShake", "InvalidFrame", "IOError",
            "ConnectionClose", "DecodingFromUTF8"}

\* WSEvent: the numbers of the pieces of a text, or the status of a Reason.
WSEvent == [kind : {"ON_CONNECT", "ON_TEXT", "SERVER_CLOSE", "CLIENT_CLOSE"},
            vals : Seq(Nat)]
ON_CONNECT        == [kind |-> "ON_CONNECT", vals |-> <<>>]
ON_TEXT(pieces)   == [kind |-> "ON_TEXT", vals |-> Numbers(pieces)]
ON_CLOSE_Server(by, code) ==     \* faulty: one Reason for both
    [kind |-> "SERVER_CLOSE", vals |-> <<code>>]
ON_CLOSE(by, code) == [kind |-> by, vals |-> <<code>>]

TypeOK ==
    /\ ConnTypeOK
    /\ connection_status \in ConnectionStatus
    /\ recv_storage \in Seq(Item)
    /\ recv_data \in Seq(Item)
    /\ callback \in BOOLEAN
    /\ output_events \in Seq(Item)
    /\ websocket_key \in Nat
    /\ message_size \in Nat
    /\ timeout \in Nat
    /\ pc \in {"idle", "input", "output", "dropped", "panicked", "diverged"}
    /\ in_event \in Item
    /\ out_event \in Item
    /\ result \in Results
    /\ dropping \in BOOLEAN
    /\ elapsed \in Nat
    /\ inits \in Nat
    /\ queued \in Nat
    /\ events \in Seq(WSEvent)
    \* event_loop's locals live as long as the call they belong to
    /\ pc = "idle" => in_event = NoData /\ out_event = NoData
    /\ pc = "output" => in_event = NoData /\ out_event # NoData
    /\ pc = "input" => in_event # NoData

Init ==
    /\ ConnInit
    /\ connection_status = "NOT_INIT"
    /\ recv_storage = <<>>
    /\ recv_data = <<>>
    /\ callback = FALSE
    /\ output_events = <<>>
    /\ websocket_key = 0
    /\ message_size = DefaultMessageSize
    /\ timeout = DefaultTimeout
    /\ pc = "idle"
    /\ in_event = NoData
    /\ out_event = NoData
    /\ result = "Ok"
    /\ dropping = FALSE
    /\ elapsed = 0
    /\ inits = 0
    /\ queued = 0
    /\ events = <<>>

-----------------------------------------------------------------------------
(* The program's calls other than event_loop. *)

InProgram == pc = "idle" /\ ~dropping

\* init without a configuration keeps the callback.  Nothing else is reset.
reinit ==
    /\ inits < MaxInits
    /\ connection_status' = "START_INIT"
    /\ callback' \in Handlers \cup {callback}
    /\ inits' = inits + 1

init ==
    /\ InProgram /\ reinit
    /\ UNCHANGED <<connVars, fixed, received, call, output_events, queued, events>>

set_message_size ==
    /\ InProgram
    /\ message_size' \in MessageSizes
    /\ UNCHANGED <<connVars, reported, received, call, websocket_key, timeout,
                   dropping, elapsed>>

set_timeout ==
    /\ InProgram
    /\ timeout' \in Timeouts
    /\ UNCHANGED <<connVars, reported, received, call, websocket_key, message_size,
                   dropping, elapsed>>

(***************************************************************************)
(* send cuts a text every message_size bytes.  A size of 0 never advances; *)
(* slicing inside a character panics; otherwise the n pieces become a TEXT *)
(* frame and its continuations, queued behind outs.  status is that of the *)
(* moment of the call, next the place to which a normal return goes.       *)
(***************************************************************************)
DataFrames(n) ==
    [i \in 1 .. n |-> [op  |-> IF i = 1 THEN "TEXT" ELSE "CONTINUATION",
                       fin |-> i = n, val |-> queued + i, cut |-> "whole"]]

CutsCharacter(text) ==
    text.wide /\ message_size < text.len /\ message_size % 2 = 1

send(text, status, outs, next) ==
    \/ /\ status = "CLOSE"
       /\ output_events' = outs /\ pc' = next /\ UNCHANGED queued
    \/ /\ status # "CLOSE" /\ message_size = 0
       /\ pc' = "diverged" /\ output_events' = outs /\ UNCHANGED queued
    \/ /\ status # "CLOSE" /\ CutsCharacter(text)
       /\ pc' = "panicked" /\ output_events' = outs /\ UNCHANGED queued
    \/ /\ status # "CLOSE" /\ ~CutsCharacter(text)
       /\ \E n \in 1 .. text.len :
             /\ (n - 1) * message_size < text.len /\ text.len <= n * message_size
             /\ queued + n <= MaxQueued
             /\ output_events' = outs \o DataFrames(n)
             /\ queued' = queued + n
       /\ pc' = next

Send ==
    /\ InProgram
    /\ \E text \in Texts : send(text, connection_status, output_events, "idle")
    /\ UNCHANGED <<connVars, fixed, received, connection_status, result, events,
                   callback, inits, in_event, out_event>>

(***************************************************************************)
(* A handler that reports an event: the fields it leaves in status and     *)
(* outs are what the callback finds, and the callback may call back.       *)
(***************************************************************************)
Report(event, status, outs, next) ==
    \/ /\ ~callback
       /\ connection_status' = status /\ output_events' = outs /\ pc' = next
       /\ UNCHANGED <<queued, events, callback, inits>>
    \/ /\ callback
       /\ events' = Append(events, event)
       /\ \/ /\ connection_status' = status /\ output_events' = outs
             /\ pc' = next /\ UNCHANGED <<queued, callback, inits>>
          \/ /\ "send" \in CallbackOps
             /\ \E text \in Texts : send(text, status, outs, next)
             /\ connection_status' = status /\ UNCHANGED <<callback, inits>>
          \/ /\ "init" \in CallbackOps /\ reinit
             /\ output_events' = outs /\ pc' = next /\ UNCHANGED queued

-----------------------------------------------------------------------------
(* event_loop *)

as_secs_Rounded(time) == (time + 1) \div 2   \* faulty: rounds up
TimedOut_Never        == FALSE               \* faulty: no limit

\* Duration::as_secs drops the fraction, of the time and of the limit.
as_secs(time) == time \div 2
TimedOut      == as_secs(elapsed) >= as_secs(timeout)

\* The program calls event_loop, or Drop's loop goes round.
Calls ==
    /\ pc = "idle"
    /\ dropping => /\ connection_status # "CLOSE"
                   /\ ~TimedOut
                   /\ result = "Ok"

\* The early returns: nothing to do yet, or nothing any more.
event_loop_idle ==
    /\ Calls
    /\ \/ connection_status = "NOT_INIT" /\ result' = "Ok"
       \/ connection_status = "CLOSE" /\ result' = "ConnectionClose"
    /\ UNCHANGED <<connVars, fixed, reported, received, pc, in_event, out_event>>

Unreachable ==
    /\ result' = "UnreachableHost"
    /\ UNCHANGED <<connVars, connection_status, output_events, websocket_key, events>>

\* Connected, but the socket cannot be made non-blocking: `?` leaves the
\* request queued and the socket is closed unused.
StaysBlocking_HandshakeEarly ==      \* faulty: the status is set before the `?`
    /\ websocket_key < MaxKeys
    /\ websocket_key' = websocket_key + 1
    /\ output_events' = <<Make("REQUEST", websocket_key')>> \o output_events
    /\ result' = "IOError" /\ connection_status' = "HANDSHAKE"
    /\ UNCHANGED <<connVars, events>>

StaysBlocking ==
    /\ websocket_key < MaxKeys
    /\ websocket_key' = websocket_key + 1
    /\ output_events' = <<Make("REQUEST", websocket_key')>> \o output_events
    /\ result' = "IOError"
    /\ UNCHANGED <<connVars, connection_status, events>>

Connects ==
    /\ websocket_key < MaxKeys
    /\ websocket_key' = websocket_key + 1
    /\ output_events' = <<Make("REQUEST", websocket_key')>> \o output_events
    /\ result' = "Ok"
    /\ stream' = "Connected" /\ wire' = <<>> /\ srv_sent' = <<>> /\ rd' = 0
    /\ peer' = "up" /\ events' = <<>>
    /\ connection_status' = "HANDSHAKE"

start_init ==
    /\ Calls /\ connection_status = "START_INIT"
    /\ Unreachable \/ StaysBlocking \/ Connects
    /\ UNCHANGED <<received, pc, queued, message_size, timeout, callback, inits,
                   in_event, out_event, dropping, elapsed>>

-----------------------------------------------------------------------------
(* event_loop, first step: read, take at most one event out of the bytes,  *)
(* and pop an output event before the input event is handled.              *)

Held_Never(item)  == FALSE                      \* faulty: nothing waits
Held_Always(item) == is_websocket_data(item)    \* faulty: not only in HANDSHAKE

Held(item) == connection_status = "HANDSHAKE" /\ is_websocket_data(item)

pop_output_event ==
    IF output_events = <<>> \/ Held(Head(output_events))
    THEN out_event' = NoData /\ UNCHANGED output_events
    ELSE out_event' = Head(output_events) /\ output_events' = Tail(output_events)

Take(event, rest) ==
    /\ in_event' = event
    /\ recv_storage' = rest
    /\ pop_output_event
    /\ IF event # NoData THEN pc' = "input" /\ UNCHANGED result
       ELSE IF out_event' # NoData THEN pc' = "output" /\ UNCHANGED result
       ELSE pc' = "idle" /\ result' = "Ok"

Panics(storage) ==
    /\ recv_storage' = storage /\ pc' = "panicked"
    /\ UNCHANGED <<result, in_event, out_event, output_events>>

\* A response is found behind bytes left from another connection, unless a
\* space in them ends up in its status line.  What follows it is cleared.
Responses(storage) ==
    {i \in DOMAIN storage : storage[i].op = "RESPONSE" /\ (i = 1 \/ ~Spaces)}

\* What is left of a response may have no status line that parse can read, or
\* one of too few words, which it indexes all the same.
handle_recv_bytes_http_response(storage) ==
    \/ Responses(storage) = {} /\ Take(NoData, storage)
    \/ \E i \in Responses(storage) :
          /\ \A j \in Responses(storage) : i <= j
          /\ \/ Take(storage[i], <<>>)
             \/ storage[i] = RestOfResponse /\ Take(NoData, storage)
             \/ storage[i] = RestOfResponse /\ Panics(storage)

\* bytes_to_frame slices two bytes out of every control frame.  A refusal may
\* be shorter than the frame its first two bytes announce.
handle_recv_bytes_frame(storage) ==
    \/ storage = <<>> /\ Take(NoData, storage)
    \/ /\ storage # <<>> /\ Head(storage).op = "RESERVED"
       /\ recv_storage' = storage /\ result' = "InvalidFrame"
       /\ UNCHANGED <<pc, in_event, out_event, output_events>>
    \/ /\ storage # <<>> /\ IsControl(Head(storage)) /\ Head(storage).val = 0
       /\ Panics(storage)
    \/ /\ storage # <<>> /\ Head(storage).op = "RESPONSE"
       /\ \/ Take(ResponseAsFrame, <<RestOfResponse>> \o Tail(storage))
          \/ Head(storage).val = 0 /\ Take(NoData, storage)
    \/ /\ storage # <<>>
       /\ IsData(Head(storage)) \/ (IsControl(Head(storage)) /\ Head(storage).val # 0)
       /\ Take(Head(storage), Tail(storage))

read_bytes_from_socket ==
    /\ Calls /\ connection_status \in Active
    /\ \E k \in Readable :
          /\ rd' = rd + k
          /\ IF connection_status = "HANDSHAKE"
             THEN handle_recv_bytes_http_response(recv_storage \o Arrived(k))
             ELSE handle_recv_bytes_frame(recv_storage \o Arrived(k))
    /\ UNCHANGED <<fixed, stream, wire, srv_sent, peer, connection_status,
                   recv_data, queued, events, callback, inits>>

read_fails ==
    /\ Calls /\ connection_status \in Active
    /\ result' \in ReadError
    /\ UNCHANGED <<connVars, fixed, reported, received, pc, in_event, out_event>>

-----------------------------------------------------------------------------
(* event_loop, second step: handle_event(in_event, INPUT). *)

AfterInput == IF out_event # NoData THEN "output" ELSE "idle"

\* The handler returns Ok; event_loop does too when it has nothing to write.
Handled ==
    /\ in_event' = NoData /\ UNCHANGED out_event
    /\ result' = IF out_event = NoData THEN "Ok" ELSE result

\* The `?` on the input returns before the output event is handled.
Fails_KeepsOutput(error) ==     \* faulty: the popped event outlives the call
    /\ result' = error /\ pc' = "idle"
    /\ in_event' = NoData /\ UNCHANGED out_event

Fails(error) ==
    /\ result' = error /\ pc' = "idle"
    /\ in_event' = NoData /\ out_event' = NoData

Kept_Always == Append(recv_data, in_event)      \* faulty: the flag is ignored

\* A data frame.  Without a callback a final frame is thrown away.
Kept == IF in_event.fin THEN recv_data ELSE Append(recv_data, in_event)

handle_recv_frame ==
    /\ pc = "input" /\ IsData(in_event)
    /\ \/ /\ ~callback
          /\ recv_data' = Kept /\ pc' = AfterInput /\ Handled
          /\ UNCHANGED <<reported>>
       \/ /\ callback
          /\ ~from_utf8(<<in_event>>) \/ ~from_utf8(Kept)
          /\ recv_data' = Kept /\ Fails("DecodingFromUTF8")
          /\ UNCHANGED <<reported>>
       \/ /\ callback
          /\ from_utf8(<<in_event>>) /\ from_utf8(Kept)
          /\ recv_data' = <<>> /\ Handled
          /\ Report(ON_TEXT(Append(Kept, in_event)), connection_status,
                    output_events, AfterInput)
    /\ UNCHANGED <<connVars, fixed, recv_storage>>

verify_key_Any(response) == TRUE                \* faulty: the key is not compared

verify_key(response) == response.val = websocket_key

handle_recv_http_response ==
    /\ pc = "input" /\ in_event.op = "RESPONSE" /\ connection_status = "HANDSHAKE"
    /\ \/ /\ ~verify_key(in_event)
          /\ Fails("HandShake")
          /\ UNCHANGED <<reported>>
       \/ /\ verify_key(in_event)
          /\ Handled
          /\ Report(ON_CONNECT, "OPEN", output_events, AfterInput)
    /\ UNCHANGED <<connVars, fixed, received>>

Pong(ping) == Make("PONG", ping.val)

recv_ping ==
    /\ pc = "input" /\ in_event.op = "PING"
    /\ output_events' = <<Pong(in_event)>> \o output_events
    /\ pc' = AfterInput /\ Handled
    /\ UNCHANGED <<connVars, fixed, received, connection_status, queued, events,
                   callback, inits>>

\* todo!()
recv_pong ==
    /\ pc = "input" /\ in_event.op = "PONG"
    /\ pc' = "panicked"
    /\ UNCHANGED <<connVars, fixed, reported, received, result, in_event, out_event>>

\* The opcodes that are a union of others, of FrameKind::NotDefine.
recv_undefined ==
    /\ pc = "input" /\ in_event.op = "UNDEFINED"
    /\ Fails("InvalidFrame")
    /\ UNCHANGED <<connVars, fixed, reported, received>>

Answer_Behind(code) ==          \* faulty: the queue is not cleared
    output_events' = Append(output_events, Make("CLOSE", ReplyStatus(code)))
Answer_Echo(code) ==            \* faulty: the status is sent back unchecked
    output_events' = <<Make("CLOSE", code)>>

\* Both queues are cleared, and the Close that answers is queued.
Answer(code) == output_events' = <<Make("CLOSE", ReplyStatus(code))>>

\* A Close while OPEN.
recv_close_from_server ==
    /\ pc = "input" /\ in_event.op = "CLOSE" /\ connection_status = "OPEN"
    /\ Answer(in_event.val)
    /\ connection_status' = "SERVER_WANTS_TO_CLOSE"
    /\ pc' = AfterInput /\ Handled
    /\ UNCHANGED <<connVars, fixed, received, queued, events, callback, inits>>

ShutDown_Takes == stream' = "None"      \* faulty: as where the server closed
ShutDown_Not   == UNCHANGED stream      \* faulty: the socket stays open

ShutDown == stream' = "Shutdown"

\* A Close while CLIENT_WANTS_TO_CLOSE is taken for the answer to our own.
recv_close_answer ==
    /\ pc = "input" /\ in_event.op = "CLOSE"
    /\ connection_status = "CLIENT_WANTS_TO_CLOSE"
    /\ ShutDown
    /\ IF ShutdownFails
       THEN /\ connection_status' = "CLOSE" /\ Fails("IOError")
            /\ UNCHANGED <<output_events, queued, events, callback, inits>>
       ELSE /\ Handled
            /\ Report(ON_CLOSE("CLIENT_CLOSE", in_event.val), "CLOSE",
                      output_events, AfterInput)
    /\ UNCHANGED <<fixed, received, wire, srv_sent, rd, peer>>

\* In the other statuses a Close changes nothing.
recv_close_ignored ==
    /\ pc = "input" /\ in_event.op = "CLOSE"
    /\ connection_status \notin {"OPEN", "CLIENT_WANTS_TO_CLOSE"}
    /\ pc' = AfterInput /\ Handled
    /\ UNCHANGED <<connVars, fixed, reported, received>>

handle_input ==
    \/ handle_recv_frame \/ handle_recv_http_response \/ recv_ping
    \/ recv_pong \/ recv_undefined \/ recv_close_from_server
    \/ recv_close_answer \/ recv_close_ignored

-----------------------------------------------------------------------------
(* event_loop, third step: handle_event(out_event, OUTPUT). *)

Requeue_AtBack == output_events' = Append(output_events, out_event)  \* faulty
Requeue_Not    == UNCHANGED output_events                           \* faulty

\* try_write returned false: the event goes back to the head of the queue.
Requeue == output_events' = <<out_event>> \o output_events

Completes_Never == FALSE        \* faulty: nobody closes after the answer

Completes == IsControl(out_event) /\ connection_status = "SERVER_WANTS_TO_CLOSE"

\* Written, and nothing more to it.
write_sent ==
    /\ pc = "output" /\ ~Completes
    /\ WriteAll(out_event)
    /\ out_event' = NoData /\ pc' = "idle" /\ result' = "Ok"
    /\ UNCHANGED <<fixed, reported, received, stream, srv_sent, rd, peer, in_event>>

\* A control frame written while the server wants to close ends the
\* connection, with the status of that frame as the reason.
write_sent_closing ==
    /\ pc = "output" /\ Completes
    /\ WriteAll(out_event)
    /\ out_event' = NoData /\ result' = "Ok" /\ stream' = "None"
    /\ Report(ON_CLOSE("SERVER_CLOSE", IF out_event.op = "CLOSE" THEN out_event.val ELSE 0),
              "CLOSE", output_events, "idle")
    /\ UNCHANGED <<fixed, received, srv_sent, rd, peer, in_event>>

\* The connection was lost between that write and the shutdown: the status is
\* CLOSE, the stream is kept, and nothing is reported.
write_sent_shutdown_fails ==
    /\ pc = "output" /\ Completes /\ "reset" \in PeerFaults
    /\ WriteAll(out_event)
    /\ peer' = "reset" /\ stream' = "Shutdown" /\ connection_status' = "CLOSE"
    /\ out_event' = NoData /\ result' = "IOError" /\ pc' = "idle"
    /\ UNCHANGED <<fixed, received, srv_sent, rd, output_events, in_event, queued,
                   events, callback, inits>>

write_blocks ==
    /\ pc = "output"
    /\ WouldBlock(out_event)
    /\ Requeue
    /\ out_event' = NoData /\ pc' = "idle" /\ result' = "Ok"
    /\ UNCHANGED <<fixed, received, stream, srv_sent, rd, peer, connection_status,
                   in_event, queued, events, callback, inits>>

\* Any other error: the event is not put back.
write_fails ==
    /\ pc = "output" /\ ~Writable
    /\ out_event' = NoData /\ pc' = "idle" /\ result' = "IOError"
    /\ UNCHANGED <<connVars, fixed, reported, received, in_event>>

handle_output ==
    \/ write_sent \/ write_sent_closing \/ write_sent_shutdown_fails
    \/ write_blocks \/ write_fails

event_loop ==
    \/ event_loop_idle \/ start_init \/ read_bytes_from_socket \/ read_fails
    \/ handle_input \/ handle_output
=============================================================================
