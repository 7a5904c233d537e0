---------------------------- MODULE WSCloseProofs ----------------------------
(***************************************************************************)
(* How a connection ends: what follows our Close on the wire, what the     *)
(* program hears, what the server was answered, and how long Drop waits.   *)
(***************************************************************************)
EXTENDS WSHandshakeProofs

USE DEF connVars, reported, received, call, fixed

-----------------------------------------------------------------------------
(* Drop's limit *)

LEMMA WholeSeconds ==
    ASSUME NEW time \in Nat, NEW limit \in Nat, limit % 2 = 0,
           as_secs(time) >= as_secs(limit)
    PROVE  time >= limit
BY SMT DEF as_secs

\* Under a limit of whole seconds Drop gives up on the closing handshake only
\* when all of it is over; Duration::as_secs, which drops the fraction of the
\* time and of the limit, does no harm then (client.rs 551-555).
THEOREM DropIsPatient == Spec => [](timeout % 2 = 0 => DropWaits)
<1> DEFINE Patient == timeout % 2 = 0 => DropWaits
<1>1. Init => Patient
  BY DEF Init, DropWaits
<1>2. IInv /\ Patient /\ [Next]_vars => Patient'
  <2> SUFFICES ASSUME IInv, Patient, [Next]_vars PROVE Patient'
    OBVIOUS
  <2>1. CASE UNCHANGED <<dropping, pc, result, connection_status, elapsed, timeout>>
    BY <2>1 DEF DropWaits
  <2>2. CASE Program
    <3>1. pc = "idle" /\ ~dropping
      BY <2>2 DEF Program, init, set_message_size, set_timeout, Send, drop_now, drop, InProgram
    <3>2. CASE drop
      BY <3>1, <3>2 DEF drop, DropWaits
    <3>3. CASE ~drop
      <4>1. dropping' = dropping
        BY <2>2, <3>3 DEF Program, init, set_message_size, set_timeout, Send, drop_now
      <4> QED
        BY <3>1, <4>1 DEF DropWaits
    <3> QED
      BY <3>2, <3>3
  <2>3. CASE drop_ends
    <3>1. /\ UNCHANGED <<dropping, result, connection_status, elapsed, timeout>>
          /\ connection_status = "CLOSE" \/ TimedOut \/ result # "Ok"
      BY <2>3 DEF drop_ends
    <3>2. timeout % 2 = 0 /\ TimedOut => elapsed >= timeout
      BY WholeSeconds DEF IInv, TypeOK, TimedOut
    <3> QED
      BY <3>1, <3>2 DEF DropWaits
  <2>4. CASE Tick
    BY <2>4 DEF Tick, DropWaits
  <2>5. CASE event_loop
    <3>1. pc' # "dropped"
      <4>1. CASE event_loop_idle \/ start_init \/ read_fails
        BY <4>1 DEF event_loop_idle, start_init, read_fails, Calls
      <4>2. CASE read_bytes_from_socket
        BY <4>2, ReadStatus
      <4>3. CASE handle_input
        BY <4>3, InputStatus
      <4>4. CASE handle_output
        BY <4>4, OutputStatus
      <4> QED
        BY <2>5, <4>1, <4>2, <4>3, <4>4 DEF event_loop
    <3> QED
      BY <3>1 DEF DropWaits
  <2>6. CASE Server
    BY <2>1, <2>6 DEF Server
  <2>7. CASE UNCHANGED vars
    BY <2>1, <2>7 DEF vars
  <2> QED
    BY <2>2, <2>3, <2>4, <2>5, <2>6, <2>7 DEF Next
<1> HIDE DEF Patient
<1>3. Spec => []Patient
  BY <1>1, <1>2, Invariance, PTL DEF Spec
<1> QED
  BY <1>3 DEF Patient

-----------------------------------------------------------------------------
(* What the program hears of the close *)

Closes == {"SERVER_CLOSE", "CLIENT_CLOSE"}

NoCloseHeard == \A i \in 1 .. Len(events) : events[i].kind \notin Closes

(***************************************************************************)
(* No close was heard while the connection is in use, nor while a socket   *)
(* is left over that a program may still use; only Drop closes on the      *)
(* client's behalf.                                                        *)
(***************************************************************************)
CloseHeardLast ==
    /\ connection_status \in Active \/ (stream # "None" /\ ~dropping) => NoCloseHeard
    /\ connection_status = "CLIENT_WANTS_TO_CLOSE" => dropping
    /\ CloseIsReported

HeardInv == IInv /\ CloseHeardLast

LEMMA HeardEvents ==
    ASSUME events \in Seq(WSEvent), NEW event \in WSEvent, events' = Append(events, event)
    PROVE  /\ events' # <<>> /\ Last(events') = event
           /\ NoCloseHeard /\ event.kind \notin Closes => NoCloseHeard'
           /\ NoCloseHeard /\ event.kind \in Closes => Reported(Closes)' = {Len(events')}
<1>1. /\ events' \in Seq(WSEvent) /\ events' # <<>> /\ Len(events') = Len(events) + 1
      /\ \A i \in 1 .. Len(events) : events'[i] = events[i]
      /\ events'[Len(events) + 1] = event
      /\ Len(events) \in Nat
  BY AppendProperties, LenProperties
<1>2. /\ \A i \in 1 .. Len(events) + 1 : i \in 1 .. Len(events) \/ i = Len(events) + 1
      /\ Len(events) + 1 \in 1 .. Len(events) + 1
  BY <1>1, SMT
<1>3. Last(events') = event
  BY <1>1 DEF Last
<1>4. NoCloseHeard /\ event.kind \notin Closes => NoCloseHeard'
  BY <1>1, <1>2 DEF NoCloseHeard
<1>5. ASSUME NoCloseHeard, event.kind \in Closes PROVE Reported(Closes)' = {Len(events')}
  <2>1. DOMAIN events' = 1 .. Len(events) + 1
    BY <1>1, LenProperties
  <2>2. \A i \in 1 .. Len(events) + 1 : events'[i].kind \in Closes <=> i = Len(events) + 1
    BY <1>1, <1>2, <1>5 DEF NoCloseHeard
  <2> QED
    BY <1>1, <1>2, <2>1, <2>2 DEF Reported
<1> QED
  BY <1>1, <1>3, <1>4, <1>5

LEMMA EventKinds ==
    /\ \A pieces : ON_TEXT(pieces).kind \notin Closes
    /\ ON_CONNECT.kind \notin Closes
    /\ \A code : /\ ON_CLOSE("CLIENT_CLOSE", code).kind = "CLIENT_CLOSE"
                 /\ ON_CLOSE("SERVER_CLOSE", code).kind = "SERVER_CLOSE"
BY DEF ON_TEXT, ON_CONNECT, ON_CLOSE, Closes

LEMMA ProgramKeepsHeard ==
    ASSUME HeardInv, Program \/ drop_ends \/ Tick \/ event_loop_idle \/ read_fails
    PROVE  CloseHeardLast'
<1> USE DEF CloseHeardLast, HeardInv
<1>1. /\ UNCHANGED <<events, peer>>
      /\ stream' \in {stream, "None"}
  BY ProgramEffect DEF IInv
<1>2. NoCloseHeard => NoCloseHeard'
  BY <1>1 DEF NoCloseHeard
<1>3. CASE init
  <2>1. connection_status' = "START_INIT" /\ UNCHANGED stream /\ ~dropping
    BY <1>3 DEF init, reinit, InProgram
  <2> QED
    BY <1>2, <2>1 DEF CloseIsReported, Active
<1>4. CASE drop
  <2>1. connection_status' = "CLIENT_WANTS_TO_CLOSE" /\ stream # "None" /\ ~dropping /\ dropping'
    BY <1>4 DEF drop, InProgram
  <2> QED
    BY <1>2, <2>1 DEF CloseIsReported
<1>5. CASE UNCHANGED <<connection_status, callback, dropping>>
  BY <1>1, <1>2, <1>5 DEF CloseIsReported, Reported
<1> QED
  BY <1>3, <1>4, <1>5 DEF Program, set_message_size, set_timeout, Send, drop_now, drop_ends,
                          Tick, event_loop_idle, read_fails

LEMMA InputKeepsHeard ==
    ASSUME HeardInv, "init" \notin CallbackOps, handle_input
    PROVE  CloseHeardLast'
<1> USE DEF CloseHeardLast, HeardInv
<1>1. /\ pc = "input" /\ UNCHANGED dropping
      /\ connection_status \in Active
      /\ events \in Seq(WSEvent) /\ queued \in Nat /\ output_events \in Seq(Item)
  BY InputEffect DEF IInv, StatusInv, TypeOK
<1>2. NoCloseHeard
  BY <1>1
\* The event is not a close: the connection goes on.
<1>3. ASSUME NEW event \in WSEvent, event.kind \notin Closes, NEW status \in {"OPEN", connection_status},
             Report(event, status, output_events, AfterInput)
      PROVE  CloseHeardLast'
  <2>1. /\ connection_status' = status
        /\ events' = events \/ events' = Append(events, event)
    BY <1>1, <1>3, ReportEffect
  <2>2. NoCloseHeard'
    BY <1>1, <1>2, <1>3, <2>1, HeardEvents DEF NoCloseHeard
  <2>3. connection_status' \in Active
    BY <1>1, <1>3, <2>1 DEF Active, ConnectionStatus
  <2>4. connection_status' # "CLOSE"
    BY <2>3 DEF Active
  <2>5. connection_status' = "CLIENT_WANTS_TO_CLOSE" => dropping'
    BY <1>1, <1>3, <2>1
  <2> QED
    BY <2>2, <2>4, <2>5 DEF CloseIsReported
<1>4. ASSUME UNCHANGED events, connection_status' \in {connection_status, "SERVER_WANTS_TO_CLOSE"}
      PROVE  CloseHeardLast'
  <2>1. connection_status' # "CLOSE"
    BY <1>1, <1>4 DEF Active
  <2> QED
    BY <1>1, <1>2, <1>4, <2>1 DEF CloseIsReported, NoCloseHeard
<1>5. CASE handle_recv_frame
  <2>1. ON_TEXT(Append(Kept, in_event)) \in WSEvent
    BY KeptType, EventTypes DEF IInv
  <2> QED
    BY <1>3, <1>4, <1>5, <2>1, EventKinds DEF handle_recv_frame
<1>6. CASE handle_recv_http_response
  BY <1>3, <1>4, <1>6, EventKinds, EventTypes DEF handle_recv_http_response
<1>7. CASE recv_ping \/ recv_pong \/ recv_undefined \/ recv_close_from_server \/ recv_close_ignored
  BY <1>4, <1>7 DEF recv_ping, recv_pong, recv_undefined, recv_close_from_server,
                    recv_close_ignored
<1>8. CASE recv_close_answer
  <2>1. dropping' /\ dropping /\ peer' = peer
    BY <1>1, <1>8 DEF recv_close_answer
  <2>2. CASE ShutdownFails
    <3>1. connection_status' = "CLOSE" /\ peer' = "reset"
      BY <1>8, <2>1, <2>2 DEF recv_close_answer, ShutdownFails
    <3> QED
      BY <2>1, <3>1 DEF CloseIsReported, Active
  <2>3. CASE ~ShutdownFails
    <3> DEFINE event == ON_CLOSE("CLIENT_CLOSE", in_event.val)
    <3>1. Report(event, "CLOSE", output_events, AfterInput)
      BY <1>8, <2>3 DEF recv_close_answer
    <3>2. event \in WSEvent /\ event.kind = "CLIENT_CLOSE"
      BY EventTypes, EventKinds DEF IInv, TypeOK, Item
    <3> HIDE DEF event
    <3>3. /\ connection_status' = "CLOSE"
          /\ \/ callback /\ events' = Append(events, event)
             \/ ~callback /\ callback' = callback
      BY <1>1, <3>1, ReportEffect
    <3>4. CASE events' = Append(events, event)
      <4>1. Reported(Closes)' = {Len(events')} /\ Last(events') = event
        BY <1>1, <1>2, <3>2, <3>4, HeardEvents DEF Closes
      <4> QED
        BY <2>1, <3>2, <3>3, <4>1 DEF CloseIsReported, Closes, Active
    <3>5. CASE ~callback'
      BY <2>1, <3>3, <3>5 DEF CloseIsReported, Active
    <3> QED
      BY <3>3, <3>4, <3>5
  <2> QED
    BY <2>2, <2>3
<1> QED
  BY <1>5, <1>6, <1>7, <1>8 DEF handle_input

LEMMA OutputKeepsHeard ==
    ASSUME HeardInv, "init" \notin CallbackOps, handle_output
    PROVE  CloseHeardLast'
<1> USE DEF CloseHeardLast, HeardInv
<1>1. /\ pc = "output" /\ UNCHANGED dropping
      /\ events \in Seq(WSEvent) /\ queued \in Nat /\ output_events \in Seq(Item)
  BY OutputEffect DEF IInv, TypeOK
<1>2. CASE UNCHANGED <<connection_status, callback, events, stream, peer>>
  BY <1>1, <1>2 DEF CloseIsReported, Reported, NoCloseHeard
<1>3. CASE write_sent_shutdown_fails
  <2>1. connection_status = "SERVER_WANTS_TO_CLOSE" /\ connection_status' = "CLOSE"
        /\ peer' = "reset" /\ events' = events
    BY <1>3 DEF write_sent_shutdown_fails, Completes
  <2>2. NoCloseHeard'
    BY <2>1 DEF NoCloseHeard, Active, ConnectionStatus
  <2> QED
    BY <2>1, <2>2 DEF CloseIsReported
<1>4. CASE write_sent_closing
  <2> DEFINE event == ON_CLOSE("SERVER_CLOSE", IF out_event.op = "CLOSE" THEN out_event.val ELSE 0)
  <2>1. Report(event, "CLOSE", output_events, "idle")
    BY <1>4 DEF write_sent_closing
  <2>2. event \in WSEvent /\ event.kind = "SERVER_CLOSE"
    BY EventTypes, EventKinds DEF IInv, TypeOK, Item
  <2> HIDE DEF event
  <2>3. /\ connection_status' = "CLOSE" /\ stream' = "None"
        /\ \/ callback /\ events' = Append(events, event)
           \/ ~callback /\ callback' = callback
    BY <1>1, <1>4, <2>1, ReportEffect DEF write_sent_closing
  <2>4. connection_status = "SERVER_WANTS_TO_CLOSE"
    BY <1>4 DEF write_sent_closing, Completes
  <2>5. ~dropping'
    BY <1>1, <2>4 DEF IInv, StatusInv
  <2>6. NoCloseHeard
    BY <2>4 DEF Active, ConnectionStatus
  <2>7. CASE events' = Append(events, event)
    <3>1. Reported(Closes)' = {Len(events')} /\ Last(events') = event
      BY <1>1, <2>2, <2>6, <2>7, HeardEvents DEF Closes
    <3> QED
      BY <2>2, <2>3, <2>5, <3>1 DEF CloseIsReported, Closes, Active
  <2>8. CASE ~callback'
    BY <2>3, <2>8 DEF CloseIsReported, Active
  <2> QED
    BY <2>3, <2>7, <2>8
<1> QED
  BY <1>2, <1>3, <1>4 DEF handle_output, write_sent, write_blocks, write_fails

LEMMA NextHeard ==
    ASSUME "init" \notin CallbackOps, HeardInv, [Next]_vars
    PROVE  HeardInv'
<1> SUFFICES CloseHeardLast'
  BY NextStatus DEF HeardInv
<1> USE DEF CloseHeardLast, HeardInv
<1>1. CASE UNCHANGED <<connection_status, callback, events, stream, peer, dropping>>
  BY <1>1 DEF CloseIsReported, Reported, NoCloseHeard
<1>2. CASE read_bytes_from_socket
  BY <1>1, <1>2, ReadEffect DEF IInv
<1>3. CASE start_init
  <2>1. CASE Connects
    <3>1. events' = <<>> /\ connection_status' = "HANDSHAKE" /\ Len(events') = 0
      BY <2>1 DEF Connects
    <3>2. NoCloseHeard'
      <4>1. 1 .. 0 = {}
        BY SMT
      <4> QED
        BY <3>1, <4>1 DEF NoCloseHeard
    <3> QED
      BY <3>1, <3>2 DEF CloseIsReported
  <2> QED
    BY <1>1, <1>3, <2>1 DEF start_init, Unreachable, StaysBlocking
<1>4. CASE Server
  <2>1. /\ UNCHANGED <<connection_status, callback, events, stream, dropping>>
        /\ peer' # "reset" => peer # "reset"
    BY <1>4, ServerEffect DEF IInv, Server, ServerNext, Respond, ServerFrame, ServerClose, PeerFault
  <2> QED
    BY <2>1 DEF CloseIsReported, Reported, NoCloseHeard
<1> QED
  BY <1>1, <1>2, <1>3, <1>4, ProgramKeepsHeard, InputKeepsHeard, OutputKeepsHeard
     DEF Next, event_loop, vars

\* Unless the callback calls init, a callback on a connection that was not
\* lost hears of the close exactly once, as the last event, and hears that
\* the client closed it only from a Drop: no handler reports a second close,
\* none is reported in a status that goes on, and an init over the old socket
\* does not bring the old reports back (client.rs 363-370, 504-514).
THEOREM CloseReported == Spec => []("init" \notin CallbackOps => CloseIsReported)
<1>1. CASE "init" \in CallbackOps
  <2>1. "init" \notin CallbackOps => CloseIsReported
    BY <1>1
  <2> QED
    BY <2>1, PTL
<1>2. CASE "init" \notin CallbackOps
  <2>1. Init => HeardInv
    <3> SUFFICES ASSUME Init PROVE CloseHeardLast
      BY InitStatus DEF HeardInv
    <3> QED
      BY DEF Init, ConnInit, CloseHeardLast, CloseIsReported, Active
  <2>2. HeardInv /\ [Next]_vars => HeardInv'
    BY <1>2, NextHeard
  <2>3. HeardInv => ("init" \notin CallbackOps => CloseIsReported)
    BY DEF HeardInv, CloseHeardLast
  <2> QED
    BY <2>1, <2>2, <2>3, PTL DEF Spec
<1> QED
  BY <1>1, <1>2

-----------------------------------------------------------------------------
(* What follows our Close on the wire *)

AfterCloses == DataOps \cup {"CLOSE"}

\* Nothing in s that may not follow a Close does; s holds no Close; s may
\* follow one.
Final(s) ==
    \A i, j \in 1 .. Len(s) : i < j /\ s[i].op = "CLOSE" => s[j].op \notin AfterCloses
NoClose(items)  == \A x \in items : x.op # "CLOSE"
Harmless(items) == \A x \in items : x.op \notin AfterCloses

LEMMA FinalConcat ==
    ASSUME NEW s \in Seq(Item), NEW t \in Seq(Item)
    PROVE  Final(s \o t) <=>
             Final(s) /\ Final(t) /\ (NoClose(ToSet(s)) \/ Harmless(ToSet(t)))
<1> DEFINE u == s \o t
<1>1. /\ Len(s) \in Nat /\ Len(t) \in Nat /\ Len(u) = Len(s) + Len(t)
      /\ \A i \in 1 .. Len(s) : u[i] = s[i]
      /\ \A i \in 1 .. Len(t) : u[Len(s) + i] = t[i]
      /\ \A k \in 1 .. Len(u) : k \in 1 .. Len(s) \/ \E i \in 1 .. Len(t) : k = Len(s) + i
  BY ConcatItems
<1>2. /\ \A i \in 1 .. Len(s) : i \in 1 .. Len(u)
      /\ \A i \in 1 .. Len(t) : Len(s) + i \in 1 .. Len(u)
      /\ \A i \in 1 .. Len(s), j \in 1 .. Len(t) : i < Len(s) + j /\ ~(Len(s) + j < i)
      /\ \A i, j \in 1 .. Len(t) : i < j <=> Len(s) + i < Len(s) + j
  BY <1>1, SMT
<1> HIDE DEF u
<1>3. /\ \A x \in ToSet(s) : \E i \in 1 .. Len(s) : x = s[i]
      /\ \A i \in 1 .. Len(s) : s[i] \in ToSet(s)
  BY ItemsOf
<1>4. /\ \A x \in ToSet(t) : \E i \in 1 .. Len(t) : x = t[i]
      /\ \A i \in 1 .. Len(t) : t[i] \in ToSet(t)
  BY ItemsOf
<1>5. ASSUME Final(u) PROVE Final(s) /\ Final(t) /\ (NoClose(ToSet(s)) \/ Harmless(ToSet(t)))
  <2>1. Final(s)
    BY <1>1, <1>2, <1>5, Zenon DEF Final
  <2>2. ASSUME NEW i \in 1 .. Len(t), NEW j \in 1 .. Len(t), i < j, t[i].op = "CLOSE"
        PROVE  t[j].op \notin AfterCloses
    <3>1. Len(s) + i \in 1 .. Len(u) /\ Len(s) + j \in 1 .. Len(u) /\ Len(s) + i < Len(s) + j
      BY <1>2, <2>2
    <3>2. u[Len(s) + i] = t[i] /\ u[Len(s) + j] = t[j]
      BY <1>1
    <3> QED
      BY <1>5, <2>2, <3>1, <3>2, Zenon DEF Final
  <2>3. ASSUME NEW i \in 1 .. Len(s), s[i].op = "CLOSE", NEW j \in 1 .. Len(t)
        PROVE  t[j].op \notin AfterCloses
    <3>1. i \in 1 .. Len(u) /\ Len(s) + j \in 1 .. Len(u) /\ i < Len(s) + j
      BY <1>2
    <3>2. u[i] = s[i] /\ u[Len(s) + j] = t[j]
      BY <1>1
    <3> QED
      BY <1>5, <2>3, <3>1, <3>2, Zenon DEF Final
  <2>4. NoClose(ToSet(s)) \/ Harmless(ToSet(t))
    BY <1>3, <1>4, <2>3, Zenon DEF NoClose, Harmless
  <2> QED
    BY <2>1, <2>2, <2>4, Zenon DEF Final
<1>6. ASSUME Final(s), Final(t), NoClose(ToSet(s)) \/ Harmless(ToSet(t)) PROVE Final(u)
  <2> SUFFICES ASSUME NEW k \in 1 .. Len(u), NEW l \in 1 .. Len(u), k < l, u[k].op = "CLOSE"
               PROVE  u[l].op \notin AfterCloses
    BY DEF Final
  <2>1. CASE k \in 1 .. Len(s) /\ l \in 1 .. Len(s)
    BY <1>1, <1>6, <2>1, Zenon DEF Final
  <2>2. ASSUME NEW j \in 1 .. Len(t), k \in 1 .. Len(s), l = Len(s) + j
        PROVE  u[l].op \notin AfterCloses
    <3>1. u[k] = s[k] /\ s[k] \in ToSet(s) /\ u[l] = t[j] /\ t[j] \in ToSet(t)
      BY <1>1, <1>3, <1>4, <2>2
    <3> QED
      BY <1>6, <3>1 DEF NoClose, Harmless
  <2>3. ASSUME NEW i \in 1 .. Len(t), NEW j \in 1 .. Len(t), k = Len(s) + i, l = Len(s) + j
        PROVE  u[l].op \notin AfterCloses
    <3>1. i < j
      BY <1>2, <2>3
    <3>2. u[k] = t[i] /\ u[l] = t[j]
      BY <1>1, <2>3
    <3> QED
      BY <1>6, <3>1, <3>2, Zenon DEF Final
  <2>4. ASSUME NEW i \in 1 .. Len(t), k = Len(s) + i, l \in 1 .. Len(s)
        PROVE  u[l].op \notin AfterCloses
    BY <1>2, <2>4
  <2> QED
    BY <1>1, <2>1, <2>2, <2>3, <2>4
<1> QED
  BY <1>5, <1>6 DEF u

LEMMA FinalOne == \A x \in Item : Final(<<x>>)
BY DEF Final

LEMMA FinalNone == Final(<<>>) /\ NoClose({}) /\ Harmless({})
BY DEF Final, NoClose, Harmless

LEMMA FinalAppend ==
    ASSUME NEW s \in Seq(Item), NEW x \in Item
    PROVE  Final(Append(s, x)) <=> Final(s) /\ (NoClose(ToSet(s)) \/ Harmless({x}))
<1>1. /\ Append(s, x) = s \o <<x>> /\ <<x>> \in Seq(Item) /\ ToSet(<<x>>) = {x}
      /\ Final(<<x>>)
  BY AppendIsConcat, ItemsOfOne, FinalOne
<1> QED
  BY <1>1, FinalConcat

LEMMA FinalPrefixed ==
    ASSUME NEW x \in Item, NEW s \in Seq(Item)
    PROVE  Final(<<x>> \o s) <=> Final(s) /\ (NoClose({x}) \/ Harmless(ToSet(s)))
<1>1. <<x>> \in Seq(Item) /\ ToSet(<<x>>) = {x} /\ Final(<<x>>)
  BY ItemsOfOne, FinalOne
<1> QED
  BY <1>1, FinalConcat

LEMMA NoCloses == NoClose(ToSet(<<>>)) /\ \A s \in Seq(Item) : NoClose(ToSet(s)) => Final(s)
<1>1. \A s \in Seq(Item) : NoClose(ToSet(s)) => Final(s)
  BY ItemsOf DEF NoClose, Final
<1> QED
  BY <1>1, ItemsOfNone, FinalNone

\* What event_loop does to the queue, in order.
LEMMA ReadPops ==
    ASSUME TypeOK, read_bytes_from_socket
    PROVE  /\ out_event = NoData
           /\ \/ UNCHANGED <<out_event, output_events>>
              \/ /\ output_events # <<>>
                 /\ out_event' = Head(output_events) /\ output_events' = Tail(output_events)
                 /\ ~Held(Head(output_events))
<1>1. out_event = NoData
  BY DEF TypeOK, read_bytes_from_socket, Calls
<1>2. PICK k \in Readable :
         IF connection_status = "HANDSHAKE"
         THEN handle_recv_bytes_http_response(recv_storage \o Arrived(k))
         ELSE handle_recv_bytes_frame(recv_storage \o Arrived(k))
  BY DEF read_bytes_from_socket
<1>3. UNCHANGED <<out_event, output_events>> \/ pop_output_event
  BY <1>2 DEF handle_recv_bytes_http_response, handle_recv_bytes_frame, Take, Panics
<1> QED
  BY <1>1, <1>3 DEF pop_output_event

\* While the client is being dropped nothing is queued by send: its program has
\* let go of it, so that only the callback could call.
QuietDrop == dropping => UNCHANGED queued

\* Where send leaves queued alone it leaves the queue alone.
LEMMA SendCounts ==
    ASSUME NEW text \in Texts, NEW status, NEW outs, NEW next, queued \in Nat, UNCHANGED queued,
           send(text, status, outs, next)
    PROVE  output_events' = outs
<1>1. \A n \in 1 .. text.len : queued' # queued + n
  BY SMT
<1> QED
  BY <1>1 DEF send

LEMMA InputQueues ==
    ASSUME TypeOK, QuietDrop, handle_input
    PROVE  \/ output_events' = output_events
           \/ /\ ~dropping
              /\ \A x \in ToSet(output_events') : x \in ToSet(output_events) \/ IsData(x)
           \/ /\ in_event.op = "PING" /\ UNCHANGED connection_status
              /\ output_events' = <<Pong(in_event)>> \o output_events
           \/ /\ connection_status = "OPEN" /\ in_event.op = "CLOSE"
              /\ connection_status' = "SERVER_WANTS_TO_CLOSE"
              /\ output_events' = <<Make("CLOSE", ReplyStatus(in_event.val))>>
<1> DEFINE Sends == /\ ~dropping
                    /\ \A x \in ToSet(output_events') : x \in ToSet(output_events) \/ IsData(x)
<1>1. ASSUME NEW event, NEW status, Report(event, status, output_events, AfterInput)
      PROVE  output_events' = output_events \/ Sends
  <2>1. ASSUME NEW text \in Texts, send(text, status, output_events, AfterInput)
        PROVE  output_events' = output_events \/ Sends
    <3>1. queued \in Nat /\ output_events \in Seq(Item)
      BY DEF TypeOK
    <3>2. dropping => output_events' = output_events
      BY <2>1, <3>1, SendCounts DEF QuietDrop
    <3>3. \A x \in ToSet(output_events') : x \in ToSet(output_events) \/ IsData(x)
      BY <2>1, <3>1, SendEffect
    <3> QED
      BY <3>2, <3>3
  <2> QED
    BY <1>1, <2>1 DEF Report
<1> HIDE DEF Sends
<1>2. \/ output_events' = output_events
      \/ Sends
      \/ /\ in_event.op = "PING" /\ UNCHANGED connection_status
         /\ output_events' = <<Pong(in_event)>> \o output_events
      \/ /\ connection_status = "OPEN" /\ in_event.op = "CLOSE"
         /\ connection_status' = "SERVER_WANTS_TO_CLOSE"
         /\ output_events' = <<Make("CLOSE", ReplyStatus(in_event.val))>>
  BY <1>1 DEF handle_input, handle_recv_frame, handle_recv_http_response, recv_ping,
         recv_pong, recv_undefined, recv_close_from_server, recv_close_answer,
         recv_close_ignored, Answer
<1> QED
  BY <1>2 DEF Sends

LEMMA OutputQueues ==
    ASSUME TypeOK, handle_output
    PROVE  \/ /\ wire' = Append(wire, out_event) /\ Writable /\ ~Completes
              /\ UNCHANGED <<connection_status, output_events>>
           \/ /\ wire' = Append(wire, out_event) /\ Writable /\ Completes
              /\ connection_status' \in {"CLOSE", "START_INIT"}
              /\ output_events' = output_events
           \/ /\ wire' = wire \/ wire' = Append(wire, Make("TORN", out_event.val))
              /\ Writable /\ output_events' = <<out_event>> \o output_events
              /\ UNCHANGED connection_status
           \/ ~Writable /\ UNCHANGED <<wire, output_events, connection_status>>
<1>1. CASE write_sent
  BY <1>1 DEF write_sent, WriteAll
<1>2. CASE write_sent_closing
  <2> DEFINE event == ON_CLOSE("SERVER_CLOSE", IF out_event.op = "CLOSE" THEN out_event.val ELSE 0)
  <2>1. Report(event, "CLOSE", output_events, "idle")
    BY <1>2 DEF write_sent_closing
  <2> HIDE DEF event
  <2>2. connection_status' \in {"CLOSE", "START_INIT"} /\ output_events' = output_events
    BY <2>1 DEF Report, send, reinit
  <2> QED
    BY <1>2, <2>2 DEF write_sent_closing, WriteAll
<1>3. CASE write_sent_shutdown_fails
  BY <1>3 DEF write_sent_shutdown_fails, WriteAll
<1>4. CASE write_blocks
  BY <1>4 DEF write_blocks, WouldBlock, Requeue
<1>5. CASE write_fails
  BY <1>5 DEF write_fails
<1> QED
  BY <1>1, <1>2, <1>3, <1>4, <1>5 DEF handle_output

(***************************************************************************)
(* While Drop closes, its Close is in one place, on the wire, in hand or   *)
(* queued, and nothing that may not follow it is behind it.  Before that   *)
(* no Close is on the wire: the one that answers the server's, once        *)
(* written, ends the connection.                                           *)
(***************************************************************************)
ClosingLine(written, hand, queue) ==
    /\ Final(written) /\ Final(queue)
    /\ NoClose(ToSet(written)) \/ Harmless({hand} \cup ToSet(queue))
    /\ NoClose({hand}) \/ Harmless(ToSet(queue))

CloseInv == Once =>
    /\ connection_status \notin {"CLIENT_WANTS_TO_CLOSE", "CLOSE"} => NoClose(ToSet(wire))
    /\ connection_status \in Early \cup {"HANDSHAKE", "OPEN"} =>
          NoClose({out_event} \cup ToSet(output_events))
    /\ connection_status = "CLIENT_WANTS_TO_CLOSE" =>
          dropping /\ ClosingLine(wire, out_event, output_events)
    /\ Final(wire)

EndInv == FirstInv /\ CloseInv

LEMMA Harmlessness ==
    /\ NoClose({NoData}) /\ Harmless({NoData})
    /\ \A n : /\ NoClose({Make("TORN", n)}) /\ Harmless({Make("TORN", n)})
              /\ NoClose({Make("PONG", n)}) /\ Harmless({Make("PONG", n)})
              /\ NoClose({Make("REQUEST", n)})
    /\ \A x : IsData(x) => NoClose({x})
    /\ \A S, T : /\ NoClose(S \cup T) <=> NoClose(S) /\ NoClose(T)
                 /\ Harmless(S \cup T) <=> Harmless(S) /\ Harmless(T)
<1>1. /\ NoClose({NoData}) /\ Harmless({NoData})
      /\ \A n : /\ NoClose({Make("TORN", n)}) /\ Harmless({Make("TORN", n)})
                /\ NoClose({Make("PONG", n)}) /\ Harmless({Make("PONG", n)})
                /\ NoClose({Make("REQUEST", n)})
      /\ \A x : IsData(x) => NoClose({x})
  BY DEF NoClose, Harmless, AfterCloses, NoData, Make, IsData, DataOps
<1>2. \A S, T : /\ NoClose(S \cup T) <=> NoClose(S) /\ NoClose(T)
                /\ Harmless(S \cup T) <=> Harmless(S) /\ Harmless(T)
  BY Zenon DEF NoClose, Harmless
<1> QED
  BY <1>1, <1>2

LEMMA ClosingPops ==
    ASSUME NEW w \in Seq(Item), NEW q \in Seq(Item), q # <<>>, ClosingLine(w, NoData, q)
    PROVE  ClosingLine(w, Head(q), Tail(q))
<1> DEFINE x == Head(q)
           t == Tail(q)
<1>1. x \in Item /\ t \in Seq(Item) /\ q = <<x>> \o t /\ ToSet(q) = {x} \cup ToSet(t)
  BY ItemsOfQueue, HeadTailProperties
<1> HIDE DEF x, t
<1>2. Final(t) /\ (NoClose({x}) \/ Harmless(ToSet(t)))
  BY <1>1, FinalPrefixed DEF ClosingLine
<1>3. NoClose(ToSet(w)) \/ Harmless({x} \cup ToSet(t))
  BY <1>1, Harmlessness, Zenon DEF ClosingLine
<1>4. ClosingLine(w, x, t)
  BY <1>2, <1>3 DEF ClosingLine
<1> QED
  BY <1>4 DEF x, t

LEMMA ClosingAnswersPing ==
    ASSUME NEW w \in Seq(Item), NEW x \in Item, NEW q \in Seq(Item), NEW n \in Nat,
           ClosingLine(w, x, q)
    PROVE  ClosingLine(w, x, <<Make("PONG", n)>> \o q)
<1> DEFINE pong == Make("PONG", n)
<1>1. pong \in Item /\ NoClose({pong}) /\ Harmless({pong})
  BY OtherItems, Harmlessness
<1> HIDE DEF pong
<1>2. ToSet(<<pong>> \o q) = {pong} \cup ToSet(q)
  BY <1>1, ItemsOfPrefixed
<1>3. Final(<<pong>> \o q)
  BY <1>1, FinalPrefixed DEF ClosingLine
<1>4. /\ NoClose(ToSet(w)) \/ Harmless({x} \cup ({pong} \cup ToSet(q)))
      /\ NoClose({x}) \/ Harmless({pong} \cup ToSet(q))
  BY <1>1, Harmlessness, Zenon DEF ClosingLine
<1>5. ClosingLine(w, x, <<pong>> \o q)
  BY <1>2, <1>3, <1>4 DEF ClosingLine
<1> QED
  BY <1>5 DEF pong

LEMMA ClosingDrops ==
    ASSUME NEW w \in Seq(Item), NEW x \in Item, NEW q \in Seq(Item), ClosingLine(w, x, q)
    PROVE  ClosingLine(w, NoData, q)
BY Harmlessness, Zenon DEF ClosingLine

LEMMA ClosingWrites ==
    ASSUME NEW w \in Seq(Item), NEW x \in Item, NEW q \in Seq(Item), ClosingLine(w, x, q)
    PROVE  /\ ClosingLine(Append(w, x), NoData, q)
           /\ ClosingLine(w, NoData, <<x>> \o q)
           /\ ClosingLine(Append(w, Make("TORN", x.val)), NoData, <<x>> \o q)
<1> DEFINE torn == Make("TORN", x.val)
<1>1. /\ torn \in Item /\ NoClose({torn}) /\ Harmless({torn})
      /\ NoClose({NoData}) /\ Harmless({NoData})
  BY OtherItems, Harmlessness DEF Item
<1> HIDE DEF torn
<1>2. /\ ToSet(Append(w, x)) = ToSet(w) \cup {x}
      /\ ToSet(Append(w, torn)) = ToSet(w) \cup {torn}
      /\ ToSet(<<x>> \o q) = {x} \cup ToSet(q)
  BY <1>1, ItemsOfAppend, ItemsOfPrefixed
<1>3. Final(Append(w, x)) /\ Final(Append(w, torn)) /\ Final(<<x>> \o q)
  <2>1. NoClose(ToSet(w)) \/ Harmless({x})
    BY Harmlessness, Zenon DEF ClosingLine
  <2> QED
    BY <1>1, <2>1, FinalAppend, FinalPrefixed DEF ClosingLine
<1>4. ClosingLine(Append(w, x), NoData, q)
  <2>1. NoClose(ToSet(w) \cup {x}) \/ Harmless({NoData} \cup ToSet(q))
    BY <1>1, Harmlessness, Zenon DEF ClosingLine
  <2> QED
    BY <1>1, <1>2, <1>3, <2>1 DEF ClosingLine
<1>5. NoClose(ToSet(w)) \/ Harmless({NoData} \cup ({x} \cup ToSet(q)))
  BY <1>1, Harmlessness, Zenon DEF ClosingLine
<1>6. NoClose(ToSet(w) \cup {torn}) \/ Harmless({NoData} \cup ({x} \cup ToSet(q)))
  BY <1>1, <1>5, Harmlessness, Zenon
<1>7. ClosingLine(w, NoData, <<x>> \o q)
  BY <1>1, <1>2, <1>3, <1>5 DEF ClosingLine
<1>8. ClosingLine(Append(w, torn), NoData, <<x>> \o q)
  BY <1>1, <1>2, <1>3, <1>6 DEF ClosingLine
<1> QED
  BY <1>4, <1>7, <1>8 DEF torn

LEMMA EndTypes ==
    EndInv => /\ TypeOK /\ wire \in Seq(Item) /\ out_event \in Item
              /\ output_events \in Seq(Item) /\ out_event.val \in Nat
              /\ in_event.val \in Nat
BY DEF EndInv, FirstInv, IInv, TypeOK, ConnTypeOK, Item

\* No later init can make the connection the first one.
LEMMA StillOnce ==
    ASSUME TypeOK, inits' \in {inits, inits + 1}, Once'
    PROVE  Once /\ (inits' = inits + 1 => inits = 0)
<1>1. inits \in Nat
  BY DEF TypeOK
<1> QED
  BY <1>1, SMT DEF Once

LEMMA ProgramKeepsClose ==
    ASSUME EndInv,
           Program \/ drop_ends \/ Tick \/ event_loop_idle \/ read_fails \/ UNCHANGED vars
    PROVE  CloseInv'
<1> SUFFICES ASSUME Once' PROVE CloseInv'
  BY DEF CloseInv
<1>1. /\ UNCHANGED <<wire, out_event>>
      /\ \A x \in ToSet(output_events') :
            \/ x \in ToSet(output_events)
            \/ IsData(x)
            \/ x = Make("CLOSE", 1000) /\ connection_status' = "CLIENT_WANTS_TO_CLOSE"
      /\ \/ /\ UNCHANGED <<connection_status, inits, dropping>>
            /\ dropping => UNCHANGED output_events
         \/ /\ connection_status' = "START_INIT" /\ inits' = inits + 1
            /\ UNCHANGED output_events
         \/ /\ connection_status' = "CLIENT_WANTS_TO_CLOSE" /\ dropping'
            /\ inits' = inits /\ pc = "idle" /\ ~dropping
            /\ connection_status \notin {"NOT_INIT", "HANDSHAKE", "CLOSE"}
            /\ output_events' = <<Make("CLOSE", 1000)>>
  BY ProgramEffect, EndTypes
<1>2. Once /\ (inits' = inits + 1 => inits = 0)
  BY <1>1, StillOnce, EndTypes
<1>3. CASE /\ UNCHANGED <<connection_status, inits, dropping>>
           /\ dropping => UNCHANGED output_events
  <2>1. connection_status # "CLIENT_WANTS_TO_CLOSE" /\ NoClose({out_event} \cup ToSet(output_events))
          => NoClose({out_event'} \cup ToSet(output_events'))
    BY <1>1, <1>3, Harmlessness DEF NoClose
  <2> QED
    BY <1>1, <1>2, <1>3, <2>1 DEF EndInv, CloseInv, Early
<1>4. CASE /\ connection_status' = "START_INIT" /\ inits' = inits + 1 /\ UNCHANGED output_events
  <2>1. connection_status = "NOT_INIT"
    BY <1>2, <1>4 DEF EndInv, FirstInv, OnceInv
  <2> QED
    BY <1>1, <1>2, <1>4, <2>1 DEF EndInv, CloseInv, Early
<1>5. CASE /\ connection_status' = "CLIENT_WANTS_TO_CLOSE" /\ dropping'
           /\ pc = "idle" /\ ~dropping
           /\ connection_status \notin {"NOT_INIT", "HANDSHAKE", "CLOSE"}
           /\ output_events' = <<Make("CLOSE", 1000)>>
  <2>1. out_event' = NoData
    BY <1>1, <1>5, EndTypes DEF TypeOK
  <2>2. NoClose(ToSet(wire)) /\ Final(wire)
    BY <1>2, <1>5 DEF EndInv, CloseInv
  <2>3. Make("CLOSE", 1000) \in Item
    BY OtherItems
  <2>4. ClosingLine(wire', out_event', output_events')
    BY <1>1, <1>5, <2>1, <2>2, <2>3, FinalOne, Harmlessness DEF ClosingLine
  <2> QED
    BY <1>1, <1>5, <2>2, <2>4 DEF CloseInv, Early
<1> QED
  BY <1>1, <1>3, <1>4, <1>5

LEMMA ReadKeepsClose == ASSUME EndInv, read_bytes_from_socket PROVE CloseInv'
<1> SUFFICES ASSUME Once' PROVE CloseInv'
  BY DEF CloseInv
<1>1. /\ UNCHANGED <<wire, connection_status, inits, dropping>>
      /\ {out_event'} \cup ToSet(output_events') \subseteq ToSet(output_events) \cup {NoData}
  BY ReadEffect, EndTypes
<1>2. Once
  BY <1>1 DEF Once
<1>3. NoClose({out_event} \cup ToSet(output_events))
        => NoClose({out_event'} \cup ToSet(output_events'))
  BY <1>1, Harmlessness DEF NoClose
<1>4. ClosingLine(wire, out_event, output_events)
        => ClosingLine(wire, out_event', output_events')
  <2>1. CASE UNCHANGED <<out_event, output_events>>
    BY <2>1
  <2>2. CASE /\ output_events # <<>> /\ out_event = NoData
             /\ out_event' = Head(output_events) /\ output_events' = Tail(output_events)
    BY <2>2, ClosingPops, EndTypes
  <2> QED
    BY <2>1, <2>2, ReadPops, EndTypes
<1> QED
  BY <1>1, <1>2, <1>3, <1>4 DEF EndInv, CloseInv

LEMMA InputKeepsClose ==
    ASSUME EndInv, QuietDrop, handle_input
    PROVE  CloseInv'
<1> SUFFICES ASSUME Once' PROVE CloseInv'
  BY DEF CloseInv
<1>1. /\ UNCHANGED <<wire, dropping>> /\ pc = "input"
      /\ out_event' \in {out_event, NoData}
      /\ \/ UNCHANGED <<connection_status, inits>>
         \/ connection_status' = "START_INIT" /\ inits' = inits + 1
         \/ /\ connection_status = "HANDSHAKE" /\ connection_status' = "OPEN" /\ UNCHANGED inits
         \/ /\ connection_status = "OPEN" /\ in_event.op = "CLOSE" /\ UNCHANGED inits
            /\ connection_status' = "SERVER_WANTS_TO_CLOSE"
         \/ /\ connection_status = "CLIENT_WANTS_TO_CLOSE" /\ UNCHANGED inits
            /\ connection_status' = "CLOSE"
  BY InputEffect, EndTypes
<1>2. Once /\ (inits' = inits + 1 => inits = 0)
  BY <1>1, StillOnce, EndTypes
<1>3. inits # 0
  BY <1>1 DEF EndInv, FirstInv, IInv, StatusInv, OnceInv, Active
<1>4. \/ output_events' = output_events
      \/ /\ ~dropping
         /\ \A x \in ToSet(output_events') : x \in ToSet(output_events) \/ IsData(x)
      \/ output_events' = <<Make("PONG", in_event.val)>> \o output_events
      \/ connection_status' = "SERVER_WANTS_TO_CLOSE"
  BY InputQueues, EndTypes DEF Pong
<1>5. connection_status' # "SERVER_WANTS_TO_CLOSE" /\ NoClose({out_event} \cup ToSet(output_events))
        => NoClose({out_event'} \cup ToSet(output_events'))
  <2>1. CASE output_events' = output_events
    BY <1>1, <2>1, Harmlessness
  <2>2. CASE output_events' = <<Make("PONG", in_event.val)>> \o output_events
    <3>1. ToSet(output_events') = {Make("PONG", in_event.val)} \cup ToSet(output_events)
      BY <2>2, EndTypes, OtherItems, ItemsOfPrefixed
    <3>2. NoClose({Make("PONG", in_event.val)}) /\ NoClose({NoData})
      BY Harmlessness
    <3> QED
      BY <1>1, <3>1, <3>2, Zenon DEF NoClose
  <2>3. CASE \A x \in ToSet(output_events') : x \in ToSet(output_events) \/ IsData(x)
    <3>1. \A x : IsData(x) => x.op # "CLOSE"
      BY DEF IsData, DataOps
    <3>2. NoClose({NoData})
      BY Harmlessness
    <3> QED
      BY <1>1, <2>3, <3>1, <3>2, Zenon DEF NoClose
  <2> QED
    BY <1>4, <2>1, <2>2, <2>3
<1>6. connection_status' # "SERVER_WANTS_TO_CLOSE" /\ dropping
        /\ ClosingLine(wire, out_event, output_events)
        => ClosingLine(wire, out_event', output_events')
  <2> SUFFICES ASSUME connection_status' # "SERVER_WANTS_TO_CLOSE", dropping,
                      ClosingLine(wire, out_event, output_events)
               PROVE  ClosingLine(wire, out_event', output_events')
    OBVIOUS
  <2>1. ClosingLine(wire, out_event', output_events)
    BY <1>1, EndTypes, ClosingDrops
  <2>2. out_event' \in Item
    BY <1>1, EndTypes, NoDataType
  <2> QED
    BY <1>4, <2>1, <2>2, EndTypes, ClosingAnswersPing
<1> QED
  BY <1>1, <1>2, <1>3, <1>5, <1>6 DEF EndInv, CloseInv, Early

LEMMA OutputKeepsClose == ASSUME EndInv, handle_output PROVE CloseInv'
<1> SUFFICES ASSUME Once' PROVE CloseInv'
  BY DEF CloseInv
<1>1. /\ pc = "output" /\ out_event' = NoData /\ UNCHANGED dropping
      /\ \/ UNCHANGED <<connection_status, inits>>
         \/ connection_status' = "CLOSE" /\ UNCHANGED inits
         \/ connection_status' = "START_INIT" /\ inits' = inits + 1
  BY OutputEffect, EndTypes
<1>2. Once /\ (inits' = inits + 1 => inits = 0)
  BY <1>1, StillOnce, EndTypes
<1>3. Writable => connection_status # "CLOSE"
  BY <1>1 DEF EndInv, FirstInv, IInv, StatusInv, Writable
<1>4. /\ ToSet(Append(wire, out_event)) = ToSet(wire) \cup {out_event}
      /\ ToSet(Append(wire, Make("TORN", out_event.val)))
           = ToSet(wire) \cup {Make("TORN", out_event.val)}
      /\ ToSet(<<out_event>> \o output_events) = {out_event} \cup ToSet(output_events)
      /\ NoClose(ToSet(wire)) => /\ Final(Append(wire, out_event))
                                 /\ Final(Append(wire, Make("TORN", out_event.val)))
      /\ Final(wire) => Final(Append(wire, Make("TORN", out_event.val)))
  BY EndTypes, OtherItems, ItemsOfAppend, ItemsOfPrefixed, FinalAppend, NoCloses, Harmlessness
<1>5. CASE /\ wire' = Append(wire, out_event) /\ Writable /\ ~Completes
           /\ UNCHANGED <<connection_status, output_events>>
  <2>1. connection_status \in {"SERVER_WANTS_TO_CLOSE", "NOT_INIT", "START_INIT", "HANDSHAKE", "OPEN"}
          => NoClose({out_event})
    BY <1>2, <1>5, Harmlessness
       DEF EndInv, CloseInv, Completes, IsControl, ControlOps, NoClose, Early
  <2>2. connection_status # "CLIENT_WANTS_TO_CLOSE" => NoClose(ToSet(wire')) /\ Final(wire')
    <3>1. connection_status \in ConnectionStatus
      BY EndTypes DEF TypeOK
    <3> QED
      BY <1>2, <1>3, <1>4, <1>5, <2>1, <3>1, Harmlessness
         DEF EndInv, CloseInv, ConnectionStatus
  <2>3. NoClose({out_event} \cup ToSet(output_events))
          => NoClose({out_event'} \cup ToSet(output_events'))
    BY <1>1, <1>5, Harmlessness
  <2>4. ClosingLine(wire, out_event, output_events)
          => ClosingLine(wire', out_event', output_events') /\ Final(wire')
    <3>1. ClosingLine(wire, out_event, output_events)
            => ClosingLine(wire', out_event', output_events')
      BY <1>1, <1>5, EndTypes, ClosingWrites
    <3> QED
      BY <3>1 DEF ClosingLine
  <2> QED
    BY <1>1, <1>2, <1>3, <1>5, <2>2, <2>3, <2>4 DEF EndInv, CloseInv
<1>6. CASE /\ wire' = Append(wire, out_event) /\ Completes
           /\ connection_status' \in {"CLOSE", "START_INIT"}
  <2>1. NoClose(ToSet(wire)) /\ inits # 0
    BY <1>2, <1>6 DEF EndInv, FirstInv, OnceInv, CloseInv, Completes
  <2>2. connection_status' = "CLOSE"
    BY <1>1, <1>2, <1>6, <2>1 DEF Completes
  <2> QED
    BY <1>4, <1>6, <2>1, <2>2 DEF CloseInv, Early
<1>7. CASE /\ wire' = wire \/ wire' = Append(wire, Make("TORN", out_event.val))
           /\ output_events' = <<out_event>> \o output_events
           /\ UNCHANGED connection_status
  <2>1. NoClose(ToSet(wire)) => NoClose(ToSet(wire'))
    <3>1. NoClose({Make("TORN", out_event.val)})
      BY Harmlessness
    <3> QED
      BY <1>4, <1>7, <3>1, Zenon DEF NoClose
  <2>2. Final(wire) => Final(wire')
    BY <1>4, <1>7
  <2>3. NoClose({out_event} \cup ToSet(output_events))
          => NoClose({out_event'} \cup ToSet(output_events'))
    BY <1>1, <1>4, <1>7, Harmlessness
  <2>4. ClosingLine(wire, out_event, output_events)
          => ClosingLine(wire', out_event', output_events')
    BY <1>1, <1>7, EndTypes, ClosingWrites
  <2> QED
    BY <1>1, <1>2, <1>7, <2>1, <2>2, <2>3, <2>4 DEF EndInv, CloseInv
<1>8. CASE UNCHANGED <<wire, output_events, connection_status>>
  <2>1. NoClose({out_event} \cup ToSet(output_events))
          => NoClose({out_event'} \cup ToSet(output_events'))
    BY <1>1, <1>8, Harmlessness
  <2>2. ClosingLine(wire, out_event, output_events)
          => ClosingLine(wire', out_event', output_events')
    BY <1>1, <1>8, EndTypes, ClosingDrops
  <2> QED
    BY <1>1, <1>2, <1>8, <2>1, <2>2 DEF EndInv, CloseInv
<1> QED
  BY <1>5, <1>6, <1>7, <1>8, OutputQueues, EndTypes

LEMMA StartKeepsClose == ASSUME EndInv, start_init PROVE CloseInv'
<1> SUFFICES ASSUME Once' PROVE CloseInv'
  BY DEF CloseInv
<1>1. UNCHANGED <<out_event, inits>> /\ connection_status = "START_INIT"
  BY DEF start_init
<1>2. /\ Once /\ NoClose(ToSet(wire)) /\ NoClose({out_event} \cup ToSet(output_events))
      /\ Final(wire)
  BY <1>1 DEF EndInv, CloseInv, Once, Early
<1>3. CASE Unreachable
  BY <1>1, <1>2, <1>3 DEF Unreachable, CloseInv
<1>4. ASSUME output_events' = <<Make("REQUEST", websocket_key + 1)>> \o output_events,
             connection_status' \in {"START_INIT", "HANDSHAKE"},
             wire' = wire \/ wire' = <<>>
      PROVE  CloseInv'
  <2>1. websocket_key + 1 \in Nat
    BY EndTypes, SMT DEF TypeOK
  <2>2. ToSet(output_events') = {Make("REQUEST", websocket_key + 1)} \cup ToSet(output_events)
    BY <1>4, <2>1, EndTypes, OtherItems, ItemsOfPrefixed
  <2>3. NoClose({out_event'} \cup ToSet(output_events'))
    <3>1. NoClose({Make("REQUEST", websocket_key + 1)})
      BY Harmlessness
    <3> QED
      BY <1>1, <1>2, <2>2, <3>1, Zenon DEF NoClose
  <2>4. NoClose(ToSet(wire')) /\ Final(wire')
    BY <1>2, <1>4, NoCloses, FinalNone
  <2> QED
    BY <1>4, <2>3, <2>4 DEF CloseInv
<1>5. CASE StaysBlocking
  BY <1>1, <1>4, <1>5 DEF StaysBlocking
<1>6. CASE Connects
  BY <1>4, <1>6 DEF Connects
<1> QED
  BY <1>3, <1>5, <1>6 DEF start_init

LEMMA InitEnd == Init => EndInv
<1> SUFFICES ASSUME Init PROVE CloseInv
  BY InitFirst DEF EndInv
<1>1. /\ wire = <<>> /\ out_event = NoData /\ output_events = <<>>
      /\ connection_status = "NOT_INIT"
  BY DEF Init, ConnInit
<1> QED
  BY <1>1, NoCloses, FinalNone, Harmlessness DEF CloseInv

LEMMA NextEnd ==
    ASSUME EndInv, [Next]_vars, QuietDrop
    PROVE  EndInv'
<1> SUFFICES CloseInv'
  BY NextFirst DEF EndInv
<1>1. CASE Server
  <2>1. UNCHANGED <<wire, out_event, output_events, connection_status, inits, dropping>>
    BY <1>1, ServerEffect, EndTypes
  <2> QED
    BY <2>1 DEF EndInv, CloseInv, Once
<1> QED
  BY <1>1, ProgramKeepsClose, ReadKeepsClose, InputKeepsClose, OutputKeepsClose,
     StartKeepsClose DEF Next, event_loop

\* A callback that does not send leaves nothing for Drop to queue.
LEMMA QuietCallback ==
    ASSUME TypeOK, "send" \notin CallbackOps, [Next]_vars
    PROVE  QuietDrop
<1> SUFFICES ASSUME dropping PROVE UNCHANGED queued
  BY DEF QuietDrop
<1>1. \A event, status, outs, next : Report(event, status, outs, next) => UNCHANGED queued
  BY DEF Report
<1>2. CASE handle_input
  BY <1>1, <1>2
     DEF handle_input, handle_recv_frame, handle_recv_http_response, recv_ping,
         recv_pong, recv_undefined, recv_close_from_server, recv_close_answer,
         recv_close_ignored
<1>3. CASE handle_output
  BY <1>1, <1>3
     DEF handle_output, write_sent, write_sent_closing, write_sent_shutdown_fails,
         write_blocks, write_fails
<1>4. CASE Program \/ drop_ends \/ Tick \/ event_loop_idle \/ read_fails \/ UNCHANGED vars
  BY <1>4 DEF Program, init, set_message_size, set_timeout, Send, drop_now, drop, drop_ends,
              Tick, event_loop_idle, read_fails, InProgram, vars
<1>5. CASE read_bytes_from_socket \/ start_init \/ Server
  BY <1>5 DEF read_bytes_from_socket, start_init, Server
<1> QED
  BY <1>2, <1>3, <1>4, <1>5 DEF Next, event_loop

\* As long as the callback does not send to a client that is being dropped,
\* there is no data frame and no second Close behind our Close on the first
\* connection, whoever began to close, and when both did: a program that drops
\* the client while the server's Close is being answered, texts that a callback
\* sends to a server that is closing, a Close put back by a write that blocks,
\* and a PONG that jumps the queue keep it so (client.rs 485-500, 530-550).
THEOREM CloseIsLast ==
    Spec /\ [][QuietDrop]_vars => [](inits <= 1 => NothingAfterClose)
<1>1. EndInv /\ [Next]_vars /\ [QuietDrop]_vars => EndInv'
  <2>1. UNCHANGED vars => QuietDrop
    BY DEF vars, QuietDrop
  <2> QED
    BY <2>1, NextEnd
<1>2. EndInv => (inits <= 1 => NothingAfterClose)
  <2> SUFFICES ASSUME EndInv, Once PROVE NothingAfterClose
    BY DEF Once
  <2>1. Final(wire) /\ DOMAIN wire = 1 .. Len(wire)
    BY EndTypes, LenProperties DEF EndInv, CloseInv
  <2> QED
    BY <2>1 DEF Final, AfterCloses, NothingAfterClose
<1> QED
  BY <1>1, <1>2, InitEnd, PTL DEF Spec

\* A callback that never sends needs no other condition.
THEOREM QuietIsLast ==
    ASSUME "send" \notin CallbackOps
    PROVE  Spec => [](inits <= 1 => NothingAfterClose)
<1>1. TypeOK /\ [Next]_vars => QuietDrop
  BY QuietCallback
<1> QED
  BY <1>1, TypeCorrect, CloseIsLast, PTL DEF Spec

-----------------------------------------------------------------------------
(* What was received, on the first connection *)

\* How many of the server's items were taken out of recv_storage.
taken == rd - Len(recv_storage)

(***************************************************************************)
(* recv_storage holds the last items read, in order.  The first of all was *)
(* the answer to the request, and was taken before the others are read as  *)
(* frames; the one being handled is the last one taken.                    *)
(***************************************************************************)
Received ==
    /\ Len(recv_storage) <= rd
    /\ \A i \in 1 .. Len(recv_storage) : recv_storage[i] = srv_sent[taken + i]
    /\ connection_status = "HANDSHAKE" /\ pc = "input" =>
          recv_storage = <<>> /\ in_event.op = "RESPONSE"
    /\ connection_status \notin Early \cup {"HANDSHAKE"} => taken >= 1
    /\ pc = "input" /\ connection_status # "HANDSHAKE" =>
          /\ taken >= 2 /\ in_event = srv_sent[taken]
          /\ IsControl(in_event) => in_event.val # 0

ReceivedInv == FirstInv /\ (Once => Received)

LEMMA ReceivedTypes ==
    TypeOK => /\ recv_storage \in Seq(Item) /\ srv_sent \in Seq(Item)
              /\ Len(recv_storage) \in Nat /\ Len(srv_sent) \in Nat
              /\ rd \in Nat /\ rd <= Len(srv_sent) /\ taken \in Int
<1> SUFFICES ASSUME TypeOK
             PROVE  /\ recv_storage \in Seq(Item) /\ srv_sent \in Seq(Item)
                    /\ Len(recv_storage) \in Nat /\ Len(srv_sent) \in Nat
                    /\ rd \in Nat /\ rd <= Len(srv_sent) /\ taken \in Int
  OBVIOUS
<1>1. /\ recv_storage \in Seq(Item) /\ srv_sent \in Seq(Item)
      /\ Len(recv_storage) \in Nat /\ Len(srv_sent) \in Nat /\ rd \in 0 .. Len(srv_sent)
  BY LenProperties DEF TypeOK, ConnTypeOK
<1> QED
  BY <1>1, SMT DEF taken

\* What the first step of event_loop takes out of recv_storage and what has
\* arrived: nothing, the response in the handshake, or the frame at the head.
LEMMA ReadTakes ==
    ASSUME TypeOK, read_bytes_from_socket
    PROVE  \E k \in Readable :
             LET storage == recv_storage \o Arrived(k)
             IN  /\ rd' = rd + k
                 /\ \/ recv_storage' = storage /\ pc' # "input"
                    \/ /\ connection_status = "HANDSHAKE"
                       /\ recv_storage' = <<>> /\ in_event'.op = "RESPONSE"
                    \/ /\ connection_status # "HANDSHAKE" /\ storage # <<>>
                       /\ \/ Head(storage).op = "RESPONSE"
                          \/ /\ recv_storage' = Tail(storage) /\ pc' = "input"
                             /\ in_event' = Head(storage)
                             /\ IsControl(in_event') => in_event'.val # 0
<1>1. PICK k \in Readable :
        /\ rd' = rd + k
        /\ IF connection_status = "HANDSHAKE"
           THEN handle_recv_bytes_http_response(recv_storage \o Arrived(k))
           ELSE handle_recv_bytes_frame(recv_storage \o Arrived(k))
  BY DEF read_bytes_from_socket
<1> DEFINE storage == recv_storage \o Arrived(k)
           Takes ==
             \/ recv_storage' = storage /\ pc' # "input"
             \/ /\ connection_status = "HANDSHAKE"
                /\ recv_storage' = <<>> /\ in_event'.op = "RESPONSE"
             \/ /\ connection_status # "HANDSHAKE" /\ storage # <<>>
                /\ \/ Head(storage).op = "RESPONSE"
                   \/ /\ recv_storage' = Tail(storage) /\ pc' = "input"
                      /\ in_event' = Head(storage)
                      /\ IsControl(in_event') => in_event'.val # 0
<1>2. pc = "idle"
  BY DEF read_bytes_from_socket, Calls
<1>3. ASSUME NEW event, NEW rest, Take(event, rest)
      PROVE  /\ in_event' = event /\ recv_storage' = rest
             /\ event = NoData => pc' # "input"
             /\ event # NoData => pc' = "input"
  BY <1>3 DEF Take
<1>4. IF connection_status = "HANDSHAKE"
      THEN handle_recv_bytes_http_response(storage)
      ELSE handle_recv_bytes_frame(storage)
  BY <1>1
<1> HIDE DEF storage
<1>5. ASSUME connection_status = "HANDSHAKE" PROVE Takes
  <2>1. CASE Take(NoData, storage) \/ Panics(storage)
    BY <1>3, <2>1 DEF Panics
  <2>2. ASSUME NEW i \in Responses(storage), Take(storage[i], <<>>) PROVE Takes
    <3>1. in_event' = storage[i] /\ recv_storage' = <<>>
      BY <1>3, <2>2
    <3>2. storage[i].op = "RESPONSE"
      BY <2>2 DEF Responses
    <3> QED
      BY <1>5, <3>1, <3>2
  <2> QED
    BY <1>4, <1>5, <2>1, <2>2 DEF handle_recv_bytes_http_response
<1>6. ASSUME connection_status # "HANDSHAKE" PROVE Takes
  <2>1. CASE Take(NoData, storage)
    BY <1>3, <2>1
  <2>2. CASE Panics(storage) \/ (recv_storage' = storage /\ UNCHANGED pc)
    BY <1>2, <2>2 DEF Panics
  <2>3. CASE storage # <<>> /\ Head(storage).op = "RESPONSE"
    BY <1>6, <2>3
  <2>4. CASE /\ storage # <<>> /\ Take(Head(storage), Tail(storage))
             /\ IsData(Head(storage)) \/ (IsControl(Head(storage)) /\ Head(storage).val # 0)
    <3>1. IsControl(Head(storage)) => Head(storage).val # 0
      BY <2>4 DEF IsData, IsControl, DataOps, ControlOps
    <3>2. Head(storage) # NoData
      BY <2>4 DEF IsData, IsControl, DataOps, ControlOps, NoData, Make
    <3>3. in_event' = Head(storage) /\ recv_storage' = Tail(storage) /\ pc' = "input"
      BY <1>3, <2>4, <3>2
    <3> QED
      BY <1>6, <2>4, <3>1, <3>3
  <2> QED
    BY <1>4, <1>6, <2>1, <2>2, <2>3, <2>4 DEF handle_recv_bytes_frame
<1>7. Takes
  BY <1>5, <1>6
<1> QED
  BY <1>1, <1>7 DEF storage

\* What has arrived continues what was kept.
LEMMA ArrivedInOrder ==
    ASSUME TypeOK, Received, NEW k \in Readable
    PROVE  LET storage == recv_storage \o Arrived(k)
           IN  /\ storage \in Seq(Item) /\ Len(storage) \in Nat
               /\ Len(storage) = Len(recv_storage) + k
               /\ Len(storage) <= rd + k /\ (rd + k) - Len(storage) = taken
               /\ \A i \in 1 .. Len(storage) : storage[i] = srv_sent[taken + i]
<1> DEFINE arrived == Arrived(k)
           storage == recv_storage \o arrived
<1>1. /\ k \in Nat /\ arrived \in Seq(Item) /\ Len(arrived) = k
      /\ \A i \in 1 .. k : arrived[i] = srv_sent[rd + i]
  BY ArrivedEffect
<1>2. /\ recv_storage \in Seq(Item) /\ Len(recv_storage) \in Nat /\ rd \in Nat
      /\ taken \in Int
  BY ReceivedTypes
<1> HIDE DEF arrived
<1>3. /\ storage \in Seq(Item) /\ Len(storage) = Len(recv_storage) + k
      /\ \A i \in 1 .. Len(recv_storage) : storage[i] = recv_storage[i]
      /\ \A i \in 1 .. k : storage[Len(recv_storage) + i] = arrived[i]
      /\ \A j \in 1 .. Len(storage) :
            j \in 1 .. Len(recv_storage) \/ \E i \in 1 .. k : j = Len(recv_storage) + i
  BY <1>1, <1>2, ConcatItems
<1> HIDE DEF storage
<1>4. /\ Len(storage) \in Nat /\ Len(storage) <= rd + k /\ (rd + k) - Len(storage) = taken
      /\ \A i \in 1 .. k : rd + i = taken + (Len(recv_storage) + i)
  <2>1. Len(recv_storage) <= rd
    BY DEF Received
  <2> QED
    BY <1>1, <1>2, <1>3, <2>1, SMT DEF taken
<1>5. \A i \in 1 .. Len(storage) : storage[i] = srv_sent[taken + i]
  <2>1. \A i \in 1 .. Len(recv_storage) : storage[i] = srv_sent[taken + i]
    BY <1>3 DEF Received
  <2>2. \A i \in 1 .. k : storage[Len(recv_storage) + i] = srv_sent[taken + (Len(recv_storage) + i)]
    BY <1>1, <1>3, <1>4
  <2> QED
    BY <1>3, <2>1, <2>2
<1> QED
  BY <1>3, <1>4, <1>5 DEF storage, arrived

\* The response was taken in the handshake: only frames are behind it.
LEMMA NoResponseBehind ==
    ASSUME FirstInv, Received, connection_status \in Active, connection_status # "HANDSHAKE",
           NEW k \in Readable, recv_storage \o Arrived(k) # <<>>
    PROVE  Head(recv_storage \o Arrived(k)).op # "RESPONSE"
<1> DEFINE storage == recv_storage \o Arrived(k)
<1>1. TypeOK /\ taken \in Int /\ taken >= 1 /\ rd \in Nat
  BY ReceivedTypes DEF FirstInv, IInv, Received, Early, Active
<1>2. /\ storage \in Seq(Item) /\ Len(storage) \in Nat
      /\ (rd + k) - Len(storage) = taken /\ rd + k \in Nat
      /\ \A i \in 1 .. Len(storage) : storage[i] = srv_sent[taken + i]
  BY <1>1, ArrivedInOrder, ArrivedEffect
<1>3. rd + k <= Len(srv_sent) /\ Len(srv_sent) \in Nat
  BY <1>1, ArrivedEffect, ReceivedTypes
<1>4. storage # <<>>
  OBVIOUS
<1> HIDE DEF storage
<1>5. Len(storage) >= 1 /\ Head(storage) = storage[1]
  BY <1>2, <1>4
<1>6. /\ 1 \in 1 .. Len(storage)
      /\ taken + 1 \in 1 .. Len(srv_sent) /\ taken + 1 # 1
  BY <1>1, <1>2, <1>3, <1>5, SMT
<1>7. Head(storage).op # "RESPONSE"
  BY <1>2, <1>5, <1>6 DEF FirstInv, KeyInv, RespondsOnce
<1> QED
  BY <1>7 DEF storage

LEMMA ReadKeepsReceived ==
    ASSUME FirstInv, Received, Once, read_bytes_from_socket
    PROVE  Received'
<1>1. /\ pc = "idle" /\ connection_status \in Active
      /\ UNCHANGED <<srv_sent, connection_status>>
  BY ReadEffect DEF FirstInv, IInv
<1>2. PICK k \in Readable :
        LET storage == recv_storage \o Arrived(k)
        IN  /\ rd' = rd + k
            /\ \/ recv_storage' = storage /\ pc' # "input"
               \/ /\ connection_status = "HANDSHAKE"
                  /\ recv_storage' = <<>> /\ in_event'.op = "RESPONSE"
               \/ /\ connection_status # "HANDSHAKE" /\ storage # <<>>
                  /\ \/ Head(storage).op = "RESPONSE"
                     \/ /\ recv_storage' = Tail(storage)
                        /\ in_event' = Head(storage)
                        /\ IsControl(in_event') => in_event'.val # 0
  BY ReadTakes DEF FirstInv, IInv
<1> DEFINE storage == recv_storage \o Arrived(k)
<1>3. /\ storage \in Seq(Item) /\ Len(storage) \in Nat
      /\ Len(storage) <= rd + k /\ (rd + k) - Len(storage) = taken
      /\ \A i \in 1 .. Len(storage) : storage[i] = srv_sent[taken + i]
  BY ArrivedInOrder DEF FirstInv, IInv
<1>4. /\ rd' = rd + k
      /\ \/ recv_storage' = storage /\ pc' # "input"
         \/ /\ connection_status = "HANDSHAKE"
            /\ recv_storage' = <<>> /\ in_event'.op = "RESPONSE"
         \/ /\ connection_status # "HANDSHAKE" /\ storage # <<>>
            /\ \/ Head(storage).op = "RESPONSE"
               \/ /\ recv_storage' = Tail(storage)
                  /\ in_event' = Head(storage)
                  /\ IsControl(in_event') => in_event'.val # 0
  BY <1>2
<1> HIDE DEF storage
<1>5. /\ connection_status \notin Early /\ taken \in Int /\ rd \in Nat /\ rd + k \in Nat
      /\ taken' = rd' - Len(recv_storage')
  BY <1>1, ReceivedTypes, ArrivedEffect DEF FirstInv, IInv, Early, Active, taken
<1>6. connection_status # "HANDSHAKE" => taken >= 1
  BY <1>5 DEF Received
<1>7. CASE recv_storage' = storage /\ pc' # "input"
  <2>1. taken' = (rd + k) - Len(storage)
    BY <1>4, <1>5, <1>7
  <2>2. taken' = taken
    BY <1>3, <2>1
  <2> QED
    BY <1>1, <1>3, <1>4, <1>5, <1>6, <1>7, <2>2 DEF Received
<1>8. CASE connection_status = "HANDSHAKE" /\ recv_storage' = <<>> /\ in_event'.op = "RESPONSE"
  <2>1. Len(recv_storage') = 0 /\ 1 .. 0 = {} /\ 0 <= rd + k
    BY <1>5, <1>8, SMT
  <2> QED
    BY <1>1, <1>4, <1>8, <2>1 DEF Received
<1>9. connection_status # "HANDSHAKE" /\ storage # <<>> => Head(storage).op # "RESPONSE"
  BY <1>1, NoResponseBehind DEF storage
<1>10. CASE /\ connection_status # "HANDSHAKE" /\ storage # <<>>
            /\ recv_storage' = Tail(storage)
            /\ in_event' = Head(storage)
            /\ IsControl(in_event') => in_event'.val # 0
  <2>1. /\ Len(Tail(storage)) = Len(storage) - 1 /\ Len(storage) >= 1
        /\ Head(storage) = storage[1]
        /\ \A i \in 1 .. Len(Tail(storage)) : Tail(storage)[i] = storage[i + 1]
    <3>1. /\ Len(Tail(storage)) = Len(storage) - 1
          /\ \A i \in 1 .. Len(Tail(storage)) : Tail(storage)[i] = storage[i + 1]
      BY <1>3, <1>10, HeadTailProperties
    <3>2. Len(storage) # 0 /\ Head(storage) = storage[1]
      BY <1>3, <1>10
    <3> QED
      BY <1>3, <3>1, <3>2
  <2>2. /\ taken' = taken + 1 /\ taken' >= 2 /\ Len(recv_storage') <= rd'
        /\ \A i \in 1 .. Len(storage) - 1 : i + 1 \in 1 .. Len(storage)
                                           /\ taken + (i + 1) = taken' + i
        /\ taken + 1 \in 2 .. Len(srv_sent)
    <3>1. Len(recv_storage') = Len(storage) - 1 /\ rd + k <= Len(srv_sent) /\ Len(srv_sent) \in Nat
      BY <1>10, <2>1, ArrivedEffect, ReceivedTypes DEF FirstInv, IInv
    <3>2. taken' = (rd + k) - (Len(storage) - 1) /\ rd' = rd + k
      BY <1>4, <1>5, <3>1
    <3>3. /\ taken \in Int /\ taken >= 1 /\ rd \in Nat /\ rd + k \in Nat
          /\ Len(storage) \in Nat /\ Len(storage) <= rd + k
          /\ (rd + k) - Len(storage) = taken
      BY <1>3, <1>5, <1>6, <1>10
    <3>4. \A t \in Int, l \in Nat, r \in Nat, n \in Nat :
             t >= 1 /\ l >= 1 /\ l <= r /\ r - l = t /\ r <= n =>
                /\ r - (l - 1) = t + 1 /\ t + 1 >= 2 /\ l - 1 <= r /\ t + 1 \in 2 .. n
                /\ \A i \in 1 .. l - 1 : i + 1 \in 1 .. l /\ t + (i + 1) = (t + 1) + i
      BY SMT
    <3>5. /\ (rd + k) - (Len(storage) - 1) = taken + 1 /\ taken + 1 >= 2
          /\ Len(storage) - 1 <= rd + k /\ taken + 1 \in 2 .. Len(srv_sent)
          /\ \A i \in 1 .. Len(storage) - 1 : /\ i + 1 \in 1 .. Len(storage)
                                               /\ taken + (i + 1) = (taken + 1) + i
      BY <2>1, <3>1, <3>3, <3>4
    <3> QED
      BY <3>1, <3>2, <3>5
  <2>3. Head(storage) = srv_sent[taken + 1]
    <3>1. 1 \in 1 .. Len(storage)
      BY <1>3, <2>1, SMT
    <3> QED
      BY <1>3, <2>1, <3>1
  <2>4. \A i \in 1 .. Len(recv_storage') : recv_storage'[i] = srv_sent[taken' + i]
    BY <1>3, <1>10, <2>1, <2>2
  <2> QED
    BY <1>1, <1>10, <2>2, <2>3, <2>4 DEF Received
<1> QED
  BY <1>4, <1>7, <1>8, <1>9, <1>10

LEMMA OtherStepsKeepReceived ==
    ASSUME FirstInv, Received, Once, Once',
           Program \/ drop_ends \/ Tick \/ event_loop_idle \/ read_fails \/ UNCHANGED vars
             \/ handle_input \/ handle_output
    PROVE  Received'
<1>1. UNCHANGED <<srv_sent, rd, recv_storage>> /\ in_event' \in {in_event, NoData}
  BY ProgramEffect, InputEffect, OutputEffect DEF FirstInv, IInv
<1>2. inits # 0 => inits' # inits + 1
  BY SMT DEF FirstInv, IInv, TypeOK, Once
<1>3. taken' = taken
  BY <1>1 DEF taken
<1>4. /\ pc' = "input" => pc = "input" /\ UNCHANGED <<connection_status, in_event>>
      /\ connection_status \in Early => connection_status' \in Early
      /\ connection_status' \in Early => connection_status \in Early
      /\ \/ connection_status \notin Early \cup {"HANDSHAKE"}
         \/ UNCHANGED connection_status
         \/ connection_status' \in Early
         \/ pc = "input" /\ connection_status = "HANDSHAKE" /\ connection_status' = "OPEN"
  <2>1. CASE Program
    <3>1. pc = "idle" /\ pc' # "input"
      <4>1. CASE Send
        <5>1. PICK text \in Texts : send(text, connection_status, output_events, "idle")
          BY <4>1 DEF Send
        <5>2. pc' \in {"idle", "panicked", "diverged"}
          BY <5>1, SendEffect DEF FirstInv, IInv, TypeOK
        <5> QED
          BY <4>1, <5>2 DEF Send, InProgram
      <4> QED
        BY <2>1, <4>1 DEF Program, init, set_message_size, set_timeout, drop_now, drop, InProgram
    <3>2. CASE UNCHANGED connection_status
      BY <3>1, <3>2
    <3>3. CASE connection_status' = "START_INIT" /\ inits' = inits + 1
      BY <1>2, <3>1, <3>3 DEF FirstInv, OnceInv, Early
    <3>4. CASE connection_status' = "CLIENT_WANTS_TO_CLOSE" /\ stream # "None"
               /\ connection_status \notin {"NOT_INIT", "HANDSHAKE", "CLOSE"}
      BY <3>1, <3>4 DEF FirstInv, OnceInv, BeforeFrames, Early
    <3> QED
      BY <2>1, <3>2, <3>3, <3>4, ProgramEffect DEF FirstInv, IInv
  <2>2. CASE drop_ends \/ Tick \/ event_loop_idle \/ read_fails \/ UNCHANGED vars
    <3>1. /\ UNCHANGED <<connection_status, in_event>>
          /\ pc' \in {pc, "panicked", "dropped"}
      BY <2>2 DEF drop_ends, Tick, event_loop_idle, read_fails, vars
    <3> QED
      BY <3>1
  <2>3. CASE handle_input
    <3>1. pc = "input" /\ pc' # "input" /\ connection_status \in Active
      BY <2>3, InputStatus DEF FirstInv, IInv, StatusInv
    <3>2. connection_status \notin Early /\ inits # 0
      BY <3>1 DEF FirstInv, OnceInv, Early, Active
    <3> QED
      BY <1>2, <2>3, <3>1, <3>2, InputEffect DEF FirstInv, IInv, Early
  <2>4. CASE handle_output
    <3>1. pc = "output" /\ pc' # "input" /\ (inits = 0 => connection_status = "NOT_INIT")
      BY <2>4, OutputStatus DEF FirstInv, OnceInv
    <3> QED
      BY <1>2, <2>4, <3>1, OutputEffect DEF FirstInv, IInv, Early
  <2> QED
    BY <2>1, <2>2, <2>3, <2>4
\* The handshake ends with nothing left in recv_storage.
<1>5. pc = "input" /\ connection_status = "HANDSHAKE" /\ connection_status' = "OPEN"
        => taken >= 1
  <2> SUFFICES ASSUME pc = "input", connection_status = "HANDSHAKE", connection_status' = "OPEN"
               PROVE  taken >= 1
    OBVIOUS
  <2>1. Len(recv_storage) = 0
    BY DEF Received
  <2>2. rd > 0
    <3>1. FirstInv'
      BY NextFirst DEF Next, event_loop
    <3> QED
      BY <1>1, <3>1 DEF FirstInv, OnceInv, BeforeFrames, Answered, Early
  <2> QED
    BY <2>1, <2>2, ReceivedTypes, SMT DEF taken, FirstInv, IInv
<1> QED
  BY <1>1, <1>3, <1>4, <1>5 DEF Received, Early

LEMMA StartKeepsReceived ==
    ASSUME FirstInv, Received, Once, start_init
    PROVE  Received'
<1>1. /\ UNCHANGED <<recv_storage, in_event, pc>> /\ connection_status = "START_INIT"
      /\ pc = "idle"
  BY DEF start_init, Calls
<1>2. CASE UNCHANGED <<srv_sent, rd, connection_status>>
  BY <1>1, <1>2 DEF Received, taken
<1>3. CASE Connects
  <2>1. wire = <<>> /\ srv_sent = <<>>
    BY <1>1 DEF FirstInv, OnceInv, BeforeFrames, Early, KeyInv, RespondsOnce
  <2>2. Len(srv_sent) = 0
    BY <2>1
  <2>3. rd = 0 /\ Len(recv_storage) = 0 /\ 1 .. 0 = {}
    BY <2>2, ReceivedTypes, SMT DEF Received, FirstInv, IInv
  <2>4. rd' = 0 /\ connection_status' = "HANDSHAKE"
    BY <1>3 DEF Connects
  <2> QED
    BY <1>1, <2>3, <2>4 DEF Received
<1> QED
  BY <1>2, <1>3 DEF start_init, Unreachable, StaysBlocking

\* What was read stays where it is when the server goes on.
LEMMA ServerAppends ==
    ASSUME TypeOK, Server
    PROVE  /\ Len(srv_sent) <= Len(srv_sent') /\ Len(srv_sent') \in Nat
           /\ \A i \in 1 .. Len(srv_sent) : srv_sent'[i] = srv_sent[i]
<1>1. srv_sent \in Seq(Item) /\ Len(srv_sent) \in Nat
  BY ReceivedTypes
<1>2. CASE srv_sent' = srv_sent
  BY <1>1, <1>2
<1>3. ASSUME NEW x \in Item, srv_sent' = Append(srv_sent, x)
      PROVE  /\ Len(srv_sent) <= Len(srv_sent') /\ Len(srv_sent') \in Nat
             /\ \A i \in 1 .. Len(srv_sent) : srv_sent'[i] = srv_sent[i]
  BY <1>1, <1>3, AppendProperties
<1>4. CASE Respond
  <2>1. srv_sent = <<>> /\ \E x : srv_sent' = <<x>>
    BY <1>4 DEF Respond
  <2>2. Len(srv_sent) = 0 /\ Len(srv_sent') = 1 /\ 1 .. 0 = {}
    BY <2>1
  <2> QED
    BY <2>2
<1> QED
  BY <1>2, <1>3, <1>4, ServerEffect

LEMMA ServerKeepsReceived ==
    ASSUME FirstInv, Received, Server
    PROVE  Received'
<1>1. UNCHANGED <<rd, recv_storage, in_event, connection_status, pc>>
  BY ServerEffect DEF FirstInv, IInv
<1>2. \A i \in 1 .. Len(srv_sent) : srv_sent'[i] = srv_sent[i]
  BY ServerAppends DEF FirstInv, IInv
<1>3. /\ taken' = taken /\ taken \in Int
      /\ Len(recv_storage) <= rd
      /\ Len(recv_storage) \in Nat /\ rd \in Nat /\ rd <= Len(srv_sent) /\ Len(srv_sent) \in Nat
  BY <1>1, ReceivedTypes DEF taken, Received, FirstInv, IInv
<1>4. /\ \A i \in 1 .. Len(recv_storage) : taken + i \in 1 .. Len(srv_sent)
      /\ taken >= 2 => taken \in 1 .. Len(srv_sent)
  BY <1>3, SMT DEF taken
<1> QED
  BY <1>1, <1>2, <1>3, <1>4 DEF Received

LEMMA InitReceived == Init => ReceivedInv
<1> SUFFICES ASSUME Init PROVE Received
  BY InitFirst DEF ReceivedInv
<1>1. /\ recv_storage = <<>> /\ rd = 0 /\ connection_status = "NOT_INIT" /\ pc = "idle"
  BY DEF Init, ConnInit
<1>2. Len(recv_storage) = 0 /\ 1 .. 0 = {}
  BY <1>1, SMT
<1> QED
  BY <1>1, <1>2 DEF Received, Early

LEMMA NextReceived == ReceivedInv /\ [Next]_vars => ReceivedInv'
<1> SUFFICES ASSUME ReceivedInv, [Next]_vars, Once' PROVE Received'
  BY NextFirst DEF ReceivedInv
<1>1. Once
  <2>1. inits' \in {inits, inits + 1}
    BY ProgramEffect, InputEffect, OutputEffect, ReadEffect, ServerEffect
       DEF Next, event_loop, start_init, ReceivedInv, FirstInv, IInv
  <2> QED
    BY <2>1, StillOnce DEF ReceivedInv, FirstInv, IInv
<1> QED
  BY <1>1, OtherStepsKeepReceived, ReadKeepsReceived, StartKeepsReceived, ServerKeepsReceived
     DEF Next, event_loop, ReceivedInv

LEMMA ReceivedInvariance == Spec => []ReceivedInv
BY InitReceived, NextReceived, PTL DEF Spec

\* What event_loop handles was sent by the server on this connection.
LEMMA HandledWasSent ==
    ASSUME ReceivedInv, Once, pc = "input", connection_status # "HANDSHAKE"
    PROVE  /\ taken \in 2 .. rd /\ taken \in 1 .. Len(srv_sent) /\ in_event = srv_sent[taken]
           /\ in_event \in ToSet(srv_sent)
           /\ IsControl(in_event) => in_event.val # 0
<1>1. /\ taken >= 2 /\ in_event = srv_sent[taken] /\ (IsControl(in_event) => in_event.val # 0)
      /\ taken \in Int /\ Len(recv_storage) \in Nat /\ rd \in Nat /\ rd <= Len(srv_sent)
      /\ srv_sent \in Seq(Item) /\ Len(srv_sent) \in Nat
  BY ReceivedTypes DEF ReceivedInv, Received, FirstInv, IInv
<1>2. taken \in 2 .. rd /\ taken \in 1 .. Len(srv_sent)
  BY <1>1, SMT DEF taken
<1> QED
  BY <1>1, <1>2, ItemsOf

-----------------------------------------------------------------------------
(* What the server is answered *)

\* No PING of the server carries two bytes or more: none is answered.
PingsAreEmpty == \A frame \in ServerFrames : frame.op = "PING" => frame.val = 0

Waiting == {out_event} \cup ToSet(output_events)

AnswersClose(item) ==
    \E j \in 1 .. rd : /\ srv_sent[j].op = "CLOSE"
                       /\ item = Make("CLOSE", ReplyStatus(srv_sent[j].val))

NoServerClose == \A i \in 1 .. Len(events) : events[i].kind # "SERVER_CLOSE"

(***************************************************************************)
(* The first control frame written while the server closes ends the        *)
(* connection.  Without a PONG to write it is the answer to a Close that   *)
(* was read, and a close by the server was not reported before.            *)
(***************************************************************************)
AnswerInv == Once =>
    /\ \A x \in ToSet(srv_sent) : x.op = "PING" => x.val = 0
    /\ \A x \in Waiting : IsControl(x) => x.op = "CLOSE"
    /\ connection_status \in Early \cup {"HANDSHAKE", "OPEN"} => NoClose(Waiting)
    /\ connection_status = "SERVER_WANTS_TO_CLOSE" =>
          \A x \in Waiting : x.op = "CLOSE" => AnswersClose(x)
    /\ connection_status # "CLOSE" => NoServerClose
    /\ CloseIsAnswered

AnsweringInv == ReceivedInv /\ AnswerInv

LEMMA AnsweringTypes == AnsweringInv => TypeOK /\ FirstInv /\ StatusInv
BY DEF AnsweringInv, ReceivedInv, FirstInv, IInv

LEMMA Unheard == NoServerClose /\ events \in Seq(WSEvent) => CloseIsAnswered
BY LenProperties DEF NoServerClose, CloseIsAnswered, Reported

LEMMA HeardOneMore ==
    ASSUME events \in Seq(WSEvent), NEW event, events' = Append(events, event), NoServerClose
    PROVE  /\ event.kind # "SERVER_CLOSE" => NoServerClose'
           /\ Len(events') = Len(events) + 1 /\ events'[Len(events')] = event
           /\ \A i \in 1 .. Len(events') :
                 events'[i].kind = "SERVER_CLOSE" => events'[i] = event
<1>1. /\ Len(events) \in Nat /\ Len(events') = Len(events) + 1
      /\ \A i \in 1 .. Len(events) : events'[i] = events[i]
      /\ events'[Len(events) + 1] = event
  BY AppendProperties, LenProperties
<1>2. \A i \in 1 .. Len(events) + 1 : i \in 1 .. Len(events) \/ i = Len(events) + 1
  BY <1>1, SMT
<1> QED
  BY <1>1, <1>2 DEF NoServerClose

LEMMA PlainItems ==
    /\ ~IsControl(NoData) /\ NoData.op # "CLOSE"
    /\ \A x : IsData(x) => ~IsControl(x) /\ x.op # "CLOSE"
    /\ \A n : ~IsControl(Make("REQUEST", n)) /\ Make("REQUEST", n).op # "CLOSE"
    /\ \A n : Make("CLOSE", n).op = "CLOSE"
BY DEF IsControl, IsData, ControlOps, DataOps, NoData, Make

LEMMA ProgramKeepsAnswer ==
    ASSUME AnsweringInv, Once, Once',
           Program \/ drop_ends \/ Tick \/ event_loop_idle \/ read_fails \/ UNCHANGED vars
    PROVE  AnswerInv'
<1>1. /\ UNCHANGED <<wire, srv_sent, rd, out_event, events>>
      /\ \A x \in ToSet(output_events') :
            \/ x \in ToSet(output_events) \/ IsData(x)
            \/ x = Make("CLOSE", 1000) /\ connection_status' = "CLIENT_WANTS_TO_CLOSE"
      /\ \/ UNCHANGED connection_status
         \/ connection_status' = "START_INIT" /\ inits' = inits + 1
         \/ connection_status' = "CLIENT_WANTS_TO_CLOSE" /\ connection_status # "CLOSE"
  BY ProgramEffect, AnsweringTypes
<1>2. connection_status' = "START_INIT" /\ inits' = inits + 1 => connection_status = "NOT_INIT"
  BY SMT, AnsweringTypes DEF FirstInv, OnceInv, TypeOK, Once
<1>3. \A x \in Waiting' : \/ x \in Waiting \/ IsData(x)
                          \/ /\ x = Make("CLOSE", 1000)
                             /\ connection_status' = "CLIENT_WANTS_TO_CLOSE"
  BY <1>1 DEF Waiting
<1>4. \A x \in Waiting' : IsControl(x) => x.op = "CLOSE"
  BY <1>3, PlainItems DEF AnsweringInv, AnswerInv
<1>5. connection_status' \in Early \cup {"HANDSHAKE", "OPEN"} => NoClose(Waiting')
  BY <1>1, <1>2, <1>3, PlainItems DEF AnsweringInv, AnswerInv, NoClose, Early
<1>6. connection_status' = "SERVER_WANTS_TO_CLOSE" =>
         \A x \in Waiting' : x.op = "CLOSE" => AnswersClose(x)'
  BY <1>1, <1>3, PlainItems DEF AnsweringInv, AnswerInv, AnswersClose
<1>7. connection_status' # "CLOSE" => NoServerClose'
  BY <1>1, <1>2 DEF AnsweringInv, AnswerInv, NoServerClose
<1>8. CloseIsAnswered'
  BY <1>1 DEF AnsweringInv, AnswerInv, CloseIsAnswered, Reported
<1> QED
  BY <1>1, <1>4, <1>5, <1>6, <1>7, <1>8 DEF AnsweringInv, AnswerInv

LEMMA ReadKeepsAnswer ==
    ASSUME AnsweringInv, Once, read_bytes_from_socket
    PROVE  AnswerInv'
<1>1. /\ UNCHANGED <<wire, srv_sent, connection_status, events>> /\ rd <= rd'
      /\ Waiting' \subseteq Waiting \cup {NoData}
      /\ rd \in Nat /\ rd' \in Nat
  BY ReadEffect, ReceivedTypes, ArrivedEffect, AnsweringTypes DEF Waiting, read_bytes_from_socket
<1>2. \A j \in 1 .. rd : j \in 1 .. rd'
  BY <1>1, SMT
<1>3. \A x : AnswersClose(x) => AnswersClose(x)'
  BY <1>1, <1>2 DEF AnswersClose
<1>4. CloseIsAnswered'
  BY <1>1, <1>2 DEF AnsweringInv, AnswerInv, CloseIsAnswered, Reported
<1> QED
  BY <1>1, <1>3, <1>4, PlainItems DEF AnsweringInv, AnswerInv, NoClose, NoServerClose

\* No PING is handled, and the only Close it can be in use is the server's.
LEMMA InputKeepsAnswer ==
    ASSUME AnsweringInv, Once, Once', handle_input
    PROVE  AnswerInv'
<1>1. /\ UNCHANGED <<wire, srv_sent, rd>> /\ pc = "input"
      /\ out_event' \in {out_event, NoData}
      /\ \A x \in ToSet(output_events') :
            \/ x \in ToSet(output_events) \/ IsData(x)
            \/ x = Pong(in_event) /\ in_event.op = "PING"
            \/ /\ x = Make("CLOSE", ReplyStatus(in_event.val)) /\ in_event.op = "CLOSE"
               /\ connection_status' = "SERVER_WANTS_TO_CLOSE"
      /\ \/ UNCHANGED connection_status
         \/ connection_status' = "START_INIT" /\ inits' = inits + 1
         \/ connection_status = "HANDSHAKE" /\ connection_status' = "OPEN"
         \/ connection_status = "OPEN" /\ connection_status' = "SERVER_WANTS_TO_CLOSE"
         \/ connection_status = "CLIENT_WANTS_TO_CLOSE" /\ connection_status' = "CLOSE"
  BY InputEffect, AnsweringTypes
<1>2. connection_status \in Active /\ inits # 0
  BY <1>1, AnsweringTypes DEF StatusInv, FirstInv, OnceInv, Active
<1>3. connection_status' # "START_INIT" \/ UNCHANGED connection_status
  BY <1>1, <1>2, SMT, AnsweringTypes DEF Once, TypeOK
<1>4. in_event.op # "PING"
  <2>1. CASE connection_status = "HANDSHAKE"
    BY <1>1, <2>1 DEF AnsweringInv, ReceivedInv, Received
  <2>2. CASE connection_status # "HANDSHAKE"
    <3>1. in_event \in ToSet(srv_sent) /\ (IsControl(in_event) => in_event.val # 0)
      BY <1>1, <2>2, HandledWasSent DEF AnsweringInv
    <3> QED
      BY <3>1 DEF AnsweringInv, AnswerInv, IsControl, ControlOps
  <2> QED
    BY <2>1, <2>2
<1>5. ASSUME connection_status' = "SERVER_WANTS_TO_CLOSE", in_event.op = "CLOSE",
             NEW x, x = Make("CLOSE", ReplyStatus(in_event.val))
      PROVE  AnswersClose(x)'
  <2>1. connection_status # "HANDSHAKE"
    BY <1>1, <1>5 DEF AnsweringInv, ReceivedInv, Received
  <2>2. taken \in 2 .. rd /\ in_event = srv_sent[taken] /\ rd \in Nat
    BY <1>1, <2>1, HandledWasSent, ReceivedTypes, AnsweringTypes DEF AnsweringInv
  <2>3. taken \in 1 .. rd
    BY <2>2, SMT
  <2> QED
    BY <1>1, <1>5, <2>2, <2>3 DEF AnswersClose
<1>6. \A x \in Waiting' :
         \/ x \in Waiting \cup {NoData} \/ IsData(x)
         \/ /\ x = Make("CLOSE", ReplyStatus(in_event.val)) /\ in_event.op = "CLOSE"
            /\ connection_status' = "SERVER_WANTS_TO_CLOSE"
  BY <1>1, <1>4 DEF Waiting
<1>7. \A x \in Waiting' : IsControl(x) => x.op = "CLOSE"
  BY <1>6, PlainItems DEF AnsweringInv, AnswerInv
<1>8. connection_status' \in Early \cup {"HANDSHAKE", "OPEN"} => NoClose(Waiting')
  <2>1. connection_status' \in Early \cup {"HANDSHAKE", "OPEN"}
          => connection_status \in Early \cup {"HANDSHAKE", "OPEN"}
    BY <1>1, <1>3 DEF Early
  <2> QED
    BY <1>6, <2>1, PlainItems DEF AnsweringInv, AnswerInv, NoClose, Early
<1>9. connection_status' = "SERVER_WANTS_TO_CLOSE" =>
         \A x \in Waiting' : x.op = "CLOSE" => AnswersClose(x)'
  <2> SUFFICES ASSUME connection_status' = "SERVER_WANTS_TO_CLOSE",
                      NEW x \in Waiting', x.op = "CLOSE"
               PROVE  AnswersClose(x)'
    OBVIOUS
  <2>1. CASE x \in Waiting
    <3>1. connection_status = "SERVER_WANTS_TO_CLOSE"
      BY <1>1, <2>1 DEF AnsweringInv, AnswerInv, NoClose
    <3> QED
      BY <1>1, <2>1, <3>1 DEF AnsweringInv, AnswerInv, AnswersClose
  <2> QED
    BY <1>5, <1>6, <2>1, PlainItems
<1>10. NoServerClose'
  <2>1. NoServerClose /\ events \in Seq(WSEvent)
    BY <1>2, AnsweringTypes DEF AnsweringInv, AnswerInv, Active, TypeOK
  <2>2. ASSUME UNCHANGED events PROVE NoServerClose'
    BY <2>1, <2>2 DEF NoServerClose
  <2>3. ASSUME NEW event, NEW status, Report(event, status, output_events, AfterInput),
               event.kind # "SERVER_CLOSE"
        PROVE  NoServerClose'
    BY <2>1, <2>2, <2>3, HeardOneMore DEF Report
  <2>4. /\ \A pieces : ON_TEXT(pieces).kind # "SERVER_CLOSE"
        /\ ON_CONNECT.kind # "SERVER_CLOSE"
        /\ \A code : ON_CLOSE("CLIENT_CLOSE", code).kind # "SERVER_CLOSE"
    BY DEF ON_TEXT, ON_CONNECT, ON_CLOSE
  <2> QED
    BY <2>2, <2>3, <2>4
       DEF handle_input, handle_recv_frame, handle_recv_http_response, recv_ping,
           recv_pong, recv_undefined, recv_close_from_server, recv_close_answer,
           recv_close_ignored
<1>11. CloseIsAnswered'
  <2>1. TypeOK'
    BY NextType, AnsweringTypes DEF Next, event_loop
  <2> QED
    BY <1>10, <2>1, Unheard DEF TypeOK, CloseIsAnswered, Reported, NoServerClose
<1> QED
  BY <1>1, <1>7, <1>8, <1>9, <1>10, <1>11 DEF AnsweringInv, AnswerInv

LEMMA OutputKeepsAnswer ==
    ASSUME AnsweringInv, Once, Once', handle_output
    PROVE  AnswerInv'
<1>1. /\ UNCHANGED <<srv_sent, rd>> /\ pc = "output"
      /\ Waiting' \subseteq Waiting \cup {NoData}
      /\ \/ UNCHANGED connection_status
         \/ connection_status = "SERVER_WANTS_TO_CLOSE" /\ connection_status' = "CLOSE"
         \/ /\ connection_status = "SERVER_WANTS_TO_CLOSE" /\ connection_status' = "START_INIT"
            /\ inits' = inits + 1
  BY OutputEffect, AnsweringTypes DEF Waiting
<1>2. connection_status' # "START_INIT" \/ UNCHANGED connection_status
  BY <1>1, SMT, AnsweringTypes DEF Once, TypeOK, FirstInv, OnceInv
<1>3. /\ \A x \in Waiting' : IsControl(x) => x.op = "CLOSE"
      /\ connection_status' \in Early \cup {"HANDSHAKE", "OPEN"} => NoClose(Waiting')
      /\ connection_status' = "SERVER_WANTS_TO_CLOSE" =>
            \A x \in Waiting' : x.op = "CLOSE" => AnswersClose(x)'
  BY <1>1, <1>2, PlainItems DEF AnsweringInv, AnswerInv, NoClose, AnswersClose, Early
<1>4. TypeOK'
  BY NextType, AnsweringTypes DEF Next, event_loop
<1>5. ASSUME NoServerClose' PROVE CloseIsAnswered'
  BY <1>4, <1>5 DEF TypeOK, NoServerClose, CloseIsAnswered, Reported
<1>6. CASE connection_status = "CLOSE"
  <2>1. ~Writable
    BY <1>1, <1>6, AnsweringTypes DEF StatusInv, Writable
  <2>2. write_fails
    BY <2>1 DEF handle_output, write_sent, write_sent_closing, write_sent_shutdown_fails,
                write_blocks, WriteAll, WouldBlock
  <2>3. CloseIsAnswered'
    BY <2>2 DEF write_fails, AnsweringInv, AnswerInv, CloseIsAnswered, Reported
  <2> QED
    BY <1>1, <1>3, <1>6, <2>2, <2>3 DEF write_fails, AnsweringInv, AnswerInv
<1>7. CASE connection_status # "CLOSE" /\ UNCHANGED events
  <2>1. NoServerClose'
    BY <1>7 DEF AnsweringInv, AnswerInv, NoServerClose
  <2> QED
    BY <1>1, <1>3, <1>5, <2>1 DEF AnsweringInv, AnswerInv
<1>8. CASE write_sent_closing /\ ~UNCHANGED events
  <2> DEFINE reason == IF out_event.op = "CLOSE" THEN out_event.val ELSE 0
             event  == ON_CLOSE("SERVER_CLOSE", reason)
  <2>1. /\ Report(event, "CLOSE", output_events, "idle") /\ wire' = Append(wire, out_event)
        /\ IsControl(out_event) /\ connection_status = "SERVER_WANTS_TO_CLOSE"
    BY <1>8 DEF write_sent_closing, WriteAll, Completes
  <2>2. out_event.op = "CLOSE" /\ AnswersClose(out_event)
    BY <2>1 DEF AnsweringInv, AnswerInv, Waiting
  <2>3. out_event = Make("CLOSE", reason)
    BY <2>2 DEF AnswersClose, Make
  <2>4. event.vals[1] = reason
    BY DEF ON_CLOSE
  <2> HIDE DEF reason
  <2>5. /\ events' = Append(events, event)
    BY <1>8, <2>1 DEF Report
  <2> HIDE DEF event
  <2>6. NoServerClose /\ events \in Seq(WSEvent) /\ wire \in Seq(Item) /\ out_event \in Item
    BY <2>1, AnsweringTypes DEF AnsweringInv, AnswerInv, TypeOK, ConnTypeOK
  <2>7. \A i \in 1 .. Len(events') :
           events'[i].kind = "SERVER_CLOSE" => events'[i].vals[1] = reason
    BY <2>4, <2>5, <2>6, HeardOneMore
  <2>8. wire' # <<>> /\ Last(wire') = Make("CLOSE", reason)
    BY <2>1, <2>3, <2>6, AppendProperties DEF Last
  <2>9. \E j \in 1 .. rd' : srv_sent'[j].op = "CLOSE" /\ reason = ReplyStatus(srv_sent'[j].val)
    BY <1>1, <2>2, <2>3 DEF AnswersClose, Make
  <2>10. \A i \in Reported({"SERVER_CLOSE"})' :
            i \in 1 .. Len(events') /\ events'[i].kind = "SERVER_CLOSE"
    BY <1>4, LenProperties DEF Reported, TypeOK
  <2>11. CloseIsAnswered'
    BY <2>7, <2>8, <2>9, <2>10 DEF CloseIsAnswered
  <2>12. connection_status' = "CLOSE"
    BY <1>1, <1>2, <2>1 DEF Report, reinit, send
  <2> QED
    BY <1>1, <1>3, <2>11, <2>12 DEF AnsweringInv, AnswerInv
<1>9. write_sent_closing \/ UNCHANGED events
  BY DEF handle_output, write_sent, write_sent_shutdown_fails, write_blocks, write_fails
<1> QED
  BY <1>6, <1>7, <1>8, <1>9

LEMMA StartKeepsAnswer ==
    ASSUME AnsweringInv, Once, start_init
    PROVE  AnswerInv'
<1>1. /\ connection_status = "START_INIT" /\ out_event' = out_event
      /\ connection_status' \in {"START_INIT", "HANDSHAKE"}
      /\ events' = events \/ events' = <<>>
      /\ srv_sent' = srv_sent \/ srv_sent' = <<>>
      /\ \/ output_events' = output_events
         \/ output_events' = <<Make("REQUEST", websocket_key + 1)>> \o output_events
  BY DEF start_init, Unreachable, StaysBlocking, Connects
<1>2. Make("REQUEST", websocket_key + 1) \in Item /\ output_events \in Seq(Item)
  BY OtherItems, AnsweringTypes DEF TypeOK
<1>3. Waiting' \subseteq Waiting \cup {Make("REQUEST", websocket_key + 1)}
  BY <1>1, <1>2, ItemsOfPrefixed DEF Waiting
<1>4. /\ \A x \in Waiting' : IsControl(x) => x.op = "CLOSE"
      /\ NoClose(Waiting')
  BY <1>1, <1>3, PlainItems DEF AnsweringInv, AnswerInv, NoClose, Early
<1>5. NoServerClose'
  <2>1. Len(<<>>) = 0 /\ 1 .. 0 = {}
    BY SMT
  <2> QED
    BY <1>1, <2>1 DEF AnsweringInv, AnswerInv, NoServerClose
<1>6. CloseIsAnswered'
  <2>1. TypeOK'
    BY NextType, AnsweringTypes DEF Next, event_loop
  <2> QED
    BY <1>5, <2>1, LenProperties DEF TypeOK, CloseIsAnswered, Reported, NoServerClose
<1>7. \A x \in ToSet(srv_sent') : x.op = "PING" => x.val = 0
  BY <1>1, ItemsOfNone DEF AnsweringInv, AnswerInv
<1> QED
  BY <1>1, <1>4, <1>5, <1>6, <1>7 DEF AnswerInv

LEMMA ServerKeepsAnswer ==
    ASSUME PingsAreEmpty, AnsweringInv, Once, Server
    PROVE  AnswerInv'
<1>1. /\ UNCHANGED <<wire, rd, out_event, output_events, connection_status, events>>
      /\ srv_sent \in Seq(Item) /\ wire \in Seq(Item)
      /\ rd \in Nat /\ rd <= Len(srv_sent) /\ Len(srv_sent) \in Nat
  BY ServerEffect, ReceivedTypes, AnsweringTypes DEF TypeOK, ConnTypeOK
<1>2. \A j \in 1 .. rd : srv_sent'[j] = srv_sent[j]
  <2>1. \A j \in 1 .. rd : j \in 1 .. Len(srv_sent)
    BY <1>1, SMT
  <2> QED
    BY <2>1, ServerAppends, AnsweringTypes
<1>3. \A x \in ToSet(srv_sent') : x.op = "PING" => x.val = 0
  <2>1. \A x \in ToSet(srv_sent) : x.op = "PING" => x.val = 0
    BY DEF AnsweringInv, AnswerInv
  <2>2. ASSUME NEW x \in Item, srv_sent' = Append(srv_sent, x), x.op = "PING" => x.val = 0
        PROVE  \A y \in ToSet(srv_sent') : y.op = "PING" => y.val = 0
    BY <1>1, <2>1, <2>2, ItemsOfAppend
  <2>3. CASE ServerFrame
    <3>1. PICK frame \in ServerFrames :
             srv_sent' = Append(srv_sent, [frame EXCEPT !.val = @ * Len(srv_sent)])
      BY <2>3 DEF ServerFrame
    <3> DEFINE x == [frame EXCEPT !.val = @ * Len(srv_sent)]
    <3>2. frame \in Item /\ (frame.op = "PING" => frame.val = 0)
      BY ServerAssumption DEF PingsAreEmpty
    <3>3. frame.val * Len(srv_sent) \in Nat /\ 0 * Len(srv_sent) = 0
      BY <1>1, <3>2, SMT DEF Item
    <3>4. x \in Item /\ x.op = frame.op /\ x.val = frame.val * Len(srv_sent)
      BY <3>2, <3>3 DEF Item
    <3>5. x.op = "PING" => x.val = 0
      BY <3>2, <3>3, <3>4
    <3> HIDE DEF x
    <3> QED
      BY <2>2, <3>1, <3>4, <3>5 DEF x
  <2>4. CASE ServerClose
    <3>1. PICK code \in ServerStatuses : srv_sent' = Append(srv_sent, Make("CLOSE", code))
      BY <2>4 DEF ServerClose
    <3>2. Make("CLOSE", code) \in Item /\ Make("CLOSE", code).op # "PING"
      BY ServerAssumption, OtherItems, PlainItems
    <3> QED
      BY <2>2, <3>1, <3>2
  <2>5. CASE Respond
    <3>1. PICK key \in {Head(wire).val} \cup (IF MayReject THEN {0} ELSE {}) :
             srv_sent' = <<Make("RESPONSE", key)>>
      BY <2>5 DEF Respond
    <3>2. key \in Nat
      <4>1. Head(wire) \in Item
        BY <1>1, <2>5, ItemsOfQueue DEF Respond
      <4> QED
        BY <3>1, <4>1 DEF Item
    <3>3. Make("RESPONSE", key) \in Item /\ Make("RESPONSE", key).op # "PING"
      BY <3>2, MakeType DEF Make, Ops, HttpOps
    <3> QED
      BY <3>1, <3>3, ItemsOfOne
  <2>6. CASE PeerFault
    BY <2>1, <2>6 DEF PeerFault
  <2> QED
    BY <2>3, <2>4, <2>5, <2>6 DEF Server, ServerNext
<1>4. \A x : AnswersClose(x) => AnswersClose(x)'
  BY <1>1, <1>2 DEF AnswersClose
<1>5. CloseIsAnswered'
  BY <1>1, <1>2 DEF AnsweringInv, AnswerInv, CloseIsAnswered, Reported
<1> QED
  BY <1>1, <1>3, <1>4, <1>5 DEF AnsweringInv, AnswerInv, NoServerClose, Waiting

LEMMA InitAnswering == Init => AnsweringInv
<1> SUFFICES ASSUME Init PROVE AnswerInv
  BY InitReceived DEF AnsweringInv
<1>1. /\ wire = <<>> /\ out_event = NoData /\ output_events = <<>> /\ srv_sent = <<>>
      /\ connection_status = "NOT_INIT" /\ events = <<>>
  BY DEF Init, ConnInit
<1>2. Waiting = {NoData} /\ ToSet(srv_sent) = {}
  BY <1>1, ItemsOfNone DEF Waiting
<1>3. NoServerClose
  <2>1. Len(events) = 0 /\ 1 .. 0 = {}
    BY <1>1, SMT
  <2> QED
    BY <2>1 DEF NoServerClose
<1>4. events \in Seq(WSEvent)
  BY InitType DEF TypeOK
<1> QED
  BY <1>1, <1>2, <1>3, <1>4, Unheard, PlainItems DEF AnswerInv, NoClose

LEMMA NextAnswering ==
    ASSUME PingsAreEmpty, AnsweringInv, [Next]_vars
    PROVE  AnsweringInv'
<1> SUFFICES ASSUME Once' PROVE AnswerInv'
  BY NextReceived DEF AnsweringInv, AnswerInv
<1>1. Once
  <2>1. inits' \in {inits, inits + 1}
    BY ProgramEffect, InputEffect, OutputEffect, ReadEffect, ServerEffect, AnsweringTypes
       DEF Next, event_loop, start_init
  <2> QED
    BY <2>1, StillOnce, AnsweringTypes
<1> QED
  BY <1>1, ProgramKeepsAnswer, ReadKeepsAnswer, InputKeepsAnswer, OutputKeepsAnswer,
     StartKeepsAnswer, ServerKeepsAnswer
     DEF Next, event_loop

\* On the first connection, and unless the server sends a PING that is
\* answered, what the callback hears of the server's Close is what the server
\* was answered last, with a status that answers a Close that was read: no
\* frame of the callback, no Close of ours and no second Close of the server
\* comes between (client.rs 351-374, 485-500).
THEOREM CloseAnswered == Spec => [](PingsAreEmpty /\ inits <= 1 => CloseIsAnswered)
<1> DEFINE P == PingsAreEmpty /\ inits <= 1 => CloseIsAnswered
<1>1. ~PingsAreEmpty => P
  OBVIOUS
<1>2. PingsAreEmpty /\ AnsweringInv /\ [Next]_vars => AnsweringInv'
  BY NextAnswering
<1>3. AnsweringInv => P
  BY DEF AnsweringInv, AnswerInv, Once
<1> HIDE DEF P
<1>4. CASE ~PingsAreEmpty
  <2>1. P
    BY <1>1, <1>4
  <2> QED
    BY <2>1, PTL DEF P
<1>5. CASE PingsAreEmpty
  <2>1. AnsweringInv /\ [Next]_vars => AnsweringInv'
    BY <1>2, <1>5
  <2>2. Spec => []P
    BY <1>3, <2>1, InitAnswering, PTL DEF Spec
  <2> QED
    BY <2>2 DEF P
<1> QED
  BY <1>4, <1>5
=============================================================================
