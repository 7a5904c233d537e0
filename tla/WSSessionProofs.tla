--------------------------- MODULE WSSessionProofs ---------------------------
(***************************************************************************)
(* That no frame a program hands over is lost without a reason, that the   *)
(* client implements one connection as WSSession describes it, and that    *)
(* every text of the server reaches the callback, on the first connection, *)
(* for every network, texts and bounds.                                    *)
(***************************************************************************)
EXTENDS WSCloseProofs

USE DEF connVars, reported, received, call, fixed

-----------------------------------------------------------------------------
(* The frames a sequence carries *)

\* The numbers of the data frames in a set of items.
FramesAmong(items) == {x.val : x \in {y \in items : IsData(y)}}

LEMMA CarriedIs ==
    ASSUME NEW s \in Seq(Item)
    PROVE  Carried(s) = FramesAmong(ToSet(s))
<1>1. DOMAIN s = 1 .. Len(s)
  BY LenProperties
<1>2. /\ \A x \in ToSet(s) : \E i \in 1 .. Len(s) : x = s[i]
      /\ \A i \in 1 .. Len(s) : s[i] \in ToSet(s)
  BY ItemsOf
<1> QED
  BY <1>1, <1>2 DEF Carried, FramesAmong

LEMMA FramesOfUnion ==
    \A S, T : FramesAmong(S \cup T) = FramesAmong(S) \cup FramesAmong(T)
BY DEF FramesAmong

LEMMA CarriedConcat ==
    ASSUME NEW s \in Seq(Item), NEW t \in Seq(Item)
    PROVE  s \o t \in Seq(Item) /\ Carried(s \o t) = Carried(s) \cup Carried(t)
<1>1. s \o t \in Seq(Item) /\ ToSet(s \o t) = ToSet(s) \cup ToSet(t)
  BY ItemsOfConcat
<1>2. Carried(s \o t) = FramesAmong(ToSet(s) \cup ToSet(t))
  BY <1>1, CarriedIs
<1>3. Carried(s) = FramesAmong(ToSet(s)) /\ Carried(t) = FramesAmong(ToSet(t))
  BY CarriedIs
<1> QED
  BY <1>1, <1>2, <1>3, FramesOfUnion

LEMMA CarriedOne ==
    ASSUME NEW x \in Item
    PROVE  /\ <<x>> \in Seq(Item)
           /\ IsData(x) => Carried(<<x>>) = {x.val}
           /\ ~IsData(x) => Carried(<<x>>) = {}
<1>1. <<x>> \in Seq(Item) /\ ToSet(<<x>>) = {x}
  BY ItemsOfOne
<1>2. Carried(<<x>>) = FramesAmong({x})
  BY <1>1, CarriedIs
<1> QED
  BY <1>1, <1>2 DEF FramesAmong

LEMMA CarriedNone == <<>> \in Seq(Item) /\ Carried(<<>>) = {}
<1>1. <<>> \in Seq(Item) /\ ToSet(<<>>) = {}
  BY EmptySeq, ItemsOfNone
<1> QED
  BY <1>1, CarriedIs DEF FramesAmong

LEMMA CarriedNoData == Carried(<<NoData>>) = {}
BY CarriedOne, NoDataFrame

LEMMA CarriedAppend ==
    ASSUME NEW s \in Seq(Item), NEW x \in Item
    PROVE  Append(s, x) \in Seq(Item) /\ Carried(Append(s, x)) = Carried(s) \cup Carried(<<x>>)
<1>1. <<x>> \in Seq(Item) /\ Append(s, x) = s \o <<x>>
  BY CarriedOne, AppendIsConcat
<1> QED
  BY <1>1, CarriedConcat

LEMMA CarriedPrefixed ==
    ASSUME NEW x \in Item, NEW s \in Seq(Item)
    PROVE  /\ <<x>> \o s \in Seq(Item)
           /\ Carried(<<x>> \o s) = Carried(<<x>>) \cup Carried(s)
BY CarriedOne, CarriedConcat

LEMMA CarriedQueue ==
    ASSUME NEW s \in Seq(Item), s # <<>>
    PROVE  /\ Head(s) \in Item /\ Tail(s) \in Seq(Item)
           /\ Carried(s) = Carried(<<Head(s)>>) \cup Carried(Tail(s))
<1>1. Head(s) \in Item /\ Tail(s) \in Seq(Item) /\ s = <<Head(s)>> \o Tail(s)
  BY HeadTailProperties
<1> QED
  BY <1>1, CarriedPrefixed

LEMMA CarriedFrames ==
    ASSUME queued \in Nat, NEW n \in Nat
    PROVE  /\ DataFrames(n) \in Seq(Item)
           /\ Carried(DataFrames(n)) = queued + 1 .. queued + n
<1>1. /\ DataFrames(n) \in Seq(Item) /\ DOMAIN DataFrames(n) = 1 .. n
      /\ \A i \in 1 .. n : /\ DataFrames(n)[i].val = queued + i
                           /\ IsData(DataFrames(n)[i])
  BY DataFramesType DEF DataFrames, IsData, DataOps
<1>2. Carried(DataFrames(n)) = {queued + i : i \in 1 .. n}
  BY <1>1 DEF Carried
<1>3. /\ \A i \in 1 .. n : queued + i \in queued + 1 .. queued + n
      /\ \A m \in queued + 1 .. queued + n : m - queued \in 1 .. n /\ m = queued + (m - queued)
  BY SMT
<1> QED
  BY <1>1, <1>2, <1>3

\* The line, from the server's end, in its three parts.
LEMMA CarriedLine ==
    TypeOK => Carried(Line) = Carried(wire) \cup Carried(<<out_event>>) \cup Carried(output_events)
<1> SUFFICES ASSUME TypeOK
             PROVE  Carried(Line) = Carried(wire) \cup Carried(<<out_event>>) \cup Carried(output_events)
  OBVIOUS
<1>1. wire \in Seq(Item) /\ <<out_event>> \in Seq(Item) /\ output_events \in Seq(Item)
  BY CarriedOne DEF TypeOK, ConnTypeOK
<1>2. /\ wire \o <<out_event>> \in Seq(Item)
      /\ Carried(wire \o <<out_event>>) = Carried(wire) \cup Carried(<<out_event>>)
  BY <1>1, CarriedConcat
<1> QED
  BY <1>1, <1>2, CarriedConcat DEF Line

-----------------------------------------------------------------------------
(* What each step does to the frames on the line *)

\* The frames handed over in a step join the queue.
Queues(outs) ==
    /\ queued' \in Nat /\ queued <= queued'
    /\ Carried(output_events') = Carried(outs) \cup (queued + 1 .. queued')

LEMMA QueuesNothing ==
    ASSUME queued \in Nat, UNCHANGED queued, NEW outs, Carried(output_events') = Carried(outs)
    PROVE  Queues(outs)
<1>1. queued + 1 .. queued = {}
  BY SMT
<1> QED
  BY <1>1, SMT DEF Queues

LEMMA SendCarries ==
    ASSUME NEW text \in Texts, NEW status, NEW outs \in Seq(Item), NEW next, queued \in Nat,
           send(text, status, outs, next)
    PROVE  Queues(outs)
<1>1. CASE output_events' = outs /\ UNCHANGED queued
  BY <1>1, QueuesNothing
<1>2. ASSUME NEW n \in 1 .. text.len, output_events' = outs \o DataFrames(n),
             queued' = queued + n
      PROVE  Queues(outs)
  <2>1. n \in Nat /\ queued + n \in Nat /\ queued <= queued + n
    BY SMT
  <2>2. Carried(output_events') = Carried(outs) \cup (queued + 1 .. queued + n)
    BY <1>2, <2>1, CarriedFrames, CarriedConcat
  <2> QED
    BY <1>2, <2>1, <2>2 DEF Queues
<1> QED
  BY <1>1, <1>2 DEF send

LEMMA ReportCarries ==
    ASSUME NEW event, NEW status, NEW outs \in Seq(Item), NEW next, queued \in Nat,
           Report(event, status, outs, next)
    PROVE  Queues(outs)
<1>1. CASE output_events' = outs /\ UNCHANGED queued
  BY <1>1, QueuesNothing
<1>2. CASE \E text \in Texts : send(text, status, outs, next)
  BY <1>2, SendCarries
<1> QED
  BY <1>1, <1>2 DEF Report

\* An item that is no data frame changes nothing where it goes.
LEMMA CarriedOther ==
    ASSUME NEW x \in Item, ~IsData(x), NEW s \in Seq(Item)
    PROVE  /\ Carried(<<x>> \o s) = Carried(s) /\ Carried(Append(s, x)) = Carried(s)
           /\ Carried(<<x>>) = {}
<1>1. Carried(<<x>>) = {}
  BY CarriedOne
<1>2. /\ Carried(<<x>> \o s) = Carried(<<x>>) \cup Carried(s)
      /\ Carried(Append(s, x)) = Carried(s) \cup Carried(<<x>>)
  BY CarriedPrefixed, CarriedAppend
<1> QED
  BY <1>1, <1>2

LEMMA LineTypes ==
    TypeOK => /\ wire \in Seq(Item) /\ out_event \in Item /\ output_events \in Seq(Item)
              /\ queued \in Nat /\ out_event.val \in Nat /\ in_event.val \in Nat
              /\ websocket_key \in Nat /\ events \in Seq(WSEvent)
BY DEF TypeOK, ConnTypeOK, Item

LEMMA ProgramCarries ==
    ASSUME TypeOK,
           Program \/ drop_ends \/ Tick \/ event_loop_idle \/ read_fails \/ UNCHANGED vars
    PROVE  /\ UNCHANGED <<wire, out_event>>
           /\ Queues(output_events) \/ drop
<1>1. CASE UNCHANGED <<output_events, queued, wire, out_event>>
  BY <1>1, QueuesNothing, LineTypes
<1>2. CASE Send
  <2>1. PICK text \in Texts : send(text, connection_status, output_events, "idle")
    BY <1>2 DEF Send
  <2> QED
    BY <1>2, <2>1, SendCarries, LineTypes DEF Send
<1>3. CASE drop
  BY <1>3 DEF drop
<1> QED
  BY <1>1, <1>2, <1>3 DEF Program, init, reinit, set_message_size, set_timeout, drop_now,
                          drop_ends, Tick, event_loop_idle, read_fails, vars

LEMMA ReadCarries ==
    ASSUME TypeOK, read_bytes_from_socket
    PROVE  /\ UNCHANGED <<wire, queued>>
           /\ Carried(<<out_event'>>) \cup Carried(output_events')
                = Carried(<<out_event>>) \cup Carried(output_events)
<1>1. UNCHANGED <<wire, queued>>
  BY DEF read_bytes_from_socket
<1> QED
  BY <1>1, ReadPops, CarriedQueue, CarriedNoData, LineTypes

\* The reasons for which an input is refused.
Refuses ==
    \/ connection_status = "HANDSHAKE" /\ in_event.op = "RESPONSE"
    \/ in_event.op = "UNDEFINED"
    \/ IsData(in_event) /\ (~from_utf8(<<in_event>>) \/ ~from_utf8(Kept))
    \/ connection_status = "CLIENT_WANTS_TO_CLOSE"

LEMMA InputCarries ==
    ASSUME TypeOK, handle_input
    PROVE  /\ wire' = wire
           /\ \/ Queues(output_events) /\ out_event' = out_event
              \/ /\ Refuses /\ out_event' = NoData
                 /\ UNCHANGED <<output_events, queued>>
              \/ /\ connection_status = "OPEN" /\ connection_status' = "SERVER_WANTS_TO_CLOSE"
                 /\ UNCHANGED <<out_event, queued>>
                 /\ \E code \in Nat : output_events' = <<Make("CLOSE", code)>>
<1>1. wire' = wire
  BY InputEffect
<1>2. ASSUME NEW event, NEW status, Report(event, status, output_events, AfterInput)
      PROVE  Queues(output_events)
  BY <1>2, ReportCarries, LineTypes
<1>3. CASE UNCHANGED <<output_events, queued, out_event>>
  BY <1>1, <1>3, QueuesNothing, LineTypes
<1>4. CASE handle_recv_frame
  BY <1>1, <1>2, <1>3, <1>4 DEF handle_recv_frame, Handled, Fails, Refuses
<1>5. CASE handle_recv_http_response
  BY <1>1, <1>2, <1>5 DEF handle_recv_http_response, Handled, Fails, Refuses
<1>6. CASE recv_ping
  <2>1. Pong(in_event) \in Item /\ ~IsData(Pong(in_event))
    BY OtherItems, LineTypes DEF Pong
  <2>2. Carried(output_events') = Carried(output_events)
    <3>1. output_events' = <<Pong(in_event)>> \o output_events
      BY <1>6 DEF recv_ping
    <3> HIDE DEF Pong
    <3> QED
      BY <2>1, <3>1, CarriedOther, LineTypes
  <2> QED
    BY <1>1, <1>6, <2>2, QueuesNothing, LineTypes DEF recv_ping, Handled
<1>7. CASE recv_close_from_server
  BY <1>1, <1>7, ReplyStatusType, LineTypes DEF recv_close_from_server, Answer, Handled
<1>8. CASE recv_close_answer
  BY <1>1, <1>2, <1>8 DEF recv_close_answer, Handled, Fails, Refuses
<1>9. CASE recv_undefined
  BY <1>1, <1>9 DEF recv_undefined, Fails, Refuses
<1> QED
  BY <1>3, <1>4, <1>5, <1>6, <1>7, <1>8, <1>9
     DEF handle_input, recv_pong, recv_close_ignored, Handled

LEMMA OutputCarries ==
    ASSUME TypeOK, handle_output
    PROVE  /\ out_event' = NoData
           /\ \/ /\ Writable /\ wire' = Append(wire, out_event)
                 /\ Carried(wire') = Carried(wire) \cup Carried(<<out_event>>)
                 /\ Queues(output_events)
              \/ /\ Writable /\ Carried(wire') = Carried(wire) /\ UNCHANGED queued
                 /\ output_events' = <<out_event>> \o output_events
                 /\ Carried(output_events') = Carried(<<out_event>>) \cup Carried(output_events)
              \/ /\ ~Writable /\ UNCHANGED <<wire, output_events, queued>>
<1>1. out_event' = NoData
  BY OutputEffect
<1>2. Carried(Append(wire, out_event)) = Carried(wire) \cup Carried(<<out_event>>)
  BY CarriedAppend, LineTypes
<1>3. CASE write_sent \/ write_sent_shutdown_fails
  BY <1>1, <1>2, <1>3, QueuesNothing, LineTypes
     DEF write_sent, write_sent_shutdown_fails, WriteAll
<1>4. CASE write_sent_closing
  <2>1. \E event : Report(event, "CLOSE", output_events, "idle")
    BY <1>4 DEF write_sent_closing
  <2>2. Queues(output_events)
    BY <2>1, ReportCarries, LineTypes
  <2> QED
    BY <1>1, <1>2, <1>4, <2>2 DEF write_sent_closing, WriteAll
<1>5. CASE write_blocks
  <2> DEFINE torn == Make("TORN", out_event.val)
  <2>1. torn \in Item /\ ~IsData(torn)
    BY OtherItems, LineTypes
  <2> HIDE DEF torn
  <2>2. Carried(Append(wire, torn)) = Carried(wire)
    BY <2>1, CarriedOther, LineTypes
  <2>3. Carried(<<out_event>> \o output_events) = Carried(<<out_event>>) \cup Carried(output_events)
    BY CarriedPrefixed, LineTypes
  <2> QED
    BY <1>1, <1>5, <2>2, <2>3 DEF write_blocks, WouldBlock, Requeue, torn
<1>6. CASE write_fails
  BY <1>1, <1>6 DEF write_fails
<1> QED
  BY <1>3, <1>4, <1>5, <1>6 DEF handle_output

LEMMA StartCarries ==
    ASSUME TypeOK, start_init
    PROVE  /\ UNCHANGED <<out_event, queued>> /\ wire' \in {wire, <<>>}
           /\ Carried(output_events') = Carried(output_events)
<1>1. UNCHANGED <<out_event, queued>> /\ wire' \in {wire, <<>>}
  BY DEF start_init, Unreachable, StaysBlocking, Connects
<1>2. /\ Make("REQUEST", websocket_key + 1) \in Item
      /\ ~IsData(Make("REQUEST", websocket_key + 1))
  BY OtherItems, LineTypes
<1>3. Carried(<<Make("REQUEST", websocket_key + 1)>> \o output_events) = Carried(output_events)
  BY <1>2, CarriedOne, CarriedPrefixed, LineTypes
<1> QED
  BY <1>1, <1>3 DEF start_init, Unreachable, StaysBlocking, Connects

-----------------------------------------------------------------------------
(* What is on the line, and what is missing from it *)

OnLine  == Carried(wire) \cup Carried(<<out_event>>) \cup Carried(output_events)
Missing == (1 .. queued) \ OnLine

\* A step in which every new frame, and no other, joins the line.
Accounts ==
    /\ queued' \in Nat /\ queued <= queued'
    /\ OnLine' = OnLine \cup (queued + 1 .. queued')

LEMMA AccountsForAll ==
    ASSUME queued \in Nat, Accounts
    PROVE  Missing' = Missing /\ (OnLine \subseteq 1 .. queued => OnLine' \subseteq 1 .. queued')
<1>1. /\ queued + 1 .. queued' \subseteq 1 .. queued' /\ 1 .. queued \subseteq 1 .. queued'
      /\ \A m \in 1 .. queued' : m \in 1 .. queued <=> m \notin queued + 1 .. queued'
  BY SMT DEF Accounts
<1> QED
  BY <1>1, Zenon DEF Accounts, Missing

LEMMA SameLine ==
    ASSUME queued \in Nat, UNCHANGED queued, OnLine' = OnLine
    PROVE  Accounts
<1>1. queued + 1 .. queued = {} /\ queued <= queued
  BY SMT
<1> QED
  BY <1>1 DEF Accounts

LEMMA ProgramAccounts ==
    ASSUME TypeOK,
           Program \/ drop_ends \/ Tick \/ event_loop_idle \/ read_fails \/ UNCHANGED vars
    PROVE  Accounts \/ (drop /\ UNCHANGED queued /\ OnLine' \subseteq OnLine)
<1>1. UNCHANGED <<wire, out_event>> /\ (Queues(output_events) \/ drop)
  BY ProgramCarries
<1>2. CASE Queues(output_events)
  BY <1>1, <1>2 DEF Queues, Accounts, OnLine
<1>3. CASE drop
  <2>1. output_events' = <<Make("CLOSE", 1000)>> /\ UNCHANGED queued
    BY <1>3 DEF drop, FinalQueue
  <2>2. Make("CLOSE", 1000) \in Item /\ ~IsData(Make("CLOSE", 1000))
    BY OtherItems
  <2>3. Carried(output_events') = {}
    BY <2>1, <2>2, CarriedOne
  <2> QED
    BY <1>1, <1>3, <2>1, <2>3 DEF OnLine
<1> QED
  BY <1>1, <1>2, <1>3

LEMMA ReadAccounts == ASSUME TypeOK, read_bytes_from_socket PROVE Accounts
<1>1. OnLine' = OnLine /\ UNCHANGED queued
  BY ReadCarries DEF OnLine
<1> QED
  BY <1>1, SameLine, LineTypes

LEMMA InputAccounts ==
    ASSUME TypeOK, handle_input
    PROVE  \/ Accounts
           \/ /\ Refuses /\ UNCHANGED queued /\ OnLine' \subseteq OnLine
              /\ OnLine \subseteq OnLine' \cup Carried(<<out_event>>)
           \/ /\ connection_status' = "SERVER_WANTS_TO_CLOSE" /\ UNCHANGED queued
              /\ OnLine' \subseteq OnLine
<1>1. wire' = wire
  BY InputCarries
<1>2. CASE Queues(output_events) /\ out_event' = out_event
  BY <1>1, <1>2 DEF Queues, Accounts, OnLine
<1>3. CASE Refuses /\ out_event' = NoData /\ UNCHANGED <<output_events, queued>>
  BY <1>1, <1>3, CarriedNoData DEF OnLine
<1>4. CASE /\ connection_status' = "SERVER_WANTS_TO_CLOSE" /\ UNCHANGED <<out_event, queued>>
           /\ \E code \in Nat : output_events' = <<Make("CLOSE", code)>>
  <2>1. Carried(output_events') = {}
    <3>1. PICK code \in Nat : output_events' = <<Make("CLOSE", code)>>
      BY <1>4
    <3>2. Make("CLOSE", code) \in Item /\ ~IsData(Make("CLOSE", code))
      BY OtherItems
    <3> QED
      BY <3>1, <3>2, CarriedOne
  <2> QED
    BY <1>1, <1>4, <2>1 DEF OnLine
<1> QED
  BY <1>2, <1>3, <1>4, InputCarries

LEMMA OutputAccounts ==
    ASSUME TypeOK, handle_output
    PROVE  Accounts \/ (~Writable /\ UNCHANGED queued /\ OnLine' \subseteq OnLine)
<1>1. out_event' = NoData /\ Carried(<<out_event'>>) = {}
  BY OutputCarries, CarriedNoData
<1>2. CASE Carried(wire') = Carried(wire) \cup Carried(<<out_event>>) /\ Queues(output_events)
  BY <1>1, <1>2 DEF Queues, Accounts, OnLine
<1>3. CASE /\ Carried(wire') = Carried(wire) /\ UNCHANGED queued
           /\ Carried(output_events') = Carried(<<out_event>>) \cup Carried(output_events)
  <2>1. OnLine' = OnLine
    BY <1>1, <1>3 DEF OnLine
  <2> QED
    BY <1>3, <2>1, SameLine, LineTypes
<1>4. CASE ~Writable /\ UNCHANGED <<wire, output_events, queued>>
  BY <1>1, <1>4 DEF OnLine
<1> QED
  BY <1>2, <1>3, <1>4, OutputCarries

LEMMA StartAccounts ==
    ASSUME TypeOK, start_init
    PROVE  /\ UNCHANGED queued /\ OnLine' \subseteq OnLine
           /\ wire = <<>> => Accounts
<1>1. /\ UNCHANGED <<out_event, queued>> /\ wire' \in {wire, <<>>}
      /\ Carried(output_events') = Carried(output_events)
  BY StartCarries
<1>2. OnLine' \subseteq OnLine
  BY <1>1, CarriedNone DEF OnLine
<1>3. wire = <<>> => OnLine' = OnLine
  BY <1>1 DEF OnLine
<1> QED
  BY <1>1, <1>2, <1>3, SameLine, LineTypes

LEMMA ServerAccounts == ASSUME TypeOK, Server PROVE Accounts
<1>1. OnLine' = OnLine /\ UNCHANGED queued
  BY ServerEffect DEF OnLine
<1> QED
  BY <1>1, SameLine, LineTypes

\* Every frame on the line was queued by send, in whatever state.
Numbered == OnLine \subseteq 1 .. queued

LEMMA NextNumbered == TypeOK /\ Numbered /\ [Next]_vars => Numbered'
<1> SUFFICES ASSUME TypeOK, Numbered, [Next]_vars PROVE Numbered'
  OBVIOUS
<1>1. CASE Accounts
  BY <1>1, AccountsForAll, LineTypes DEF Numbered
<1>2. CASE UNCHANGED queued /\ OnLine' \subseteq OnLine
  BY <1>2 DEF Numbered
<1> QED
  BY <1>1, <1>2, ProgramAccounts, ReadAccounts, InputAccounts, OutputAccounts, StartAccounts,
     ServerAccounts
     DEF Next, event_loop

-----------------------------------------------------------------------------
(* The stream, on the first connection *)

\* From the handshake until it closes the client has an open stream.
Linked ==
    /\ connection_status \in {"HANDSHAKE", "OPEN", "SERVER_WANTS_TO_CLOSE"}
    /\ pc \in {"idle", "input", "output"}
    => stream = "Connected"

LinkedInv == ReceivedInv /\ (Once => Linked)

LEMMA LinkedTypes == LinkedInv => TypeOK /\ IInv /\ StatusInv /\ FirstInv
BY DEF LinkedInv, ReceivedInv, FirstInv, IInv

LEMMA OnceBefore ==
    ASSUME TypeOK, [Next]_vars, Once'
    PROVE  Once /\ (inits # 0 => inits' = inits)
<1>1. inits' \in {inits, inits + 1}
  BY ProgramEffect, InputEffect, OutputEffect, ReadEffect, ServerEffect
     DEF Next, event_loop, start_init
<1> QED
  BY <1>1, SMT DEF Once, TypeOK

LEMMA NextLinked == LinkedInv /\ [Next]_vars => LinkedInv'
<1> SUFFICES ASSUME LinkedInv, [Next]_vars, Once' PROVE Linked'
  BY NextReceived DEF LinkedInv
<1>1. TypeOK /\ IInv /\ Linked /\ Once
  BY LinkedTypes, OnceBefore DEF LinkedInv
<1>2. CASE Program
  <2>1. pc = "idle"
    BY <1>2 DEF Program, init, set_message_size, set_timeout, Send, drop_now, drop, InProgram
  <2>2. drop_now \/ UNCHANGED stream
    BY <1>2 DEF Program, init, set_message_size, set_timeout, Send, drop
  <2>3. \/ UNCHANGED connection_status
        \/ connection_status' \in {"START_INIT", "CLIENT_WANTS_TO_CLOSE"}
    BY <1>1, <1>2, ProgramEffect
  <2> QED
    BY <1>1, <2>1, <2>2, <2>3 DEF drop_now, Linked
<1>3. CASE drop_ends \/ Tick \/ event_loop_idle \/ read_fails \/ UNCHANGED vars
  BY <1>1, <1>3 DEF drop_ends, Tick, event_loop_idle, read_fails, vars, Linked
<1>4. CASE read_bytes_from_socket
  BY <1>1, <1>4, ReadEffect DEF Linked
<1>5. CASE start_init
  BY <1>5 DEF start_init, Unreachable, StaysBlocking, Connects, Linked
<1>6. CASE handle_input
  BY <1>1, <1>6, InputEffect DEF Linked
<1>7. CASE handle_output
  <2>1. /\ pc = "output"
        /\ \/ UNCHANGED <<stream, connection_status>>
           \/ connection_status' \in {"CLOSE", "START_INIT"}
    BY <1>1, <1>7, OutputStatus
  <2> QED
    BY <1>1, <2>1 DEF Linked
<1>8. CASE Server
  BY <1>1, <1>8, ServerEffect DEF Linked
<1> QED
  BY <1>2, <1>3, <1>4, <1>5, <1>6, <1>7, <1>8 DEF Next, event_loop

-----------------------------------------------------------------------------
(* Losses *)

\* The states in which nothing may be lost, or only to a refused input.
Keeping ==
    \/ connection_status \in Early
    \/ connection_status \in {"HANDSHAKE", "OPEN"} /\ peer # "reset"

\* Until the connection closes or the stream fails, a frame can be lost only
\* with an input that event_loop refuses while OPEN, and only the one in hand.
LEMMA OnlyRefusalsLose ==
    ASSUME LinkedInv, [Next]_vars, Once', Keeping'
    PROVE  /\ Keeping
           /\ connection_status' = "OPEN" => connection_status \in {"HANDSHAKE", "OPEN"}
           /\ \/ Missing' = Missing
              \/ /\ handle_input /\ Refuses /\ connection_status = "OPEN"
                 /\ Missing' \subseteq Missing \cup Carried(<<out_event>>)
<1>1. /\ TypeOK /\ IInv /\ FirstInv /\ Linked /\ Once /\ (inits # 0 => inits' = inits)
      /\ BeforeFrames /\ (inits = 0 => connection_status = "NOT_INIT")
      /\ (connection_status' \in Early => connection_status' \notin {"HANDSHAKE", "OPEN"})
  BY LinkedTypes, OnceBefore DEF LinkedInv, FirstInv, OnceInv, Early
<1>2. Accounts => Missing' = Missing
  BY <1>1, AccountsForAll, LineTypes
<1>3. CASE Program \/ drop_ends \/ Tick \/ event_loop_idle \/ read_fails \/ UNCHANGED vars
  <2>1. /\ ~drop /\ UNCHANGED peer
        /\ \/ UNCHANGED connection_status
           \/ connection_status' = "START_INIT" /\ connection_status = "NOT_INIT"
    <3>1. UNCHANGED peer /\ connection_status' # "CLIENT_WANTS_TO_CLOSE"
      BY <1>1, <1>3, ProgramEffect DEF Keeping, Early
    <3>2. inits' = inits + 1 => inits = 0
      BY <1>1, SMT DEF TypeOK
    <3> QED
      BY <1>1, <1>3, <3>1, <3>2, ProgramEffect DEF drop
  <2>2. Accounts
    BY <1>1, <1>3, <2>1, ProgramAccounts
  <2> QED
    BY <1>2, <2>1, <2>2 DEF Keeping, Early
<1>4. CASE read_bytes_from_socket
  BY <1>1, <1>2, <1>4, ReadAccounts, ReadEffect DEF Keeping
<1>5. CASE start_init
  <2>1. connection_status = "START_INIT" /\ connection_status' # "OPEN"
    BY <1>5 DEF start_init, Unreachable, StaysBlocking, Connects
  <2>2. wire = <<>>
    BY <1>1, <2>1 DEF BeforeFrames, Early
  <2>3. Accounts
    BY <1>1, <1>5, <2>2, StartAccounts
  <2> QED
    BY <1>2, <2>1, <2>3 DEF Keeping, Early
<1>6. CASE handle_input
  <2>1. /\ pc = "input" /\ connection_status \in Active /\ UNCHANGED peer
    BY <1>1, <1>6, InputEffect DEF IInv, StatusInv
  <2>2. inits # 0
    BY <1>1, <2>1 DEF Active
  <2>3. /\ connection_status' \in {"HANDSHAKE", "OPEN"} => connection_status \in {"HANDSHAKE", "OPEN"}
        /\ connection_status' \notin Early
    BY <1>1, <1>6, <2>1, <2>2, SMT, InputEffect DEF Early, Active, TypeOK
  <2>4. connection_status' \in {"HANDSHAKE", "OPEN"} /\ Keeping
    BY <2>1, <2>3 DEF Keeping
  <2>5. ASSUME Refuses, UNCHANGED queued, OnLine \subseteq OnLine' \cup Carried(<<out_event>>),
               OnLine' \subseteq OnLine
        PROVE  \/ Missing' = Missing
               \/ /\ Refuses /\ connection_status = "OPEN"
                  /\ Missing' \subseteq Missing \cup Carried(<<out_event>>)
    <3>1. CASE connection_status = "HANDSHAKE"
      <4>1. ~IsData(out_event) /\ out_event \in Item
        BY <1>1, <3>1, LineTypes DEF BeforeFrames, NoFrames, is_websocket_data
      <4>2. Carried(<<out_event>>) = {}
        BY <4>1, CarriedOne
      <4> QED
        BY <2>5, <4>2 DEF Missing
    <3>2. CASE connection_status = "OPEN"
      BY <2>5, <3>2 DEF Missing
    <3> QED
      BY <2>3, <2>4, <3>1, <3>2
  <2> QED
    BY <1>1, <1>2, <1>6, <2>3, <2>4, <2>5, InputAccounts
<1>7. CASE handle_output
  <2>1. /\ pc = "output" /\ stream # "None" /\ (peer' # "reset" => peer # "reset")
        /\ connection_status \notin Early
    BY <1>1, <1>7, OutputEffect
       DEF IInv, StreamPresent, BeforeFrames, handle_output, write_sent, write_sent_closing,
           write_sent_shutdown_fails, write_blocks, write_fails
  <2>2. inits # 0
    BY <1>1, <2>1 DEF Early
  <2>3. UNCHANGED connection_status
    BY <1>1, <1>7, <2>2, SMT, OutputEffect DEF Keeping, Early, TypeOK
  <2>4. Keeping /\ Writable
    BY <1>1, <2>1, <2>3 DEF Keeping, Linked, Writable
  <2> QED
    BY <1>1, <1>2, <1>7, <2>3, <2>4, OutputAccounts
<1>8. CASE Server
  <2>1. UNCHANGED connection_status /\ (peer' # "reset" => peer # "reset")
    BY <1>1, <1>8, ServerEffect
       DEF Server, ServerNext, Respond, ServerFrame, ServerClose, PeerFault
  <2> QED
    BY <1>1, <1>2, <1>8, <2>1, ServerAccounts DEF Keeping
<1> QED
  BY <1>3, <1>4, <1>5, <1>6, <1>7, <1>8 DEF Next, event_loop

-----------------------------------------------------------------------------
(* Nothing is lost to a server whose frames the client accepts *)

\* Every frame of the server has an opcode of RFC 6455, and no character is
\* divided between two of them.
WholeFrames ==
    \A frame \in ServerFrames : /\ frame.op # "UNDEFINED"
                                /\ IsData(frame) => frame.cut = "whole"

Acceptable(x) == x.op # "UNDEFINED" /\ (IsData(x) => x.cut = "whole")

(***************************************************************************)
(* What the server sent, and the fragments kept of it, are acceptable, so  *)
(* that no input is refused while OPEN; nothing is missing on the way to   *)
(* the first connection nor, until it closes or fails, on it.              *)
(***************************************************************************)
LosslessInv ==
    /\ LinkedInv /\ Numbered
    /\ Once => /\ \A x \in ToSet(srv_sent) : Acceptable(x)
               /\ \A x \in ToSet(recv_data) : x.cut = "whole"
               /\ Keeping => Missing = {}

LEMMA WholeIsText ==
    ASSUME NEW s \in Seq(Item), \A x \in ToSet(s) : x.cut = "whole"
    PROVE  from_utf8(s)
<1>1. \A i \in DOMAIN s : s[i] \in ToSet(s)
  BY DEF ToSet
<1> QED
  BY <1>1 DEF from_utf8

\* What the server adds to its items.
LEMMA ServerSends ==
    ASSUME TypeOK, Server
    PROVE  \A x \in ToSet(srv_sent') :
              \/ x \in ToSet(srv_sent) \/ x.op \in {"RESPONSE", "CLOSE"}
              \/ \E frame \in ServerFrames : x.op = frame.op /\ x.cut = frame.cut
<1>1. srv_sent \in Seq(Item) /\ Len(srv_sent) \in Nat /\ wire \in Seq(Item)
  BY ReceivedTypes DEF TypeOK, ConnTypeOK
<1>2. CASE ServerFrame
  <2>1. PICK frame \in ServerFrames :
           srv_sent' = Append(srv_sent, [frame EXCEPT !.val = @ * Len(srv_sent)])
    BY <1>2 DEF ServerFrame
  <2> DEFINE x == [frame EXCEPT !.val = @ * Len(srv_sent)]
  <2>2. frame \in Item
    BY ServerAssumption
  <2>3. frame.val * Len(srv_sent) \in Nat
    BY <1>1, <2>2, SMT DEF Item
  <2>4. x \in Item /\ x.op = frame.op /\ x.cut = frame.cut
    BY <2>2, <2>3 DEF Item
  <2> HIDE DEF x
  <2>5. ToSet(srv_sent') = ToSet(srv_sent) \cup {x}
    BY <1>1, <2>1, <2>4, ItemsOfAppend DEF x
  <2> QED
    BY <2>4, <2>5
<1>3. CASE ServerClose
  <2>1. PICK code \in ServerStatuses : srv_sent' = Append(srv_sent, Make("CLOSE", code))
    BY <1>3 DEF ServerClose
  <2>2. Make("CLOSE", code) \in Item /\ Make("CLOSE", code).op = "CLOSE"
    BY ServerAssumption, OtherItems, PlainItems
  <2>3. ToSet(srv_sent') = ToSet(srv_sent) \cup {Make("CLOSE", code)}
    BY <1>1, <2>1, <2>2, ItemsOfAppend
  <2> QED
    BY <2>2, <2>3
<1>4. CASE Respond
  <2>1. PICK key \in {Head(wire).val} \cup (IF MayReject THEN {0} ELSE {}) :
           srv_sent' = <<Make("RESPONSE", key)>>
    BY <1>4 DEF Respond
  <2>2. key \in Nat
    <3>1. Head(wire) \in Item
      BY <1>1, <1>4, ItemsOfQueue DEF Respond
    <3> QED
      BY <2>1, <3>1 DEF Item
  <2>3. Make("RESPONSE", key) \in Item /\ Make("RESPONSE", key).op = "RESPONSE"
    BY <2>2, MakeType DEF Make, Ops, HttpOps
  <2>4. ToSet(srv_sent') = {Make("RESPONSE", key)}
    BY <2>1, <2>3, ItemsOfOne
  <2> QED
    BY <2>3, <2>4
<1>5. CASE PeerFault
  BY <1>5 DEF PeerFault
<1> QED
  BY <1>2, <1>3, <1>4, <1>5 DEF Server, ServerNext

\* The fragments kept are added to, given to the callback, or left.
LEMMA KeptEffect ==
    ASSUME TypeOK, [Next]_vars
    PROVE  \/ recv_data' \in {recv_data, <<>>}
           \/ handle_recv_frame /\ recv_data' = Append(recv_data, in_event)
<1>1. CASE handle_input
  BY <1>1 DEF handle_input, handle_recv_frame, handle_recv_http_response, recv_ping,
       recv_pong, recv_undefined, recv_close_from_server, recv_close_answer,
       recv_close_ignored, Kept
<1>2. CASE start_init
  BY <1>2 DEF start_init
<1> QED
  BY <1>1, <1>2, ProgramEffect, ReadEffect, OutputEffect, ServerEffect DEF Next, event_loop

\* Nothing that a server of whole frames sent is refused after the handshake.
LEMMA NothingRefused ==
    ASSUME LosslessInv, Once, pc = "input", connection_status # "HANDSHAKE"
    PROVE  /\ in_event.op # "UNDEFINED"
           /\ IsData(in_event) => in_event.cut = "whole" /\ from_utf8(<<in_event>>)
                                     /\ from_utf8(Kept)
<1>1. /\ TypeOK /\ ReceivedInv
      /\ \A x \in ToSet(srv_sent) : Acceptable(x)
      /\ \A x \in ToSet(recv_data) : x.cut = "whole"
      /\ recv_data \in Seq(Item) /\ in_event \in Item
  BY LinkedTypes DEF LosslessInv, LinkedInv, TypeOK
<1>2. in_event.op # "UNDEFINED" /\ (IsData(in_event) => in_event.cut = "whole")
  BY <1>1, HandledWasSent DEF Acceptable
<1>3. ASSUME IsData(in_event) PROVE from_utf8(<<in_event>>) /\ from_utf8(Kept)
  <2>1. /\ <<in_event>> \in Seq(Item) /\ \A x \in ToSet(<<in_event>>) : x.cut = "whole"
        /\ Append(recv_data, in_event) \in Seq(Item)
        /\ \A x \in ToSet(Append(recv_data, in_event)) : x.cut = "whole"
    BY <1>1, <1>2, <1>3, ItemsOfOne, ItemsOfAppend
  <2>2. Kept \in Seq(Item) /\ \A x \in ToSet(Kept) : x.cut = "whole"
    BY <1>1, <2>1 DEF Kept
  <2> QED
    BY <2>1, <2>2, WholeIsText
<1> QED
  BY <1>2, <1>3

LEMMA NextLossless ==
    ASSUME WholeFrames, LosslessInv, [Next]_vars
    PROVE  LosslessInv'
<1> SUFFICES ASSUME Once'
             PROVE  /\ \A x \in ToSet(srv_sent') : Acceptable(x)
                    /\ \A x \in ToSet(recv_data') : x.cut = "whole"
                    /\ Keeping' => Missing' = {}
  BY NextLinked, NextNumbered, LinkedTypes DEF LosslessInv
<1>1. /\ TypeOK /\ Once /\ LinkedInv /\ ReceivedInv
      /\ \A x \in ToSet(srv_sent) : Acceptable(x)
      /\ \A x \in ToSet(recv_data) : x.cut = "whole"
      /\ Keeping => Missing = {}
      /\ recv_data \in Seq(Item) /\ in_event \in Item
  BY LinkedTypes, OnceBefore DEF LosslessInv, LinkedInv, TypeOK
<1>2. \A x \in ToSet(srv_sent') : Acceptable(x)
  <2>1. CASE Server
    <3>1. \A x : x.op \in {"RESPONSE", "CLOSE"} => Acceptable(x)
      BY DEF Acceptable, IsData, DataOps
    <3>2. \A x : (\E frame \in ServerFrames : x.op = frame.op /\ x.cut = frame.cut)
                   => Acceptable(x)
      BY DEF WholeFrames, Acceptable, IsData
    <3> QED
      BY <1>1, <2>1, <3>1, <3>2, ServerSends
  <2>2. CASE start_init
    BY <1>1, <2>2, ItemsOfNone DEF start_init, Unreachable, StaysBlocking, Connects
  <2> QED
    BY <1>1, <2>1, <2>2, ProgramEffect, ReadEffect, InputEffect, OutputEffect
       DEF Next, event_loop
<1>3. pc = "input" /\ connection_status # "HANDSHAKE" =>
         /\ in_event.op # "UNDEFINED"
         /\ IsData(in_event) => in_event.cut = "whole" /\ from_utf8(<<in_event>>)
                                   /\ from_utf8(Kept)
  BY <1>1, NothingRefused
<1>4. pc = "input" /\ IsData(in_event) => in_event.cut = "whole"
  <2>1. pc = "input" /\ connection_status = "HANDSHAKE" => in_event.op = "RESPONSE"
    BY <1>1 DEF ReceivedInv, Received
  <2> QED
    BY <1>3, <2>1 DEF IsData, DataOps
<1>5. \A x \in ToSet(recv_data') : x.cut = "whole"
  <2>1. CASE recv_data' \in {recv_data, <<>>}
    BY <1>1, <2>1, ItemsOfNone
  <2>2. CASE handle_recv_frame /\ recv_data' = Append(recv_data, in_event)
    <3>1. in_event.cut = "whole"
      BY <1>4, <2>2 DEF handle_recv_frame
    <3>2. ToSet(recv_data') = ToSet(recv_data) \cup {in_event}
      BY <1>1, <2>2, ItemsOfAppend
    <3> QED
      BY <1>1, <3>1, <3>2
  <2> QED
    BY <1>1, <2>1, <2>2, KeptEffect
<1>6. ASSUME Keeping' PROVE Missing' = {}
  <2>1. ~(handle_input /\ Refuses /\ connection_status = "OPEN")
    <3> SUFFICES ASSUME handle_input, Refuses, connection_status = "OPEN" PROVE FALSE
      OBVIOUS
    <3>1. pc = "input"
      BY <1>1, InputEffect
    <3> QED
      BY <1>3, <3>1 DEF Refuses
  <2> QED
    BY <1>1, <1>6, <2>1, OnlyRefusalsLose
<1> QED
  BY <1>2, <1>5, <1>6

LEMMA NothingOnLine == Init => LinkedInv /\ Numbered /\ Missing = {} /\ queued = 0
<1> SUFFICES ASSUME Init PROVE LinkedInv /\ Numbered /\ Missing = {} /\ queued = 0
  OBVIOUS
<1>1. /\ wire = <<>> /\ out_event = NoData /\ output_events = <<>> /\ queued = 0
      /\ connection_status = "NOT_INIT"
  BY DEF Init, ConnInit
<1>2. OnLine = {}
  BY <1>1, CarriedNone, CarriedNoData DEF OnLine
<1>3. 1 .. 0 = {}
  BY SMT
<1>4. LinkedInv
  BY <1>1, InitReceived DEF LinkedInv, Linked
<1> QED
  BY <1>1, <1>2, <1>3, <1>4 DEF Numbered, Missing

LEMMA InitLossless == Init => LosslessInv
<1> SUFFICES ASSUME Init PROVE LosslessInv
  OBVIOUS
<1>1. srv_sent = <<>> /\ recv_data = <<>>
  BY DEF Init, ConnInit
<1> QED
  BY <1>1, NothingOnLine, ItemsOfNone DEF LosslessInv

\* On the first connection, and with a server whose frames the client does not
\* refuse, no frame that send accepted, before the handshake, in it or from the
\* callback, is lost as long as the connection is neither closing nor lost,
\* whatever the writes do (client.rs 191-207, 351-374, 452-466).
THEOREM NothingIsLost == Spec => [](WholeFrames /\ inits <= 1 => NothingLost)
<1> DEFINE P == WholeFrames /\ inits <= 1 => NothingLost
<1>1. ~WholeFrames => P
  OBVIOUS
<1>2. WholeFrames /\ LosslessInv /\ [Next]_vars => LosslessInv'
  BY NextLossless
<1>3. LosslessInv => P
  <2> SUFFICES ASSUME LosslessInv, Once,
                      connection_status \in {"NOT_INIT", "START_INIT", "HANDSHAKE", "OPEN"},
                      peer # "reset"
               PROVE  Carried(Line) = 1 .. queued
    BY DEF NothingLost, Once
  <2>1. Keeping
    BY DEF Keeping, Early
  <2>2. Missing = {} /\ Numbered /\ Carried(Line) = OnLine
    BY <2>1, CarriedLine, LinkedTypes DEF LosslessInv, OnLine
  <2> QED
    BY <2>2 DEF Missing, Numbered
<1> HIDE DEF P
<1>4. CASE ~WholeFrames
  <2>1. P
    BY <1>1, <1>4
  <2> QED
    BY <2>1, PTL DEF P
<1>5. CASE WholeFrames
  <2>1. LosslessInv /\ [Next]_vars => LosslessInv'
    BY <1>2, <1>5
  <2>2. Spec => []P
    BY <1>3, <2>1, InitLossless, PTL DEF Spec
  <2> QED
    BY <2>2 DEF P
<1> QED
  BY <1>4, <1>5

-----------------------------------------------------------------------------
(* How much is lost to a server whose frames the client refuses *)

\* A call that refuses its input while OPEN returns an error at once, unless
\* there is no callback to refuse a text for.
LEMMA RefusalReturns ==
    ASSUME TypeOK, handle_input, Refuses, connection_status = "OPEN"
    PROVE  /\ pc = "input"
           /\ \/ UNCHANGED <<wire, out_event, output_events, queued>>
              \/ pc' = "idle" /\ result' \in {"InvalidFrame", "DecodingFromUTF8"}
<1>1. CASE recv_undefined
  BY <1>1 DEF recv_undefined, Fails
<1>2. CASE handle_recv_frame
  BY <1>2 DEF handle_recv_frame, Fails, Handled, Refuses, IsData, DataOps
<1>3. \A op \in DataOps : op \notin {"UNDEFINED", "PING", "PONG", "CLOSE", "RESPONSE"}
  BY DEF DataOps
<1> QED
  BY <1>1, <1>2, <1>3 DEF handle_input, handle_recv_http_response, recv_ping, recv_pong,
     recv_close_from_server, recv_close_answer, recv_close_ignored, Refuses, IsData

LEMMA AbsentIsMissing == TypeOK => Absent = Missing
BY CarriedLine DEF Absent, Missing, OnLine

\* On the first connection, whatever the server sends: while it is open and not
\* lost, a frame is lost only with an input that is refused, and only the one
\* popped in that call (client.rs 215-223).
THEOREM RefusalsCostOne == Spec /\ [](inits <= 1) => RefusalCostsOne
<1> DEFINE Step == /\ connection_status' = "OPEN" /\ peer' # "reset"
                   /\ Absent' # Absent
                   => /\ pc = "input" /\ pc' = "idle"
                      /\ result' \in {"InvalidFrame", "DecodingFromUTF8"}
                      /\ Absent' \subseteq Absent \cup Carried(<<out_event>>)
<1>1. LinkedInv /\ [Next]_vars /\ (inits <= 1)' => Step
  <2> SUFFICES ASSUME LinkedInv, [Next]_vars, Once', connection_status' = "OPEN", peer' # "reset",
                      Absent' # Absent
               PROVE  /\ pc = "input" /\ pc' = "idle"
                      /\ result' \in {"InvalidFrame", "DecodingFromUTF8"}
                      /\ Absent' \subseteq Absent \cup Carried(<<out_event>>)
    BY DEF Once
  <2>1. TypeOK /\ Keeping'
    BY LinkedTypes DEF Keeping
  <2>2. TypeOK'
    BY <2>1, NextType
  <2>3. Absent = Missing /\ Absent' = Missing'
    <3>1. (TypeOK => Absent = Missing)'
      BY AbsentIsMissing, PTL
    <3> QED
      BY <2>1, <2>2, <3>1, AbsentIsMissing
  <2>4. /\ handle_input /\ Refuses /\ connection_status = "OPEN"
        /\ Missing' \subseteq Missing \cup Carried(<<out_event>>)
    BY <2>1, <2>3, OnlyRefusalsLose
  <2>5. ~UNCHANGED <<wire, out_event, output_events, queued>>
    BY <2>3 DEF Missing, OnLine
  <2> QED
    BY <2>1, <2>3, <2>4, <2>5, RefusalReturns
<1>2. Init => LinkedInv
  BY NothingOnLine
<1>3. LinkedInv /\ [Next]_vars => LinkedInv'
  BY NextLinked
<1>4. Spec /\ [](inits <= 1) => [][Step]_vars
  BY <1>1, <1>2, <1>3, PTL DEF Spec
<1> QED
  BY <1>4 DEF RefusalCostsOne

-----------------------------------------------------------------------------
(* The client as WSSession sees it *)

Lost    == Failed
Pending == Carried(<<out_event>> \o output_events)
Passed  == Reached
Kinds   == [i \in DOMAIN events |-> events[i].kind]

\* The frames handed over in a step join those that are pending.
Accepted == queued' >= queued /\ Pending' = Pending \cup (queued + 1 .. queued')

FirstOf(n) == n \in Pending /\ \A m \in Pending : n <= m

LEMMA SameStream ==
    UNCHANGED <<wire, peer>> => UNCHANGED <<Lost, Passed>>
BY DEF Lost, Failed, Torn, Passed, Reached, Legible

\* What is written joins what reaches the server, unless a part of a frame is
\* ahead of it; a part of a frame does not, and nothing does behind it.
LEMMA ReachedAppend ==
    ASSUME TypeOK, NEW x \in Item, wire' = Append(wire, x)
    PROVE  /\ Torn => Torn' /\ Passed' = Passed
           /\ ~Torn /\ x.op # "TORN" => ~Torn' /\ Passed' = Passed \cup Carried(<<x>>)
           /\ ~Torn /\ x.op = "TORN" => Torn' /\ Passed' = Passed
<1> DEFINE n == Len(wire)
<1>1. /\ wire \in Seq(Item) /\ n \in Nat /\ Len(wire') = n + 1 /\ wire'[n + 1] = x
      /\ \A i \in 1 .. n : wire'[i] = wire[i]
      /\ DOMAIN wire = 1 .. n /\ DOMAIN wire' = 1 .. Len(wire')
  <2>1. wire \in Seq(Item)
    BY DEF TypeOK, ConnTypeOK
  <2> QED
    BY <2>1, AppendProperties, LenProperties
<1> HIDE DEF n
<1>2. /\ \A i : i \in 1 .. n + 1 <=> i \in 1 .. n \/ i = n + 1
      /\ \A i \in 1 .. n : \A k \in 1 .. i : k \in 1 .. n
      /\ n + 1 \notin 1 .. n /\ n + 1 \in Nat
  BY <1>1, SMT
<1>3. DOMAIN wire' = 1 .. n + 1
  BY <1>1
<1>4. Torn' <=> Torn \/ x.op = "TORN"
  BY <1>1, <1>2, <1>3, Zenon DEF Torn
<1>5. \A i \in 1 .. n : i \in Legible' <=> i \in Legible
  BY <1>1, <1>2, <1>3, Zenon DEF Legible
<1>6. n + 1 \in Legible' <=> ~Torn /\ x.op # "TORN"
  BY <1>1, <1>2, <1>3, Zenon DEF Legible, Torn
<1>7. Legible \subseteq 1 .. n /\ Legible' \subseteq 1 .. n + 1
  BY <1>1, <1>3 DEF Legible
<1>8. CASE ~Torn /\ x.op # "TORN"
  <2>1. Carried(<<x>>) = IF IsData(x) THEN {x.val} ELSE {}
    BY CarriedOne
  <2>2. \A v : v \in Reached' <=> v \in Reached \/ (IsData(x) /\ v = x.val)
    <3>1. \A v : v \in Reached' => v \in Reached \/ (IsData(x) /\ v = x.val)
      BY <1>1, <1>2, <1>5, <1>7, Zenon DEF Reached
    <3>2. \A v : v \in Reached => v \in Reached'
      BY <1>1, <1>2, <1>5, <1>7, Zenon DEF Reached
    <3>3. IsData(x) => x.val \in Reached'
      BY <1>1, <1>2, <1>6, <1>8, Zenon DEF Reached
    <3> QED
      BY <3>1, <3>2, <3>3
  <2> QED
    BY <1>4, <1>8, <2>1, <2>2 DEF Passed
<1>9. CASE Torn \/ x.op = "TORN"
  <2>1. \A v : v \in Reached' <=> v \in Reached
    BY <1>1, <1>2, <1>5, <1>6, <1>7, <1>9, Zenon DEF Reached
  <2>2. Reached' = Reached
    BY <2>1 DEF Reached
  <2> QED
    BY <1>4, <1>9, <2>2 DEF Passed
<1> QED
  BY <1>8, <1>9

LEMMA AsNoStep ==
    ASSUME UNCHANGED <<Phase, Lost, queued, Pending, Leaving, Passed, Kinds>>
    PROVE  UNCHANGED Session!vars
BY DEF Session!vars, Lost, Pending, Passed, Kinds

LEMMA AsHandOver ==
    ASSUME Phase # "closed", Accepted, UNCHANGED <<Phase, Lost, Leaving, Passed, Kinds>>
    PROVE  Session!Next
BY DEF Session!Next, Session!HandOver, Session!Accepts, Accepted, Lost, Pending, Passed, Kinds

LEMMA AsOpens ==
    ASSUME Phase = "opening", Phase' = "open", Accepted,
           Kinds' = Kinds \/ Kinds' = Append(Kinds, "ON_CONNECT"),
           UNCHANGED <<Lost, Leaving, Passed>>
    PROVE  Session!Next
BY DEF Session!Next, Session!Opens, Session!Hears, Session!Accepts,
       Accepted, Lost, Pending, Passed, Kinds

LEMMA AsHearsText ==
    ASSUME Phase \in {"open", "closing"}, Accepted, Kinds' = Append(Kinds, "ON_TEXT"),
           UNCHANGED <<Phase, Lost, Leaving, Passed>>
    PROVE  Session!Next
BY DEF Session!Next, Session!HearsText, Session!Accepts, Accepted, Lost, Pending, Passed, Kinds

LEMMA AsPassesOn ==
    ASSUME ~Lost, Phase = "open" \/ Leaving, ~Leaving', NEW n, FirstOf(n),
           Passed' = Passed \cup {n}, Pending' = Pending \ {n},
           UNCHANGED <<Phase, Lost, queued, Kinds>>
    PROVE  Session!Next
<1>1. Leaving' = FALSE
  BY DEF Leaving
<1> QED
  BY <1>1 DEF Session!Next, Session!PassesOn, Session!Foremost, FirstOf, Lost, Pending, Passed, Kinds

LEMMA AsBeginsToClose ==
    ASSUME Phase \in {"open", "closing"}, Phase' = "closing",
           \/ Pending' = {} /\ ~Leaving'
           \/ /\ Phase = "open" /\ (Leaving' <=> ~Lost)
              /\ \E n : FirstOf(n) /\ Pending' = {n},
           UNCHANGED <<Lost, queued, Passed, Kinds>>
    PROVE  Session!Next
<1>1. /\ ~Leaving' => Leaving' = FALSE
      /\ (Leaving' <=> ~Lost) => Leaving' = ~Lost
  BY DEF Leaving, Lost
<1> QED
  BY <1>1 DEF Session!Next, Session!BeginsToClose, Session!Foremost, FirstOf,
              Lost, Pending, Passed, Kinds

LEMMA AsCloses ==
    ASSUME Phase = "closing", Phase' = "closed", ~Leaving', Lost => Lost',
           \/ Kinds' = Kinds
           \/ \E kind \in {"SERVER_CLOSE", "CLIENT_CLOSE"} : Kinds' = Append(Kinds, kind),
           UNCHANGED <<queued, Pending, Passed>>
    PROVE  Session!Next
<1>1. Leaving' = FALSE /\ Lost' \in {Lost, TRUE}
  BY DEF Leaving, Lost, Failed
<1> QED
  BY <1>1 DEF Session!Next, Session!Closes, Session!Hears, Lost, Pending, Passed, Kinds

LEMMA AsFails ==
    ASSUME ~Lost, Lost', ~Leaving', UNCHANGED <<Phase, queued, Pending, Passed, Kinds>>
    PROVE  Session!Next
<1>1. Leaving' = FALSE /\ Lost' = TRUE
  BY DEF Leaving, Lost, Failed
<1> QED
  BY <1>1 DEF Session!Next, Session!Fails, Lost, Pending, Passed, Kinds

LEMMA AsGivesUp ==
    ASSUME Lost, NEW n, FirstOf(n), Pending' = Pending \ {n},
           UNCHANGED <<Phase, Lost, queued, Leaving, Passed, Kinds>>
    PROVE  Session!Next
BY DEF Session!Next, Session!GivesUp, Session!Foremost, FirstOf, Lost, Pending, Passed, Kinds

LEMMA PhaseIs ==
    /\ connection_status \in Early \cup {"HANDSHAKE"} => Phase = "opening"
    /\ connection_status = "OPEN" => Phase = "open"
    /\ connection_status \in {"CLIENT_WANTS_TO_CLOSE", "SERVER_WANTS_TO_CLOSE"}
         => Phase = "closing"
    /\ connection_status = "CLOSE" => Phase = "closed"
BY DEF Phase, Early

LEMMA PendingIs ==
    TypeOK => Pending = Carried(<<out_event>>) \cup Carried(output_events)
BY CarriedPrefixed, LineTypes DEF Pending

LEMMA KindsAppended ==
    ASSUME events \in Seq(WSEvent), NEW event, events' = Append(events, event)
    PROVE  Kinds' = Append(Kinds, event.kind)
<1>1. /\ Len(events) \in Nat /\ Len(events') = Len(events) + 1
      /\ \A i \in 1 .. Len(events) : events'[i] = events[i]
      /\ events'[Len(events) + 1] = event
      /\ DOMAIN events = 1 .. Len(events) /\ DOMAIN events' = 1 .. Len(events')
  BY AppendProperties, LenProperties
<1> QED
  BY <1>1 DEF Kinds

-----------------------------------------------------------------------------
(* What goes to the server next *)

FirstData(s) == s # <<>> /\ IsData(s[1])

\* A frame that ends the connection when it is written is first, or second.
EndsSoon(s) == \/ s # <<>> /\ IsControl(s[1])
               \/ Len(s) >= 2 /\ IsControl(s[2])

\* What is left of the queue, the event popped from it included.
Ahead == IF out_event = NoData THEN output_events ELSE <<out_event>> \o output_events

LEMMA Firsts ==
    ASSUME NEW x \in Item, NEW s \in Seq(Item)
    PROVE  LET u == <<x>> \o s
           IN  /\ u \in Seq(Item) /\ u # <<>> /\ u[1] = x /\ Len(u) = Len(s) + 1
               /\ s # <<>> => Len(u) >= 2 /\ u[2] = s[1]
               /\ Len(u) >= 2 => s # <<>>
<1>1. /\ <<x>> \in Seq(Item) /\ Len(<<x>>) = 1 /\ <<x>>[1] = x
  BY OneItem
<1> DEFINE u == <<x>> \o s
<1>2. /\ u \in Seq(Item) /\ Len(s) \in Nat /\ Len(u) = 1 + Len(s)
      /\ \A i \in 1 .. 1 : u[i] = <<x>>[i]
      /\ \A i \in 1 .. Len(s) : u[1 + i] = s[i]
  BY <1>1, ConcatItems
<1>3. 1 \in 1 .. 1 /\ (s # <<>> => 1 \in 1 .. Len(s) /\ Len(s) # 0) /\ (Len(s) # 0 => s # <<>>)
  BY <1>2, EmptySeq, LenProperties, SMT
<1>4. u # <<>>
  BY <1>2, EmptySeq, SMT
<1>5. /\ 1 + 1 = 2 /\ Len(u) = Len(s) + 1
      /\ Len(s) # 0 => Len(u) >= 2
      /\ Len(u) >= 2 => Len(s) # 0
  BY <1>2, SMT
<1> QED
  BY <1>1, <1>2, <1>3, <1>4, <1>5

LEMMA FirstsKept ==
    ASSUME NEW s \in Seq(Item), NEW t \in Seq(Item), s # <<>>
    PROVE  /\ FirstData(s \o t) <=> FirstData(s)
           /\ EndsSoon(s) => EndsSoon(s \o t)
<1> DEFINE u == s \o t
<1>1. /\ u \in Seq(Item) /\ Len(s) \in Nat /\ Len(t) \in Nat /\ Len(u) = Len(s) + Len(t)
      /\ \A i \in 1 .. Len(s) : u[i] = s[i]
  BY ConcatItems
<1>2. Len(s) # 0
  BY LenProperties, EmptySeq
<1>3. /\ 1 \in 1 .. Len(s) /\ Len(u) # 0
      /\ Len(s) >= 2 => 2 \in 1 .. Len(s) /\ Len(u) >= 2
  BY <1>1, <1>2, SMT
<1>4. u # <<>>
  BY <1>3, EmptySeq
<1> HIDE DEF u
<1>5. (FirstData(u) <=> FirstData(s)) /\ (EndsSoon(s) => EndsSoon(u))
  BY <1>1, <1>3, <1>4 DEF FirstData, EndsSoon
<1> QED
  BY <1>5 DEF u

LEMMA FirstsPrefixed ==
    ASSUME NEW x \in Item, NEW s \in Seq(Item)
    PROVE  /\ FirstData(<<x>> \o s) <=> IsData(x)
           /\ IsControl(x) => EndsSoon(<<x>> \o s)
           /\ ~IsControl(x) /\ EndsSoon(<<x>> \o s) =>
                 s # <<>> /\ IsControl(s[1]) /\ EndsSoon(s) /\ ~FirstData(s)
           /\ s # <<>> /\ IsControl(s[1]) => EndsSoon(<<x>> \o s)
<1> DEFINE u == <<x>> \o s
<1>1. /\ u # <<>> /\ u[1] = x
      /\ s # <<>> => Len(u) >= 2 /\ u[2] = s[1]
      /\ Len(u) >= 2 => s # <<>>
  BY Firsts
<1> HIDE DEF u
<1>2. \A y : IsControl(y) => ~IsData(y)
  BY PlainItems
<1>3. /\ FirstData(u) <=> IsData(x)
      /\ IsControl(x) => EndsSoon(u)
      /\ ~IsControl(x) /\ EndsSoon(u) =>
            s # <<>> /\ IsControl(s[1]) /\ EndsSoon(s) /\ ~FirstData(s)
      /\ s # <<>> /\ IsControl(s[1]) => EndsSoon(u)
  BY <1>1, <1>2 DEF FirstData, EndsSoon
<1> QED
  BY <1>3 DEF u

LEMMA EndsAtOnce ==
    ASSUME NEW x \in Item, NEW y \in Item, IsControl(y), NEW s \in Seq(Item)
    PROVE  /\ <<y>> \in Seq(Item) /\ EndsSoon(<<y>>) /\ EndsSoon(<<x>> \o <<y>>)
           /\ EndsSoon(<<x>> \o (<<y>> \o s))
<1>1. <<y>> \in Seq(Item) /\ <<y>> # <<>> /\ <<y>>[1] = y
  BY OneItem
<1>2. <<y>> \o s \in Seq(Item) /\ <<y>> \o s # <<>> /\ (<<y>> \o s)[1] = y
  BY Firsts
<1>3. EndsSoon(<<y>>)
  BY <1>1 DEF EndsSoon
<1>4. EndsSoon(<<x>> \o <<y>>)
  BY <1>1, FirstsPrefixed
<1>5. EndsSoon(<<x>> \o (<<y>> \o s))
  BY <1>2, FirstsPrefixed
<1> QED
  BY <1>1, <1>3, <1>4, <1>5

LEMMA LeavingIs ==
    TypeOK => (Leaving <=> /\ connection_status = "SERVER_WANTS_TO_CLOSE" /\ ~Lost
                           /\ FirstData(Ahead))
<1> SUFFICES ASSUME TypeOK
             PROVE  Leaving <=> /\ connection_status = "SERVER_WANTS_TO_CLOSE" /\ ~Lost
                                /\ FirstData(Ahead)
  OBVIOUS
<1>1. out_event \in Item /\ output_events \in Seq(Item)
  BY LineTypes
<1>2. CASE out_event = NoData
  <2>1. output_events # <<>> => Head(output_events) = output_events[1]
    BY <1>1
  <2> QED
    BY <1>2, <2>1, NoDataFrame DEF Leaving, Lost, Ahead, FirstData
<1>3. CASE out_event # NoData
  <2>1. FirstData(Ahead) <=> IsData(out_event)
    BY <1>1, <1>3, FirstsPrefixed DEF Ahead
  <2> QED
    BY <1>3, <2>1 DEF Leaving, Lost
<1> QED
  BY <1>2, <1>3

LEMMA LeavingNext ==
    ASSUME TypeOK'
    PROVE  Leaving' <=> /\ connection_status' = "SERVER_WANTS_TO_CLOSE" /\ ~Lost'
                        /\ FirstData(Ahead')
<1>1. (TypeOK => (Leaving <=> /\ connection_status = "SERVER_WANTS_TO_CLOSE" /\ ~Lost
                              /\ FirstData(Ahead)))'
  BY LeavingIs, PTL
<1> QED
  BY <1>1

LEMMA LeavingKept ==
    ASSUME TypeOK, TypeOK', UNCHANGED <<connection_status, Lost>>,
           connection_status = "SERVER_WANTS_TO_CLOSE" /\ ~Lost
             => (FirstData(Ahead') <=> FirstData(Ahead))
    PROVE  Leaving' = Leaving
<1>1. Leaving <=> Leaving'
  BY LeavingIs, LeavingNext
<1> QED
  BY <1>1 DEF Leaving

LEMMA PendingAfter ==
    ASSUME TypeOK'
    PROVE  Pending' = Carried(<<out_event'>>) \cup Carried(output_events')
BY PendingIs, CarriedPrefixed DEF Pending, TypeOK

\* The frame in hand is the foremost.
LEMMA InHandIsFirst ==
    ASSUME TypeOK, OrderInv, IsData(out_event)
    PROVE  /\ FirstOf(out_event.val) /\ Carried(<<out_event>>) = {out_event.val}
           /\ Pending \ {out_event.val} = Carried(output_events)
<1>1. /\ out_event \in Item /\ output_events \in Seq(Item) /\ out_event.val \in Nat
      /\ Carried(<<out_event>>) = {out_event.val}
      /\ Pending = {out_event.val} \cup Carried(output_events)
  BY LineTypes, CarriedOne, PendingIs
<1>2. \A m \in Carried(output_events) : m \in Nat /\ out_event.val < m
  <2> SUFFICES ASSUME NEW j \in DOMAIN output_events, IsData(output_events[j])
               PROVE  output_events[j].val \in Nat /\ out_event.val < output_events[j].val
    BY DEF Carried
  <2>1. j \in 1 .. Len(output_events) /\ output_events[j] \in Item
    BY <1>1, LenProperties, ElementOfSeq
  <2>2. Len(<<out_event>>) = 1 /\ <<out_event>>[1] = out_event /\ 1 \in 1 .. 1
    OBVIOUS
  <2>3. Precedes(<<out_event>>, output_events)
    BY DEF OrderInv, Piped
  <2>4. <<out_event>>[1].val < output_events[j].val
    BY <2>1, <2>2, <2>3 DEF Precedes
  <2> QED
    BY <2>1, <2>2, <2>4 DEF Item
<1>3. \A m \in Carried(output_events) : out_event.val <= m /\ out_event.val # m
  BY <1>1, <1>2, SMT
<1>4. out_event.val <= out_event.val
  BY <1>1, SMT
<1> QED
  BY <1>1, <1>3, <1>4 DEF FirstOf

-----------------------------------------------------------------------------
(* The client as the program of one connection uses it *)

\* init is called once, and the server sends what the client accepts.
PlainUse == MaxInits <= 1 /\ WholeFrames

(***************************************************************************)
(* Before the socket is connected nothing was heard or lost.  Drop leaves  *)
(* no frame but its Close, and none is in hand when the connection has     *)
(* closed.  When the server closes, the answer is the next to be written,  *)
(* or only behind the frame that was in hand; and an input is handled with *)
(* the head of the queue in hand, so that a PONG cannot come between.      *)
(***************************************************************************)
ClosingInv ==
    /\ NoData \notin ToSet(output_events)
    /\ connection_status \in Early => events = <<>> /\ ~Lost
    /\ connection_status = "CLIENT_WANTS_TO_CLOSE" => dropping /\ Pending = {}
    /\ connection_status = "CLOSE" => Carried(<<out_event>>) = {}
    /\ connection_status = "SERVER_WANTS_TO_CLOSE" /\ ~Lost => EndsSoon(Ahead)
    /\ pc = "input" /\ connection_status # "HANDSHAKE" /\ out_event = NoData
         => output_events = <<>>

\* What is queued is never a part of a frame.
NothingTorn == out_event.op # "TORN" /\ \A x \in ToSet(output_events) : x.op # "TORN"

SessionInv == LosslessInv /\ OrderInv /\ inits <= MaxInits /\ ClosingInv /\ NothingTorn

LEMMA SessionFacts ==
    ASSUME PlainUse, SessionInv
    PROVE  /\ Once /\ TypeOK /\ IInv /\ StatusInv /\ StreamPresent /\ LinkedInv /\ ReceivedInv
           /\ Linked /\ BeforeFrames /\ OrderInv /\ ClosingInv
           /\ inits \in Nat /\ MaxInits \in Nat
           /\ inits = 0 => connection_status = "NOT_INIT"
           /\ NothingTorn
<1>1. /\ TypeOK /\ IInv /\ StatusInv /\ FirstInv /\ LinkedInv /\ ReceivedInv /\ OrderInv
      /\ ClosingInv /\ inits <= MaxInits /\ NothingTorn
  BY LinkedTypes DEF SessionInv, LosslessInv, LinkedInv
<1>2. inits \in Nat /\ MaxInits \in Nat
  BY <1>1, ClientAssumption DEF TypeOK
<1>3. Once
  BY <1>1, <1>2, SMT DEF PlainUse, Once
<1> QED
  BY <1>1, <1>2, <1>3 DEF LinkedInv, FirstInv, OnceInv, IInv

\* init is called in NOT_INIT, never by the callback.
LEMMA InitCalled ==
    ASSUME PlainUse, SessionInv, reinit
    PROVE  connection_status = "NOT_INIT" /\ inits' <= MaxInits
<1>1. inits < MaxInits /\ inits' = inits + 1 /\ inits \in Nat /\ MaxInits \in Nat /\ MaxInits <= 1
  BY SessionFacts DEF reinit, PlainUse
<1>2. inits = 0 /\ inits' <= MaxInits
  BY <1>1, SMT
<1> QED
  BY <1>2, SessionFacts

LEMMA SendJoins ==
    ASSUME NEW text \in Texts, NEW status, NEW outs \in Seq(Item), NEW next, queued \in Nat,
           send(text, status, outs, next)
    PROVE  /\ pc' \in {next, "panicked", "diverged"}
           /\ \/ output_events' = outs /\ UNCHANGED queued
              \/ /\ status # "CLOSE" /\ Queues(outs)
                 /\ \E t \in Seq(Item) : output_events' = outs \o t
<1>1. pc' \in {next, "panicked", "diverged"} /\ Queues(outs)
  BY SendEffect, SendCarries
<1>2. ASSUME NEW n \in 1 .. text.len, output_events' = outs \o DataFrames(n)
      PROVE  \E t \in Seq(Item) : output_events' = outs \o t
  <2>1. n \in Nat
    OBVIOUS
  <2> QED
    BY <1>2, <2>1, DataFramesType
<1> QED
  BY <1>1, <1>2 DEF send

\* What a handler that reports leaves behind.
LEMMA PlainReport ==
    ASSUME PlainUse, SessionInv, QuietDrop, connection_status # "NOT_INIT",
           NEW event, NEW status, NEW outs \in Seq(Item), NEW next,
           Report(event, status, outs, next)
    PROVE  /\ connection_status' = status /\ UNCHANGED inits
           /\ \/ output_events' = outs /\ UNCHANGED queued
              \/ /\ status # "CLOSE" /\ ~dropping /\ Queues(outs)
                 /\ \E t \in Seq(Item) : output_events' = outs \o t
           /\ \/ Kinds' = Kinds /\ ~callback
              \/ Kinds' = Append(Kinds, event.kind)
<1> DEFINE Sends == \/ output_events' = outs /\ UNCHANGED queued
                    \/ /\ status # "CLOSE" /\ ~dropping /\ Queues(outs)
                       /\ \E t \in Seq(Item) : output_events' = outs \o t
<1>1. ~reinit
  BY InitCalled
<1>2. queued \in Nat /\ events \in Seq(WSEvent)
  BY SessionFacts, LineTypes
<1>3. ASSUME NEW text \in Texts, send(text, status, outs, next)
      PROVE  Sends
  <2>1. dropping => output_events' = outs /\ UNCHANGED queued
    BY <1>2, <1>3, SendCounts DEF QuietDrop
  <2> QED
    BY <1>2, <1>3, <2>1, SendJoins
<1>4. /\ connection_status' = status /\ UNCHANGED inits
      /\ Sends
      /\ (UNCHANGED events /\ ~callback) \/ events' = Append(events, event)
  BY <1>1, <1>3 DEF Report
<1> QED
  BY <1>2, <1>4, KindsAppended DEF Kinds

\* In CLOSE send returns early.
LEMMA CloseReport ==
    ASSUME PlainUse, SessionInv, QuietDrop, connection_status # "NOT_INIT",
           NEW event, NEW next, Report(event, "CLOSE", output_events, next)
    PROVE  /\ connection_status' = "CLOSE" /\ UNCHANGED <<output_events, queued>>
           /\ Kinds' = Kinds \/ Kinds' = Append(Kinds, event.kind)
<1>1. output_events \in Seq(Item)
  BY SessionFacts, LineTypes
<1>2. ASSUME NEW status, status = "CLOSE", Report(event, status, output_events, next)
      PROVE  /\ connection_status' = status /\ UNCHANGED <<output_events, queued>>
             /\ Kinds' = Kinds \/ Kinds' = Append(Kinds, event.kind)
  <2>1. /\ connection_status' = status
        /\ \/ output_events' = output_events /\ UNCHANGED queued
           \/ status # "CLOSE"
        /\ Kinds' = Kinds \/ Kinds' = Append(Kinds, event.kind)
    BY <1>1, <1>2, PlainReport
  <2> QED
    BY <1>2, <2>1
<1> QED
  BY <1>2

LEMMA NextInits ==
    ASSUME PlainUse, SessionInv, [Next]_vars
    PROVE  inits' <= MaxInits
<1>1. inits <= MaxInits
  BY DEF SessionInv
<1>2. reinit => inits' <= MaxInits
  BY InitCalled
<1>3. \A event, status, outs, next :
         Report(event, status, outs, next) => UNCHANGED inits \/ reinit
  BY DEF Report
<1>4. CASE handle_input
  BY <1>1, <1>2, <1>3, <1>4
     DEF handle_input, handle_recv_frame, handle_recv_http_response, recv_ping,
         recv_pong, recv_undefined, recv_close_from_server, recv_close_answer,
         recv_close_ignored
<1>5. CASE handle_output
  BY <1>1, <1>2, <1>3, <1>5
     DEF handle_output, write_sent, write_sent_closing, write_sent_shutdown_fails,
         write_blocks, write_fails
<1>6. CASE Program \/ drop_ends \/ Tick \/ event_loop_idle \/ read_fails \/ UNCHANGED vars
  BY <1>1, <1>2, <1>6
     DEF Program, init, set_message_size, set_timeout, Send, drop_now, drop, drop_ends, Tick,
         event_loop_idle, read_fails, vars
<1>7. CASE read_bytes_from_socket \/ start_init \/ Server
  BY <1>1, <1>7 DEF read_bytes_from_socket, start_init, Server
<1> QED
  BY <1>4, <1>5, <1>6, <1>7 DEF Next, event_loop

LEMMA NoDataStays ==
    ASSUME PlainUse, SessionInv, [Next]_vars
    PROVE  NoData \notin ToSet(output_events')
<1>1. TypeOK /\ NoData \notin ToSet(output_events) /\ output_events \in Seq(Item)
      /\ (pc = "output" => out_event # NoData) /\ websocket_key \in Nat
  BY SessionFacts, LineTypes DEF ClosingInv, TypeOK
<1>2. ~IsData(NoData) /\ \A op, n : Make(op, n).op = op
  BY NoDataFrame DEF Make
<1>3. CASE start_init
  <2>1. /\ Make("REQUEST", websocket_key + 1) \in Item
        /\ Make("REQUEST", websocket_key + 1) # NoData
    BY <1>1, <1>2, OtherItems DEF NoData
  <2>2. ToSet(<<Make("REQUEST", websocket_key + 1)>> \o output_events)
          = {Make("REQUEST", websocket_key + 1)} \cup ToSet(output_events)
    BY <1>1, <2>1, ItemsOfPrefixed
  <2> QED
    BY <1>1, <1>3, <2>1, <2>2 DEF start_init, Unreachable, StaysBlocking, Connects
<1>4. /\ \A n : Make("CLOSE", n) # NoData /\ Pong(in_event) # NoData
  BY <1>2 DEF NoData, Pong
<1>5. CASE Program \/ drop_ends \/ Tick \/ event_loop_idle \/ read_fails \/ UNCHANGED vars
  BY <1>1, <1>2, <1>4, <1>5, ProgramEffect
<1>6. CASE read_bytes_from_socket
  <2>1. ToSet(output_events') \subseteq ToSet(output_events)
    <3>1. output_events # <<>> => ToSet(output_events) = {Head(output_events)} \cup ToSet(Tail(output_events))
      BY <1>1, ItemsOfQueue
    <3> QED
      BY <1>1, <1>6, <3>1, ReadPops
  <2> QED
    BY <1>1, <2>1
<1>7. CASE handle_input
  BY <1>1, <1>2, <1>4, <1>7, InputEffect
<1>8. CASE handle_output
  <2>1. pc = "output" /\ ToSet(output_events') \subseteq ToSet(output_events) \cup {out_event}
    BY <1>1, <1>8, OutputEffect
  <2> QED
    BY <1>1, <2>1
<1>9. CASE Server
  BY <1>1, <1>9, ServerEffect
<1> QED
  BY <1>3, <1>5, <1>6, <1>7, <1>8, <1>9 DEF Next, event_loop

LEMMA NextNothingTorn ==
    ASSUME TypeOK, NothingTorn, [Next]_vars
    PROVE  NothingTorn'
<1>1. output_events \in Seq(Item) /\ websocket_key \in Nat /\ NoData.op # "TORN"
  BY LineTypes DEF TypeOK, NoData, Make
<1>2. (\A x : IsData(x) => x.op # "TORN") /\ \A op, n : Make(op, n).op = op
  BY DEF Make, IsData, DataOps
<1>3. CASE start_init
  <2>1. /\ Make("REQUEST", websocket_key + 1) \in Item
        /\ Make("REQUEST", websocket_key + 1).op # "TORN"
    BY <1>1, <1>2, OtherItems
  <2>2. ToSet(<<Make("REQUEST", websocket_key + 1)>> \o output_events)
          = {Make("REQUEST", websocket_key + 1)} \cup ToSet(output_events)
    BY <1>1, <2>1, ItemsOfPrefixed
  <2> QED
    BY <1>1, <1>3, <2>1, <2>2 DEF start_init, Unreachable, StaysBlocking, Connects, NothingTorn
<1>4. /\ \A n : Make("CLOSE", n).op # "TORN" /\ Pong(in_event).op # "TORN"
  BY <1>2 DEF Pong
<1>5. CASE Program \/ drop_ends \/ Tick \/ event_loop_idle \/ read_fails \/ UNCHANGED vars
  BY <1>1, <1>2, <1>4, <1>5, ProgramEffect DEF NothingTorn
<1>6. CASE read_bytes_from_socket
  <2>1. output_events # <<>> => ToSet(output_events) = {Head(output_events)} \cup ToSet(Tail(output_events))
    BY <1>1, ItemsOfQueue
  <2> QED
    BY <1>1, <1>6, <2>1, ReadPops DEF NothingTorn
<1>7. CASE handle_input
  BY <1>1, <1>2, <1>4, <1>7, InputEffect DEF NothingTorn
<1>8. CASE handle_output
  <2>1. ToSet(output_events') \subseteq ToSet(output_events) \cup {out_event}
    BY <1>1, <1>8, OutputEffect
  <2> QED
    BY <1>1, <1>8, <2>1, OutputEffect DEF NothingTorn
<1>9. CASE Server
  BY <1>1, <1>9, ServerEffect DEF NothingTorn
<1> QED
  BY <1>3, <1>5, <1>6, <1>7, <1>8, <1>9 DEF Next, event_loop

-----------------------------------------------------------------------------
(* Every step of the client is a step of WSSession *)

Simulated == ClosingInv' /\ [Session!Next]_(Session!vars)

\* A step that changes neither what is reported nor what goes to the server.
LEMMA UnseenStep ==
    ASSUME PlainUse, SessionInv, ClosingInv',
           UNCHANGED <<Phase, Lost, queued, Pending, Leaving, Passed, events>>
    PROVE  Simulated
<1>1. Kinds' = Kinds
  BY DEF Kinds
<1> QED
  BY <1>1, AsNoStep DEF Simulated

LEMMA QuietStep ==
    ASSUME PlainUse, SessionInv,
           UNCHANGED <<connection_status, peer, queued, out_event, output_events, wire, events,
                       dropping>>,
           pc' = "input" => pc = "input"
    PROVE  Simulated
<1>1. /\ UNCHANGED <<Phase, Lost, Pending, Leaving, Passed, Ahead>>
  BY SameStream DEF Phase, Lost, Pending, Leaving, Ahead
<1>2. ClosingInv'
  BY <1>1, SessionFacts DEF ClosingInv
<1> QED
  BY <1>1, <1>2, UnseenStep

\* What the program or the callback sends goes behind what is queued.
LEMMA QueuedBehind ==
    ASSUME PlainUse, SessionInv, [Next]_vars, Queues(output_events),
           NEW t \in Seq(Item), output_events' = output_events \o t,
           ~dropping, pc' # "input", UNCHANGED <<wire, peer, out_event, dropping>>,
           \/ UNCHANGED <<connection_status, events>>
           \/ UNCHANGED connection_status /\ connection_status \notin Early
           \/ connection_status = "HANDSHAKE" /\ connection_status' = "OPEN",
           connection_status # "CLOSE"
    PROVE  Accepted /\ Leaving' = Leaving /\ ClosingInv' /\ UNCHANGED <<Lost, Passed>>
<1>1. /\ TypeOK /\ TypeOK' /\ ClosingInv /\ NoData \notin ToSet(output_events')
      /\ out_event \in Item /\ output_events \in Seq(Item) /\ queued \in Nat
  BY SessionFacts, NoDataStays, NextType, LineTypes
<1>2. UNCHANGED <<Lost, Passed>>
  BY SameStream
<1>3. connection_status # "CLIENT_WANTS_TO_CLOSE"
  BY <1>1 DEF ClosingInv
<1>4. Ahead \in Seq(Item) /\ Ahead' = Ahead \o t
  <2>1. CASE out_event = NoData
    BY <1>1, <2>1 DEF Ahead
  <2>2. CASE out_event # NoData
    <3>1. <<out_event>> \in Seq(Item) /\ <<out_event>> \o output_events \in Seq(Item)
      BY <1>1, OneItem, ConcatItems
    <3>2. <<out_event>> \o (output_events \o t) = (<<out_event>> \o output_events) \o t
      BY <1>1, <3>1, ConcatAssociative
    <3> QED
      BY <1>1, <2>2, <3>1, <3>2 DEF Ahead
  <2> QED
    BY <2>1, <2>2
<1>5. connection_status = "SERVER_WANTS_TO_CLOSE" /\ ~Lost =>
         EndsSoon(Ahead') /\ (FirstData(Ahead') <=> FirstData(Ahead))
  <2>1. EndsSoon(<<>>) => FALSE
    BY EmptySeq DEF EndsSoon
  <2> QED
    BY <1>1, <1>4, <2>1, FirstsKept DEF ClosingInv
<1>6. Leaving' = Leaving
  <2>1. CASE UNCHANGED connection_status
    BY <1>1, <1>2, <1>5, <2>1, LeavingKept
  <2>2. CASE connection_status = "HANDSHAKE" /\ connection_status' = "OPEN"
    BY <2>2 DEF Leaving
  <2> QED
    BY <2>1, <2>2
<1>7. ClosingInv'
  BY <1>1, <1>2, <1>3, <1>5 DEF ClosingInv, Early
<1>8. Accepted
  BY <1>1, PendingIs, PendingAfter DEF Accepted, Queues
<1> QED
  BY <1>2, <1>6, <1>7, <1>8

LEMMA ProgramStep ==
    ASSUME PlainUse, SessionInv, [Next]_vars,
           Program \/ drop_ends \/ Tick \/ event_loop_idle \/ read_fails \/ UNCHANGED vars
    PROVE  Simulated
<1>1. /\ TypeOK /\ TypeOK' /\ ClosingInv /\ BeforeFrames /\ StatusInv
      /\ NoData \notin ToSet(output_events')
      /\ out_event \in Item /\ output_events \in Seq(Item) /\ queued \in Nat
  BY SessionFacts, NoDataStays, NextType, LineTypes
<1>2. /\ UNCHANGED <<wire, peer, out_event, events>>
  BY <1>1, ProgramEffect
<1>3. UNCHANGED <<Lost, Passed, Kinds>>
  BY <1>2, SameStream DEF Kinds
<1>4. CASE set_message_size \/ set_timeout \/ drop_now \/ drop_ends \/ Tick \/ event_loop_idle
             \/ read_fails \/ UNCHANGED vars
  <2>1. /\ UNCHANGED <<connection_status, peer, queued, out_event, output_events, wire, events,
                       dropping>>
        /\ pc' = "input" => pc = "input"
    BY <1>4 DEF set_message_size, set_timeout, drop_now, drop_ends, Tick, event_loop_idle,
                read_fails, vars
  <2> QED
    BY <2>1, QuietStep
<1>5. CASE init
  <2>1. /\ connection_status = "NOT_INIT" /\ connection_status' = "START_INIT"
        /\ UNCHANGED <<pc, queued, output_events, dropping>>
    BY <1>5, InitCalled DEF init, reinit
  <2>2. UNCHANGED <<Pending, Ahead, Phase, Leaving>>
    BY <1>2, <2>1 DEF Pending, Ahead, Phase, Leaving
  <2>3. ClosingInv'
    BY <1>1, <1>2, <1>3, <2>1, <2>2 DEF ClosingInv, Early
  <2> QED
    BY <1>2, <1>3, <2>1, <2>2, <2>3, UnseenStep
<1>6. CASE Send
  <2>1. PICK text \in Texts : send(text, connection_status, output_events, "idle")
    BY <1>6 DEF Send
  <2>2. /\ pc = "idle" /\ ~dropping /\ pc' # "input" /\ out_event = NoData
        /\ UNCHANGED <<connection_status, dropping>>
        /\ \/ output_events' = output_events /\ UNCHANGED queued
           \/ /\ connection_status # "CLOSE" /\ Queues(output_events)
              /\ \E t \in Seq(Item) : output_events' = output_events \o t
    <3>1. pc' \in {"idle", "panicked", "diverged"}
      BY <1>1, <2>1, SendJoins
    <3>2. pc = "idle" /\ ~dropping /\ out_event = NoData
      BY <1>1, <1>6 DEF Send, InProgram, TypeOK
    <3> QED
      BY <1>1, <1>6, <2>1, <3>1, <3>2, SendJoins DEF Send
  <2>3. CASE output_events' = output_events /\ UNCHANGED queued
    BY <1>2, <2>2, <2>3, QuietStep
  <2>4. ASSUME connection_status # "CLOSE", Queues(output_events),
               NEW t \in Seq(Item), output_events' = output_events \o t
        PROVE  Simulated
    <3>1. Accepted /\ Leaving' = Leaving /\ ClosingInv'
      BY <1>2, <2>2, <2>4, QueuedBehind
    <3>2. Phase # "closed" /\ Phase' = Phase
      BY <1>1, <2>2, <2>4 DEF Phase
    <3> QED
      BY <1>3, <3>1, <3>2, AsHandOver DEF Simulated
  <2> QED
    BY <2>2, <2>3, <2>4
<1>7. CASE drop
  <2>1. /\ connection_status \notin {"NOT_INIT", "HANDSHAKE", "CLOSE"} /\ stream # "None"
        /\ connection_status' = "CLIENT_WANTS_TO_CLOSE" /\ dropping' /\ pc' = "idle"
        /\ pc = "idle" /\ ~dropping
        /\ output_events' = <<Make("CLOSE", 1000)>> /\ UNCHANGED queued
    BY <1>7 DEF drop, FinalQueue, InProgram
  <2>2. connection_status \in {"OPEN", "SERVER_WANTS_TO_CLOSE"}
    BY <1>1, <2>1 DEF BeforeFrames, Early, ClosingInv, TypeOK, ConnectionStatus
  <2>3. Pending' = {}
    <3>1. Make("CLOSE", 1000) \in Item /\ ~IsData(Make("CLOSE", 1000))
      BY OtherItems
    <3>2. Carried(output_events') = {} /\ Carried(<<out_event'>>) = {}
      <4>1. out_event' = NoData
        BY <1>1, <1>2, <2>1 DEF TypeOK
      <4>2. Carried(<<out_event'>>) = {}
        BY <4>1, CarriedNoData
      <4> QED
        BY <2>1, <3>1, <4>2, CarriedOne
    <3> QED
      BY <1>1, <3>2, PendingAfter
  <2>4. ~Leaving' /\ Phase \in {"open", "closing"} /\ Phase' = "closing"
    BY <2>1, <2>2 DEF Leaving, Phase
  <2>5. ClosingInv'
    BY <1>1, <2>1, <2>3 DEF ClosingInv, Early
  <2> QED
    BY <1>3, <2>1, <2>3, <2>4, <2>5, AsBeginsToClose DEF Simulated
<1> QED
  BY <1>4, <1>5, <1>6, <1>7 DEF Program

LEMMA ReadStep ==
    ASSUME PlainUse, SessionInv, [Next]_vars, read_bytes_from_socket
    PROVE  Simulated
<1>1. /\ TypeOK /\ TypeOK' /\ ClosingInv /\ BeforeFrames /\ NoData \notin ToSet(output_events)
      /\ NoData \notin ToSet(output_events')
      /\ output_events \in Seq(Item)
  BY SessionFacts, NoDataStays, NextType, LineTypes DEF ClosingInv
<1>2. /\ UNCHANGED <<wire, peer, queued, events, connection_status, dropping>>
      /\ connection_status \in Active
  BY <1>1, ReadEffect, ReadCarries
<1>3. UNCHANGED <<Lost, Passed, Phase>>
  BY <1>2, SameStream DEF Phase
<1>4. output_events # <<>> =>
         /\ Head(output_events) # NoData /\ output_events = <<Head(output_events)>> \o Tail(output_events)
  <2>1. output_events # <<>> => Head(output_events) \in ToSet(output_events)
    BY <1>1, ItemsOfQueue
  <2> QED
    BY <1>1, <2>1, HeadTailProperties
<1>5. Ahead' = Ahead
  BY <1>1, <1>4, ReadPops DEF Ahead
<1>6. Pending' = Pending
  BY <1>1, PendingIs, PendingAfter, ReadCarries
<1>7. pc' = "input" /\ connection_status # "HANDSHAKE" /\ out_event' = NoData => output_events' = <<>>
  <2>1. pc = "idle"
    BY <1>1, ReadEffect
  <2>2. \A event, rest : Take(event, rest) => pop_output_event
    BY DEF Take
  <2>3. PICK k \in Readable :
        IF connection_status = "HANDSHAKE"
        THEN handle_recv_bytes_http_response(recv_storage \o Arrived(k))
        ELSE handle_recv_bytes_frame(recv_storage \o Arrived(k))
    BY DEF read_bytes_from_socket
  <2>4. pc' = "input" => pop_output_event
    BY <2>1, <2>2, <2>3 DEF handle_recv_bytes_http_response, handle_recv_bytes_frame, Panics
  <2> QED
    BY <1>4, <2>4 DEF pop_output_event, Held
<1>8. ClosingInv'
  BY <1>1, <1>2, <1>3, <1>5, <1>6, <1>7 DEF ClosingInv, Active, Early
<1>9. Leaving' = Leaving
  BY <1>1, <1>2, <1>3, <1>5, LeavingKept
<1> QED
  BY <1>2, <1>3, <1>6, <1>8, <1>9, UnseenStep

LEMMA StartStep ==
    ASSUME PlainUse, SessionInv, [Next]_vars, start_init
    PROVE  Simulated
<1>1. /\ TypeOK /\ TypeOK' /\ ClosingInv /\ BeforeFrames
      /\ NoData \notin ToSet(output_events')
  BY SessionFacts, NoDataStays, NextType
<1>2. /\ connection_status = "START_INIT" /\ connection_status' \in {"START_INIT", "HANDSHAKE"}
      /\ pc = "idle" /\ pc' = "idle" /\ UNCHANGED <<out_event, queued>>
      /\ wire' \in {wire, <<>>} /\ events' \in {events, <<>>} /\ peer' \in {peer, "up"}
  BY DEF start_init, Calls, Unreachable, StaysBlocking, Connects
<1>3. wire = <<>> /\ events = <<>> /\ ~Lost
  BY <1>1, <1>2 DEF BeforeFrames, ClosingInv, Early
<1>4. UNCHANGED <<wire, events, Lost, Passed, Phase, Leaving>>
  <2>1. peer # "reset" /\ peer' # "reset" /\ wire' = wire
    BY <1>2, <1>3 DEF Lost, Failed
  <2>2. UNCHANGED <<Lost, Passed>>
    BY <2>1 DEF Lost, Failed, Torn, Passed, Reached, Legible
  <2> QED
    BY <1>2, <1>3, <2>1, <2>2 DEF Phase, Leaving, Lost
<1>5. Pending' = Pending
  BY <1>1, <1>2, PendingIs, PendingAfter, StartCarries
<1>6. ClosingInv'
  BY <1>1, <1>2, <1>3, <1>4 DEF ClosingInv, Early
<1> QED
  BY <1>2, <1>4, <1>5, <1>6, UnseenStep

LEMMA ServerStep ==
    ASSUME PlainUse, SessionInv, Server
    PROVE  Simulated
<1>1. /\ TypeOK /\ ClosingInv /\ BeforeFrames
  BY SessionFacts
<1>2. /\ UNCHANGED <<wire, out_event, output_events, connection_status, pc, events, queued,
                     dropping>>
      /\ stream = "Connected" /\ (Lost => Lost')
  <2>1. /\ UNCHANGED <<wire, out_event, output_events, connection_status, pc, events, queued,
                       dropping>>
        /\ stream = "Connected" /\ (peer = "reset" => peer' = "reset")
    BY <1>1, ServerEffect DEF Respond, PeerFault
  <2> QED
    BY <2>1 DEF Lost, Failed, Torn
<1>3. UNCHANGED <<Phase, Pending, Passed, Kinds, Ahead>>
  BY <1>2 DEF Phase, Pending, Passed, Reached, Legible, Kinds, Ahead
<1>4. connection_status \notin Early
  BY <1>1, <1>2 DEF BeforeFrames
<1>5. ClosingInv'
  BY <1>1, <1>2, <1>3, <1>4 DEF ClosingInv
<1>6. CASE Lost' = Lost
  <2>1. Leaving' = Leaving
    BY <1>2, <1>6 DEF Leaving, Lost
  <2> QED
    BY <1>2, <1>3, <1>5, <1>6, <2>1, UnseenStep
<1>7. CASE ~Lost /\ Lost'
  <2>1. ~Leaving'
    BY <1>7 DEF Leaving, Lost
  <2> QED
    BY <1>2, <1>3, <1>5, <1>7, <2>1, AsFails DEF Simulated
<1> QED
  BY <1>2, <1>6, <1>7 DEF Lost, Failed

\* What is true whenever an input is handled.
LEMMA BeforeInput ==
    ASSUME PlainUse, SessionInv, handle_input
    PROVE  /\ pc = "input" /\ pc' # "input" /\ connection_status \in Active
           /\ connection_status \notin {"NOT_INIT", "START_INIT", "CLOSE"}
           /\ connection_status = "HANDSHAKE" => in_event.op = "RESPONSE"
           /\ UNCHANGED <<wire, peer, dropping, Lost, Passed>>
<1>1. IInv /\ StatusInv /\ TypeOK /\ ReceivedInv /\ Once
  BY SessionFacts
<1>2. pc = "input" /\ pc' # "input" /\ UNCHANGED <<wire, peer, dropping>>
  BY <1>1, InputStatus, InputEffect
<1>3. connection_status \in Active
  BY <1>1, <1>2 DEF StatusInv
<1>4. connection_status = "HANDSHAKE" => in_event.op = "RESPONSE"
  BY <1>1, <1>2 DEF ReceivedInv, Received
<1> QED
  BY <1>2, <1>3, <1>4, SameStream DEF Active

LEMMA TextStep ==
    ASSUME PlainUse, SessionInv, [Next]_vars, QuietDrop, handle_input, handle_recv_frame
    PROVE  Simulated
<1>1. /\ pc = "input" /\ pc' # "input" /\ connection_status \in Active
      /\ connection_status \notin {"NOT_INIT", "START_INIT", "CLOSE", "HANDSHAKE"}
      /\ UNCHANGED <<wire, peer, dropping, Lost, Passed>>
      /\ ClosingInv /\ queued \in Nat
  BY BeforeInput, SessionFacts, LineTypes DEF handle_recv_frame, IsData, DataOps
<1>2. IsData(in_event) /\ from_utf8(<<in_event>>) /\ from_utf8(Kept)
  BY <1>1, NothingRefused, SessionFacts DEF handle_recv_frame, SessionInv
<1>3. CASE ~callback
  BY <1>1, <1>3, QuietStep DEF handle_recv_frame, Handled
<1>4. ASSUME callback,
             Report(ON_TEXT(Append(Kept, in_event)), connection_status, output_events, AfterInput),
             out_event' = out_event
      PROVE  Simulated
  <2> DEFINE text == ON_TEXT(Append(Kept, in_event))
  <2>1. text.kind = "ON_TEXT"
    BY DEF ON_TEXT
  <2> HIDE DEF text
  <2>2. output_events \in Seq(Item)
    BY SessionFacts, LineTypes
  <2>3. /\ UNCHANGED connection_status
        /\ \/ UNCHANGED <<output_events, queued>>
           \/ /\ ~dropping /\ Queues(output_events)
              /\ \E t \in Seq(Item) : output_events' = output_events \o t
        /\ Kinds' = Append(Kinds, text.kind)
    BY <1>1, <1>4, <2>2, PlainReport DEF text
  <2>4. Accepted /\ Leaving' = Leaving /\ ClosingInv'
    <3>1. CASE UNCHANGED <<output_events, queued>>
      <4>1. UNCHANGED <<Pending, Leaving, Ahead>>
        BY <1>1, <1>4, <2>3, <3>1 DEF Pending, Leaving, Ahead, Lost
      <4>2. queued + 1 .. queued = {} /\ queued >= queued
        BY <1>1, SMT
      <4>3. Accepted
        BY <3>1, <4>1, <4>2 DEF Accepted
      <4>4. ClosingInv'
        BY <1>1, <1>4, <2>3, <3>1, <4>1 DEF ClosingInv, Early
      <4> QED
        BY <4>1, <4>3, <4>4
    <3>2. CASE /\ ~dropping /\ Queues(output_events)
               /\ \E t \in Seq(Item) : output_events' = output_events \o t
      <4>1. PICK t \in Seq(Item) : output_events' = output_events \o t
        BY <3>2
      <4> QED
        BY <1>1, <1>4, <2>3, <3>2, <4>1, QueuedBehind DEF Early
    <3> QED
      BY <2>3, <3>1, <3>2
  <2>5. Phase \in {"open", "closing"} /\ Phase' = Phase
    BY <1>1, <2>3, PhaseIs DEF Active, ConnectionStatus, Phase
  <2> QED
    BY <1>1, <2>1, <2>3, <2>4, <2>5, AsHearsText DEF Simulated
<1> QED
  BY <1>2, <1>3, <1>4 DEF handle_recv_frame, Handled

LEMMA ResponseStep ==
    ASSUME PlainUse, SessionInv, [Next]_vars, QuietDrop, handle_input, handle_recv_http_response
    PROVE  Simulated
<1>1. /\ pc = "input" /\ pc' # "input" /\ connection_status = "HANDSHAKE"
      /\ UNCHANGED <<wire, peer, dropping, Lost, Passed>>
      /\ ClosingInv /\ TypeOK /\ TypeOK' /\ queued \in Nat
  BY BeforeInput, SessionFacts, LineTypes, NextType DEF handle_recv_http_response
<1>2. ASSUME Fails("HandShake"), UNCHANGED reported
      PROVE  Simulated
  <2>1. ~IsData(out_event) /\ out_event \in Item
    BY <1>1, SessionFacts, LineTypes DEF BeforeFrames, NoFrames, is_websocket_data
  <2>2. Carried(<<out_event>>) = {} /\ Carried(<<out_event'>>) = {}
    BY <1>2, <2>1, CarriedOne, CarriedNoData DEF Fails
  <2>3. UNCHANGED <<connection_status, output_events, queued, events>>
    BY <1>2
  <2>4. UNCHANGED <<Phase, Pending, Leaving>>
    BY <1>1, <2>2, <2>3, PendingIs, PendingAfter DEF Phase, Leaving
  <2>5. ClosingInv'
    BY <1>1, <2>3 DEF ClosingInv, Early
  <2> QED
    BY <1>1, <2>3, <2>4, <2>5, UnseenStep
<1>3. ASSUME Report(ON_CONNECT, "OPEN", output_events, AfterInput), out_event' = out_event
      PROVE  Simulated
  <2>1. output_events \in Seq(Item)
    BY SessionFacts, LineTypes
  <2>2. /\ connection_status' = "OPEN"
        /\ \/ UNCHANGED <<output_events, queued>>
           \/ /\ ~dropping /\ Queues(output_events)
              /\ \E t \in Seq(Item) : output_events' = output_events \o t
        /\ Kinds' = Kinds \/ Kinds' = Append(Kinds, ON_CONNECT.kind)
    BY <1>1, <1>3, <2>1, PlainReport
  <2>3. ON_CONNECT.kind = "ON_CONNECT"
    BY DEF ON_CONNECT
  <2>4. Phase = "opening" /\ Phase' = "open"
    BY <1>1, <2>2 DEF Phase
  <2>5. Accepted /\ Leaving' = Leaving /\ ClosingInv'
    <3>1. CASE UNCHANGED <<output_events, queued>>
      <4>1. UNCHANGED <<Pending, Leaving>>
        BY <1>1, <1>3, <2>2, <3>1 DEF Pending, Leaving
      <4>2. queued + 1 .. queued = {} /\ queued >= queued
        BY <1>1, SMT
      <4>3. Accepted
        BY <3>1, <4>1, <4>2 DEF Accepted
      <4>4. ClosingInv'
        BY <1>1, <2>2, <3>1 DEF ClosingInv, Early
      <4> QED
        BY <4>1, <4>3, <4>4
    <3>2. CASE /\ ~dropping /\ Queues(output_events)
               /\ \E t \in Seq(Item) : output_events' = output_events \o t
      <4>1. PICK t \in Seq(Item) : output_events' = output_events \o t
        BY <3>2
      <4> QED
        BY <1>1, <1>3, <2>2, <3>2, <4>1, QueuedBehind
    <3> QED
      BY <2>2, <3>1, <3>2
  <2> QED
    BY <1>1, <2>2, <2>3, <2>4, <2>5, AsOpens DEF Simulated
<1> QED
  BY <1>2, <1>3 DEF handle_recv_http_response, Handled

LEMMA PingStep ==
    ASSUME PlainUse, SessionInv, [Next]_vars, handle_input, recv_ping
    PROVE  Simulated
<1>1. /\ pc = "input" /\ pc' # "input" /\ connection_status \in Active
      /\ connection_status # "HANDSHAKE"
      /\ UNCHANGED <<wire, peer, dropping, Lost, Passed>>
      /\ ClosingInv /\ TypeOK /\ TypeOK' /\ NoData \notin ToSet(output_events')
      /\ out_event \in Item /\ output_events \in Seq(Item)
  BY BeforeInput, SessionFacts, LineTypes, NextType, NoDataStays DEF recv_ping
<1>2. /\ UNCHANGED <<connection_status, queued, events, out_event>>
      /\ output_events' = <<Pong(in_event)>> \o output_events
  BY DEF recv_ping, Handled
<1>3. Pong(in_event) \in Item /\ ~IsData(Pong(in_event)) /\ IsControl(Pong(in_event))
  <2>1. IsControl(Pong(in_event))
    BY DEF IsControl, ControlOps, Pong, Make
  <2> QED
    BY <1>1, <2>1, OtherItems, LineTypes DEF Pong
<1> DEFINE pong == Pong(in_event)
<1>4. output_events' = <<pong>> \o output_events /\ pong \in Item /\ ~IsData(pong) /\ IsControl(pong)
  BY <1>2, <1>3
<1> HIDE DEF pong
<1>5. Pending' = Pending
  <2>1. Carried(output_events') = Carried(output_events)
    BY <1>1, <1>4, CarriedOther
  <2> QED
    BY <1>1, <1>2, <2>1, PendingIs, PendingAfter
<1>6. connection_status = "SERVER_WANTS_TO_CLOSE" /\ ~Lost =>
         EndsSoon(Ahead') /\ (FirstData(Ahead') <=> FirstData(Ahead))
  <2> SUFFICES ASSUME connection_status = "SERVER_WANTS_TO_CLOSE", ~Lost
               PROVE  EndsSoon(Ahead') /\ (FirstData(Ahead') <=> FirstData(Ahead))
    OBVIOUS
  <2>1. EndsSoon(<<>>) => FALSE
    BY EmptySeq DEF EndsSoon
  <2>2. out_event # NoData
    BY <1>1, <2>1 DEF ClosingInv, Ahead
  <2>3. Ahead = <<out_event>> \o output_events /\ Ahead' = <<out_event>> \o (<<pong>> \o output_events)
    BY <1>2, <1>4, <2>2 DEF Ahead
  <2>4. <<pong>> \o output_events \in Seq(Item)
    BY <1>1, <1>4, CarriedPrefixed
  <2>5. FirstData(Ahead') <=> IsData(out_event)
    BY <1>1, <2>3, <2>4, FirstsPrefixed
  <2>6. FirstData(Ahead) <=> IsData(out_event)
    BY <1>1, <2>3, FirstsPrefixed
  <2>7. EndsSoon(Ahead')
    BY <1>1, <1>4, <2>3, EndsAtOnce
  <2> QED
    BY <2>5, <2>6, <2>7
<1>7. ClosingInv'
  BY <1>1, <1>2, <1>5, <1>6 DEF ClosingInv, Active, Early
<1>8. Leaving' = Leaving
  BY <1>1, <1>2, <1>6, LeavingKept
<1>9. Phase' = Phase
  BY <1>2 DEF Phase
<1> QED
  BY <1>1, <1>2, <1>5, <1>7, <1>8, <1>9, UnseenStep

LEMMA CloseStep ==
    ASSUME PlainUse, SessionInv, [Next]_vars, handle_input, recv_close_from_server
    PROVE  Simulated
<1>1. /\ pc = "input" /\ pc' # "input" /\ connection_status = "OPEN"
      /\ UNCHANGED <<wire, peer, dropping, Lost, Passed>>
      /\ ClosingInv /\ TypeOK /\ TypeOK' /\ OrderInv /\ NoData \notin ToSet(output_events')
      /\ out_event \in Item /\ output_events \in Seq(Item) /\ in_event.val \in Nat
  BY BeforeInput, SessionFacts, LineTypes, NextType, NoDataStays DEF recv_close_from_server
<1> DEFINE answer == Make("CLOSE", ReplyStatus(in_event.val))
<1>2. /\ UNCHANGED <<queued, events, out_event>>
      /\ connection_status' = "SERVER_WANTS_TO_CLOSE" /\ output_events' = <<answer>>
  BY DEF recv_close_from_server, Answer, Handled
<1>3. answer \in Item /\ ~IsData(answer) /\ IsControl(answer)
  <2>1. IsControl(answer)
    BY DEF IsControl, ControlOps, Make
  <2> QED
    BY <1>1, <2>1, OtherItems, ReplyStatusType
<1> HIDE DEF answer
<1>4. Pending' = Carried(<<out_event>>)
  <2>1. Carried(output_events') = {}
    BY <1>2, <1>3, CarriedOne
  <2> QED
    BY <1>1, <1>2, <2>1, PendingAfter
<1>5. EndsSoon(Ahead') /\ (FirstData(Ahead') <=> IsData(out_event))
  <2>1. <<answer>> \in Seq(Item) /\ EndsSoon(<<answer>>) /\ EndsSoon(<<out_event>> \o <<answer>>)
    BY <1>1, <1>3, EndsAtOnce
  <2>2. FirstData(<<out_event>> \o <<answer>>) <=> IsData(out_event)
    BY <1>1, <2>1, FirstsPrefixed
  <2>3. ~FirstData(<<answer>>)
    BY <1>3 DEF FirstData
  <2>4. Ahead' = IF out_event = NoData THEN <<answer>> ELSE <<out_event>> \o <<answer>>
    BY <1>2 DEF Ahead
  <2> QED
    BY <2>1, <2>2, <2>3, <2>4, NoDataFrame
<1>6. Leaving' <=> ~Lost /\ IsData(out_event)
  BY <1>1, <1>2, <1>5, LeavingNext
<1>7. ClosingInv'
  BY <1>1, <1>2, <1>5 DEF ClosingInv, Early
<1>8. Phase = "open" /\ Phase' = "closing" /\ Kinds' = Kinds
  BY <1>1, <1>2 DEF Phase, Kinds
<1>9. CASE IsData(out_event)
  <2>1. FirstOf(out_event.val) /\ Pending' = {out_event.val}
    BY <1>1, <1>4, <1>9, InHandIsFirst
  <2> QED
    BY <1>1, <1>2, <1>6, <1>7, <1>8, <1>9, <2>1, AsBeginsToClose DEF Simulated
<1>10. CASE ~IsData(out_event)
  <2>1. Pending' = {}
    BY <1>1, <1>4, <1>10, CarriedOne
  <2> QED
    BY <1>1, <1>2, <1>6, <1>7, <1>8, <1>10, <2>1, AsBeginsToClose DEF Simulated
<1> QED
  BY <1>9, <1>10

LEMMA AnswerStep ==
    ASSUME PlainUse, SessionInv, [Next]_vars, QuietDrop, handle_input, recv_close_answer
    PROVE  Simulated
<1>1. /\ pc = "input" /\ pc' # "input" /\ connection_status = "CLIENT_WANTS_TO_CLOSE"
      /\ UNCHANGED <<wire, peer, dropping, Lost, Passed>>
      /\ ClosingInv /\ TypeOK /\ TypeOK' /\ NoData \notin ToSet(output_events')
      /\ Carried(<<out_event>>) = {} /\ Carried(output_events) = {}
  <2>1. /\ pc = "input" /\ pc' # "input" /\ connection_status = "CLIENT_WANTS_TO_CLOSE"
        /\ UNCHANGED <<wire, peer, dropping, Lost, Passed>>
        /\ ClosingInv /\ TypeOK /\ TypeOK' /\ NoData \notin ToSet(output_events')
    BY BeforeInput, SessionFacts, NextType, NoDataStays DEF recv_close_answer
  <2> QED
    BY <2>1, PendingIs DEF ClosingInv
<1> DEFINE event == ON_CLOSE("CLIENT_CLOSE", in_event.val)
<1>2. event.kind = "CLIENT_CLOSE"
  BY DEF ON_CLOSE
<1> HIDE DEF event
<1>3. /\ connection_status' = "CLOSE" /\ UNCHANGED <<output_events, queued>>
      /\ out_event' \in {out_event, NoData}
      /\ Kinds' = Kinds \/ Kinds' = Append(Kinds, event.kind)
  <2>1. CASE Report(event, "CLOSE", output_events, AfterInput) /\ out_event' = out_event
    BY <1>1, <2>1, CloseReport
  <2>2. CASE /\ connection_status' = "CLOSE" /\ UNCHANGED <<output_events, queued, events>>
             /\ out_event' = NoData
    BY <2>2 DEF Kinds
  <2> QED
    BY <2>1, <2>2 DEF recv_close_answer, Fails, Handled, event
<1>4. Carried(<<out_event'>>) = {}
  BY <1>1, <1>3, CarriedNoData
<1>5. Pending' = Pending
  BY <1>1, <1>3, <1>4, PendingIs, PendingAfter
<1>6. ~Leaving' /\ Phase = "closing" /\ Phase' = "closed"
  BY <1>1, <1>3 DEF Leaving, Phase
<1>7. ClosingInv'
  BY <1>1, <1>3, <1>4 DEF ClosingInv, Early
<1> QED
  BY <1>1, <1>2, <1>3, <1>5, <1>6, <1>7, AsCloses DEF Simulated

LEMMA InputStep ==
    ASSUME PlainUse, SessionInv, [Next]_vars, QuietDrop, handle_input
    PROVE  Simulated
<1>1. CASE recv_pong \/ recv_close_ignored
  <2>1. /\ UNCHANGED <<connection_status, peer, queued, out_event, output_events, wire, events,
                       dropping>>
        /\ pc = "input"
    BY <1>1 DEF recv_pong, recv_close_ignored, Handled
  <2> QED
    BY <2>1, QuietStep
<1>2. CASE recv_undefined
  <2>1. pc = "input" /\ connection_status # "HANDSHAKE" /\ in_event.op = "UNDEFINED"
    BY <1>2, BeforeInput DEF recv_undefined
  <2> QED
    BY <2>1, NothingRefused, SessionFacts DEF SessionInv
<1> QED
  BY <1>1, <1>2, TextStep, ResponseStep, PingStep, CloseStep, AnswerStep DEF handle_input

\* What is true whenever an output is handled.
LEMMA BeforeOutput ==
    ASSUME PlainUse, SessionInv, [Next]_vars, handle_output
    PROVE  /\ pc = "output" /\ pc' # "input" /\ out_event # NoData /\ out_event' = NoData
           /\ connection_status \notin Early
           /\ Ahead = <<out_event>> \o output_events /\ Ahead' = output_events'
           /\ Carried(<<out_event'>>) = {}
           /\ UNCHANGED dropping
           /\ IsData(out_event) =>
                 /\ connection_status \in {"OPEN", "SERVER_WANTS_TO_CLOSE"}
                 /\ stream = "Connected" /\ FirstOf(out_event.val)
                 /\ Carried(<<out_event>>) = {out_event.val}
                 /\ Pending \ {out_event.val} = Carried(output_events)
           /\ ~IsData(out_event) =>
                 Carried(<<out_event>>) = {} /\ Pending = Carried(output_events)
<1>1. /\ TypeOK /\ IInv /\ StreamPresent /\ BeforeFrames /\ OrderInv /\ ClosingInv /\ Linked
      /\ out_event \in Item /\ output_events \in Seq(Item)
  BY SessionFacts, LineTypes
<1>2. /\ pc = "output" /\ pc' # "input" /\ out_event' = NoData /\ UNCHANGED dropping
  BY <1>1, OutputStatus, OutputEffect
<1>3. out_event # NoData
  BY <1>1, <1>2 DEF TypeOK
<1>4. connection_status \notin Early
  BY <1>1, <1>2 DEF BeforeFrames, StreamPresent
<1>5. Carried(<<out_event'>>) = {}
  BY <1>2, CarriedNoData
<1>6. Ahead = <<out_event>> \o output_events /\ Ahead' = output_events'
  BY <1>2, <1>3 DEF Ahead
<1>7. ASSUME IsData(out_event)
      PROVE  /\ connection_status \in {"OPEN", "SERVER_WANTS_TO_CLOSE"}
             /\ stream = "Connected" /\ FirstOf(out_event.val)
             /\ Carried(<<out_event>>) = {out_event.val}
             /\ Pending \ {out_event.val} = Carried(output_events)
  <2>1. /\ FirstOf(out_event.val) /\ Carried(<<out_event>>) = {out_event.val}
        /\ Pending \ {out_event.val} = Carried(output_events)
    BY <1>1, <1>7, InHandIsFirst
  <2>2. Pending # {} /\ Carried(<<out_event>>) # {}
    BY <2>1 DEF FirstOf
  <2>3. connection_status \notin {"CLOSE", "CLIENT_WANTS_TO_CLOSE"}
    BY <1>1, <2>2 DEF ClosingInv
  <2>4. connection_status # "HANDSHAKE"
    BY <1>1, <1>7 DEF BeforeFrames, NoFrames, is_websocket_data
  <2>5. connection_status \in ConnectionStatus
    BY <1>1 DEF TypeOK
  <2>6. connection_status \in {"OPEN", "SERVER_WANTS_TO_CLOSE"}
    BY <1>4, <2>3, <2>4, <2>5 DEF ConnectionStatus, Early
  <2>7. stream = "Connected"
    BY <1>1, <1>2, <2>6 DEF Linked
  <2> QED
    BY <2>1, <2>6, <2>7
<1>8. ASSUME ~IsData(out_event)
      PROVE  Carried(<<out_event>>) = {} /\ Pending = Carried(output_events)
  BY <1>1, <1>8, CarriedOne, PendingIs
<1> QED
  BY <1>2, <1>3, <1>4, <1>5, <1>6, <1>7, <1>8

LEMMA SentStep ==
    ASSUME PlainUse, SessionInv, [Next]_vars, handle_output, write_sent
    PROVE  Simulated
<1>1. /\ TypeOK /\ TypeOK' /\ ClosingInv /\ NoData \notin ToSet(output_events')
      /\ out_event \in Item /\ output_events \in Seq(Item)
  BY SessionFacts, LineTypes, NextType, NoDataStays
<1>2. /\ UNCHANGED Lost /\ ~Completes
      /\ UNCHANGED <<connection_status, output_events, queued, events, Phase, Kinds>>
      /\ Passed' = IF Lost THEN Passed ELSE Passed \cup Carried(<<out_event>>)
  <2>1. /\ wire' = Append(wire, out_event) /\ peer # "reset" /\ peer' = peer
        /\ UNCHANGED <<connection_status, output_events, queued, events, Phase, Kinds>>
        /\ ~Completes
    BY DEF write_sent, WriteAll, Writable, Phase, Kinds
  <2> QED
    BY <1>1, <2>1, ReachedAppend, SessionFacts DEF Lost, Failed, NothingTorn
<1>3. Pending' = Carried(output_events)
  BY <1>1, <1>2, BeforeOutput, PendingAfter
<1>4. connection_status = "SERVER_WANTS_TO_CLOSE" /\ ~Lost => EndsSoon(Ahead') /\ ~FirstData(Ahead')
  <2>1. connection_status = "SERVER_WANTS_TO_CLOSE" /\ ~Lost =>
           ~IsControl(out_event) /\ EndsSoon(<<out_event>> \o output_events)
    BY <1>1, <1>2, BeforeOutput DEF Completes, ClosingInv
  <2> QED
    BY <1>1, <1>2, <2>1, BeforeOutput, FirstsPrefixed
<1>5. ~Leaving'
  BY <1>1, <1>2, <1>4, LeavingNext
<1>6. ClosingInv'
  <2>1. connection_status' \notin Early /\ pc' # "input" /\ Carried(<<out_event'>>) = {}
        /\ (connection_status' = "CLIENT_WANTS_TO_CLOSE" => dropping' /\ Pending' = {})
    <3>1. connection_status = "CLIENT_WANTS_TO_CLOSE" => Pending' = {}
      BY <1>1, <1>3, PendingIs DEF ClosingInv
    <3> QED
      BY <1>1, <1>2, <3>1, BeforeOutput DEF ClosingInv
  <2> QED
    BY <1>1, <1>2, <1>4, <2>1 DEF ClosingInv
<1>7. CASE IsData(out_event)
  <2> DEFINE n == out_event.val
  <2>1. /\ FirstOf(n) /\ Carried(<<out_event>>) = {n}
        /\ Pending \ {n} = Carried(output_events)
    BY <1>7, BeforeOutput
  <2> HIDE DEF n
  <2>2. Pending' = Pending \ {n} /\ UNCHANGED <<Phase, Lost, queued, Kinds>>
    BY <1>2, <1>3, <2>1
  <2>3. CASE ~Lost
    <3>1. Phase = "open" \/ Leaving
      BY <1>7, <2>3, BeforeOutput, PhaseIs DEF Leaving, Lost
    <3>2. Passed' = Passed \cup {n}
      BY <1>2, <2>1, <2>3
    <3> QED
      BY <1>5, <1>6, <2>1, <2>2, <2>3, <3>1, <3>2, AsPassesOn DEF Simulated
  <2>4. CASE Lost
    <3>1. Passed' = Passed /\ Leaving' = Leaving
      BY <1>2, <1>5, <2>4 DEF Leaving, Lost
    <3> QED
      BY <1>6, <2>1, <2>2, <2>4, <3>1, AsGivesUp DEF Simulated
  <2> QED
    BY <2>3, <2>4
<1>8. CASE ~IsData(out_event)
  <2>1. Leaving' = Leaving
    <3>1. ~FirstData(Ahead)
      <4>1. ~FirstData(<<out_event>> \o output_events)
        BY <1>1, <1>8, FirstsPrefixed
      <4>2. Ahead = <<out_event>> \o output_events
        BY BeforeOutput
      <4> QED
        BY <4>1, <4>2
    <3>2. ~Leaving
      BY <1>1, <3>1, LeavingIs
    <3> QED
      BY <1>5, <3>2 DEF Leaving
  <2>2. Passed' = Passed /\ Pending' = Pending /\ Lost' = Lost
    BY <1>2, <1>3, <1>8, BeforeOutput
  <2> QED
    BY <1>2, <1>6, <2>1, <2>2, UnseenStep
<1> QED
  BY <1>7, <1>8

LEMMA ClosingStep ==
    ASSUME PlainUse, SessionInv, [Next]_vars, QuietDrop, handle_output,
           write_sent_closing \/ write_sent_shutdown_fails
    PROVE  Simulated
<1>1. /\ TypeOK /\ TypeOK' /\ ClosingInv /\ NoData \notin ToSet(output_events')
      /\ out_event \in Item /\ output_events \in Seq(Item) /\ Completes
  BY SessionFacts, LineTypes, NextType, NoDataStays
     DEF write_sent_closing, write_sent_shutdown_fails
<1>2. ~IsData(out_event) /\ connection_status = "SERVER_WANTS_TO_CLOSE"
  BY <1>1, PlainItems DEF Completes
<1> DEFINE event == ON_CLOSE("SERVER_CLOSE",
                             IF out_event.op = "CLOSE" THEN out_event.val ELSE 0)
<1>3. event.kind = "SERVER_CLOSE"
  BY DEF ON_CLOSE
<1>4. /\ connection_status' = "CLOSE" /\ UNCHANGED <<output_events, queued>>
      /\ wire' = Append(wire, out_event)
      /\ peer # "reset"
      /\ Kinds' = Kinds \/ Kinds' = Append(Kinds, event.kind)
  <2>1. CASE write_sent_closing
    <3>1. Report(event, "CLOSE", output_events, "idle")
      BY <2>1 DEF write_sent_closing
    <3> HIDE DEF event
    <3>2. /\ connection_status' = "CLOSE" /\ UNCHANGED <<output_events, queued>>
          /\ Kinds' = Kinds \/ Kinds' = Append(Kinds, event.kind)
      BY <1>2, <3>1, CloseReport
    <3> QED
      BY <2>1, <3>2 DEF write_sent_closing, WriteAll, Writable
  <2>2. CASE write_sent_shutdown_fails
    BY <2>2 DEF write_sent_shutdown_fails, WriteAll, Writable, Kinds
  <2> QED
    BY <2>1, <2>2
<1> HIDE DEF event
<1>5. Passed' = Passed /\ (Lost => Lost')
  <2>1. Carried(<<out_event>>) = {}
    BY <1>1, <1>2, CarriedOne
  <2>2. Passed' = Passed /\ (Torn => Torn')
    BY <1>1, <1>4, <2>1, ReachedAppend
  <2> QED
    BY <1>4, <2>2 DEF Lost, Failed
<1>6. Pending' = Pending
  BY <1>1, <1>2, <1>4, BeforeOutput, PendingAfter
<1>7. ~Leaving' /\ Phase = "closing" /\ Phase' = "closed"
  BY <1>2, <1>4 DEF Leaving, Phase
<1>8. ClosingInv'
  BY <1>1, <1>4, BeforeOutput DEF ClosingInv, Early
<1> QED
  BY <1>3, <1>4, <1>5, <1>6, <1>7, <1>8, AsCloses DEF Simulated

LEMMA BlocksStep ==
    ASSUME PlainUse, SessionInv, [Next]_vars, handle_output, write_blocks
    PROVE  Simulated
<1>1. /\ TypeOK /\ TypeOK' /\ ClosingInv /\ NoData \notin ToSet(output_events')
      /\ out_event \in Item /\ output_events \in Seq(Item)
  BY SessionFacts, LineTypes, NextType, NoDataStays
<1>2. /\ UNCHANGED <<connection_status, peer, queued, events>>
      /\ output_events' = <<out_event>> \o output_events
  BY DEF write_blocks, Requeue
<1>3. UNCHANGED <<Phase, Kinds>> /\ Ahead' = Ahead
  BY <1>2, BeforeOutput DEF Phase, Kinds
<1>4. Passed' = Passed /\ (UNCHANGED Lost \/ (~Lost /\ Lost'))
  <2> DEFINE torn == Make("TORN", out_event.val)
  <2>1. torn \in Item /\ torn.op = "TORN"
    BY <1>1, OtherItems, LineTypes DEF Make
  <2>2. peer # "reset" /\ (wire' = wire \/ (~Torn /\ wire' = Append(wire, torn)))
    BY DEF write_blocks, WouldBlock, Writable, Torn
  <2> HIDE DEF torn
  <2>3. CASE wire' = wire
    BY <1>2, <2>3, SameStream
  <2>4. CASE ~Torn /\ wire' = Append(wire, torn)
    BY <1>1, <2>1, <2>2, <2>4, ReachedAppend DEF Lost, Failed
  <2> QED
    BY <2>2, <2>3, <2>4
<1>5. Pending' = Pending
  <2>1. Carried(output_events') = Carried(<<out_event>>) \cup Carried(output_events)
    BY <1>1, <1>2, CarriedPrefixed
  <2> QED
    BY <1>1, <2>1, BeforeOutput, PendingIs, PendingAfter
<1>6. ClosingInv'
  BY <1>1, <1>2, <1>3, <1>4, <1>5, BeforeOutput DEF ClosingInv
<1>7. CASE UNCHANGED Lost
  <2>1. Leaving' = Leaving
    BY <1>1, <1>2, <1>3, <1>7, LeavingKept
  <2> QED
    BY <1>2, <1>3, <1>4, <1>5, <1>6, <1>7, <2>1, UnseenStep
<1>8. CASE ~Lost /\ Lost'
  <2>1. ~Leaving'
    BY <1>8 DEF Leaving, Lost
  <2> QED
    BY <1>2, <1>3, <1>4, <1>5, <1>6, <1>8, <2>1, AsFails DEF Simulated
<1> QED
  BY <1>4, <1>7, <1>8

LEMMA FailsStep ==
    ASSUME PlainUse, SessionInv, [Next]_vars, handle_output, write_fails
    PROVE  Simulated
<1>1. /\ TypeOK /\ TypeOK' /\ ClosingInv /\ Linked
      /\ NoData \notin ToSet(output_events')
  BY SessionFacts, NextType, NoDataStays
<1>2. /\ UNCHANGED <<connection_status, peer, queued, events, wire, output_events>>
      /\ ~Writable
  BY DEF write_fails
<1>3. UNCHANGED <<Phase, Lost, Passed, Kinds>>
  BY <1>2, SameStream DEF Phase, Kinds
<1>4. Pending' = Carried(output_events)
  BY <1>1, <1>2, BeforeOutput, PendingAfter
<1>5. IsData(out_event) \/ connection_status = "SERVER_WANTS_TO_CLOSE" => Lost
  BY <1>1, <1>2, BeforeOutput DEF Linked, Writable, Lost, Failed
<1>6. Leaving' = Leaving
  BY <1>2, <1>3, <1>5 DEF Leaving, Lost
<1>7. ClosingInv'
  <2>1. connection_status = "CLIENT_WANTS_TO_CLOSE" => Pending' = {}
    BY <1>1, <1>4, PendingIs DEF ClosingInv
  <2> QED
    BY <1>1, <1>2, <1>3, <1>5, <2>1, BeforeOutput DEF ClosingInv
<1>8. CASE IsData(out_event)
  BY <1>2, <1>3, <1>4, <1>5, <1>6, <1>7, <1>8, BeforeOutput, AsGivesUp DEF Simulated
<1>9. CASE ~IsData(out_event)
  BY <1>2, <1>3, <1>4, <1>6, <1>7, <1>9, BeforeOutput, UnseenStep
<1> QED
  BY <1>8, <1>9

LEMMA OutputStep ==
    ASSUME PlainUse, SessionInv, [Next]_vars, QuietDrop, handle_output
    PROVE  Simulated
BY SentStep, ClosingStep, BlocksStep, FailsStep DEF handle_output

LEMMA InitSession == Init => SessionInv /\ Session!Init
<1> SUFFICES ASSUME Init PROVE SessionInv /\ Session!Init
  OBVIOUS
<1>1. LosslessInv /\ OrderInv
  BY InitLossless, InitOrder
<1>2. /\ wire = <<>> /\ out_event = NoData /\ output_events = <<>> /\ queued = 0
      /\ events = <<>> /\ connection_status = "NOT_INIT" /\ inits = 0 /\ peer = "up" /\ pc = "idle"
  BY DEF Init, ConnInit
<1>3. inits <= MaxInits
  <2>1. MaxInits \in Nat
    BY ClientAssumption
  <2> QED
    BY <1>2, <2>1, SMT
<1>4. Passed = {} /\ Pending = {} /\ ~Lost
  <2>1. <<NoData>> \o <<>> = <<NoData>> /\ DOMAIN wire = {}
    BY <1>2, SMT
  <2>2. ~Lost /\ Passed = {}
    BY <1>2, <2>1 DEF Lost, Failed, Torn, Passed, Reached, Legible
  <2> QED
    BY <1>2, <2>1, <2>2, CarriedNoData DEF Pending
<1>5. Phase = "opening" /\ ~Leaving
  BY <1>2 DEF Phase, Leaving
<1>6. ClosingInv
  BY <1>2, <1>4, ItemsOfNone DEF ClosingInv, Early
<1>7. Failed = FALSE /\ Leaving = FALSE /\ NothingTorn
  BY <1>2, <1>4, <1>5, ItemsOfNone DEF Leaving, Lost, Failed, NothingTorn, NoData, Make
<1>8. Kinds = <<>>
  BY <1>2 DEF Kinds
<1> QED
  BY <1>1, <1>2, <1>3, <1>4, <1>5, <1>6, <1>7, <1>8
     DEF SessionInv, Session!Init, Pending, Passed, Kinds

LEMMA NextSession ==
    PlainUse /\ SessionInv /\ [Next]_vars /\ QuietDrop
        => SessionInv' /\ [Session!Next]_(Session!vars)
<1> SUFFICES ASSUME PlainUse, SessionInv, [Next]_vars, QuietDrop
             PROVE  SessionInv' /\ [Session!Next]_(Session!vars)
  OBVIOUS
<1>1. TypeOK /\ LosslessInv /\ OrderInv
  BY SessionFacts DEF SessionInv
<1>2. LosslessInv' /\ OrderInv' /\ inits' <= MaxInits /\ NothingTorn'
  BY <1>1, NextLossless, NextOrder, NextInits, NextNothingTorn DEF PlainUse, SessionInv
<1>3. Simulated
  BY ProgramStep, StartStep, ReadStep, InputStep, OutputStep, ServerStep DEF Next, event_loop
<1> QED
  BY <1>2, <1>3 DEF Simulated, SessionInv

\* The client, its callback, the server and the network do what WSSession says,
\* step by step, for a program that calls init once, a callback that does not
\* send to a client that is being dropped, and a server whose frames the client
\* accepts: whatever is queued, when and by whom, how long the frames are, which
\* writes block or fail, whether the server closes, Drop does, or both
\* (client.rs 162-300, 312-567).
THEOREM SessionImplemented ==
    ASSUME MaxInits <= 1, WholeFrames
    PROVE  Spec /\ [][QuietDrop]_vars => ImplementsSession
<1>1. PlainUse
  BY DEF PlainUse
<1>2. SessionInv /\ [Next]_vars /\ [QuietDrop]_vars
        => SessionInv' /\ [Session!Next]_(Session!vars)
  <2>1. UNCHANGED vars => QuietDrop
    BY DEF vars, QuietDrop
  <2> QED
    BY <1>1, <2>1, NextSession
<1>3. Spec /\ [][QuietDrop]_vars => Session!Init /\ [][Session!Next]_(Session!vars)
  BY <1>2, InitSession, PTL DEF Spec
<1> QED
  BY <1>3 DEF ImplementsSession, Session!Spec

\* With a callback that never sends this needs no other condition.
THEOREM QuietSession ==
    ASSUME MaxInits <= 1, WholeFrames, "send" \notin CallbackOps
    PROVE  Spec => ImplementsSession
<1>1. TypeOK /\ [Next]_vars => QuietDrop
  BY QuietCallback
<1>2. Spec => [][QuietDrop]_vars
  BY <1>1, TypeCorrect, PTL DEF Spec
<1> QED
  BY <1>2, SessionImplemented

-----------------------------------------------------------------------------
(* What the callback is given *)

\* How many of the server's items are done with.
Done == IF pc = "input" THEN taken - 1 ELSE taken

LEMMA DoneWithInput ==
    ASSUME IInv, handle_input
    PROVE  Done' = taken /\ Done = taken - 1 /\ UNCHANGED srv_sent
<1>1. pc = "input" /\ pc' # "input" /\ UNCHANGED <<srv_sent, rd, recv_storage>>
  BY InputStatus, InputEffect DEF IInv
<1> QED
  BY <1>1 DEF Done, taken

\* The server's texts are whole messages, and numbered, and it begins to speak
\* after the handshake.
PlainTexts ==
    /\ ~SpeaksFirst
    /\ \A frame \in ServerFrames : IsData(frame) =>
          frame.fin /\ frame.cut = "whole" /\ frame.val = 1

\* The server's texts among its first n items.
TextsSent(n) == {i \in 1 .. Len(srv_sent) : i <= n /\ IsData(srv_sent[i])}

(***************************************************************************)
(* Each text is one frame, numbered by its place.  Before the handshake is *)
(* over there is none, so that what it throws away holds none; nothing is  *)
(* kept of a message; and the callback was given those that are done with. *)
(***************************************************************************)
TextsArePlain ==
    \A i \in 1 .. Len(srv_sent) : IsData(srv_sent[i]) =>
        srv_sent[i].fin /\ srv_sent[i].cut = "whole" /\ srv_sent[i].val = i - 1

NoTextBefore ==
    connection_status \in Early \cup {"HANDSHAKE"} =>
        \A i \in 1 .. Len(srv_sent) : ~IsData(srv_sent[i])

HeardSoFar ==
    callback => Heard = {srv_sent[i].val : i \in TextsSent(Done)} /\ HeardInOrder

Delivering ==
    /\ TextsArePlain /\ NoTextBefore /\ HeardSoFar
    /\ recv_data = <<>>
    /\ pc # "input" => ~IsData(in_event)
    /\ connection_status = "NOT_INIT" => events = <<>>

TextsInv == ReceivedInv /\ (Once => Delivering)

LEMMA HeardTypes ==
    ASSUME events \in Seq(WSEvent)
    PROVE  /\ Len(events) \in Nat /\ DOMAIN events = 1 .. Len(events)
           /\ \A i \in DOMAIN events : /\ events[i] \in WSEvent
                                       /\ events[i].vals \in Seq(Nat)
<1>1. Len(events) \in Nat /\ DOMAIN events = 1 .. Len(events)
      /\ \A i \in 1 .. Len(events) : events[i] \in WSEvent
  BY LenProperties, ElementOfSeq
<1> QED
  BY <1>1 DEF WSEvent

LEMMA HearsNoText ==
    ASSUME events \in Seq(WSEvent),
           \/ events' = events
           \/ \E event \in WSEvent : event.kind # "ON_TEXT" /\ events' = Append(events, event)
    PROVE  Heard' = Heard /\ (HeardInOrder => HeardInOrder')
<1>1. CASE events' = events
  BY <1>1 DEF Heard, HeardInOrder, Reported
<1>2. ASSUME NEW event \in WSEvent, event.kind # "ON_TEXT", events' = Append(events, event)
      PROVE  Heard' = Heard /\ (HeardInOrder => HeardInOrder')
  <2>1. /\ events' \in Seq(WSEvent) /\ Len(events') = Len(events) + 1
        /\ \A i \in 1 .. Len(events) : events'[i] = events[i]
        /\ events'[Len(events) + 1] = event
    BY <1>2, AppendProperties
  <2>2. /\ DOMAIN events = 1 .. Len(events) /\ DOMAIN events' = 1 .. Len(events) + 1
        /\ Len(events) \in Nat
    BY <2>1, LenProperties
  <2>3. /\ \A i \in 1 .. Len(events) + 1 : i \in 1 .. Len(events) \/ i = Len(events) + 1
        /\ \A i \in 1 .. Len(events) : i \in 1 .. Len(events) + 1
    BY <2>2, SMT
  <2>4. /\ Reported({"ON_TEXT"})' = Reported({"ON_TEXT"})
        /\ \A i \in Reported({"ON_TEXT"}) : events'[i] = events[i]
    BY <1>2, <2>1, <2>2, <2>3 DEF Reported
  <2> QED
    BY <2>4 DEF Heard, HeardInOrder
<1> QED
  BY <1>1, <1>2

\* A text of one piece that is later than all the callback was given.
LEMMA HearsText ==
    ASSUME events \in Seq(WSEvent), NEW n \in Nat, NEW event \in WSEvent,
           event.kind = "ON_TEXT", event.vals = <<n>>, events' = Append(events, event),
           \A m \in Heard : m < n, HeardInOrder
    PROVE  Heard' = Heard \cup {n} /\ HeardInOrder'
<1>1. /\ events' \in Seq(WSEvent) /\ Len(events') = Len(events) + 1
      /\ \A i \in 1 .. Len(events) : events'[i] = events[i]
      /\ events'[Len(events) + 1] = event
  BY AppendProperties
<1>2. /\ DOMAIN events = 1 .. Len(events) /\ DOMAIN events' = 1 .. Len(events) + 1
      /\ Len(events) \in Nat
  BY <1>1, LenProperties
<1> DEFINE last == Len(events) + 1
           before == Reported({"ON_TEXT"})
<1>3. /\ \A i \in 1 .. last : i \in 1 .. Len(events) \/ i = last
      /\ \A i \in 1 .. Len(events) : i \in 1 .. last /\ i # last /\ ~(last < i)
      /\ last \in 1 .. last /\ ~(last < last)
  BY <1>2, SMT
<1>4. /\ Reported({"ON_TEXT"})' = before \cup {last}
      /\ \A i \in before : events'[i] = events[i] /\ i # last /\ ~(last < i)
      /\ events'[last] = event
  BY <1>1, <1>2, <1>3 DEF Reported
<1>5. ToSet(<<n>>) = {n} /\ DOMAIN <<n>> = {1} /\ <<n>>[1] = n /\ ~(1 < 1)
  <2>1. DOMAIN <<n>> = 1 .. 1 /\ 1 .. 1 = {1} /\ ~(1 < 1) /\ <<n>>[1] = n
    BY SMT
  <2> QED
    BY <2>1 DEF ToSet
<1>6. Heard' = Heard \cup {n}
  <2> HIDE DEF last, before
  <2>1. \A x : x \in Heard' <=> \E i \in before \cup {last} : x \in ToSet(events'[i].vals)
    BY <1>4 DEF Heard
  <2>2. \A x : x \in Heard <=> \E i \in before : x \in ToSet(events[i].vals)
    BY DEF Heard, before
  <2>3. \A i \in before : ToSet(events'[i].vals) = ToSet(events[i].vals)
    BY <1>4
  <2>4. ToSet(events'[last].vals) = {n}
    BY <1>4, <1>5
  <2>5. \A x : x \in Heard' <=> x \in Heard \/ x = n
    BY <2>1, <2>2, <2>3, <2>4
  <2> QED
    BY <2>5
<1>7. \A i \in before : \A a \in DOMAIN events[i].vals : events[i].vals[a] < n
  <2>1. \A i \in before : \A a \in DOMAIN events[i].vals : events[i].vals[a] \in Heard
    BY DEF Heard, ToSet
  <2> QED
    BY <2>1
<1> HIDE DEF last, before
<1>8. ASSUME NEW i \in before \cup {last}, NEW j \in before \cup {last},
             NEW a \in DOMAIN events'[i].vals, NEW b \in DOMAIN events'[j].vals,
             i < j \/ (i = j /\ a < b)
      PROVE  events'[i].vals[a] < events'[j].vals[b]
  <2>1. CASE i \in before /\ j \in before
    BY <1>4, <1>8, <2>1 DEF HeardInOrder, before
  <2>2. CASE i \in before /\ j = last
    <3>1. b = 1 /\ events'[j].vals[b] = n
      BY <1>4, <1>5, <2>2
    <3> QED
      BY <1>4, <1>7, <2>2, <3>1
  <2>3. CASE i = last
    <3>1. j = last
      BY <1>4, <1>8, <2>3
    <3>2. events'[i].vals = <<n>> /\ events'[j].vals = <<n>>
      BY <1>4, <2>3, <3>1
    <3>3. a = 1 /\ b = 1
      BY <1>5, <3>2
    <3> QED
      BY <1>5, <1>3, <1>8, <2>3, <3>1, <3>3
  <2> QED
    BY <2>1, <2>2, <2>3
<1>9. HeardInOrder'
  BY <1>4, <1>8 DEF HeardInOrder
<1> QED
  BY <1>6, <1>9

LEMMA NothingHeard ==
    events' = <<>> => Heard' = {} /\ HeardInOrder'
<1> SUFFICES ASSUME events' = <<>> PROVE Heard' = {} /\ HeardInOrder'
  OBVIOUS
<1>1. Reported({"ON_TEXT"})' = {}
  BY DEF Reported
<1> QED
  BY <1>1 DEF Heard, HeardInOrder

LEMMA DeliveryTypes ==
    TextsInv => /\ TypeOK /\ IInv /\ FirstInv /\ ReceivedInv
                /\ events \in Seq(WSEvent) /\ srv_sent \in Seq(Item) /\ Len(srv_sent) \in Nat
                /\ taken \in Int /\ in_event \in Item
BY ReceivedTypes DEF TextsInv, ReceivedInv, FirstInv, IInv, TypeOK

\* The callback hears of nothing, or of no text, and what is done with is no
\* text either.
LEMMA QuietDelivery ==
    ASSUME Delivering, events \in Seq(WSEvent), UNCHANGED <<srv_sent, recv_data>>,
           \/ events' = events
           \/ \E event \in WSEvent : event.kind # "ON_TEXT" /\ events' = Append(events, event),
           callback' => callback,
           TextsSent(Done)' = TextsSent(Done),
           pc' # "input" => ~IsData(in_event'),
           connection_status' = "NOT_INIT" => connection_status = "NOT_INIT" /\ UNCHANGED events,
           connection_status' \in Early \cup {"HANDSHAKE"} =>
               connection_status \in Early \cup {"HANDSHAKE"}
    PROVE  Delivering'
<1>1. Heard' = Heard /\ (HeardInOrder => HeardInOrder')
  BY HearsNoText
<1>2. HeardSoFar'
  BY <1>1 DEF Delivering, HeardSoFar
<1>3. TextsArePlain' /\ NoTextBefore'
  BY DEF Delivering, TextsArePlain, NoTextBefore
<1> QED
  BY <1>2, <1>3 DEF Delivering

\* Until the handshake is over no text was sent, however many items were read.
LEMMA NoTextYet ==
    ASSUME Delivering, connection_status \in Early \cup {"HANDSHAKE"}
    PROVE  \A n : TextsSent(n) = {}
BY DEF Delivering, NoTextBefore, TextsSent

\* A report leaves the callback as it is, unless it calls init.
LEMMA ReportKeepsCallback ==
    ASSUME NEW event, NEW status, NEW outs, NEW next, Report(event, status, outs, next),
           inits' # inits + 1
    PROVE  /\ UNCHANGED callback
           /\ \/ callback /\ events' = Append(events, event)
              \/ ~callback /\ events' = events
BY DEF Report, reinit

LEMMA NoSecondInit ==
    ASSUME TextsInv, Once', connection_status # "NOT_INIT"
    PROVE  inits' # inits + 1
BY SecondInit, DeliveryTypes DEF FirstInv

LEMMA ProgramDelivers ==
    ASSUME TextsInv, Once, Once',
           Program \/ drop_ends \/ Tick \/ event_loop_idle \/ read_fails \/ UNCHANGED vars
    PROVE  Delivering'
<1>1. /\ TypeOK /\ FirstInv /\ events \in Seq(WSEvent)
      /\ UNCHANGED <<srv_sent, rd, recv_storage, recv_data, in_event, events>>
      /\ \/ UNCHANGED connection_status
         \/ connection_status' = "START_INIT" /\ inits' = inits + 1
         \/ connection_status' = "CLIENT_WANTS_TO_CLOSE"
  BY ProgramEffect, DeliveryTypes
<1>2. /\ Delivering
      /\ connection_status' = "START_INIT" => connection_status \in Early
  <2>1. Delivering
    BY DEF TextsInv
  <2> QED
    BY <1>1, <2>1, NoSecondInit DEF Early
<1>3. /\ (pc' = "input") <=> (pc = "input")
      /\ callback' = callback \/ (connection_status = "NOT_INIT" /\ connection_status' = "START_INIT")
  <2>1. CASE Send
    <3>1. PICK text \in Texts : send(text, connection_status, output_events, "idle")
      BY <2>1 DEF Send
    <3>2. pc' \in {"idle", "panicked", "diverged"}
      BY <1>1, <3>1, SendEffect, LineTypes
    <3> QED
      BY <2>1, <3>2 DEF Send, InProgram
  <2>2. CASE init
    BY <2>2, NoSecondInit DEF init, InProgram, reinit
  <2> QED
    BY <2>1, <2>2 DEF Program, set_message_size, set_timeout, drop_now, drop,
                      drop_ends, Tick, event_loop_idle, read_fails, vars, InProgram
<1>4. Done' = Done /\ TextsSent(Done)' = TextsSent(Done)
  <2>1. Done' = Done
    BY <1>1, <1>3 DEF Done, taken
  <2> QED
    BY <1>1, <2>1 DEF TextsSent
<1>5. CASE callback' = callback
  <2>1. pc' # "input" => ~IsData(in_event')
    BY <1>1, <1>2, <1>3 DEF Delivering
  <2>2. connection_status' = "NOT_INIT" => connection_status = "NOT_INIT"
    BY <1>1
  <2>3. connection_status' \in Early \cup {"HANDSHAKE"} =>
            connection_status \in Early \cup {"HANDSHAKE"}
    BY <1>1, <1>2 DEF Early
  <2> QED
    BY <1>1, <1>2, <1>4, <1>5, <2>1, <2>2, <2>3, QuietDelivery
\* The first init: nothing was sent and nothing was heard.
<1>6. CASE connection_status = "NOT_INIT" /\ connection_status' = "START_INIT"
  <2>1. events' = <<>> /\ recv_data' = <<>>
    BY <1>1, <1>2, <1>6 DEF Delivering
  <2>2. Heard' = {} /\ HeardInOrder'
    BY <2>1, NothingHeard
  <2>3. TextsSent(Done)' = {} /\ NoTextBefore' /\ TextsArePlain'
    <3>1. TextsSent(Done) = {}
      BY <1>2, <1>6, NoTextYet DEF Early
    <3> QED
      BY <1>1, <1>2, <1>4, <1>6, <3>1 DEF Delivering, NoTextBefore, TextsArePlain, Early
  <2>4. HeardSoFar'
    BY <2>2, <2>3 DEF HeardSoFar
  <2> QED
    BY <1>1, <1>2, <1>3, <1>6, <2>1, <2>3, <2>4 DEF Delivering
<1> QED
  BY <1>3, <1>5, <1>6

\* Only an input that is to be handled is a text in hand.
LEMMA ReadLeavesNoText ==
    ASSUME TypeOK, read_bytes_from_socket, ~IsData(in_event)
    PROVE  pc' # "input" => ~IsData(in_event')
<1>1. PICK k \in Readable :
        IF connection_status = "HANDSHAKE"
        THEN handle_recv_bytes_http_response(recv_storage \o Arrived(k))
        ELSE handle_recv_bytes_frame(recv_storage \o Arrived(k))
  BY DEF read_bytes_from_socket
<1>2. \A event, rest : Take(event, rest) => pc' = "input" \/ in_event' = NoData
  BY DEF Take
<1> QED
  BY <1>1, <1>2, NoDataFrame
     DEF handle_recv_bytes_http_response, handle_recv_bytes_frame, Panics

LEMMA ReadDelivers ==
    ASSUME TextsInv, Once, read_bytes_from_socket
    PROVE  Delivering'
<1>1. /\ TypeOK /\ FirstInv /\ events \in Seq(WSEvent) /\ Delivering /\ Received
      /\ pc = "idle" /\ connection_status \in Active /\ taken \in Int
      /\ UNCHANGED <<srv_sent, connection_status, recv_data, events, callback>>
  BY ReadEffect, DeliveryTypes DEF TextsInv, ReceivedInv
<1>2. PICK k \in Readable :
        LET storage == recv_storage \o Arrived(k)
        IN  /\ rd' = rd + k
            /\ \/ recv_storage' = storage /\ pc' # "input"
               \/ connection_status = "HANDSHAKE"
               \/ storage # <<>> /\ recv_storage' = Tail(storage) /\ pc' = "input"
  <2>1. PICK k \in Readable :
          LET storage == recv_storage \o Arrived(k)
          IN  /\ rd' = rd + k
              /\ \/ recv_storage' = storage /\ pc' # "input"
                 \/ connection_status = "HANDSHAKE"
                 \/ storage # <<>> /\ recv_storage' = Tail(storage) /\ pc' = "input"
                 \/ /\ connection_status # "HANDSHAKE" /\ storage # <<>>
                    /\ Head(storage).op = "RESPONSE"
    BY <1>1, ReadTakes
  <2>2. connection_status # "HANDSHAKE" /\ recv_storage \o Arrived(k) # <<>>
           => Head(recv_storage \o Arrived(k)).op # "RESPONSE"
    BY <1>1, NoResponseBehind
  <2> QED
    BY <2>1, <2>2
<1> DEFINE storage == recv_storage \o Arrived(k)
<1>3. /\ storage \in Seq(Item) /\ Len(storage) \in Nat /\ (rd + k) - Len(storage) = taken
      /\ k \in Nat /\ rd \in Nat
  BY <1>1, ArrivedInOrder, ArrivedEffect, ReceivedTypes
<1>4. /\ rd' = rd + k
      /\ \/ recv_storage' = storage /\ pc' # "input"
         \/ connection_status = "HANDSHAKE"
         \/ storage # <<>> /\ recv_storage' = Tail(storage) /\ pc' = "input"
  BY <1>2
<1>5. storage # <<>> => Len(Tail(storage)) = Len(storage) - 1
  BY <1>3, HeadTailProperties
<1> HIDE DEF storage
<1>6. TextsSent(Done)' = TextsSent(Done)
  <2>1. CASE connection_status = "HANDSHAKE"
    <3>1. \A n : TextsSent(n) = {} /\ TextsSent(n)' = {}
      BY <1>1, <2>1, NoTextYet DEF TextsSent
    <3>2. TextsSent(Done)' = {}
      BY <1>1, <2>1 DEF TextsSent, Delivering, NoTextBefore
    <3> QED
      BY <3>1, <3>2
  <2>2. CASE recv_storage' = storage /\ pc' # "input"
    <3>1. Done' = Done
      BY <1>1, <1>3, <1>4, <2>2, SMT DEF Done, taken
    <3> QED
      BY <1>1, <3>1 DEF TextsSent
  <2>3. CASE storage # <<>> /\ recv_storage' = Tail(storage) /\ pc' = "input"
    <3>1. Len(recv_storage') = Len(storage) - 1
      BY <1>5, <2>3
    <3>2. Done' = Done
      BY <1>1, <1>3, <1>4, <2>3, <3>1, SMT DEF Done, taken
    <3> QED
      BY <1>1, <3>2 DEF TextsSent
  <2> QED
    BY <1>4, <2>1, <2>2, <2>3
<1>7. pc' # "input" => ~IsData(in_event')
  BY <1>1, ReadLeavesNoText DEF Delivering
<1> QED
  BY <1>1, <1>6, <1>7, QuietDelivery

LEMMA StartDelivers ==
    ASSUME TextsInv, Once, start_init
    PROVE  Delivering'
<1>1. /\ TypeOK /\ FirstInv /\ events \in Seq(WSEvent) /\ Delivering
      /\ pc = "idle" /\ connection_status = "START_INIT"
      /\ UNCHANGED <<recv_storage, recv_data, callback, in_event, pc>>
  BY DeliveryTypes DEF TextsInv, start_init, Calls
<1>2. CASE Connects
  <2>1. srv_sent' = <<>> /\ events' = <<>> /\ connection_status' = "HANDSHAKE"
    BY <1>2 DEF Connects
  <2>2. \A i : i \notin 1 .. Len(srv_sent')
    <3>1. Len(srv_sent') = 0 /\ 1 .. 0 = {}
      BY <2>1, SMT
    <3> QED
      BY <3>1
  <2>3. TextsSent(Done)' = {} /\ NoTextBefore' /\ TextsArePlain'
    BY <2>2 DEF TextsSent, NoTextBefore, TextsArePlain
  <2>4. Heard' = {} /\ HeardInOrder'
    BY <2>1, NothingHeard
  <2>5. HeardSoFar'
    BY <2>3, <2>4 DEF HeardSoFar
  <2> QED
    BY <1>1, <2>1, <2>3, <2>5 DEF Delivering
<1>3. CASE UNCHANGED <<srv_sent, rd, connection_status, events>>
  <2>1. TextsSent(Done)' = TextsSent(Done)
    BY <1>1, <1>3 DEF TextsSent, Done, taken
  <2> QED
    BY <1>1, <1>3, <2>1, QuietDelivery DEF Delivering
<1> QED
  BY <1>2, <1>3 DEF start_init, Unreachable, StaysBlocking

LEMMA OutputDelivers ==
    ASSUME TextsInv, Once, Once', handle_output
    PROVE  Delivering'
<1>1. /\ TypeOK /\ FirstInv /\ events \in Seq(WSEvent) /\ Delivering /\ IInv
      /\ pc = "output" /\ pc' # "input" /\ out_event \in Item
      /\ UNCHANGED <<srv_sent, rd, recv_storage, recv_data, in_event>>
      /\ \/ UNCHANGED <<connection_status, inits>>
         \/ connection_status' = "CLOSE"
         \/ /\ connection_status = "SERVER_WANTS_TO_CLOSE"
            /\ connection_status' = "START_INIT" /\ inits' = inits + 1
  <2>1. TypeOK /\ IInv /\ FirstInv /\ Delivering /\ events \in Seq(WSEvent) /\ out_event \in Item
    BY DeliveryTypes DEF TextsInv, TypeOK
  <2>2. pc = "output" /\ pc' # "input"
    BY <2>1, OutputStatus
  <2> QED
    BY <2>1, <2>2, OutputEffect
<1>2. connection_status = "SERVER_WANTS_TO_CLOSE" => inits' # inits + 1
  BY NoSecondInit
<1>3. write_sent_closing => connection_status = "SERVER_WANTS_TO_CLOSE"
  BY DEF write_sent_closing, Completes
<1>4. /\ UNCHANGED callback
      /\ \/ events' = events
         \/ /\ \E event \in WSEvent : event.kind # "ON_TEXT" /\ events' = Append(events, event)
            /\ connection_status = "SERVER_WANTS_TO_CLOSE"
  <2>1. CASE write_sent_closing
    <3> DEFINE code == IF out_event.op = "CLOSE" THEN out_event.val ELSE 0
    <3>1. Report(ON_CLOSE("SERVER_CLOSE", code), "CLOSE", output_events, "idle")
      BY <2>1 DEF write_sent_closing
    <3>2. /\ ON_CLOSE("SERVER_CLOSE", code) \in WSEvent
          /\ ON_CLOSE("SERVER_CLOSE", code).kind # "ON_TEXT"
      <4>1. code \in Nat
        BY <1>1 DEF Item
      <4> QED
        BY <4>1, EventTypes DEF ON_CLOSE
    <3> HIDE DEF code
    <3> QED
      BY <1>2, <1>3, <2>1, <3>1, <3>2, ReportKeepsCallback
  <2>2. CASE write_sent \/ write_sent_shutdown_fails \/ write_blocks \/ write_fails
    BY <2>2 DEF write_sent, write_sent_shutdown_fails, write_blocks, write_fails
  <2> QED
    BY <2>1, <2>2 DEF handle_output
<1>5. TextsSent(Done)' = TextsSent(Done)
  BY <1>1 DEF TextsSent, Done, taken
<1>6. /\ connection_status' = "NOT_INIT" => connection_status = "NOT_INIT" /\ UNCHANGED events
      /\ connection_status' \in Early \cup {"HANDSHAKE"} =>
            connection_status \in Early \cup {"HANDSHAKE"}
  BY <1>1, <1>2, <1>4 DEF Early
<1>7. ~IsData(in_event')
  BY <1>1 DEF Delivering
<1> QED
  BY <1>1, <1>4, <1>5, <1>6, <1>7, QuietDelivery

\* The server: the response first, then frames; the texts of PlainTexts are
\* numbered by their place, and come once the handshake is over.
LEMMA ServerAddsText ==
    ASSUME PlainTexts, TextsInv, Once, Server
    PROVE  \/ srv_sent' = srv_sent
           \/ \E x \in Item :
                 /\ srv_sent' = Append(srv_sent, x)
                 /\ IsData(x) => /\ x.fin /\ x.cut = "whole" /\ x.val = Len(srv_sent)
                                 /\ connection_status \notin Early \cup {"HANDSHAKE"}
<1>1. /\ TypeOK /\ FirstInv /\ srv_sent \in Seq(Item) /\ Len(srv_sent) \in Nat
      /\ wire \in Seq(Item)
  BY DeliveryTypes DEF TypeOK, ConnTypeOK
<1>2. CASE ServerFrame
  <2>1. PICK frame \in ServerFrames :
           srv_sent' = Append(srv_sent, [frame EXCEPT !.val = @ * Len(srv_sent)])
    BY <1>2 DEF ServerFrame
  <2> DEFINE x == [frame EXCEPT !.val = @ * Len(srv_sent)]
  <2>2. frame \in Item /\ frame.val * Len(srv_sent) \in Nat
    <3>1. frame \in Item /\ frame.val \in Nat
      BY ServerAssumption DEF Item
    <3> QED
      BY <1>1, <3>1, SMT
  <2>3. /\ x \in Item /\ x.op = frame.op /\ x.cut = frame.cut /\ x.fin = frame.fin
        /\ x.val = frame.val * Len(srv_sent)
    BY <2>2 DEF Item
  <2>4. IsData(frame) => x.fin /\ x.cut = "whole" /\ x.val = Len(srv_sent)
    <3> SUFFICES ASSUME IsData(frame) PROVE x.fin /\ x.cut = "whole" /\ x.val = Len(srv_sent)
      OBVIOUS
    <3>1. frame.fin /\ frame.cut = "whole" /\ frame.val = 1
      BY DEF PlainTexts
    <3>2. 1 * Len(srv_sent) = Len(srv_sent)
      BY <1>1, SMT
    <3> QED
      BY <2>3, <3>1, <3>2
  <2>5. connection_status \notin Early \cup {"HANDSHAKE"}
    <3>1. PICK i \in DOMAIN wire : is_websocket_data(wire[i])
      BY <1>2 DEF ServerFrame, Established, PlainTexts
    <3>2. wire[i] \in ToSet(wire)
      BY DEF ToSet
    <3>3. wire # <<>>
      BY <3>1
    <3> QED
      BY <1>1, <3>1, <3>2, <3>3 DEF FirstInv, OnceInv, BeforeFrames, NoFrames
  <2> HIDE DEF x
  <2>6. IsData(x) <=> IsData(frame)
    BY <2>3 DEF IsData
  <2> QED
    BY <2>1, <2>3, <2>4, <2>5, <2>6 DEF x
<1>3. CASE ServerClose
  <2>1. PICK code \in ServerStatuses : srv_sent' = Append(srv_sent, Make("CLOSE", code))
    BY <1>3 DEF ServerClose
  <2>2. Make("CLOSE", code) \in Item /\ ~IsData(Make("CLOSE", code))
    BY ServerAssumption, OtherItems, PlainItems DEF IsData, DataOps, Make
  <2> QED
    BY <2>1, <2>2
<1>4. CASE Respond
  <2>1. PICK key \in {Head(wire).val} \cup (IF MayReject THEN {0} ELSE {}) :
           srv_sent' = <<Make("RESPONSE", key)>>
    BY <1>4 DEF Respond
  <2>2. key \in Nat
    <3>1. Head(wire) \in Item
      BY <1>1, <1>4, ItemsOfQueue DEF Respond
    <3> QED
      BY <2>1, <3>1 DEF Item
  <2>3. Make("RESPONSE", key) \in Item /\ ~IsData(Make("RESPONSE", key))
    BY <2>2, MakeType DEF Make, Ops, HttpOps, IsData, DataOps
  <2>4. srv_sent' = Append(srv_sent, Make("RESPONSE", key))
    BY <1>4, <2>1 DEF Respond
  <2> QED
    BY <2>3, <2>4
<1>5. CASE PeerFault
  BY <1>5 DEF PeerFault
<1> QED
  BY <1>2, <1>3, <1>4, <1>5 DEF Server, ServerNext

LEMMA ServerDelivers ==
    ASSUME PlainTexts, TextsInv, Once, Server
    PROVE  Delivering'
<1>1. /\ TypeOK /\ events \in Seq(WSEvent) /\ Delivering
      /\ srv_sent \in Seq(Item) /\ Len(srv_sent) \in Nat
      /\ UNCHANGED <<rd, recv_storage, recv_data, in_event, connection_status, pc, events,
                     callback>>
  BY DeliveryTypes, ServerEffect DEF TextsInv
<1>2. CASE srv_sent' = srv_sent
  <2>1. TextsSent(Done)' = TextsSent(Done)
    BY <1>1, <1>2 DEF TextsSent, Done, taken
  <2> QED
    BY <1>1, <1>2, <2>1, QuietDelivery DEF Delivering
<1>3. ASSUME NEW x \in Item, srv_sent' = Append(srv_sent, x),
             IsData(x) => /\ x.fin /\ x.cut = "whole" /\ x.val = Len(srv_sent)
                          /\ connection_status \notin Early \cup {"HANDSHAKE"}
      PROVE  Delivering'
  <2>1. /\ Len(srv_sent') = Len(srv_sent) + 1
        /\ \A i \in 1 .. Len(srv_sent) : srv_sent'[i] = srv_sent[i]
        /\ srv_sent'[Len(srv_sent) + 1] = x
    BY <1>1, <1>3, AppendProperties
  <2>2. /\ \A i \in 1 .. Len(srv_sent) + 1 : i \in 1 .. Len(srv_sent) \/ i = Len(srv_sent) + 1
        /\ \A i \in 1 .. Len(srv_sent) : i \in 1 .. Len(srv_sent) + 1
        /\ (Len(srv_sent) + 1) - 1 = Len(srv_sent)
        /\ ~(Len(srv_sent) + 1 <= Len(srv_sent))
    BY <1>1, SMT
  <2>3. TextsArePlain'
    BY <1>1, <1>3, <2>1, <2>2 DEF Delivering, TextsArePlain
  <2>4. NoTextBefore'
    BY <1>1, <1>3, <2>1, <2>2 DEF Delivering, NoTextBefore
  <2>5. Done' = Done /\ Done \in Int /\ ~(Len(srv_sent) + 1 <= Done)
    <3>1. rd \in Nat /\ rd <= Len(srv_sent) /\ Len(recv_storage) \in Nat
      BY <1>1, ReceivedTypes
    <3>2. Done' = Done
      BY <1>1 DEF Done, taken
    <3> QED
      BY <1>1, <3>1, <3>2, SMT DEF Done, taken
  <2>6. TextsSent(Done)' = TextsSent(Done)
    BY <2>1, <2>2, <2>5 DEF TextsSent
  <2>7. {srv_sent'[i].val : i \in TextsSent(Done)} = {srv_sent[i].val : i \in TextsSent(Done)}
    BY <2>1 DEF TextsSent
  <2>8. Heard' = Heard /\ HeardInOrder' = HeardInOrder
    BY <1>1 DEF Heard, HeardInOrder, Reported
  <2>9. HeardSoFar'
    BY <1>1, <2>6, <2>7, <2>8 DEF Delivering, HeardSoFar
  <2> QED
    BY <1>1, <2>3, <2>4, <2>9 DEF Delivering
<1> QED
  BY <1>2, <1>3, ServerAddsText

\* An input that is no text, whatever its handler does.
LEMMA OtherInputDelivers ==
    ASSUME TextsInv, Once, Once', handle_input, ~IsData(in_event)
    PROVE  Delivering'
<1>1. /\ TypeOK /\ FirstInv /\ IInv /\ ReceivedInv /\ events \in Seq(WSEvent) /\ Delivering
      /\ pc = "input" /\ pc' # "input" /\ connection_status \in Active
      /\ UNCHANGED <<srv_sent, rd, recv_storage>> /\ ~IsData(in_event')
      /\ in_event.val \in Nat /\ taken \in Int
  <2>1. /\ TypeOK /\ FirstInv /\ IInv /\ ReceivedInv /\ events \in Seq(WSEvent) /\ Delivering
        /\ in_event.val \in Nat /\ taken \in Int
    BY DeliveryTypes DEF TextsInv, Item
  <2>2. pc = "input" /\ pc' # "input" /\ connection_status \in Active
    BY <2>1, InputStatus DEF IInv, StatusInv
  <2> QED
    BY <2>1, <2>2, InputEffect, NoDataFrame
<1>2. connection_status # "NOT_INIT" /\ inits' # inits + 1
  <2>1. connection_status # "NOT_INIT"
    BY <1>1 DEF Active
  <2> QED
    BY <2>1, NoSecondInit
<1>3. /\ UNCHANGED <<callback, recv_data>>
      /\ \/ events' = events
         \/ \E event \in WSEvent : event.kind # "ON_TEXT" /\ events' = Append(events, event)
  <2>1. CASE Report(ON_CONNECT, "OPEN", output_events, AfterInput) /\ UNCHANGED recv_data
    <3>1. ON_CONNECT \in WSEvent /\ ON_CONNECT.kind # "ON_TEXT"
      BY EventTypes DEF ON_CONNECT
    <3> QED
      BY <1>2, <2>1, <3>1, ReportKeepsCallback
  <2>2. CASE /\ Report(ON_CLOSE("CLIENT_CLOSE", in_event.val), "CLOSE", output_events, AfterInput)
             /\ UNCHANGED recv_data
    <3>1. /\ ON_CLOSE("CLIENT_CLOSE", in_event.val) \in WSEvent
          /\ ON_CLOSE("CLIENT_CLOSE", in_event.val).kind # "ON_TEXT"
      BY <1>1, EventTypes DEF ON_CLOSE
    <3> QED
      BY <1>2, <2>2, <3>1, ReportKeepsCallback
  <2>3. CASE UNCHANGED <<callback, events, recv_data>>
    BY <2>3
  <2>4. ~handle_recv_frame
    BY DEF handle_recv_frame
  <2> QED
    BY <2>1, <2>2, <2>3, <2>4 DEF handle_input, handle_recv_http_response, recv_ping,
         recv_pong, recv_undefined, recv_close_from_server, recv_close_answer, recv_close_ignored
<1>4. TextsSent(Done)' = TextsSent(Done)
  <2>1. Done' = taken /\ Done = taken - 1
    BY <1>1, DoneWithInput
  <2>2. CASE connection_status = "HANDSHAKE"
    <3>1. \A i \in 1 .. Len(srv_sent) : ~IsData(srv_sent[i])
      BY <1>1, <2>2 DEF Delivering, NoTextBefore
    <3> QED
      BY <1>1, <3>1 DEF TextsSent
  <2>3. CASE connection_status # "HANDSHAKE"
    <3>1. ~IsData(srv_sent[taken])
      BY <1>1, <2>3, HandledWasSent
    <3>2. \A i \in 1 .. Len(srv_sent) : i <= taken <=> (i <= taken - 1 \/ i = taken)
      BY <1>1, SMT
    <3> QED
      BY <1>1, <2>1, <3>1, <3>2 DEF TextsSent
  <2> QED
    BY <2>2, <2>3
<1>5. /\ connection_status' # "NOT_INIT"
      /\ connection_status' \in Early \cup {"HANDSHAKE"} =>
            connection_status \in Early \cup {"HANDSHAKE"}
  BY <1>1, <1>2, InputEffect DEF Early
<1> QED
  BY <1>1, <1>3, <1>4, <1>5, QuietDelivery

\* A text: it is whole, so that the callback is given it, and later than all
\* it was given before.
LEMMA TextDelivers ==
    ASSUME TextsInv, Once, Once', handle_input, IsData(in_event)
    PROVE  Delivering'
<1>1. /\ TypeOK /\ ReceivedInv /\ IInv /\ events \in Seq(WSEvent) /\ Delivering
      /\ pc = "input" /\ in_event \in Item /\ srv_sent \in Seq(Item) /\ Len(srv_sent) \in Nat
      /\ UNCHANGED <<srv_sent, rd, recv_storage>>
      /\ Done' = taken /\ Done = taken - 1
  BY DeliveryTypes, InputEffect, DoneWithInput DEF TextsInv
<1>2. handle_recv_frame
  BY DEF handle_input, handle_recv_http_response, recv_ping, recv_pong, recv_undefined,
         recv_close_from_server, recv_close_answer, recv_close_ignored, IsData, DataOps
<1>3. connection_status # "HANDSHAKE" /\ connection_status \notin Early
  BY <1>1 DEF ReceivedInv, Received, IsData, DataOps, IInv, StatusInv, Active, Early
<1>4. /\ taken \in 1 .. Len(srv_sent) /\ in_event = srv_sent[taken]
      /\ in_event.fin /\ in_event.cut = "whole" /\ in_event.val = taken - 1
      /\ recv_data = <<>>
  <2>1. taken \in 1 .. Len(srv_sent) /\ in_event = srv_sent[taken]
    BY <1>1, <1>3, HandledWasSent
  <2> QED
    BY <1>1, <2>1 DEF Delivering, TextsArePlain
<1>5. Kept = <<>> /\ from_utf8(<<in_event>>) /\ from_utf8(Kept)
  <2>1. Kept = <<>>
    BY <1>4 DEF Kept
  <2>2. /\ <<in_event>> \in Seq(Item) /\ \A x \in ToSet(<<in_event>>) : x.cut = "whole"
        /\ <<>> \in Seq(Item) /\ \A x \in ToSet(<<>>) : x.cut = "whole"
    BY <1>1, <1>4, ItemsOfOne, ItemsOfNone, EmptySeq
  <2> QED
    BY <2>1, <2>2, WholeIsText
<1>6. inits' # inits + 1
  <2>1. connection_status # "NOT_INIT"
    BY <1>3 DEF Early
  <2> QED
    BY <2>1, NoSecondInit
<1>7. /\ recv_data' = <<>> /\ in_event' = NoData /\ UNCHANGED callback
      /\ connection_status' = connection_status
      /\ callback => events' = Append(events, ON_TEXT(<<in_event>>))
  <2>1. CASE ~callback
    BY <1>2, <1>4, <1>5, <2>1 DEF handle_recv_frame, Handled
  <2>2. CASE callback
    <3>1. /\ recv_data' = <<>> /\ Handled
          /\ Report(ON_TEXT(Append(Kept, in_event)), connection_status, output_events, AfterInput)
      BY <1>2, <1>5, <2>2 DEF handle_recv_frame
    <3>2. Append(Kept, in_event) = <<in_event>>
      BY <1>5
    <3>3. Report(ON_TEXT(<<in_event>>), connection_status, output_events, AfterInput)
      BY <3>1, <3>2
    <3>4. UNCHANGED callback /\ events' = Append(events, ON_TEXT(<<in_event>>))
      BY <1>6, <2>2, <3>3, ReportKeepsCallback
    <3>5. connection_status' = connection_status
      BY <1>6, <3>3 DEF Report, reinit
    <3> QED
      BY <3>1, <3>4, <3>5 DEF Handled
  <2> QED
    BY <2>1, <2>2
<1>8. TextsSent(Done)' = TextsSent(Done) \cup {taken}
  <2>1. \A i \in 1 .. Len(srv_sent) : i <= taken <=> (i <= taken - 1 \/ i = taken)
    BY <1>4, SMT
  <2> QED
    BY <1>1, <1>4, <2>1 DEF TextsSent
<1>9. HeardSoFar'
  <2> SUFFICES ASSUME callback
               PROVE  /\ Heard' = {srv_sent'[i].val : i \in TextsSent(Done)'}
                      /\ HeardInOrder'
    BY <1>7 DEF HeardSoFar
  <2> DEFINE event == ON_TEXT(<<in_event>>)
             n     == taken - 1
  <2>1. /\ event \in WSEvent /\ event.kind = "ON_TEXT" /\ event.vals = <<n>>
    <3>1. <<in_event>> \in Seq(Item)
      BY <1>1
    <3>2. Numbers(<<in_event>>) = <<in_event.val>>
      BY DEF Numbers
    <3> QED
      BY <1>4, <3>1, <3>2, EventTypes DEF ON_TEXT
  <2>2. Heard = {srv_sent[i].val : i \in TextsSent(Done)} /\ HeardInOrder
    BY <1>1 DEF Delivering, HeardSoFar
  <2>3. n \in Nat /\ \A i \in 1 .. Len(srv_sent) : i <= taken - 1 => i - 1 < taken - 1
    BY <1>4, SMT
  <2>4. \A m \in Heard : m < n
    BY <1>1, <2>2, <2>3 DEF TextsSent, Delivering, TextsArePlain
  <2>5. events' = Append(events, event)
    BY <1>7
  <2> HIDE DEF event, n
  <2>6. Heard' = Heard \cup {n} /\ HeardInOrder'
    BY <1>1, <2>1, <2>2, <2>3, <2>4, <2>5, HearsText
  <2>7. {srv_sent'[i].val : i \in TextsSent(Done)'}
          = {srv_sent[i].val : i \in TextsSent(Done)} \cup {n}
    BY <1>1, <1>4, <1>8 DEF n
  <2> QED
    BY <2>2, <2>6, <2>7
<1>10. TextsArePlain' /\ NoTextBefore'
  BY <1>1, <1>3, <1>7 DEF Delivering, TextsArePlain, NoTextBefore
<1> QED
  BY <1>3, <1>7, <1>9, <1>10, NoDataFrame DEF Delivering, Early

LEMMA NextDelivers ==
    ASSUME PlainTexts, TextsInv, [Next]_vars
    PROVE  TextsInv'
<1> SUFFICES ASSUME Once' PROVE Delivering'
  BY NextReceived DEF TextsInv
<1>1. Once
  BY OnceBefore, DeliveryTypes
<1> QED
  BY <1>1, ProgramDelivers, ReadDelivers, StartDelivers, OutputDelivers, ServerDelivers,
     OtherInputDelivers, TextDelivers DEF Next, event_loop

LEMMA InitDelivers == Init => TextsInv
<1> SUFFICES ASSUME Init PROVE Delivering
  BY InitReceived DEF TextsInv
<1>1. /\ srv_sent = <<>> /\ recv_data = <<>> /\ in_event = NoData /\ ~callback
      /\ events = <<>>
  BY DEF Init, ConnInit
<1>2. \A i : i \notin 1 .. Len(srv_sent)
  <2>1. Len(srv_sent) = 0 /\ 1 .. 0 = {}
    BY <1>1, SMT
  <2> QED
    BY <2>1
<1> QED
  BY <1>1, <1>2, NoDataFrame DEF Delivering, TextsArePlain, NoTextBefore, HeardSoFar

\* Due is what the server sent from the item being handled on; an item that is
\* no text stands before it when none is being handled.
LEMMA DueIs ==
    ASSUME TextsInv, Once
    PROVE  /\ Due \in Seq(Item) /\ Len(Due) \in Nat
           /\ \A j \in 1 .. Len(Due) : IsData(Due[j]) =>
                 /\ taken - 1 + j \in 1 .. Len(srv_sent) /\ Done < taken - 1 + j
                 /\ Due[j] = srv_sent[taken - 1 + j]
           /\ \A i \in 1 .. Len(srv_sent) : Done < i /\ IsData(srv_sent[i]) =>
                 \E j \in 1 .. Len(Due) : Due[j] = srv_sent[i]
<1> DEFINE unread == SubSeq(srv_sent, rd + 1, Len(srv_sent))
           rest   == recv_storage \o unread
           n      == Len(srv_sent) - taken
<1>1. /\ TypeOK /\ ReceivedInv /\ Received /\ Delivering /\ in_event \in Item
      /\ srv_sent \in Seq(Item) /\ Len(srv_sent) \in Nat
      /\ recv_storage \in Seq(Item) /\ Len(recv_storage) \in Nat
      /\ rd \in Nat /\ rd <= Len(srv_sent) /\ Len(recv_storage) <= rd
  BY DeliveryTypes, ReceivedTypes DEF TextsInv, ReceivedInv, Received
<1>2. /\ unread \in Seq(Item) /\ Len(unread) = Len(srv_sent) - rd
      /\ \A i \in 1 .. Len(srv_sent) - rd : unread[i] = srv_sent[rd + i]
  <2>1. /\ rd + 1 \in Int /\ Len(srv_sent) \in Int
        /\ \A i \in rd + 1 .. Len(srv_sent) : i \in 1 .. Len(srv_sent)
        /\ rd + 1 <= Len(srv_sent) + 1 /\ Len(srv_sent) - (rd + 1) + 1 = Len(srv_sent) - rd
        /\ \A i \in 1 .. Len(srv_sent) - rd : rd + 1 + i - 1 = rd + i
    BY <1>1, SMT
  <2>2. \A i \in rd + 1 .. Len(srv_sent) : srv_sent[i] \in Item
    BY <1>1, <2>1, ElementOfSeq
  <2> QED
    BY <1>1, <2>1, <2>2, SubSeqProperties
<1> HIDE DEF unread
<1>3. /\ rest \in Seq(Item) /\ Len(rest) = Len(recv_storage) + Len(unread)
      /\ \A i \in 1 .. Len(recv_storage) : rest[i] = recv_storage[i]
      /\ \A i \in 1 .. Len(unread) : rest[Len(recv_storage) + i] = unread[i]
      /\ \A j \in 1 .. Len(rest) :
            j \in 1 .. Len(recv_storage) \/ \E i \in 1 .. Len(unread) : j = Len(recv_storage) + i
  BY <1>1, <1>2, ConcatItems
<1> HIDE DEF rest
<1>4. /\ n \in Nat /\ Len(rest) = n /\ taken \in Nat
      /\ \A i \in 1 .. Len(unread) : rd + i = taken + (Len(recv_storage) + i)
  BY <1>1, <1>2, <1>3, SMT DEF taken
<1>5. \A j \in 1 .. n : rest[j] = srv_sent[taken + j]
  <2>1. \A i \in 1 .. Len(recv_storage) : rest[i] = srv_sent[taken + i]
    BY <1>1, <1>3 DEF Received
  <2>2. \A i \in 1 .. Len(unread) :
           rest[Len(recv_storage) + i] = srv_sent[taken + (Len(recv_storage) + i)]
    BY <1>2, <1>3, <1>4
  <2>3. \A j \in 1 .. Len(rest) : rest[j] = srv_sent[taken + j]
    BY <1>3, <2>1, <2>2
  <2> QED
    BY <1>4, <2>3
<1>6. /\ Due \in Seq(Item) /\ Len(Due) = 1 + n /\ Due[1] = in_event
      /\ \A j \in 1 .. n : Due[1 + j] = rest[j]
      /\ \A k \in 1 .. 1 + n : k = 1 \/ \E j \in 1 .. n : k = 1 + j
  <2>1. <<in_event>> \in Seq(Item) /\ Len(<<in_event>>) = 1 /\ <<in_event>>[1] = in_event
    BY <1>1
  <2>2. /\ <<in_event>> \o rest \in Seq(Item) /\ Len(<<in_event>> \o rest) = 1 + n
        /\ \A i \in 1 .. 1 : (<<in_event>> \o rest)[i] = <<in_event>>[i]
        /\ \A j \in 1 .. n : (<<in_event>> \o rest)[1 + j] = rest[j]
        /\ \A k \in 1 .. 1 + n : k \in 1 .. 1 \/ \E j \in 1 .. n : k = 1 + j
    BY <1>3, <1>4, <2>1, ConcatItems
  <2>3. 1 \in 1 .. 1 /\ \A k \in 1 .. 1 : k = 1
    BY SMT
  <2> QED
    BY <2>1, <2>2, <2>3 DEF Due, rest, unread
<1>7. /\ pc = "input" => Done = taken - 1
      /\ pc # "input" => Done = taken
  BY DEF Done
<1>8. IsData(in_event) => /\ taken \in 1 .. Len(srv_sent) /\ Done = taken - 1
                          /\ in_event = srv_sent[taken]
  <2> SUFFICES ASSUME IsData(in_event)
               PROVE  /\ taken \in 1 .. Len(srv_sent) /\ Done = taken - 1
                      /\ in_event = srv_sent[taken]
    OBVIOUS
  <2>1. pc = "input" /\ connection_status # "HANDSHAKE"
    BY <1>1 DEF Delivering, Received, IsData, DataOps
  <2> QED
    BY <1>1, <1>7, <2>1, HandledWasSent
<1>9. ASSUME NEW k \in 1 .. 1 + n, IsData(Due[k])
      PROVE  /\ taken - 1 + k \in 1 .. Len(srv_sent) /\ Done < taken - 1 + k
             /\ Due[k] = srv_sent[taken - 1 + k]
  <2>1. CASE k = 1
    <3>1. taken - 1 + 1 = taken /\ taken - 1 < taken
      BY <1>4, SMT
    <3> QED
      BY <1>6, <1>8, <1>9, <2>1, <3>1
  <2>2. ASSUME NEW j \in 1 .. n, k = 1 + j
        PROVE  /\ taken - 1 + k \in 1 .. Len(srv_sent) /\ Done < taken - 1 + k
               /\ Due[k] = srv_sent[taken - 1 + k]
    <3>1. /\ taken - 1 + (1 + j) = taken + j /\ taken + j \in 1 .. Len(srv_sent)
          /\ taken < taken + j /\ taken - 1 < taken + j
      BY <1>1, <1>4, SMT DEF taken
    <3> QED
      BY <1>5, <1>6, <1>7, <2>2, <3>1
  <2> QED
    BY <1>6, <2>1, <2>2
<1>10. ASSUME NEW i \in 1 .. Len(srv_sent), Done < i, IsData(srv_sent[i])
       PROVE  \E k \in 1 .. 1 + n : Due[k] = srv_sent[i]
  <2>1. CASE taken < i
    <3>1. i - taken \in 1 .. n /\ 1 + (i - taken) \in 1 .. 1 + n /\ taken + (i - taken) = i
      BY <1>1, <1>4, <2>1, SMT
    <3>2. Due[1 + (i - taken)] = srv_sent[i]
      BY <1>5, <1>6, <3>1
    <3> QED
      BY <3>1, <3>2
  <2>2. CASE ~(taken < i)
    <3>1. pc = "input" /\ i = taken
      BY <1>4, <1>7, <1>10, <2>2, SMT
    <3>2. connection_status # "HANDSHAKE"
      BY <1>1, <1>10 DEF Delivering, NoTextBefore
    <3>3. in_event = srv_sent[i] /\ 1 \in 1 .. 1 + n
      BY <1>1, <1>4, <3>1, <3>2, HandledWasSent
    <3> QED
      BY <1>6, <3>3
  <2> QED
    BY <2>1, <2>2
<1> QED
  BY <1>4, <1>6, <1>9, <1>10, SMT

\* On the first connection, and from a server that sends its texts as whole
\* messages once the handshake is over, none is lost, repeated or overtaken on
\* its way to the callback, however they are cut into reads, whatever comes
\* between them and whatever the callback does (client.rs 240-298, 409-450).
THEOREM TextsDelivered == Spec => [](PlainTexts /\ inits <= 1 => EveryTextDelivered)
<1> DEFINE P == PlainTexts /\ inits <= 1 => EveryTextDelivered
<1>1. ~PlainTexts => P
  OBVIOUS
<1>2. PlainTexts /\ TextsInv /\ [Next]_vars => TextsInv'
  BY NextDelivers
<1>3. TextsInv => P
  <2> SUFFICES ASSUME TextsInv, Once, callback
               PROVE  /\ Heard \cup Carried(Due) = Carried(srv_sent)
                      /\ \A m \in Heard, n \in Carried(Due) : m < n
                      /\ HeardInOrder /\ Increasing(Due)
    BY DEF EveryTextDelivered, Once
  <2>1. /\ Due \in Seq(Item) /\ Len(Due) \in Nat
        /\ \A j \in 1 .. Len(Due) : IsData(Due[j]) =>
              /\ taken - 1 + j \in 1 .. Len(srv_sent) /\ Done < taken - 1 + j
              /\ Due[j] = srv_sent[taken - 1 + j]
        /\ \A i \in 1 .. Len(srv_sent) : Done < i /\ IsData(srv_sent[i]) =>
              \E j \in 1 .. Len(Due) : Due[j] = srv_sent[i]
    BY DueIs
  <2>2. /\ Heard = {srv_sent[i].val : i \in TextsSent(Done)} /\ HeardInOrder
        /\ \A i \in 1 .. Len(srv_sent) : IsData(srv_sent[i]) => srv_sent[i].val = i - 1
    BY DEF TextsInv, Delivering, HeardSoFar, TextsArePlain
  <2>3. /\ srv_sent \in Seq(Item) /\ Len(srv_sent) \in Nat /\ taken \in Int /\ Done \in Int
        /\ DOMAIN srv_sent = 1 .. Len(srv_sent) /\ DOMAIN Due = 1 .. Len(Due)
    <3>1. srv_sent \in Seq(Item) /\ Len(srv_sent) \in Nat /\ taken \in Int
      BY DeliveryTypes
    <3>2. Done \in Int
      BY <3>1, SMT DEF Done
    <3> QED
      BY <2>1, <3>1, <3>2, LenProperties
  <2>4. /\ \A x : x \in Carried(srv_sent) <=>
              \E i \in 1 .. Len(srv_sent) : IsData(srv_sent[i]) /\ x = srv_sent[i].val
        /\ \A x : x \in Carried(Due) <=>
              \E j \in 1 .. Len(Due) : IsData(Due[j]) /\ x = Due[j].val
    BY <2>3 DEF Carried
  <2>5. \A x : x \in Heard <=> \E i \in 1 .. Len(srv_sent) :
                  i <= Done /\ IsData(srv_sent[i]) /\ x = srv_sent[i].val
    BY <2>2 DEF TextsSent
  <2>6. \A x : x \in Carried(Due) <=> \E i \in 1 .. Len(srv_sent) :
                  Done < i /\ IsData(srv_sent[i]) /\ x = srv_sent[i].val
    BY <2>1, <2>4
  <2>7. Heard \cup Carried(Due) = Carried(srv_sent)
    <3>1. \A i \in 1 .. Len(srv_sent) : i <= Done \/ Done < i
      BY <2>3, SMT
    <3>2. \A x : x \in Heard \/ x \in Carried(Due) <=> x \in Carried(srv_sent)
      BY <2>4, <2>5, <2>6, <3>1
    <3> QED
      BY <3>2
  <2>8. \A m \in Heard, n \in Carried(Due) : m < n
    <3>1. \A i, j \in 1 .. Len(srv_sent) : i <= Done /\ Done < j => i - 1 < j - 1
      BY <2>3, SMT
    <3> TAKE m \in Heard, n \in Carried(Due)
    <3>2. PICK i \in 1 .. Len(srv_sent) : i <= Done /\ IsData(srv_sent[i]) /\ m = srv_sent[i].val
      BY <2>5
    <3>3. PICK j \in 1 .. Len(srv_sent) : Done < j /\ IsData(srv_sent[j]) /\ n = srv_sent[j].val
      BY <2>6
    <3>4. m = i - 1 /\ n = j - 1
      BY <2>2, <3>2, <3>3
    <3> QED
      BY <3>1, <3>2, <3>3, <3>4
  <2>9. Increasing(Due)
    <3>1. \A i, j \in 1 .. Len(Due) : i < j => (taken - 1 + i) - 1 < (taken - 1 + j) - 1
      BY <2>1, <2>3, SMT
    <3>2. ASSUME NEW i \in 1 .. Len(Due), NEW j \in 1 .. Len(Due), i < j,
                 IsData(Due[i]), IsData(Due[j])
          PROVE  Due[i].val < Due[j].val
      <4>1. /\ Due[i].val = (taken - 1 + i) - 1
            /\ Due[j].val = (taken - 1 + j) - 1
        BY <2>1, <2>2, <3>2
      <4> QED
        BY <3>1, <3>2, <4>1
    <3> QED
      BY <2>3, <3>2 DEF Increasing
  <2> QED
    BY <2>2, <2>7, <2>8, <2>9
<1> HIDE DEF P
<1>4. CASE ~PlainTexts
  <2>1. P
    BY <1>1, <1>4
  <2> QED
    BY <2>1, PTL DEF P
<1>5. CASE PlainTexts
  <2>1. TextsInv /\ [Next]_vars => TextsInv'
    BY <1>2, <1>5
  <2>2. Spec => []P
    BY <1>3, <2>1, InitDelivers, PTL DEF Spec
  <2> QED
    BY <2>2 DEF P
<1> QED
  BY <1>4, <1>5
=============================================================================
