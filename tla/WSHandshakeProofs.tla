-------------------------- MODULE WSHandshakeProofs --------------------------
(***************************************************************************)
(* That a connection is used only under the key of its own handshake, for  *)
(* every server, callback, network and bound: over any number of calls to  *)
(* init, and, on the first connection, from the first frame on.            *)
(***************************************************************************)
EXTENDS WSOrderProofs

USE DEF connVars, reported, received, call, fixed

-----------------------------------------------------------------------------
(* The items of a sequence *)

LEMMA ItemsOf ==
    ASSUME NEW s \in Seq(Item)
    PROVE  /\ ToSet(s) = {s[i] : i \in 1 .. Len(s)} /\ ToSet(s) \subseteq Item
           /\ \A x \in ToSet(s) : \E i \in 1 .. Len(s) : x = s[i]
           /\ \A i \in 1 .. Len(s) : s[i] \in ToSet(s)
<1>1. DOMAIN s = 1 .. Len(s) /\ \A i \in 1 .. Len(s) : s[i] \in Item
  BY LenProperties, ElementOfSeq
<1> QED
  BY <1>1 DEF ToSet

LEMMA ItemsOfNone == ToSet(<<>>) = {}
BY DEF ToSet

LEMMA ItemsOfOne == \A x \in Item : <<x>> \in Seq(Item) /\ ToSet(<<x>>) = {x}
<1> SUFFICES ASSUME NEW x \in Item PROVE ToSet(<<x>>) = {x}
  BY OneItem
<1>1. DOMAIN <<x>> = 1 .. 1 /\ <<x>>[1] = x
  OBVIOUS
<1>2. 1 .. 1 = {1}
  BY SMT
<1> QED
  BY <1>1, <1>2 DEF ToSet

LEMMA ItemsOfConcat ==
    ASSUME NEW s \in Seq(Item), NEW t \in Seq(Item)
    PROVE  s \o t \in Seq(Item) /\ ToSet(s \o t) = ToSet(s) \cup ToSet(t)
<1> DEFINE u == s \o t
<1>1. /\ u \in Seq(Item) /\ Len(s) \in Nat /\ Len(t) \in Nat /\ Len(u) = Len(s) + Len(t)
      /\ \A i \in 1 .. Len(s) : u[i] = s[i]
      /\ \A i \in 1 .. Len(t) : u[Len(s) + i] = t[i]
      /\ \A k \in 1 .. Len(u) : k \in 1 .. Len(s) \/ \E i \in 1 .. Len(t) : k = Len(s) + i
  BY ConcatItems
<1>2. /\ \A i \in 1 .. Len(s) : i \in 1 .. Len(u)
      /\ \A i \in 1 .. Len(t) : Len(s) + i \in 1 .. Len(u)
  BY <1>1, SMT
<1> HIDE DEF u
<1>3. /\ \A x \in ToSet(u) : \E i \in 1 .. Len(u) : x = u[i]
      /\ \A i \in 1 .. Len(u) : u[i] \in ToSet(u)
  BY <1>1, ItemsOf
<1>4. /\ \A x \in ToSet(s) : \E i \in 1 .. Len(s) : x = s[i]
      /\ \A i \in 1 .. Len(s) : s[i] \in ToSet(s)
  BY ItemsOf
<1>5. /\ \A x \in ToSet(t) : \E i \in 1 .. Len(t) : x = t[i]
      /\ \A i \in 1 .. Len(t) : t[i] \in ToSet(t)
  BY ItemsOf
<1>6. ASSUME NEW x \in ToSet(u) PROVE x \in ToSet(s) \cup ToSet(t)
  <2>1. PICK k \in 1 .. Len(u) : x = u[k]
    BY <1>3
  <2>2. CASE k \in 1 .. Len(s)
    <3>1. u[k] = s[k] /\ s[k] \in ToSet(s)
      BY <1>1, <1>4, <2>2
    <3> QED
      BY <2>1, <3>1
  <2>3. ASSUME NEW i \in 1 .. Len(t), k = Len(s) + i PROVE x \in ToSet(t)
    <3>1. u[Len(s) + i] = t[i] /\ t[i] \in ToSet(t)
      BY <1>1, <1>5
    <3> QED
      BY <2>1, <2>3, <3>1
  <2> QED
    BY <1>1, <2>2, <2>3
<1>7. ASSUME NEW x \in ToSet(s) PROVE x \in ToSet(u)
  <2>1. PICK i \in 1 .. Len(s) : x = s[i]
    BY <1>4
  <2>2. u[i] = s[i] /\ u[i] \in ToSet(u)
    BY <1>1, <1>2, <1>3
  <2> QED
    BY <2>1, <2>2
<1>8. ASSUME NEW x \in ToSet(t) PROVE x \in ToSet(u)
  <2>1. PICK i \in 1 .. Len(t) : x = t[i]
    BY <1>5
  <2>2. u[Len(s) + i] = t[i] /\ u[Len(s) + i] \in ToSet(u)
    BY <1>1, <1>2, <1>3
  <2> QED
    BY <2>1, <2>2
<1> QED
  BY <1>1, <1>6, <1>7, <1>8 DEF u

LEMMA ItemsOfAppend ==
    ASSUME NEW s \in Seq(Item), NEW x \in Item
    PROVE  Append(s, x) \in Seq(Item) /\ ToSet(Append(s, x)) = ToSet(s) \cup {x}
<1>1. <<x>> \in Seq(Item) /\ ToSet(<<x>>) = {x} /\ Append(s, x) = s \o <<x>>
  BY ItemsOfOne, AppendIsConcat
<1> QED
  BY <1>1, ItemsOfConcat

LEMMA FirstOfAppend ==
    ASSUME NEW s \in Seq(Item), NEW x \in Item
    PROVE  Append(s, x) # <<>> /\ (s # <<>> => Append(s, x)[1] = s[1])
<1>1. /\ Append(s, x) \in Seq(Item) /\ Append(s, x) # <<>> /\ Len(Append(s, x)) = Len(s) + 1
      /\ \A i \in 1 .. Len(s) : Append(s, x)[i] = s[i]
  BY AppendProperties
<1>2. s # <<>> => Len(s) \in Nat /\ Len(s) # 0
  BY LenProperties, EmptySeq
<1>3. s # <<>> => 1 \in 1 .. Len(s)
  BY <1>2, SMT
<1> QED
  BY <1>1, <1>3

LEMMA ItemsOfPrefixed ==
    ASSUME NEW x \in Item, NEW s \in Seq(Item)
    PROVE  <<x>> \o s \in Seq(Item) /\ ToSet(<<x>> \o s) = {x} \cup ToSet(s)
<1>1. <<x>> \in Seq(Item) /\ ToSet(<<x>>) = {x}
  BY ItemsOfOne
<1> QED
  BY <1>1, ItemsOfConcat

LEMMA ItemsOfQueue ==
    ASSUME NEW s \in Seq(Item), s # <<>>
    PROVE  /\ Head(s) \in Item /\ Tail(s) \in Seq(Item)
           /\ ToSet(s) = {Head(s)} \cup ToSet(Tail(s))
<1>1. /\ Head(s) \in Item /\ Tail(s) \in Seq(Item) /\ s = <<Head(s)>> \o Tail(s)
  BY HeadTailProperties
<1> QED
  BY <1>1, ItemsOfPrefixed

LEMMA ItemsOfDataFrames ==
    ASSUME queued \in Nat, NEW n \in Nat
    PROVE  /\ DataFrames(n) \in Seq(Item)
           /\ \A x \in ToSet(DataFrames(n)) : IsData(x)
<1>1. DataFrames(n) \in Seq(Item) /\ DOMAIN DataFrames(n) = 1 .. n
  BY DataFramesType DEF DataFrames
<1>2. \A i \in 1 .. n : IsData(DataFrames(n)[i])
  BY DEF DataFrames, IsData, DataOps
<1> QED
  BY <1>1, <1>2 DEF ToSet

-----------------------------------------------------------------------------
(* What each step does to what is queued, in hand, written and received *)

LEMMA SendEffect ==
    ASSUME NEW text \in Texts, NEW status, NEW outs \in Seq(Item), NEW next,
           queued \in Nat, send(text, status, outs, next)
    PROVE  /\ pc' \in {next, "panicked", "diverged"}
           /\ \A x \in ToSet(output_events') :
                 x \in ToSet(outs) \/ (IsData(x) /\ status # "CLOSE")
<1>1. pc' \in {next, "panicked", "diverged"}
  BY SendType
<1>2. CASE output_events' = outs
  BY <1>1, <1>2
<1>3. ASSUME NEW n \in Nat, status # "CLOSE", output_events' = outs \o DataFrames(n)
      PROVE  \A x \in ToSet(output_events') : x \in ToSet(outs) \/ IsData(x)
  <2>1. DataFrames(n) \in Seq(Item) /\ \A x \in ToSet(DataFrames(n)) : IsData(x)
    BY ItemsOfDataFrames
  <2>2. ToSet(output_events') = ToSet(outs) \cup ToSet(DataFrames(n))
    BY <1>3, <2>1, ItemsOfConcat
  <2> QED
    BY <2>1, <2>2
<1>4. ASSUME NEW n \in 1 .. text.len, output_events' = outs \o DataFrames(n),
             status # "CLOSE"
      PROVE  \A x \in ToSet(output_events') : x \in ToSet(outs) \/ IsData(x)
  <2>1. n \in Nat
    OBVIOUS
  <2> QED
    BY <1>3, <1>4, <2>1
<1> QED
  BY <1>1, <1>2, <1>4 DEF send

\* A handler that reports: only a callback that may send queues anything, and
\* only one that may call init leaves another status.
LEMMA ReportEffect ==
    ASSUME NEW event, NEW status, NEW outs \in Seq(Item), NEW next, queued \in Nat,
           Report(event, status, outs, next)
    PROVE  /\ pc' \in {next, "panicked", "diverged"}
           /\ \A x \in ToSet(output_events') :
                 \/ x \in ToSet(outs)
                 \/ IsData(x) /\ status # "CLOSE" /\ "send" \in CallbackOps
           /\ \/ connection_status' = status /\ UNCHANGED inits
              \/ /\ connection_status' = "START_INIT" /\ inits' = inits + 1
                 /\ "init" \in CallbackOps /\ pc' = next
           /\ \/ callback /\ events' = Append(events, event)
              \/ ~callback /\ events' = events /\ callback' = callback
<1>1. CASE \E text \in Texts : send(text, status, outs, next)
  <2>1. PICK text \in Texts : send(text, status, outs, next)
    BY <1>1
  <2>2. /\ pc' \in {next, "panicked", "diverged"}
        /\ \A x \in ToSet(output_events') :
              x \in ToSet(outs) \/ (IsData(x) /\ status # "CLOSE")
    BY <2>1, SendEffect
  <2>3. CASE "send" \in CallbackOps
    BY <2>2, <2>3 DEF Report, reinit
  <2>4. CASE "send" \notin CallbackOps
    BY <2>4 DEF Report, reinit
  <2> QED
    BY <2>3, <2>4
<1>2. CASE ~\E text \in Texts : send(text, status, outs, next)
  BY <1>2 DEF Report, reinit
<1> QED
  BY <1>1, <1>2

\* The first step of event_loop: an item that is taken out of the socket was
\* sent by the server, and one that is popped was queued.
LEMMA TakeEffect ==
    ASSUME TypeOK, NEW event, NEW rest, Take(event, rest)
    PROVE  /\ in_event' = event /\ recv_storage' = rest
           /\ out_event' \in ToSet(output_events) \cup {NoData}
           /\ ToSet(output_events') \subseteq ToSet(output_events)
           /\ connection_status = "HANDSHAKE" => ~is_websocket_data(out_event')
<1>1. output_events \in Seq(Item)
  BY DEF TypeOK
<1>2. in_event' = event /\ recv_storage' = rest /\ pop_output_event
  BY DEF Take
<1>3. ~is_websocket_data(NoData)
  BY DEF is_websocket_data, IsData, IsControl, NoData, Make, DataOps, ControlOps
<1>4. CASE output_events = <<>> \/ Held(Head(output_events))
  BY <1>2, <1>3, <1>4 DEF pop_output_event
<1>5. CASE ~(output_events = <<>> \/ Held(Head(output_events)))
  <2>1. ToSet(output_events) = {Head(output_events)} \cup ToSet(Tail(output_events))
    BY <1>1, <1>5, ItemsOfQueue
  <2>2. out_event' = Head(output_events) /\ output_events' = Tail(output_events)
    BY <1>2, <1>5 DEF pop_output_event
  <2>3. connection_status = "HANDSHAKE" => ~is_websocket_data(Head(output_events))
    BY <1>5 DEF Held
  <2> QED
    BY <1>2, <2>1, <2>2, <2>3
<1> QED
  BY <1>4, <1>5

LEMMA ArrivedEffect ==
    ASSUME TypeOK, NEW k \in Readable
    PROVE  /\ k \in Nat /\ rd + k \in Nat /\ rd <= rd + k /\ rd + k <= Len(srv_sent)
           /\ Arrived(k) \in Seq(Item) /\ Len(Arrived(k)) = k
           /\ \A i \in 1 .. k : Arrived(k)[i] = srv_sent[rd + i]
           /\ recv_storage \o Arrived(k) \in Seq(Item)
           /\ \A x \in ToSet(recv_storage \o Arrived(k)) :
                 x \in ToSet(recv_storage) \/ \E i \in rd + 1 .. rd + k : x = srv_sent[i]
<1>1. /\ rd \in 0 .. Len(srv_sent) /\ Len(srv_sent) \in Nat
      /\ k \in 0 .. Len(srv_sent) - rd
      /\ srv_sent \in Seq(Item) /\ recv_storage \in Seq(Item)
  BY LenProperties DEF Readable, TypeOK, ConnTypeOK
<1>2. /\ k \in Nat /\ rd \in Nat /\ rd + k \in Nat /\ rd <= rd + k /\ rd + k <= Len(srv_sent)
      /\ \A i \in rd + 1 .. rd + k : i \in 1 .. Len(srv_sent)
      /\ \A i \in 1 .. k : rd + i \in rd + 1 .. rd + k
  BY <1>1, SMT
<1>3. Arrived(k) \in Seq(Item) /\ Len(Arrived(k)) = k
      /\ \A i \in 1 .. k : Arrived(k)[i] = srv_sent[rd + i]
  <2>1. \A i \in rd + 1 .. rd + k : srv_sent[i] \in Item
    BY <1>1, <1>2, ElementOfSeq
  <2>2. /\ rd + 1 \in Int /\ rd + k \in Int
        /\ IF rd + 1 <= rd + k + 1 THEN (rd + k) - (rd + 1) + 1 = k ELSE k = 0
        /\ \A i \in 1 .. k : rd + 1 + i - 1 = rd + i
    BY <1>2, SMT
  <2> QED
    BY <1>1, <1>2, <2>1, <2>2, SubSeqProperties DEF Arrived
<1>4. ToSet(recv_storage \o Arrived(k)) = ToSet(recv_storage) \cup ToSet(Arrived(k))
      /\ recv_storage \o Arrived(k) \in Seq(Item)
  BY <1>1, <1>3, ItemsOfConcat
<1>5. \A x \in ToSet(Arrived(k)) : \E i \in 1 .. k : x = srv_sent[rd + i]
  BY <1>3, ItemsOf
<1>6. \A x \in ToSet(Arrived(k)) : \E i \in rd + 1 .. rd + k : x = srv_sent[i]
  BY <1>2, <1>5
<1> QED
  BY <1>2, <1>3, <1>4, <1>6

\* What reading leaves in recv_storage and hands on was there or has arrived,
\* or comes of an HTTP response read as a frame.
LEMMA ReadEffect ==
    ASSUME TypeOK, read_bytes_from_socket
    PROVE  /\ pc = "idle" /\ connection_status \in Active
           /\ UNCHANGED <<stream, wire, srv_sent, peer, connection_status, recv_data,
                          queued, events, callback, inits, websocket_key, dropping>>
           /\ rd <= rd' /\ rd' <= Len(srv_sent)
           /\ \A x \in ToSet(recv_storage') \cup {in_event'} :
                 \/ x \in ToSet(recv_storage) \cup {NoData, ResponseAsFrame}
                 \/ \E i \in rd + 1 .. rd' : x = srv_sent[i]
                 \/ /\ x = RestOfResponse
                    /\ \E y \in ToSet(recv_storage) \cup ToSet(srv_sent) : y.op = "RESPONSE"
           /\ connection_status = "HANDSHAKE" /\ pc' = "input" => in_event'.op = "RESPONSE"
           /\ {out_event'} \cup ToSet(output_events')
                 \subseteq ToSet(output_events) \cup {NoData}
           /\ connection_status = "HANDSHAKE" => ~is_websocket_data(out_event')
<1>1. PICK k \in Readable :
        /\ rd' = rd + k
        /\ IF connection_status = "HANDSHAKE"
           THEN handle_recv_bytes_http_response(recv_storage \o Arrived(k))
           ELSE handle_recv_bytes_frame(recv_storage \o Arrived(k))
  BY DEF read_bytes_from_socket
<1> DEFINE storage == recv_storage \o Arrived(k)
           Here    == ToSet(recv_storage) \cup {NoData, ResponseAsFrame}
                        \cup {srv_sent[i] : i \in rd + 1 .. rd'}
           Rests   == {RestOfResponse : y \in {y \in ToSet(recv_storage) \cup ToSet(srv_sent) :
                                                 y.op = "RESPONSE"}}
           Popped  == /\ {out_event'} \cup ToSet(output_events')
                            \subseteq ToSet(output_events) \cup {NoData}
                      /\ connection_status = "HANDSHAKE" => ~is_websocket_data(out_event')
<1>2. /\ pc = "idle" /\ in_event = NoData /\ out_event = NoData
      /\ ~is_websocket_data(NoData)
  BY DEF read_bytes_from_socket, Calls, TypeOK, is_websocket_data, IsData, IsControl,
         NoData, Make, DataOps, ControlOps
<1>3. /\ rd <= rd' /\ rd' <= Len(srv_sent) /\ storage \in Seq(Item)
      /\ ToSet(storage) \subseteq Here
  BY <1>1, ArrivedEffect
<1>4. <<>> \in Seq(Item) /\ ToSet(<<>>) \subseteq Here
  BY ItemsOfNone, EmptySeq
<1>5. storage # <<>> => /\ Head(storage) \in ToSet(storage)
                        /\ ToSet(Tail(storage)) \subseteq ToSet(storage)
  BY <1>3, ItemsOfQueue
<1>6. \A i \in DOMAIN storage : storage[i] \in ToSet(storage)
  BY DEF ToSet
<1> DEFINE Within == ToSet(recv_storage') \cup {in_event'} \subseteq Here \cup Rests
<1>7. ASSUME UNCHANGED <<in_event, out_event, output_events>>, recv_storage' = storage
      PROVE  Within /\ Popped
  BY <1>2, <1>3, <1>7
<1>8. ASSUME NEW event \in Here, NEW rest, ToSet(rest) \subseteq Here \cup Rests,
             Take(event, rest)
      PROVE  Within /\ Popped
  <2>1. /\ in_event' = event /\ recv_storage' = rest
        /\ out_event' \in ToSet(output_events) \cup {NoData}
        /\ ToSet(output_events') \subseteq ToSet(output_events)
        /\ connection_status = "HANDSHAKE" => ~is_websocket_data(out_event')
    BY <1>8, TakeEffect
  <2> HIDE DEF Here, Rests
  <2> QED
    BY <1>8, <2>1
<1>9. NoData \in Here /\ ResponseAsFrame \in Here
  OBVIOUS
<1>10. IF connection_status = "HANDSHAKE"
       THEN handle_recv_bytes_http_response(storage)
       ELSE handle_recv_bytes_frame(storage)
  BY <1>1
<1>19. ToSet(storage) \subseteq ToSet(recv_storage) \cup ToSet(srv_sent)
  <2>1. \A i \in rd + 1 .. rd' : i \in 1 .. Len(srv_sent)
    <3>1. rd \in Nat /\ rd' \in Nat /\ Len(srv_sent) \in Nat
      BY <1>1, ArrivedEffect, LenProperties DEF TypeOK, ConnTypeOK
    <3> QED
      BY <1>3, <3>1, SMT
  <2>2. \A i \in 1 .. Len(srv_sent) : srv_sent[i] \in ToSet(srv_sent)
    BY ItemsOf DEF TypeOK, ConnTypeOK
  <2> QED
    BY <1>1, <2>1, <2>2, ArrivedEffect
<1> HIDE DEF storage
<1>20. storage # <<>> /\ Head(storage).op = "RESPONSE" => RestOfResponse \in Rests
  BY <1>5, <1>19
<1>21. \A x \in Rests : /\ x = RestOfResponse
                        /\ \E y \in ToSet(recv_storage) \cup ToSet(srv_sent) : y.op = "RESPONSE"
  OBVIOUS
<1> HIDE DEF Here, Rests, Popped, Within
<1>11. ASSUME handle_recv_bytes_http_response(storage) PROVE Within /\ Popped
  <2>1. CASE Take(NoData, storage)
    BY <1>3, <1>8, <1>9, <2>1
  <2>2. ASSUME NEW i \in Responses(storage), Take(storage[i], <<>>) PROVE Within /\ Popped
    <3>1. storage[i] \in Here
      BY <1>3, <1>6 DEF Responses
    <3> QED
      BY <1>4, <1>8, <2>2, <3>1
  <2>3. CASE Panics(storage)
    BY <1>7, <2>3 DEF Panics
  <2> QED
    BY <1>11, <2>1, <2>2, <2>3 DEF handle_recv_bytes_http_response
<1>12. ASSUME handle_recv_bytes_frame(storage) PROVE Within /\ Popped
  <2>1. CASE Take(NoData, storage)
    BY <1>3, <1>8, <1>9, <2>1
  <2>2. CASE /\ storage # <<>> /\ Head(storage).op = "RESPONSE"
             /\ Take(ResponseAsFrame, <<RestOfResponse>> \o Tail(storage))
    <3>1. Tail(storage) \in Seq(Item) /\ ToSet(Tail(storage)) \subseteq Here
      BY <1>3, <1>5, <2>2, HeadTailProperties
    <3>2. ToSet(<<RestOfResponse>> \o Tail(storage)) = {RestOfResponse} \cup ToSet(Tail(storage))
      BY <3>1, RestType, ItemsOfPrefixed
    <3> QED
      BY <1>8, <1>9, <1>20, <2>2, <3>1, <3>2
  <2>3. CASE storage # <<>> /\ Take(Head(storage), Tail(storage))
    <3>1. ToSet(Tail(storage)) \subseteq Here /\ Head(storage) \in Here
      BY <1>3, <1>5, <2>3
    <3> QED
      BY <1>8, <2>3, <3>1
  <2>4. CASE Panics(storage)
    BY <1>7, <2>4 DEF Panics
  <2> QED
    BY <1>7, <1>12, <2>1, <2>2, <2>3, <2>4 DEF handle_recv_bytes_frame
<1>13. Within /\ Popped
  BY <1>10, <1>11, <1>12
<1>14. connection_status = "HANDSHAKE" /\ pc' = "input" => in_event'.op = "RESPONSE"
  <2> SUFFICES ASSUME connection_status = "HANDSHAKE", pc' = "input"
               PROVE  in_event'.op = "RESPONSE"
    OBVIOUS
  <2>1. handle_recv_bytes_http_response(storage)
    BY <1>10
  <2>2. \A event, rest : Take(event, rest) => in_event' = event /\ event # NoData
    BY DEF Take
  <2> QED
    BY <2>1, <2>2 DEF handle_recv_bytes_http_response, Responses, Panics
<1>15. \A x \in Here : \/ x \in ToSet(recv_storage) \cup {NoData, ResponseAsFrame}
                       \/ \E i \in rd + 1 .. rd' : x = srv_sent[i]
  BY DEF Here
<1>16. UNCHANGED <<stream, wire, srv_sent, peer, connection_status, recv_data,
                   queued, events, callback, inits, websocket_key, dropping>>
  BY DEF read_bytes_from_socket
<1>17. pc = "idle" /\ connection_status \in Active
  BY DEF read_bytes_from_socket, Calls
<1> QED
  BY <1>3, <1>13, <1>14, <1>15, <1>16, <1>17, <1>21 DEF Within, Popped

\* The steps of the program, and those that change nothing on the connection.
LEMMA ProgramEffect ==
    ASSUME TypeOK,
           Program \/ drop_ends \/ Tick \/ event_loop_idle \/ read_fails \/ UNCHANGED vars
    PROVE  /\ UNCHANGED <<wire, srv_sent, rd, peer, recv_storage, recv_data, in_event,
                          out_event, events, websocket_key>>
           /\ stream' \in {stream, "None"}
           /\ \A x \in ToSet(output_events') :
                 \/ x \in ToSet(output_events)
                 \/ IsData(x) /\ connection_status # "CLOSE"
                 \/ x = Make("CLOSE", 1000) /\ connection_status' = "CLIENT_WANTS_TO_CLOSE"
           /\ \/ /\ UNCHANGED <<connection_status, inits, dropping>>
                 /\ dropping => UNCHANGED output_events
              \/ /\ connection_status' = "START_INIT" /\ inits' = inits + 1
                 /\ UNCHANGED <<stream, output_events, dropping>>
              \/ /\ connection_status' = "CLIENT_WANTS_TO_CLOSE" /\ dropping'
                 /\ UNCHANGED <<inits, stream>> /\ pc = "idle" /\ ~dropping
                 /\ connection_status \notin {"NOT_INIT", "HANDSHAKE", "CLOSE"}
                 /\ stream # "None" /\ output_events' = <<Make("CLOSE", 1000)>>
<1>1. CASE init \/ set_message_size \/ set_timeout \/ drop_now \/ drop_ends \/ Tick
             \/ event_loop_idle \/ read_fails \/ UNCHANGED vars
  BY <1>1 DEF init, reinit, set_message_size, set_timeout, drop_now, drop_ends, Tick,
              event_loop_idle, read_fails, vars, InProgram
<1>2. CASE Send
  <2>1. PICK text \in Texts : send(text, connection_status, output_events, "idle")
    BY <1>2 DEF Send
  <2>2. \A x \in ToSet(output_events') :
           x \in ToSet(output_events) \/ (IsData(x) /\ connection_status # "CLOSE")
    BY <2>1, SendEffect DEF TypeOK
  <2> QED
    BY <1>2, <2>2 DEF Send, InProgram
<1>3. CASE drop
  <2>1. ToSet(<<Make("CLOSE", 1000)>>) = {Make("CLOSE", 1000)}
    BY OtherItems, ItemsOfOne
  <2> QED
    BY <1>3, <2>1 DEF drop, FinalQueue, InProgram
<1> QED
  BY <1>1, <1>2, <1>3 DEF Program

\* Handling an input: the PONG, the Close and the callback's frames are all it
\* queues, and the status follows the event.
LEMMA InputEffect ==
    ASSUME TypeOK, handle_input
    PROVE  /\ pc = "input"
           /\ UNCHANGED <<wire, srv_sent, rd, peer, recv_storage, websocket_key, dropping>>
           /\ in_event' \in {in_event, NoData} /\ out_event' \in {out_event, NoData}
           /\ stream' = stream \/ (stream' = "Shutdown" /\ connection_status = "CLIENT_WANTS_TO_CLOSE")
           /\ \A x \in ToSet(output_events') :
                 \/ x \in ToSet(output_events)
                 \/ IsData(x) /\ "send" \in CallbackOps
                 \/ x = Pong(in_event) /\ in_event.op = "PING"
                 \/ /\ x = Make("CLOSE", ReplyStatus(in_event.val)) /\ in_event.op = "CLOSE"
                    /\ connection_status' = "SERVER_WANTS_TO_CLOSE"
           /\ \/ UNCHANGED <<connection_status, inits>>
              \/ connection_status' = "START_INIT" /\ inits' = inits + 1
              \/ /\ connection_status = "HANDSHAKE" /\ connection_status' = "OPEN"
                 /\ in_event.op = "RESPONSE" /\ verify_key(in_event) /\ UNCHANGED inits
              \/ /\ connection_status = "OPEN" /\ in_event.op = "CLOSE"
                 /\ connection_status' = "SERVER_WANTS_TO_CLOSE" /\ UNCHANGED inits
              \/ /\ connection_status = "CLIENT_WANTS_TO_CLOSE" /\ in_event.op = "CLOSE"
                 /\ connection_status' = "CLOSE" /\ stream' = "Shutdown" /\ UNCHANGED inits
<1> DEFINE Steps == handle_input
           Queue == \A x \in ToSet(output_events') :
                 \/ x \in ToSet(output_events)
                 \/ IsData(x) /\ "send" \in CallbackOps
                 \/ x = Pong(in_event) /\ in_event.op = "PING"
                 \/ /\ x = Make("CLOSE", ReplyStatus(in_event.val)) /\ in_event.op = "CLOSE"
                    /\ connection_status' = "SERVER_WANTS_TO_CLOSE"
           Status ==
              \/ UNCHANGED <<connection_status, inits>>
              \/ connection_status' = "START_INIT" /\ inits' = inits + 1
              \/ /\ connection_status = "HANDSHAKE" /\ connection_status' = "OPEN"
                 /\ in_event.op = "RESPONSE" /\ verify_key(in_event) /\ UNCHANGED inits
              \/ /\ connection_status = "OPEN" /\ in_event.op = "CLOSE"
                 /\ connection_status' = "SERVER_WANTS_TO_CLOSE" /\ UNCHANGED inits
              \/ /\ connection_status = "CLIENT_WANTS_TO_CLOSE" /\ in_event.op = "CLOSE"
                 /\ connection_status' = "CLOSE" /\ stream' = "Shutdown" /\ UNCHANGED inits
<1>1. output_events \in Seq(Item) /\ queued \in Nat /\ in_event.val \in Nat
  BY DEF TypeOK, Item
<1>2. ASSUME NEW event, NEW status, Report(event, status, output_events, AfterInput)
      PROVE  /\ \A x \in ToSet(output_events') :
                 \/ x \in ToSet(output_events)
                 \/ IsData(x) /\ status # "CLOSE" /\ "send" \in CallbackOps
             /\ \/ connection_status' = status /\ UNCHANGED inits
                \/ connection_status' = "START_INIT" /\ inits' = inits + 1
  BY <1>1, <1>2, ReportEffect
<1>3. /\ pc = "input"
      /\ UNCHANGED <<wire, srv_sent, rd, peer, recv_storage, websocket_key, dropping>>
  BY DEF handle_input, handle_recv_frame, handle_recv_http_response, recv_ping,
         recv_pong, recv_undefined, recv_close_from_server, recv_close_answer,
         recv_close_ignored
<1>4. in_event' \in {in_event, NoData} /\ out_event' \in {out_event, NoData}
  BY DEF handle_input, handle_recv_frame, handle_recv_http_response, recv_ping,
         recv_pong, recv_undefined, recv_close_from_server, recv_close_answer,
         recv_close_ignored, Handled, Fails
<1>5. stream' = stream \/ (stream' = "Shutdown" /\ connection_status = "CLIENT_WANTS_TO_CLOSE")
  <2>1. CASE recv_close_answer
    BY <2>1 DEF recv_close_answer, ShutDown
  <2>2. CASE ~recv_close_answer
    BY <2>2 DEF handle_input, handle_recv_frame, handle_recv_http_response, recv_ping,
         recv_pong, recv_undefined, recv_close_from_server, recv_close_ignored
  <2> QED
    BY <2>1, <2>2
<1>6. ASSUME handle_recv_frame PROVE Queue /\ Status
  <2>1. CASE Report(ON_TEXT(Append(Kept, in_event)), connection_status,
                    output_events, AfterInput)
    BY <1>2, <2>1
  <2>2. CASE UNCHANGED reported
    BY <2>2
  <2> QED
    BY <1>6, <2>1, <2>2 DEF handle_recv_frame
<1>7. ASSUME handle_recv_http_response PROVE Queue /\ Status
  <2>1. CASE Report(ON_CONNECT, "OPEN", output_events, AfterInput) /\ verify_key(in_event)
    <3>1. in_event.op = "RESPONSE" /\ connection_status = "HANDSHAKE"
      BY <1>7 DEF handle_recv_http_response
    <3> QED
      BY <1>2, <2>1, <3>1
  <2>2. CASE UNCHANGED reported
    BY <2>2
  <2> QED
    BY <1>7, <2>1, <2>2 DEF handle_recv_http_response
<1>8. ASSUME recv_ping PROVE Queue /\ Status
  <2>1. ToSet(output_events') = {Pong(in_event)} \cup ToSet(output_events)
    BY <1>1, <1>8, OtherItems, ItemsOfPrefixed DEF recv_ping, Pong
  <2> QED
    BY <1>8, <2>1 DEF recv_ping
<1>9. ASSUME recv_close_from_server PROVE Queue /\ Status
  <2>1. ToSet(output_events') = {Make("CLOSE", ReplyStatus(in_event.val))}
    BY <1>1, <1>9, ReplyStatusType, OtherItems, ItemsOfOne DEF recv_close_from_server, Answer
  <2> QED
    BY <1>9, <2>1 DEF recv_close_from_server
<1>10. ASSUME recv_close_answer PROVE Queue /\ Status
  <2>1. /\ in_event.op = "CLOSE" /\ connection_status = "CLIENT_WANTS_TO_CLOSE"
        /\ stream' = "Shutdown"
    BY <1>10 DEF recv_close_answer, ShutDown
  <2>2. CASE Report(ON_CLOSE("CLIENT_CLOSE", in_event.val), "CLOSE", output_events, AfterInput)
    BY <1>2, <2>1, <2>2
  <2>3. CASE connection_status' = "CLOSE" /\ UNCHANGED <<output_events, inits>>
    BY <2>1, <2>3
  <2> QED
    BY <1>10, <2>2, <2>3 DEF recv_close_answer
<1>11. ASSUME recv_pong \/ recv_undefined \/ recv_close_ignored PROVE Queue /\ Status
  BY <1>11 DEF recv_pong, recv_undefined, recv_close_ignored
<1>12. Queue /\ Status
  BY <1>6, <1>7, <1>8, <1>9, <1>10, <1>11 DEF handle_input
<1> QED
  BY <1>3, <1>4, <1>5, <1>12

LEMMA OutputEffect ==
    ASSUME TypeOK, handle_output
    PROVE  /\ pc = "output"
           /\ UNCHANGED <<srv_sent, rd, recv_storage, recv_data, in_event, websocket_key,
                          dropping>>
           /\ out_event' = NoData /\ stream' \in {stream, "None", "Shutdown"}
           /\ \/ wire' = wire
              \/ wire' = Append(wire, out_event) /\ stream = "Connected"
              \/ wire' = Append(wire, Make("TORN", out_event.val))
           /\ ToSet(output_events') \subseteq ToSet(output_events) \cup {out_event}
           /\ \/ UNCHANGED <<connection_status, inits>>
              \/ /\ connection_status = "SERVER_WANTS_TO_CLOSE" /\ IsControl(out_event)
                 /\ wire' = Append(wire, out_event)
                 /\ \/ connection_status' = "CLOSE" /\ UNCHANGED inits /\ stream' # "Connected"
                    \/ connection_status' = "START_INIT" /\ inits' = inits + 1
<1>1. output_events \in Seq(Item) /\ queued \in Nat /\ out_event \in Item
  BY DEF TypeOK
<1>2. CASE write_sent \/ write_sent_shutdown_fails \/ write_fails
  BY <1>2 DEF write_sent, write_sent_shutdown_fails, write_fails, WriteAll, Writable, Completes
<1>3. CASE write_sent_closing
  <2> DEFINE event == ON_CLOSE("SERVER_CLOSE", IF out_event.op = "CLOSE" THEN out_event.val ELSE 0)
  <2>1. Report(event, "CLOSE", output_events, "idle")
    BY <1>3 DEF write_sent_closing
  <2> HIDE DEF event
  <2>2. /\ ToSet(output_events') \subseteq ToSet(output_events)
        /\ \/ connection_status' = "CLOSE" /\ UNCHANGED inits
           \/ connection_status' = "START_INIT" /\ inits' = inits + 1
    BY <1>1, <2>1, ReportEffect
  <2> QED
    BY <1>3, <2>2 DEF write_sent_closing, WriteAll, Writable, Completes
<1>4. CASE write_blocks
  <2>1. ToSet(output_events') = {out_event} \cup ToSet(output_events)
    BY <1>1, <1>4, ItemsOfPrefixed DEF write_blocks, Requeue
  <2> QED
    BY <1>4, <2>1 DEF write_blocks, WouldBlock
<1> QED
  BY <1>2, <1>3, <1>4 DEF handle_output

\* What is written goes behind what was.
LEMMA WrittenEffect ==
    ASSUME TypeOK, handle_output
    PROVE  /\ ToSet(wire') \subseteq ToSet(wire) \cup {out_event, Make("TORN", out_event.val)}
           /\ wire # <<>> => wire' # <<>> /\ wire'[1] = wire[1]
<1>5. \/ wire' = wire
      \/ wire' = Append(wire, out_event)
      \/ wire' = Append(wire, Make("TORN", out_event.val))
  BY OutputEffect
<1>6. /\ wire \in Seq(Item) /\ out_event \in Item
      /\ Make("TORN", out_event.val) \in Item
  BY OtherItems DEF TypeOK, ConnTypeOK, Item
<1>1. ASSUME NEW x \in {out_event, Make("TORN", out_event.val)}, wire' = Append(wire, x)
      PROVE  /\ ToSet(wire') = ToSet(wire) \cup {x} /\ wire' # <<>>
             /\ (wire # <<>> => wire'[1] = wire[1])
  BY <1>6, <1>1, ItemsOfAppend, FirstOfAppend
<1>2. CASE wire' = wire
  BY <1>2
<1>3. CASE wire' = Append(wire, out_event)
  BY <1>1, <1>3
<1>4. CASE wire' = Append(wire, Make("TORN", out_event.val))
  BY <1>1, <1>4
<1> QED
  BY <1>5, <1>2, <1>3, <1>4

LEMMA NotHttp ==
    /\ \A x : IsData(x) => x.op \notin HttpOps
    /\ NoData.op \notin HttpOps /\ ResponseAsFrame.op \notin HttpOps
    /\ \A n : /\ Make("CLOSE", n).op \notin HttpOps /\ Make("TORN", n).op \notin HttpOps
              /\ Make("PONG", n).op \notin HttpOps
BY DEF IsData, DataOps, HttpOps, NoData, ResponseAsFrame, Make

\* What the server adds: its response to a request, and then frames.
LEMMA ServerEffect ==
    ASSUME TypeOK, Server
    PROVE  /\ UNCHANGED <<wire, rd, stream, recv_storage, recv_data, in_event, out_event,
                          output_events, websocket_key, connection_status, inits, pc,
                          events, callback, queued, dropping>>
           /\ stream = "Connected"
           /\ \/ Respond
              \/ srv_sent' = srv_sent /\ PeerFault
              \/ /\ srv_sent # <<>> /\ UNCHANGED peer /\ Established
                 /\ \E x \in Item : /\ srv_sent' = Append(srv_sent, x)
                                    /\ x.op \notin HttpOps
           /\ srv_sent # <<>> => srv_sent' # <<>> /\ srv_sent'[1] = srv_sent[1]
<1>1. /\ UNCHANGED <<wire, rd, stream, recv_storage, recv_data, in_event, out_event,
                     output_events, websocket_key, connection_status, inits, pc, events,
                     callback, queued, dropping>>
      /\ srv_sent \in Seq(Item) /\ stream = "Connected"
  BY DEF Server, ServerNext, Respond, ServerFrame, ServerClose, PeerFault, Serving,
         TypeOK, ConnTypeOK
<1>2. ASSUME ServerFrame
      PROVE  /\ srv_sent # <<>> /\ UNCHANGED peer /\ Established
             /\ \E x \in Item : /\ srv_sent' = Append(srv_sent, x)
                                /\ x.op \notin HttpOps
  <2>1. PICK frame \in ServerFrames :
           srv_sent' = Append(srv_sent, [frame EXCEPT !.val = @ * Len(srv_sent)])
    BY <1>2 DEF ServerFrame
  <2> DEFINE x == [frame EXCEPT !.val = @ * Len(srv_sent)]
  <2>2. frame \in Item /\ frame.op \in DataOps \cup {"PING", "PONG", "UNDEFINED", "RESERVED"}
    BY ServerAssumption
  <2>3. frame.val * Len(srv_sent) \in Nat
    BY <1>1, <2>2, LenProperties DEF Item
  <2>4. x \in Item /\ x.op = frame.op
    BY <2>2, <2>3 DEF Item
  <2>5. x.op \notin HttpOps
    BY <2>2, <2>4 DEF DataOps, HttpOps
  <2>6. srv_sent # <<>>
    BY <1>2 DEF ServerFrame, Established
  <2> QED
    BY <1>2, <2>1, <2>4, <2>5, <2>6 DEF ServerFrame
<1>3. ASSUME ServerClose
      PROVE  /\ srv_sent # <<>> /\ UNCHANGED peer /\ Established
             /\ \E x \in Item : /\ srv_sent' = Append(srv_sent, x)
                                /\ x.op \notin HttpOps
  <2>1. PICK code \in ServerStatuses : srv_sent' = Append(srv_sent, Make("CLOSE", code))
    BY <1>3 DEF ServerClose
  <2>2. Make("CLOSE", code) \in Item /\ Make("CLOSE", code).op \notin HttpOps
    BY ServerAssumption, OtherItems, NotHttp
  <2>3. srv_sent # <<>>
    BY <1>3 DEF ServerClose, Established
  <2> QED
    BY <1>3, <2>1, <2>2, <2>3 DEF ServerClose
<1>4. srv_sent # <<>> => srv_sent' # <<>> /\ srv_sent'[1] = srv_sent[1]
  BY <1>1, <1>2, <1>3, FirstOfAppend DEF Server, ServerNext, Respond, PeerFault
<1> QED
  BY <1>1, <1>2, <1>3, <1>4 DEF Server, ServerNext, PeerFault

-----------------------------------------------------------------------------
(* The key *)

AnswersKey(item) == item.op = "RESPONSE" /\ item.val = websocket_key

\* The server accepted the key generated last, and the client has read so.
Answered == rd > 0 /\ srv_sent[1] = Make("RESPONSE", websocket_key)

Everything == ToSet(wire) \cup {out_event} \cup ToSet(output_events)
                 \cup ToSet(srv_sent) \cup ToSet(recv_storage) \cup {in_event}

(***************************************************************************)
(* Requests and responses of earlier connections may be left in the queue  *)
(* and in recv_storage, but no key is from the future: a response to the   *)
(* current key was read on the current connection.  A server answers the   *)
(* first request, once.                                                    *)
(***************************************************************************)
KeysUpTo ==
    \A x \in Everything : x.op \in HttpOps => x.val <= websocket_key /\ websocket_key # 0

RespondsOnce ==
    /\ \A i \in 1 .. Len(srv_sent) : srv_sent[i].op = "RESPONSE" => i = 1
    /\ srv_sent # <<>> => /\ srv_sent[1] = Make("RESPONSE", srv_sent[1].val)
                          /\ wire # <<>> /\ wire[1].op = "REQUEST"

AnswersAreRead ==
    \A x \in ToSet(recv_storage) \cup {in_event} : AnswersKey(x) => Answered

UsedWhenAnswered ==
    connection_status \in {"OPEN", "SERVER_WANTS_TO_CLOSE"} => Answered

KeyInv == KeysUpTo /\ RespondsOnce /\ AnswersAreRead /\ UsedWhenAnswered

LEMMA NotAnswers == ~AnswersKey(NoData) /\ ~AnswersKey(ResponseAsFrame)
BY DEF AnswersKey, NoData, ResponseAsFrame, Make

LEMMA ProgramKeepsKey ==
    ASSUME TypeOK, KeyInv,
           Program \/ drop_ends \/ Tick \/ event_loop_idle \/ read_fails \/ UNCHANGED vars
    PROVE  KeyInv'
<1>1. /\ UNCHANGED <<wire, srv_sent, rd, peer, recv_storage, recv_data, in_event,
                     out_event, events, websocket_key>>
      /\ \A x \in ToSet(output_events') :
            \/ x \in ToSet(output_events)
            \/ IsData(x) \/ x = Make("CLOSE", 1000)
      /\ connection_status' \in {connection_status, "START_INIT", "CLIENT_WANTS_TO_CLOSE"}
  BY ProgramEffect
<1>2. KeysUpTo'
  BY <1>1, NotHttp DEF KeyInv, KeysUpTo, Everything
<1>3. RespondsOnce' /\ AnswersAreRead' /\ UsedWhenAnswered'
  BY <1>1 DEF KeyInv, RespondsOnce, AnswersAreRead, UsedWhenAnswered, Answered, AnswersKey
<1> QED
  BY <1>2, <1>3 DEF KeyInv

LEMMA InputKeepsKey == ASSUME TypeOK, KeyInv, handle_input PROVE KeyInv'
<1>1. /\ UNCHANGED <<wire, srv_sent, rd, recv_storage, websocket_key>>
      /\ in_event' \in {in_event, NoData} /\ out_event' \in {out_event, NoData}
      /\ \A x \in ToSet(output_events') :
            \/ x \in ToSet(output_events)
            \/ IsData(x) \/ x = Pong(in_event) \/ x = Make("CLOSE", ReplyStatus(in_event.val))
      /\ \/ connection_status' \in {connection_status, "START_INIT", "CLOSE"}
         \/ /\ connection_status = "HANDSHAKE" /\ connection_status' = "OPEN"
            /\ in_event.op = "RESPONSE" /\ verify_key(in_event)
         \/ connection_status = "OPEN" /\ connection_status' = "SERVER_WANTS_TO_CLOSE"
  BY InputEffect
<1>2. KeysUpTo'
  BY <1>1, NotHttp DEF KeyInv, KeysUpTo, Everything, Pong
<1>3. RespondsOnce' /\ AnswersAreRead'
  BY <1>1, NotAnswers DEF KeyInv, RespondsOnce, AnswersAreRead, Answered, AnswersKey
<1>4. UsedWhenAnswered'
  BY <1>1 DEF KeyInv, AnswersAreRead, UsedWhenAnswered, Answered, AnswersKey, verify_key
<1> QED
  BY <1>2, <1>3, <1>4 DEF KeyInv

LEMMA OutputKeepsKey == ASSUME TypeOK, KeyInv, handle_output PROVE KeyInv'
<1>1. /\ UNCHANGED <<srv_sent, rd, recv_storage, in_event, websocket_key>>
      /\ out_event' = NoData
      /\ ToSet(output_events') \subseteq ToSet(output_events) \cup {out_event}
      /\ connection_status' \in {connection_status, "START_INIT", "CLOSE"}
  BY OutputEffect
<1>3. /\ ToSet(wire') \subseteq ToSet(wire) \cup {out_event, Make("TORN", out_event.val)}
      /\ wire # <<>> => wire' # <<>> /\ wire'[1] = wire[1]
  BY WrittenEffect
<1>4. KeysUpTo'
  BY <1>1, <1>3, NotHttp DEF KeyInv, KeysUpTo, Everything
<1>5. RespondsOnce' /\ AnswersAreRead' /\ UsedWhenAnswered'
  BY <1>1, <1>3 DEF KeyInv, RespondsOnce, AnswersAreRead, UsedWhenAnswered, Answered, AnswersKey
<1> QED
  BY <1>4, <1>5 DEF KeyInv

LEMMA ReadKeepsKey == ASSUME TypeOK, KeyInv, read_bytes_from_socket PROVE KeyInv'
<1> DEFINE Responded ==
              \E y \in ToSet(recv_storage) \cup ToSet(srv_sent) : y.op = "RESPONSE"
<1>1. /\ UNCHANGED <<wire, srv_sent, connection_status, websocket_key>>
      /\ rd <= rd' /\ rd' <= Len(srv_sent)
      /\ \A x \in ToSet(recv_storage') \cup {in_event'} :
            \/ x \in ToSet(recv_storage) \cup {NoData, ResponseAsFrame}
            \/ \E i \in rd + 1 .. rd' : x = srv_sent[i]
            \/ x = RestOfResponse /\ Responded
      /\ {out_event'} \cup ToSet(output_events') \subseteq ToSet(output_events) \cup {NoData}
  BY ReadEffect
<1>2. /\ rd \in 0 .. Len(srv_sent) /\ srv_sent \in Seq(Item) /\ Len(srv_sent) \in Nat
      /\ rd' \in Nat
  BY LenProperties DEF TypeOK, ConnTypeOK, read_bytes_from_socket, Readable
<1>3. /\ \A i \in rd + 1 .. rd' : i \in 1 .. Len(srv_sent)
      /\ \A i \in rd + 1 .. rd' : i = 1 => rd' > 0
      /\ rd > 0 => rd' > 0
  BY <1>1, <1>2, SMT
<1>4. \A i \in 1 .. Len(srv_sent) : srv_sent[i] \in ToSet(srv_sent)
  BY <1>2, ItemsOf
<1>9. Responded => websocket_key # 0
  BY DEF KeyInv, KeysUpTo, Everything, HttpOps
<1> HIDE DEF Responded
<1>10. RestOfResponse.val = 0 /\ 0 <= websocket_key
  BY DEF RestOfResponse, Make, TypeOK
<1>5. KeysUpTo'
  BY <1>1, <1>3, <1>4, <1>9, <1>10, NotHttp DEF KeyInv, KeysUpTo, Everything
<1>6. Answered => Answered'
  BY <1>1, <1>3 DEF Answered
<1>7. ASSUME NEW x \in ToSet(recv_storage') \cup {in_event'}, AnswersKey(x) PROVE Answered'
  <2>1. CASE x \in ToSet(recv_storage) \cup {NoData, ResponseAsFrame}
    BY <1>6, <1>7, <2>1, NotAnswers DEF KeyInv, AnswersAreRead
  <2>3. CASE x = RestOfResponse /\ Responded
    BY <1>7, <1>9, <1>10, <2>3 DEF AnswersKey
  <2>2. ASSUME NEW i \in rd + 1 .. rd', x = srv_sent[i] PROVE Answered'
    <3>1. i \in 1 .. Len(srv_sent) /\ srv_sent[i].op = "RESPONSE"
      BY <1>3, <1>7, <2>2 DEF AnswersKey
    <3>2. i = 1
      BY <3>1 DEF KeyInv, RespondsOnce
    <3>3. srv_sent # <<>>
      BY <1>2, <3>1
    <3>4. srv_sent[1] = Make("RESPONSE", srv_sent[1].val)
      BY <3>3 DEF KeyInv, RespondsOnce
    <3>5. srv_sent[1].val = websocket_key /\ rd' > 0
      BY <1>3, <1>7, <2>2, <3>2 DEF AnswersKey
    <3> QED
      BY <1>1, <3>4, <3>5 DEF Answered
  <2> QED
    BY <1>1, <2>1, <2>2, <2>3
<1>8. RespondsOnce' /\ AnswersAreRead' /\ UsedWhenAnswered'
  BY <1>1, <1>6, <1>7 DEF KeyInv, RespondsOnce, AnswersAreRead, UsedWhenAnswered, AnswersKey
<1> QED
  BY <1>5, <1>8 DEF KeyInv

LEMMA StartKeepsKey == ASSUME TypeOK, KeyInv, start_init PROVE KeyInv'
<1> DEFINE request == Make("REQUEST", websocket_key + 1)
<1>1. /\ request \in Item /\ request.val = websocket_key + 1 /\ request.op = "REQUEST"
      /\ output_events \in Seq(Item) /\ websocket_key \in Nat
  BY OtherItems DEF TypeOK, Make
<1>2. UNCHANGED <<recv_storage, in_event, out_event>>
  BY DEF start_init
<1>3. CASE Unreachable
  <2>1. UNCHANGED <<wire, srv_sent, rd, output_events, connection_status, websocket_key>>
    BY <1>3 DEF Unreachable
  <2>2. Everything' = Everything
    BY <1>2, <2>1 DEF Everything
  <2> QED
    BY <1>2, <2>1, <2>2 DEF KeyInv, KeysUpTo, RespondsOnce, AnswersAreRead, UsedWhenAnswered,
                            Answered, AnswersKey
<1>4. ASSUME websocket_key' = websocket_key + 1,
             output_events' = <<request>> \o output_events,
             connection_status' \notin {"OPEN", "SERVER_WANTS_TO_CLOSE"},
             UNCHANGED <<wire, srv_sent>> \/ (wire' = <<>> /\ srv_sent' = <<>>)
      PROVE  KeyInv'
  <2>1. ToSet(output_events') = {request} \cup ToSet(output_events)
    BY <1>1, <1>4, ItemsOfPrefixed
  <2>2. Everything' \subseteq Everything \cup {request} /\ Everything \subseteq Item
    <3>1. /\ ToSet(wire) \subseteq Item /\ ToSet(srv_sent) \subseteq Item
          /\ ToSet(output_events) \subseteq Item /\ ToSet(recv_storage) \subseteq Item
          /\ in_event \in Item /\ out_event \in Item
      BY ItemsOf DEF TypeOK, ConnTypeOK
    <3>2. /\ ToSet(wire') \subseteq ToSet(wire) /\ ToSet(srv_sent') \subseteq ToSet(srv_sent)
      BY <1>4, ItemsOfNone
    <3> QED
      BY <1>2, <2>1, <3>1, <3>2 DEF Everything
  <2>3. \A n \in Nat : n <= websocket_key => n <= websocket_key + 1 /\ n # websocket_key + 1
    BY <1>1, SMT
  <2>4. ASSUME NEW x \in Everything, x.op \in HttpOps
        PROVE  x.val <= websocket_key' /\ x.val # websocket_key'
    <3>1. x.val <= websocket_key /\ x.val \in Nat
      BY <2>2, <2>4 DEF KeyInv, KeysUpTo, Item
    <3> QED
      BY <1>4, <2>3, <3>1
  <2>5. request.val <= websocket_key' /\ websocket_key' # 0
    BY <1>1, <1>4
  <2>6. KeysUpTo'
    BY <2>2, <2>4, <2>5 DEF KeysUpTo
  <2>7. \A x \in ToSet(recv_storage) \cup {in_event} : x \in Everything
    BY DEF Everything
  <2>8. AnswersAreRead'
    BY <1>2, <2>4, <2>7 DEF AnswersAreRead, AnswersKey, HttpOps
  <2>9. RespondsOnce'
    BY <1>4 DEF KeyInv, RespondsOnce
  <2> QED
    BY <1>4, <2>6, <2>8, <2>9 DEF KeyInv, UsedWhenAnswered
<1>5. CASE StaysBlocking
  <2>1. connection_status' \notin {"OPEN", "SERVER_WANTS_TO_CLOSE"}
    BY <1>5 DEF StaysBlocking, start_init
  <2> QED
    BY <1>4, <1>5, <2>1 DEF StaysBlocking
<1>6. CASE Connects
  BY <1>4, <1>6 DEF Connects
<1> QED
  BY <1>3, <1>5, <1>6 DEF start_init

LEMMA ServerKeepsKey == ASSUME TypeOK, KeyInv, Server PROVE KeyInv'
<1>1. /\ UNCHANGED <<wire, rd, recv_storage, in_event, out_event, output_events,
                     websocket_key, connection_status>>
      /\ srv_sent \in Seq(Item) /\ wire \in Seq(Item) /\ rd \in 0 .. Len(srv_sent)
      /\ websocket_key \in Nat
  BY ServerEffect DEF TypeOK, ConnTypeOK
<1>2. CASE UNCHANGED srv_sent
  BY <1>1, <1>2 DEF KeyInv, KeysUpTo, Everything, RespondsOnce, AnswersAreRead,
                    UsedWhenAnswered, Answered, AnswersKey
\* A frame goes behind the response.
<1>3. ASSUME NEW x \in Item, x.op \notin HttpOps, srv_sent # <<>>,
             srv_sent' = Append(srv_sent, x)
      PROVE  KeyInv'
  <2>1. ToSet(srv_sent') = ToSet(srv_sent) \cup {x}
    BY <1>1, <1>3, ItemsOfAppend
  <2>2. srv_sent' # <<>> /\ srv_sent'[1] = srv_sent[1]
    BY <1>1, <1>3, FirstOfAppend
  <2>3. KeysUpTo'
    BY <1>1, <1>3, <2>1 DEF KeyInv, KeysUpTo, Everything
  <2>4. \A i \in 1 .. Len(srv_sent') : srv_sent'[i].op = "RESPONSE" => i = 1
    <3>1. /\ Len(srv_sent') = Len(srv_sent) + 1 /\ Len(srv_sent) \in Nat
          /\ \A i \in 1 .. Len(srv_sent) : srv_sent'[i] = srv_sent[i]
          /\ srv_sent'[Len(srv_sent) + 1] = x
      BY <1>1, <1>3, AppendProperties, LenProperties
    <3>2. \A i \in 1 .. Len(srv_sent) + 1 : i \in 1 .. Len(srv_sent) \/ i = Len(srv_sent) + 1
      BY <3>1, SMT
    <3>3. x.op # "RESPONSE"
      BY <1>3 DEF HttpOps
    <3> QED
      BY <3>1, <3>2, <3>3 DEF KeyInv, RespondsOnce
  <2>5. RespondsOnce'
    BY <1>1, <1>3, <2>2, <2>4 DEF KeyInv, RespondsOnce
  <2> QED
    BY <1>1, <2>2, <2>3, <2>5
       DEF KeyInv, AnswersAreRead, UsedWhenAnswered, Answered, AnswersKey
<1>4. CASE Respond
  <2>1. PICK key \in {Head(wire).val} \cup (IF MayReject THEN {0} ELSE {}) :
           srv_sent' = <<Make("RESPONSE", key)>>
    BY <1>4 DEF Respond
  <2>2. /\ srv_sent = <<>> /\ wire # <<>> /\ Head(wire).op = "REQUEST"
    BY <1>4 DEF Respond
  <2>3. Head(wire) = wire[1] /\ Head(wire) \in ToSet(wire) /\ Head(wire) \in Item
    BY <1>1, <2>2, ItemsOfQueue
  <2>4. key \in Nat /\ key <= websocket_key /\ websocket_key # 0
    <3>1. /\ Head(wire).val <= websocket_key /\ Head(wire).val \in Nat
          /\ websocket_key # 0
      BY <2>2, <2>3 DEF KeyInv, KeysUpTo, Everything, HttpOps, Item
    <3>2. 0 <= websocket_key
      BY <1>1, SMT
    <3> QED
      BY <2>1, <3>1, <3>2
  <2> DEFINE response == Make("RESPONSE", key)
  <2>5. /\ response \in Item /\ response.op = "RESPONSE" /\ response.val = key
    BY <2>4, MakeType DEF Ops, HttpOps, Make
  <2>6. ToSet(srv_sent') = {response}
    BY <2>1, <2>5, ItemsOfOne
  <2>7. KeysUpTo'
    BY <1>1, <2>4, <2>5, <2>6 DEF KeyInv, KeysUpTo, Everything
  <2>8. Len(srv_sent') = 1 /\ srv_sent'[1] = response
    BY <2>1
  <2>9. RespondsOnce'
    <3>1. \A i \in 1 .. 1 : i = 1
      BY SMT
    <3> QED
      BY <1>1, <2>2, <2>3, <2>5, <2>8, <3>1 DEF RespondsOnce
  <2>10. rd = 0
    <3>1. Len(srv_sent) = 0
      BY <2>2
    <3> QED
      BY <1>1, <3>1, SMT
  <2>11. ~Answered
    BY <2>10 DEF Answered
  <2> QED
    BY <1>1, <2>7, <2>9, <2>11 DEF KeyInv, AnswersAreRead, UsedWhenAnswered, Answered, AnswersKey
<1> QED
  BY <1>2, <1>3, <1>4, ServerEffect

LEMMA InitKey == Init => KeyInv
<1> SUFFICES ASSUME Init PROVE KeyInv
  OBVIOUS
<1>1. /\ Everything = {NoData} /\ srv_sent = <<>> /\ Len(srv_sent) = 0
      /\ connection_status = "NOT_INIT"
      /\ ToSet(recv_storage) \cup {in_event} = {NoData}
  BY ItemsOfNone DEF Init, ConnInit, Everything
<1>2. KeysUpTo
  BY <1>1, NotHttp DEF KeysUpTo
<1>3. RespondsOnce
  BY <1>1 DEF RespondsOnce
<1>4. AnswersAreRead
  BY <1>1, NotAnswers DEF AnswersAreRead
<1> QED
  BY <1>1, <1>2, <1>3, <1>4 DEF KeyInv, UsedWhenAnswered

LEMMA NextKey == TypeOK /\ KeyInv /\ [Next]_vars => KeyInv'
BY ProgramKeepsKey, InputKeepsKey, OutputKeepsKey, ReadKeepsKey, StartKeepsKey, ServerKeepsKey
   DEF Next, event_loop

LEMMA KeyInvariance == Spec => [](TypeOK /\ KeyInv)
<1>1. Init => TypeOK /\ KeyInv
  BY InitType, InitKey
<1>2. TypeOK /\ KeyInv /\ [Next]_vars => (TypeOK /\ KeyInv)'
  BY NextType, NextKey
<1> QED
  BY <1>1, <1>2, PTL DEF Spec

\* The client is OPEN, or answers a Close, only on a connection on which the
\* server accepted the key generated last: not on the word of a response that
\* an earlier connection left behind, nor of one that a second init overtook
\* (client.rs 312-349, 409-432).
THEOREM KeyCurrent == Spec => []KeyIsCurrent
<1>1. TypeOK /\ KeyInv => KeyIsCurrent
  <2> SUFFICES ASSUME TypeOK, KeyInv, Answered PROVE srv_sent # <<>>
    BY DEF KeyInv, UsedWhenAnswered, KeyIsCurrent, Answered
  <2>1. srv_sent = <<>> => Len(srv_sent) = 0
    OBVIOUS
  <2> QED
    BY <2>1, SMT DEF Answered, TypeOK, ConnTypeOK
<1> QED
  BY <1>1, KeyInvariance, PTL

-----------------------------------------------------------------------------
(* The first connection *)

Early == {"NOT_INIT", "START_INIT"}

NoFrames(items) == \A x \in items : ~is_websocket_data(x)

(***************************************************************************)
(* As long as init was called at most once there is at most one            *)
(* connection: nothing is written before its socket is connected, nothing  *)
(* but the request leaves before the handshake is over, and it is over     *)
(* when the answer to its key was read.                                    *)
(***************************************************************************)
Once == inits <= 1

BeforeFrames ==
    /\ connection_status \in Early => stream = "None" /\ wire = <<>>
    /\ connection_status = "HANDSHAKE" => NoFrames(ToSet(wire) \cup {out_event})
    /\ connection_status \notin Early \cup {"HANDSHAKE"} => Answered

OnceInv ==
    /\ inits = 0 => connection_status = "NOT_INIT"
    /\ Once => BeforeFrames

FirstInv == IInv /\ KeyInv /\ OnceInv

LEMMA NoFrameItems ==
    /\ ~is_websocket_data(NoData)
    /\ \A n : ~is_websocket_data(Make("TORN", n)) /\ ~is_websocket_data(Make("REQUEST", n))
BY DEF is_websocket_data, IsData, IsControl, DataOps, ControlOps, NoData, Make

LEMMA SecondInit ==
    ASSUME TypeOK, OnceInv, inits' = inits + 1, connection_status # "NOT_INIT"
    PROVE  ~Once' /\ inits' # 0
<1>1. inits \in Nat /\ inits # 0
  BY DEF TypeOK, OnceInv
<1> QED
  BY <1>1, SMT DEF Once

LEMMA ProgramKeepsOnce ==
    ASSUME FirstInv,
           Program \/ drop_ends \/ Tick \/ event_loop_idle \/ read_fails \/ UNCHANGED vars
    PROVE  OnceInv'
<1>1. /\ UNCHANGED <<wire, srv_sent, rd, out_event, websocket_key>>
      /\ stream' \in {stream, "None"}
      /\ \/ UNCHANGED <<connection_status, inits>>
         \/ /\ connection_status' = "START_INIT" /\ inits' = inits + 1
            /\ UNCHANGED <<stream, output_events>>
         \/ /\ connection_status' = "CLIENT_WANTS_TO_CLOSE" /\ UNCHANGED <<inits, stream>>
            /\ connection_status \notin {"NOT_INIT", "HANDSHAKE", "CLOSE"}
            /\ stream # "None"
  BY ProgramEffect DEF FirstInv, IInv
<1>2. Answered => Answered'
  BY <1>1 DEF Answered
<1>3. CASE UNCHANGED <<connection_status, inits>>
  BY <1>1, <1>2, <1>3 DEF FirstInv, OnceInv, Once, BeforeFrames
<1>4. CASE connection_status' = "START_INIT" /\ inits' = inits + 1 /\ UNCHANGED stream
  <2>1. inits' # 0 /\ (Once' => Once)
    <3>1. inits \in Nat
      BY DEF FirstInv, IInv, TypeOK
    <3> QED
      BY <1>4, <3>1, SMT DEF Once
  <2>2. connection_status # "NOT_INIT" => ~Once'
    BY <1>4, SecondInit DEF FirstInv, IInv
  <2> QED
    BY <1>1, <1>4, <2>1, <2>2 DEF FirstInv, OnceInv, BeforeFrames, Early
<1>5. CASE /\ connection_status' = "CLIENT_WANTS_TO_CLOSE" /\ UNCHANGED <<inits, stream>>
           /\ connection_status \notin {"NOT_INIT", "HANDSHAKE", "CLOSE"} /\ stream # "None"
  <2>1. inits' # 0
    BY <1>5 DEF FirstInv, OnceInv
  <2>2. Once => Answered
    BY <1>5 DEF FirstInv, OnceInv, BeforeFrames, Early
  <2> QED
    BY <1>2, <1>5, <2>1, <2>2 DEF OnceInv, Once, BeforeFrames, Early
<1> QED
  BY <1>1, <1>3, <1>4, <1>5

LEMMA InputKeepsOnce == ASSUME FirstInv, handle_input PROVE OnceInv'
<1>1. /\ UNCHANGED <<wire, srv_sent, rd, recv_storage, websocket_key>> /\ pc = "input"
      /\ out_event' \in {out_event, NoData}
      /\ \/ UNCHANGED <<connection_status, inits>>
         \/ connection_status' = "START_INIT" /\ inits' = inits + 1
         \/ /\ connection_status = "HANDSHAKE" /\ connection_status' = "OPEN"
            /\ in_event.op = "RESPONSE" /\ verify_key(in_event) /\ UNCHANGED inits
         \/ /\ connection_status \in {"OPEN", "CLIENT_WANTS_TO_CLOSE"}
            /\ connection_status' \in {"SERVER_WANTS_TO_CLOSE", "CLOSE"} /\ UNCHANGED inits
  BY InputEffect DEF FirstInv, IInv
<1>2. Answered => Answered'
  BY <1>1 DEF Answered
<1>3. connection_status \in Active
  BY <1>1 DEF FirstInv, IInv, StatusInv
<1>4. connection_status \notin Early /\ inits # 0
  BY <1>3 DEF FirstInv, OnceInv, Early, Active
<1>5. CASE UNCHANGED <<connection_status, inits>>
  <2>1. NoFrames(ToSet(wire) \cup {out_event}) => NoFrames(ToSet(wire') \cup {out_event'})
    BY <1>1, NoFrameItems DEF NoFrames
  <2> QED
    BY <1>2, <1>4, <1>5, <2>1 DEF FirstInv, OnceInv, Once, BeforeFrames
<1>6. CASE connection_status' = "START_INIT" /\ inits' = inits + 1
  <2>1. ~Once' /\ inits' # 0
    BY <1>4, <1>6, SecondInit DEF FirstInv, IInv, Early
  <2> QED
    BY <2>1 DEF OnceInv
<1>7. CASE /\ connection_status = "HANDSHAKE" /\ connection_status' = "OPEN"
           /\ in_event.op = "RESPONSE" /\ verify_key(in_event) /\ UNCHANGED inits
  <2>1. Answered
    BY <1>7 DEF FirstInv, KeyInv, AnswersAreRead, AnswersKey, verify_key
  <2> QED
    BY <1>2, <1>4, <1>7, <2>1 DEF OnceInv, BeforeFrames, Early
<1>8. CASE /\ connection_status \in {"OPEN", "CLIENT_WANTS_TO_CLOSE"}
           /\ connection_status' \in {"SERVER_WANTS_TO_CLOSE", "CLOSE"} /\ UNCHANGED inits
  <2>1. Once => Answered
    BY <1>8 DEF FirstInv, OnceInv, BeforeFrames, Early
  <2> QED
    BY <1>2, <1>4, <1>8, <2>1 DEF OnceInv, Once, BeforeFrames, Early
<1> QED
  BY <1>1, <1>5, <1>6, <1>7, <1>8

LEMMA OutputKeepsOnce == ASSUME FirstInv, handle_output PROVE OnceInv'
<1>1. /\ UNCHANGED <<srv_sent, rd, websocket_key>> /\ pc = "output" /\ out_event' = NoData
      /\ \/ UNCHANGED <<connection_status, inits>>
         \/ /\ connection_status = "SERVER_WANTS_TO_CLOSE"
            /\ \/ connection_status' = "CLOSE" /\ UNCHANGED inits
               \/ connection_status' = "START_INIT" /\ inits' = inits + 1
  BY OutputEffect DEF FirstInv, IInv
<1>2. Answered => Answered'
  BY <1>1 DEF Answered
<1>3. ToSet(wire') \subseteq ToSet(wire) \cup {out_event, Make("TORN", out_event.val)}
  BY WrittenEffect DEF FirstInv, IInv
<1>4. NoFrames(ToSet(wire) \cup {out_event}) => NoFrames(ToSet(wire') \cup {out_event'})
  BY <1>1, <1>3, NoFrameItems DEF NoFrames
<1>5. stream # "None"
  BY <1>1 DEF FirstInv, IInv, StreamPresent
<1>6. CASE UNCHANGED <<connection_status, inits>>
  BY <1>2, <1>4, <1>5, <1>6 DEF FirstInv, OnceInv, Once, BeforeFrames
<1>7. CASE /\ connection_status = "SERVER_WANTS_TO_CLOSE"
           /\ connection_status' = "CLOSE" /\ UNCHANGED inits
  <2>1. (Once => Answered) /\ inits # 0
    BY <1>7 DEF FirstInv, OnceInv, BeforeFrames, Early
  <2> QED
    BY <1>2, <1>7, <2>1 DEF OnceInv, Once, BeforeFrames, Early
<1>8. CASE /\ connection_status = "SERVER_WANTS_TO_CLOSE"
           /\ connection_status' = "START_INIT" /\ inits' = inits + 1
  <2>1. ~Once' /\ inits' # 0
    BY <1>8, SecondInit DEF FirstInv, IInv
  <2> QED
    BY <2>1 DEF OnceInv
<1> QED
  BY <1>1, <1>6, <1>7, <1>8

LEMMA ReadKeepsOnce == ASSUME FirstInv, read_bytes_from_socket PROVE OnceInv'
<1>1. /\ UNCHANGED <<wire, srv_sent, websocket_key, inits, connection_status>>
      /\ connection_status \in Active /\ rd <= rd'
      /\ connection_status = "HANDSHAKE" => ~is_websocket_data(out_event')
  BY ReadEffect DEF FirstInv, IInv
<1>2. Answered => Answered'
  <2>1. rd \in Nat /\ rd' \in Nat
    BY ArrivedEffect DEF read_bytes_from_socket, FirstInv, IInv, TypeOK, ConnTypeOK
  <2>2. rd > 0 => rd' > 0
    BY <1>1, <2>1, SMT
  <2> QED
    BY <1>1, <2>2 DEF Answered
<1>3. connection_status = "HANDSHAKE" /\ NoFrames(ToSet(wire) \cup {out_event})
        => NoFrames(ToSet(wire') \cup {out_event'})
  BY <1>1 DEF NoFrames
<1>4. connection_status \notin Early
  BY <1>1 DEF Early, Active
<1> QED
  BY <1>1, <1>2, <1>3, <1>4 DEF FirstInv, OnceInv, Once, BeforeFrames

LEMMA StartKeepsOnce == ASSUME FirstInv, start_init PROVE OnceInv'
<1>1. /\ connection_status = "START_INIT" /\ UNCHANGED <<out_event, inits>>
      /\ pc = "idle"
  BY DEF start_init, Calls
<1>2. out_event = NoData /\ inits # 0
  BY <1>1 DEF FirstInv, OnceInv, IInv, TypeOK
<1>3. CASE Unreachable \/ StaysBlocking
  BY <1>1, <1>2, <1>3 DEF Unreachable, StaysBlocking, FirstInv, OnceInv, Once, BeforeFrames, Early
<1>4. CASE Connects
  <2>1. connection_status' = "HANDSHAKE" /\ wire' = <<>>
    BY <1>4 DEF Connects
  <2>2. NoFrames(ToSet(wire') \cup {out_event'})
    BY <1>1, <1>2, <2>1, ItemsOfNone, NoFrameItems DEF NoFrames
  <2> QED
    BY <1>1, <1>2, <2>1, <2>2 DEF OnceInv, BeforeFrames, Early
<1> QED
  BY <1>3, <1>4 DEF start_init

LEMMA ServerKeepsOnce == ASSUME FirstInv, Server PROVE OnceInv'
<1>1. /\ UNCHANGED <<wire, rd, stream, out_event, websocket_key, connection_status, inits>>
      /\ srv_sent # <<>> => srv_sent' # <<>> /\ srv_sent'[1] = srv_sent[1]
  BY ServerEffect DEF FirstInv, IInv
<1>2. Answered => Answered'
  <2>1. srv_sent = <<>> => Len(srv_sent) = 0
    OBVIOUS
  <2>2. rd > 0 => srv_sent # <<>>
    BY <2>1, SMT DEF FirstInv, IInv, TypeOK, ConnTypeOK
  <2> QED
    BY <1>1, <2>2 DEF Answered
<1> QED
  BY <1>1, <1>2 DEF FirstInv, OnceInv, Once, BeforeFrames

LEMMA InitFirst == Init => FirstInv
<1> SUFFICES ASSUME Init PROVE OnceInv
  BY InitStatus, InitKey DEF FirstInv
<1> QED
  BY DEF Init, ConnInit, OnceInv, BeforeFrames, Early

LEMMA NextFirst == FirstInv /\ [Next]_vars => FirstInv'
<1> SUFFICES ASSUME FirstInv, [Next]_vars PROVE OnceInv'
  BY NextStatus, NextKey DEF FirstInv, IInv
<1> QED
  BY ProgramKeepsOnce, InputKeepsOnce, OutputKeepsOnce, ReadKeepsOnce, StartKeepsOnce,
     ServerKeepsOnce
     DEF Next, event_loop

LEMMA FirstInvariance == Spec => []FirstInv
BY InitFirst, NextFirst, PTL DEF Spec

\* On the first connection no WebSocket frame is written before the request,
\* nor before the acceptance of its key was read, whatever was queued before,
\* whatever the callback sends, and whenever the write blocks (client.rs 167,
\* 228-238, 351-374).
THEOREM FramesAfterHandshake == Spec => [](inits <= 1 => HandshakeFirst)
<1>1. FirstInv => (inits <= 1 => HandshakeFirst)
  <2> SUFFICES ASSUME FirstInv, Once,
                      NEW i \in DOMAIN wire, is_websocket_data(wire[i])
               PROVE  wire[1].op = "REQUEST" /\ rd > 0 /\ srv_sent[1].val = websocket_key
    BY DEF HandshakeFirst, Once
  <2>1. wire[i] \in ToSet(wire) /\ wire # <<>>
    BY DEF ToSet
  <2>2. Answered
    BY <2>1 DEF FirstInv, OnceInv, BeforeFrames, NoFrames
  <2>3. srv_sent = <<>> => Len(srv_sent) = 0
    OBVIOUS
  <2>4. srv_sent # <<>>
    BY <2>2, <2>3, SMT DEF Answered, FirstInv, IInv, TypeOK, ConnTypeOK
  <2>5. wire[1].op = "REQUEST"
    BY <2>4 DEF FirstInv, KeyInv, RespondsOnce
  <2> QED
    BY <2>2, <2>5 DEF Answered, Make
<1> QED
  BY <1>1, FirstInvariance, PTL
=============================================================================
