---------------------------- MODULE WSProperties ----------------------------
(***************************************************************************)
(* What the client promises to its program and to the server.  Each run    *)
(* checks the properties that hold under its constants; README.md lists    *)
(* which, and why the others need more or fail.                            *)
(***************************************************************************)
EXTENDS WSClient, FiniteSets, SequencesExt

\* What is between send and the server, from the server's end backwards, and
\* the data frames in it.
Line == (wire \o <<out_event>>) \o output_events

\* The numbers of the data frames among items.  On the line they increase, as
\* FramesInOrder says, so that the set of them is the sequence of them.
Carried(items) == {items[i].val : i \in {j \in DOMAIN items : IsData(items[j])}}

\* Their order, none twice.
Increasing(items) ==
    \A i, j \in DOMAIN items :
        i < j /\ IsData(items[i]) /\ IsData(items[j]) => items[i].val < items[j].val

\* The frames that send accepted and that are not on the line.
Absent == (1 .. queued) \ Carried(Line)

Reported(kinds) == {i \in DOMAIN events : events[i].kind \in kinds}

-----------------------------------------------------------------------------
(* Towards the server *)

\* Frames leave in the order send queued them, none twice: not when a write
\* blocks and the frame goes back, nor when a PONG or a Close jumps the queue,
\* nor on a second connection (client.rs 191-207, 228-238, 351-374).
FramesInOrder == Increasing(Line)

\* While the connection is neither closing nor lost, no frame that send
\* accepted is missing between the queue, the call in progress and the wire
\* (client.rs 191-207, 351-374, 452-466).
NothingLost ==
    /\ connection_status \in {"NOT_INIT", "START_INIT", "HANDSHAKE", "OPEN"}
    /\ peer # "reset"
    => Carried(Line) = 1 .. queued

\* A frame is lost on an open connection only in a call that fails because the
\* client refuses its input, and then only the one popped in that call: not what
\* is queued behind it, nor what a blocked write put back (client.rs 215-223).
RefusalCostsOne ==
    [][ /\ connection_status' = "OPEN" /\ peer' # "reset"
        /\ Absent' # Absent
        => /\ pc = "input" /\ pc' = "idle"
           /\ result' \in {"InvalidFrame", "DecodingFromUTF8"}
           /\ Absent' \subseteq Absent \cup Carried(<<out_event>>) ]_vars

\* No WebSocket frame reaches the server before the request, nor before the
\* server's acceptance of this very key was read, whatever was queued before
\* init (client.rs 167, 228-238).
HandshakeFirst ==
    \A i \in DOMAIN wire : is_websocket_data(wire[i]) =>
        /\ wire[1].op = "REQUEST"
        /\ rd > 0 /\ srv_sent[1].val = websocket_key

\* After our Close there is no data frame and no second Close on the wire,
\* whoever began to close (client.rs 494-498, 541-546).
NothingAfterClose ==
    \A i, j \in DOMAIN wire :
        i < j /\ wire[i].op = "CLOSE" => wire[j].op \notin DataOps \cup {"CLOSE"}

\* A frame of which a part was written is completed next (client.rs 452-466,
\* "Try to send next iteration").
TornFramesAreFinished ==
    \A i \in DOMAIN wire : wire[i].op = "TORN" => i = Len(wire)

\* When the callback hears that the server closed, the server's Close was
\* answered, with the status that is reported and the one that answers it
\* (client.rs 351-374, 485-500).
CloseIsAnswered ==
    \A i \in Reported({"SERVER_CLOSE"}) :
        /\ wire # <<>> /\ Last(wire) = Make("CLOSE", events[i].vals[1])
        /\ \E j \in 1 .. rd : /\ srv_sent[j].op = "CLOSE"
                              /\ events[i].vals[1] = ReplyStatus(srv_sent[j].val)

-----------------------------------------------------------------------------
(* Towards the program *)

\* The numbers of the texts the callback was given, and whether each was given
\* once, in order: event by event, and piece by piece in an event.
Heard == UNION {ToSet(events[i].vals) : i \in Reported({"ON_TEXT"})}

HeardInOrder ==
    \A i, j \in Reported({"ON_TEXT"}) :
        \A a \in DOMAIN events[i].vals, b \in DOMAIN events[j].vals :
            i < j \/ (i = j /\ a < b) => events[i].vals[a] < events[j].vals[b]

\* What it is still to be given: in hand, in recv_storage, still to be read.
Due == <<in_event>> \o (recv_storage \o SubSeq(srv_sent, rd + 1, Len(srv_sent)))

\* Once the handshake is over, every text frame the server sent is with the
\* callback, being handled, in recv_storage or still to be read: none is lost,
\* repeated or overtaken (client.rs 240-298, 409-450).
EveryTextDelivered ==
    callback /\ srv_sent # <<>> =>
        /\ Heard \cup Carried(Due) = Carried(srv_sent)
        /\ \A m \in Heard, n \in Carried(Due) : m < n
        /\ HeardInOrder /\ Increasing(Due)

\* Each ON_TEXT is one message, complete (client.rs 91, "Store the data
\* received from the Frames until the data is completelly received").
WholeMessages ==
    LET sent == DataIn(srv_sent)
    IN  \A i \in Reported({"ON_TEXT"}) : \E a, b \in DOMAIN sent :
            /\ a <= b /\ sent[a].op = "TEXT" /\ sent[b].fin
            /\ \A j \in a .. b - 1 : ~sent[j].fin
            /\ events[i].vals = Numbers(SubSeq(sent, a, b))

\* Unless the connection was lost, a callback hears of the close exactly once,
\* as the last event, and hears who began it: the client closes only in Drop
\* (client.rs 363-370, 508-514, README.md 48, "Handle on close events").
CloseIsReported ==
    /\ callback /\ events # <<>>
    /\ connection_status = "CLOSE" /\ peer # "reset"
    => /\ Reported({"SERVER_CLOSE", "CLIENT_CLOSE"}) = {Len(events)}
       /\ Last(events).kind = IF dropping THEN "CLIENT_CLOSE" ELSE "SERVER_CLOSE"

\* Drop gives up on the closing handshake only after the whole timeout
\* (client.rs 552, "Close handshake timeout").
DropWaits ==
    dropping /\ pc = "dropped" /\ result = "Ok" /\ connection_status # "CLOSE"
        => elapsed >= timeout

\* A connection is used only under the key generated last, even when init is
\* called again over an old one (client.rs 312-349).
KeyIsCurrent ==
    connection_status \in {"OPEN", "SERVER_WANTS_TO_CLOSE"} =>
        srv_sent # <<>> /\ srv_sent[1] = Make("RESPONSE", websocket_key)

-----------------------------------------------------------------------------
(* The client implements WSSession, on its first connection.               *)

Phase ==
    CASE connection_status \in {"NOT_INIT", "START_INIT", "HANDSHAKE"} -> "opening"
      [] connection_status = "OPEN"  -> "open"
      [] connection_status = "CLOSE" -> "closed"
      [] OTHER                       -> "closing"

\* Behind a part of a frame the server can tell no frames apart.
Torn    == \E i \in DOMAIN wire : wire[i].op = "TORN"
Legible == {i \in DOMAIN wire : \A k \in 1 .. i : wire[k].op # "TORN"}
Reached == {wire[i].val : i \in {j \in Legible : IsData(wire[j])}}

\* The stream is of no more use to what is still to be written.
Failed == peer = "reset" \/ Torn

\* A data frame popped or put back ahead of the answer to the server's Close.
Leaving ==
    /\ connection_status = "SERVER_WANTS_TO_CLOSE" /\ ~Failed
    /\ \/ IsData(out_event)
       \/ out_event = NoData /\ output_events # <<>> /\ IsData(Head(output_events))

Session == INSTANCE WSSession WITH
    phase   <- Phase,
    lost    <- Failed,
    handed  <- queued,
    pending <- Carried(<<out_event>> \o output_events),
    leaving <- Leaving,
    passed  <- Reached,
    heard   <- [i \in DOMAIN events |-> events[i].kind]

\* Every step of the client, its callback, the server and the network is a
\* step of one connection as WSSession describes it, or none.
ImplementsSession == Session!Spec

-----------------------------------------------------------------------------
(* Progress *)

\* The program of examples/ calls event_loop again and again, and Drop does.
\* The network delivers in the end, and the kernel's buffer empties.
Fairness ==
    /\ WF_vars(event_loop) /\ WF_vars(drop_ends) /\ WF_vars(Tick)
    /\ SF_vars(read_bytes_from_socket /\ rd' # rd)
    /\ SF_vars(write_sent \/ write_sent_closing)

FairSpec == Spec /\ Fairness

Over == pc \in {"dropped", "panicked", "diverged"} \/ dropping \/ peer # "up"

\* Drop always returns, whether or not the server ever answers (client.rs
\* 530-566).
DropReturns == dropping ~> pc = "dropped"

\* A Close from the server ends in CLOSE, not in an exchange that hangs
\* between the answer and the shutdown (client.rs 351-374, 485-500).
CloseCompletes ==
    connection_status = "SERVER_WANTS_TO_CLOSE" ~> connection_status = "CLOSE" \/ Over

\* What was queued leaves, unless the connection closes (client.rs 209-238,
\* 351-374: put back, it is tried again).
QueueDrains ==
    connection_status = "OPEN" /\ output_events # <<>>
        ~> (output_events = <<>> /\ out_event = NoData)
              \/ connection_status # "OPEN" \/ Over

\* A PING that was handled is answered by its PONG, unless the connection
\* closes first (client.rs 470-474).
PingIsAnswered ==
    \A n \in 1 .. MaxServer :
        in_event = Make("PING", n) /\ connection_status = "OPEN"
            ~> (\E i \in DOMAIN wire : wire[i] = Make("PONG", n))
                  \/ connection_status # "OPEN" \/ Over
=============================================================================
