------------------------------ MODULE WSClient ------------------------------
(***************************************************************************)
(* The client over its whole life, sync/client.rs: the program's calls,    *)
(* the event loop of WSEventLoop, and Drop, which runs that loop itself.   *)
(***************************************************************************)
EXTENDS WSEventLoop

-----------------------------------------------------------------------------
(* Drop *)

\* Nothing to close: the fields are dropped, the socket with them.
drop_now ==
    /\ InProgram
    /\ connection_status \in {"NOT_INIT", "HANDSHAKE", "CLOSE"} \/ stream = "None"
    /\ pc' = "dropped" /\ stream' = "None"
    /\ UNCHANGED <<fixed, reported, received, wire, srv_sent, rd, peer, result,
                   in_event, out_event>>

FinalQueue_NotCleared == <<Make("CLOSE", 1000)>> \o output_events   \* faulty

\* Both queues are cleared, and a Close is queued.
FinalQueue == <<Make("CLOSE", 1000)>>

drop ==
    /\ InProgram
    /\ connection_status \notin {"NOT_INIT", "HANDSHAKE", "CLOSE"} /\ stream # "None"
    /\ output_events' = FinalQueue
    /\ connection_status' = "CLIENT_WANTS_TO_CLOSE"
    /\ dropping' = TRUE /\ elapsed' = 0 /\ result' = "Ok"
    /\ UNCHANGED <<connVars, received, websocket_key, pc, queued, events,
                   message_size, timeout, callback, inits, in_event, out_event>>

\* Half a second passes.
Tick ==
    /\ dropping /\ pc \in {"idle", "input", "output"} /\ elapsed < timeout
    /\ elapsed' = elapsed + 1
    /\ UNCHANGED <<connVars, reported, received, call, websocket_key, message_size,
                   timeout, dropping>>

\* The loop ends: closed, out of time, or after an error.
drop_ends ==
    /\ pc = "idle" /\ dropping
    /\ connection_status = "CLOSE" \/ TimedOut \/ result # "Ok"
    /\ pc' = IF stream = "None" THEN "panicked" ELSE "dropped"
    /\ stream' = "None"
    /\ UNCHANGED <<fixed, reported, received, wire, srv_sent, rd, peer, result,
                   in_event, out_event>>

-----------------------------------------------------------------------------
Program == init \/ set_message_size \/ set_timeout \/ Send \/ drop_now \/ drop

Server == /\ ServerNext
          /\ UNCHANGED <<fixed, reported, received, call>>

Next == Program \/ event_loop \/ drop_ends \/ Tick \/ Server

Spec == Init /\ [][Next]_vars

-----------------------------------------------------------------------------
\* event_loop and Drop never unwrap a stream that is not there (client.rs 364,
\* 412, 453, 509, 563), whatever handler set it to None or did not set it.
StreamPresent ==
    /\ pc = "idle" /\ connection_status \in Active => stream # "None"
    /\ pc \in {"input", "output"} => stream # "None"
    /\ pc = "idle" /\ dropping /\ "init" \notin CallbackOps => stream # "None"

\* Once CLOSE, nothing more is written, not even by the event_loop that closed
\* it with a frame already popped (client.rs 209-226).
SilentAfterClose == [][connection_status = "CLOSE" => UNCHANGED wire]_vars
=============================================================================
