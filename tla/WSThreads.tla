------------------------------ MODULE WSThreads ------------------------------
(***************************************************************************)
(* The C interface, ffi/common.rs and ffi/sync/client.rs, used by the two  *)
(* threads of src/ffi/example.c without a lock: main creates, initialises  *)
(* and drops the client, a second thread runs its event_loop.              *)
(*                                                                         *)
(* event_loop is what that thread can tell of it: the fields it reads, the *)
(* event it reports and the error it returns.                              *)
(***************************************************************************)
EXTENDS Naturals, Sequences, SequencesExt

CONSTANTS
    Reorder,        \* whether main's stores may become visible out of order,
                    \* as the data race allows the build
    Limit,          \* the ten seconds of handler
    MaxTexts        \* bound: texts received

ASSUME ThreadsAssumption == Reorder \in BOOLEAN /\ {Limit, MaxTexts} \subseteq Nat

VARIABLES
    main, loop,     \* where each thread is
    memory,         \* of the client: "none", "live" or "freed"
    pending,        \* main's stores that the other thread does not see yet
    visible,        \* the fields that it sees initialised
    status,         \* connection_status, as event_loop last left it
    used,           \* the fields that were initialised for start_init
    clock,
    total           \* the texts that C counted

vars == <<main, loop, memory, pending, visible, status, used, clock, total>>

\* wssclient_init stores these, in this order.
Fields == <<"host", "port", "path", "callback", "connection_status">>

\* What rust_error_to_c_error may give the loop of handler.
Errors == {"UnreachableHost", "HandShake", "InvalidFrame", "ConnectionClose",
           "DecodingFromUTF8", "IOError"}

Init ==
    /\ main = "new" /\ loop = "none" /\ memory = "none"
    /\ pending = <<>> /\ visible = {} /\ used = {}
    /\ status = "NOT_INIT" /\ clock = 0 /\ total = 0

-----------------------------------------------------------------------------
(* main *)

\* It may return NULL.
wssclient_new ==
    /\ main = "new"
    /\ \/ main' = "create" /\ memory' = "live"
       \/ main' = "exited" /\ UNCHANGED memory
    /\ UNCHANGED <<loop, pending, visible, status, used, clock, total>>

\* It may fail, and main returns without dropping the client.
pthread_create ==
    /\ main = "create"
    /\ \/ main' = "init" /\ loop' = "check"
       \/ main' = "exited" /\ UNCHANGED loop
    /\ UNCHANGED <<memory, pending, visible, status, used, clock, total>>

Stores_StatusTwice == <<Last(Fields)>> \o Fields           \* faulty
Stores_StatusFirst == <<Last(Fields)>> \o Front(Fields)     \* faulty

Stores == Fields

wssclient_init ==
    /\ main = "init"
    /\ pending' = Stores /\ main' = "join"
    /\ UNCHANGED <<loop, memory, visible, status, used, clock, total>>

BecomesVisible ==
    \E i \in DOMAIN pending :
        /\ Reorder \/ i = 1
        /\ pending' = RemoveAt(pending, i)
        /\ visible' = visible \cup {pending[i]}
        /\ status' = IF pending[i] = "connection_status" THEN "START_INIT" ELSE status
        /\ UNCHANGED <<main, loop, memory, used, clock, total>>

Joinable_Always == TRUE         \* faulty: main does not wait

Joinable == loop = "ended"

\* main sees its own stores.
pthread_join ==
    /\ main = "join" /\ Joinable
    /\ main' = "drop"
    /\ visible' = visible \cup ToSet(pending) /\ pending' = <<>>
    /\ status' = IF "connection_status" \in ToSet(pending) THEN "START_INIT" ELSE status
    /\ UNCHANGED <<loop, memory, used, clock, total>>

-----------------------------------------------------------------------------
(* Events: from_rust_event in ws_handler, on whichever thread runs the loop. *)

Hears(event) ==
    /\ total' = IF event = "ON_TEXT" THEN total + 1 ELSE total
    /\ event = "ON_TEXT" => total < MaxTexts

\* The box of wssclient_drop goes out of scope: Drop runs the loop while the
\* connection is open, texts are still heard, and then the memory is freed.
wssclient_drop ==
    /\ main = "drop"
    /\ \/ /\ status = "OPEN"
          /\ \/ Hears("ON_TEXT") /\ UNCHANGED <<main, memory, status>>
             \/ Hears("ON_CLOSE") /\ status' = "CLOSE" /\ UNCHANGED <<main, memory>>
             \/ main' = "aborted" /\ UNCHANGED <<memory, status, total>>
       \/ main' = "exited" /\ memory' = "freed" /\ UNCHANGED <<status, total>>
    /\ UNCHANGED <<loop, pending, visible, used, clock>>

-----------------------------------------------------------------------------
(* The thread *)

TimeIsUp_Never == FALSE         \* faulty: no limit

TimeIsUp == clock >= Limit

check_time ==
    /\ loop = "check"
    /\ loop' = IF TimeIsUp THEN "ended" ELSE "call"
    /\ UNCHANGED <<main, memory, pending, visible, status, used, clock, total>>

Returns(result) == loop' = IF result = "OK" THEN "check" ELSE "ended"

Loops == loop = "call" /\ UNCHANGED <<main, memory, pending, visible, clock>>

loop_not_init ==
    /\ Loops /\ status = "NOT_INIT"
    /\ Returns("OK") /\ UNCHANGED <<status, used, total>>

loop_start_init ==
    /\ Loops /\ status = "START_INIT"
    /\ used' = visible
    /\ \/ status' = "HANDSHAKE" /\ Returns("OK")
       \/ UNCHANGED status /\ \E error \in {"UnreachableHost", "IOError"} : Returns(error)
    /\ UNCHANGED total

\* A call without an event, in any status in which it connects or talks.
loop_quiet ==
    /\ Loops /\ status \in {"HANDSHAKE", "OPEN"}
    /\ \E result \in Errors \cup {"OK"} : Returns(result)
    /\ UNCHANGED <<status, used, total>>

loop_event ==
    /\ Loops
    /\ \/ status = "HANDSHAKE" /\ status' = "OPEN" /\ Hears("ON_CONNECT")
       \/ status = "OPEN" /\ Hears("ON_TEXT") /\ UNCHANGED status
       \/ status = "OPEN" /\ status' = "CLOSE" /\ Hears("ON_CLOSE")
    /\ loop' = "check" /\ UNCHANGED used

\* A text with a NUL is no CString: unwrap panics under extern "C".  (Drop's
\* loop may meet one too.)
loop_aborts ==
    /\ loop = "call" /\ status = "OPEN"
    /\ loop' = "aborted" /\ main' = "aborted"
    /\ UNCHANGED <<memory, pending, visible, status, used, clock, total>>

loop_closed ==
    /\ Loops /\ status = "CLOSE"
    /\ Returns("ConnectionClose") /\ UNCHANGED <<status, used, total>>

wssclient_loop ==
    loop_not_init \/ loop_start_init \/ loop_quiet \/ loop_event \/ loop_aborts \/ loop_closed

Tick ==
    /\ clock < Limit /\ main \notin {"exited", "aborted"} /\ clock' = clock + 1
    /\ UNCHANGED <<main, loop, memory, pending, visible, status, used, total>>

MainNext == wssclient_new \/ pthread_create \/ wssclient_init \/ pthread_join \/ wssclient_drop
LoopNext == check_time \/ wssclient_loop

Next == MainNext \/ LoopNext \/ BecomesVisible \/ Tick

\* Both threads are scheduled, time passes, Drop's loop ends (WSProperties).
Spec == /\ Init /\ [][Next]_vars
        /\ WF_vars(MainNext) /\ WF_vars(LoopNext) /\ WF_vars(Tick)
        /\ WF_vars(wssclient_drop /\ main' = "exited")

-----------------------------------------------------------------------------
ThreadsTypeOK ==
    /\ main \in {"new", "create", "init", "join", "drop", "exited", "aborted"}
    /\ loop \in {"none", "check", "call", "ended", "aborted"}
    /\ memory \in {"none", "live", "freed"}
    /\ visible \subseteq ToSet(Fields) /\ used \subseteq ToSet(Fields)
    /\ ToSet(pending) \subseteq ToSet(Fields) \ visible
    /\ status \in {"NOT_INIT", "START_INIT", "HANDSHAKE", "OPEN", "CLOSE"}
    /\ clock \in 0 .. Limit /\ total \in 0 .. MaxTexts

\* The thread never runs on a client that main has freed or not yet made, nor
\* while main drops it (ffi/sync/client.rs 50-77, example.c 99-119).
LoopOwnsClient ==
    loop \in {"check", "call"} => memory = "live" /\ main \in {"init", "join"}

\* What start_init and the callbacks work on was initialised as a whole
\* (example.c 106, "the websocket is capable os do that", of the thread that
\* runs the loop while main calls wssclient_init).
InitSeenWhole ==
    status \notin {"NOT_INIT", "START_INIT"} \/ used # {} => used = ToSet(Fields)

\* Whatever the server and the network do, the program ends (example.c 52-119).
ProgramEnds == <>(main \in {"exited", "aborted"})
=============================================================================
