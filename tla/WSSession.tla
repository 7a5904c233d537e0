----------------------------- MODULE WSSession ------------------------------
(***************************************************************************)
(* What one connection looks like from outside the client: a program hands *)
(* over frames and hears events, a server receives frames.                 *)
(*                                                                         *)
(* The connection opens once and closes once.  Frames are handed over at   *)
(* any time before it is closed, and pass to the server one by one, the    *)
(* one handed over first before the others, while it is open.  When it     *)
(* begins to close they are given up, except for one that is already       *)
(* leaving, and when the stream fails they are lost.  The program hears    *)
(* that the connection opened, then texts, then that it closed, and then   *)
(* nothing.                                                                *)
(***************************************************************************)
EXTENDS Naturals, Sequences

VARIABLES
    phase,      \* "opening", "open", "closing", "closed"
    lost,       \* the stream has failed
    handed,     \* how many frames were handed over, which numbers them
    pending,    \* those not passed on
    leaving,    \* whether one of them may still pass while closing
    passed,     \* those passed to the server
    heard       \* the kinds of events heard, in order

vars == <<phase, lost, handed, pending, leaving, passed, heard>>

Init ==
    /\ phase = "opening" /\ lost = FALSE /\ leaving = FALSE
    /\ handed = 0 /\ pending = {} /\ passed = {} /\ heard = <<>>

Hears(kinds) == \/ heard' = heard
                \/ \E kind \in kinds : heard' = Append(heard, kind)

\* The program may hand over frames, also in answer to an event.
Accepts ==
    /\ handed' >= handed
    /\ pending' = pending \cup (handed + 1 .. handed')

\* The frames handed over before all others, which are the next to go.
Foremost == {n \in pending : \A m \in pending : n <= m}

HandOver ==
    /\ phase # "closed" /\ Accepts
    /\ UNCHANGED <<phase, lost, leaving, passed, heard>>

Opens ==
    /\ phase = "opening" /\ phase' = "open"
    /\ Hears({"ON_CONNECT"}) /\ Accepts
    /\ UNCHANGED <<lost, leaving, passed>>

HearsText ==
    /\ phase \in {"open", "closing"}
    /\ heard' = Append(heard, "ON_TEXT") /\ Accepts
    /\ UNCHANGED <<phase, lost, leaving, passed>>

PassesOn ==
    /\ ~lost
    /\ phase = "open" \/ leaving
    /\ \E n \in Foremost : passed' = passed \cup {n} /\ pending' = pending \ {n}
    /\ leaving' = FALSE
    /\ UNCHANGED <<phase, lost, handed, heard>>

\* It may begin again: a program may drop a client whose server is closing.
BeginsToClose ==
    /\ phase \in {"open", "closing"} /\ phase' = "closing"
    /\ \/ pending' = {} /\ leaving' = FALSE
       \/ /\ phase = "open"
          /\ \E n \in Foremost : pending' = {n}
          /\ leaving' = ~lost
    /\ UNCHANGED <<lost, handed, passed, heard>>

\* The stream may fail as it is being closed.
Closes ==
    /\ phase = "closing" /\ phase' = "closed"
    /\ leaving' = FALSE
    /\ Hears({"SERVER_CLOSE", "CLIENT_CLOSE"})
    /\ lost' \in {lost, TRUE}
    /\ UNCHANGED <<handed, pending, passed>>

Fails ==
    /\ ~lost /\ lost' = TRUE /\ leaving' = FALSE
    /\ UNCHANGED <<phase, handed, pending, passed, heard>>

GivesUp ==
    /\ lost
    /\ \E n \in Foremost : pending' = pending \ {n}
    /\ UNCHANGED <<phase, lost, handed, leaving, passed, heard>>

Next == HandOver \/ Opens \/ HearsText \/ PassesOn \/ BeginsToClose \/ Closes
           \/ Fails \/ GivesUp

Spec == Init /\ [][Next]_vars
=============================================================================
