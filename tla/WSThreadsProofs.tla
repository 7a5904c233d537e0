--------------------------- MODULE WSThreadsProofs ---------------------------
(***************************************************************************)
(* What is proved of the two threads of the C example, whatever its limits *)
(* and the order in which stores become visible.                           *)
(***************************************************************************)
EXTENDS WSThreads, SequenceTheorems, TLAPS

\* Where main is when the thread runs, and what it keeps for it.
Control ==
    /\ main \in {"new", "create"} => loop = "none"
    /\ main \in {"create", "init", "join", "drop"} => memory = "live"
    /\ main = "drop" => loop = "ended"
    /\ loop \in {"check", "call"} => main \in {"init", "join"}

LEMMA ControlInit == Init => Control
BY DEF Init, Control

LEMMA ControlMain == Control /\ MainNext => Control'
<1> SUFFICES ASSUME Control, MainNext PROVE Control'
  OBVIOUS
<1>1. CASE wssclient_new
  BY <1>1 DEF wssclient_new, Control
<1>2. CASE pthread_create
  BY <1>2 DEF pthread_create, Control
<1>3. CASE wssclient_init
  BY <1>3 DEF wssclient_init, Control
<1>4. CASE pthread_join
  BY <1>4 DEF pthread_join, Control, Joinable
<1>5. CASE wssclient_drop
  BY <1>5 DEF wssclient_drop, Control
<1> QED
  BY <1>1, <1>2, <1>3, <1>4, <1>5 DEF MainNext

LEMMA ControlLoop == Control /\ LoopNext => Control'
<1> SUFFICES ASSUME Control, LoopNext PROVE Control'
  OBVIOUS
<1>1. CASE check_time
  BY <1>1 DEF check_time, Control
<1>2. CASE loop_not_init \/ loop_start_init \/ loop_quiet \/ loop_event \/ loop_closed
  <2>1. loop = "call" /\ UNCHANGED <<main, memory>>
    BY <1>2 DEF loop_not_init, loop_start_init, loop_quiet, loop_event, loop_closed, Loops
  <2> QED
    BY <2>1 DEF Control
<1>3. CASE loop_aborts
  BY <1>3 DEF loop_aborts, Control
<1> QED
  BY <1>1, <1>2, <1>3 DEF LoopNext, wssclient_loop

LEMMA ControlStep == Control /\ [Next]_vars => Control'
<1> SUFFICES ASSUME Control, [Next]_vars PROVE Control'
  OBVIOUS
<1>1. CASE BecomesVisible
  BY <1>1 DEF BecomesVisible, Control
<1>2. CASE Tick
  BY <1>2 DEF Tick, Control
<1>3. CASE UNCHANGED vars
  BY <1>3 DEF vars, Control
<1> QED
  BY <1>1, <1>2, <1>3, ControlMain, ControlLoop DEF Next

\* The thread runs only on a live client that main is not dropping
\* (ffi/sync/client.rs 50-77, example.c 99-119).
THEOREM LoopIsOwner == Spec => []LoopOwnsClient
<1>1. Control => LoopOwnsClient
  BY DEF Control, LoopOwnsClient
<1> QED
  BY <1>1, ControlInit, ControlStep, PTL DEF Spec

-----------------------------------------------------------------------------
(* One store at a time *)

Names == {"host", "port", "path", "callback", "connection_status"}

LEMMA FieldsType == Fields \in Seq(Names) /\ Len(Fields) = 5 /\ DOMAIN Fields = 1 .. 5
<1>1. Fields \in Seq(Names)
  BY DEF Fields, Names
<1>2. DOMAIN Fields = 1 .. 5
  BY DEF Fields
<1> QED
  BY <1>1, <1>2, LenProperties

\* What a store leaves, whichever of those that are pending it is.
LEMMA StoreRemoved ==
    ASSUME NEW S, NEW s \in Seq(S), NEW i \in DOMAIN s
    PROVE  /\ RemoveAt(s, i) \in Seq(S)
           /\ Len(s) \in Nat \ {0}
           /\ Len(RemoveAt(s, i)) = Len(s) - 1
           /\ \A k \in 1 .. Len(s) - 1 : RemoveAt(s, i)[k] = s[IF k < i THEN k ELSE k + 1]
<1> DEFINE before == SubSeq(s, 1, i - 1)
           behind == SubSeq(s, i + 1, Len(s))
<1>1. Len(s) \in Nat /\ i \in 1 .. Len(s)
  BY LenProperties
<1>2. /\ i - 1 \in Int /\ i + 1 \in Int /\ Len(s) \in Int /\ 1 \in Int
      /\ \A k \in 1 .. i - 1 : k \in 1 .. Len(s)
      /\ \A k \in i + 1 .. Len(s) : k \in 1 .. Len(s)
      /\ Len(s) \in Nat \ {0}
  BY <1>1, SMT
<1>3. (\A k \in 1 .. i - 1 : s[k] \in S) /\ (\A k \in i + 1 .. Len(s) : s[k] \in S)
  BY <1>2, ElementOfSeq
<1>4. /\ before \in Seq(S) /\ Len(before) = (IF 1 <= i - 1 THEN (i - 1) - 1 + 1 ELSE 0)
      /\ \A k \in 1 .. (i - 1) - 1 + 1 : before[k] = s[1 + k - 1]
  BY <1>2, <1>3, SubSeqProperties
<1>5. /\ behind \in Seq(S)
      /\ Len(behind) = (IF i + 1 <= Len(s) THEN Len(s) - (i + 1) + 1 ELSE 0)
      /\ \A k \in 1 .. Len(s) - (i + 1) + 1 : behind[k] = s[(i + 1) + k - 1]
  BY <1>2, <1>3, SubSeqProperties
<1> HIDE DEF before, behind
<1>6. Len(before) = i - 1 /\ Len(behind) = Len(s) - i
  BY <1>1, <1>4, <1>5, SMT
<1>7. RemoveAt(s, i) = before \o behind
  BY DEF RemoveAt, before, behind
<1>8. /\ before \o behind \in Seq(S) /\ Len(before \o behind) = Len(before) + Len(behind)
      /\ \A k \in 1 .. Len(before) + Len(behind) :
            (before \o behind)[k] = IF k <= Len(before) THEN before[k] ELSE behind[k - Len(before)]
  BY <1>4, <1>5, ConcatProperties
<1> DEFINE both == before \o behind
<1> HIDE DEF both
<1>9. both \in Seq(S) /\ Len(both) = Len(s) - 1
  BY <1>1, <1>6, <1>8, SMT DEF both
<1>10. ASSUME NEW k \in 1 .. Len(s) - 1
       PROVE  both[k] = s[IF k < i THEN k ELSE k + 1]
  <2>1. both[k] = IF k <= i - 1 THEN before[k] ELSE behind[k - (i - 1)]
    <3>1. k \in 1 .. Len(before) + Len(behind)
      BY <1>1, <1>6, SMT
    <3> QED
      BY <1>6, <1>8, <3>1 DEF both
  <2>2. CASE k < i
    <3>1. /\ k <= i - 1 /\ k \in 1 .. (i - 1) - 1 + 1 /\ 1 + k - 1 = k
      BY <1>1, <2>2, SMT
    <3> QED
      BY <1>4, <2>1, <2>2, <3>1, Zenon
  <2>3. CASE ~(k < i)
    <3>1. /\ ~(k <= i - 1) /\ k - (i - 1) \in 1 .. Len(s) - (i + 1) + 1
          /\ (i + 1) + (k - (i - 1)) - 1 = k + 1
      BY <1>1, <2>3, SMT
    <3> QED
      BY <1>5, <2>1, <2>3, <3>1, Zenon
  <2> QED
    BY <2>2, <2>3
<1>11. RemoveAt(s, i) = both
  BY <1>7 DEF both
<1> QED
  BY <1>2, <1>9, <1>10, <1>11

-----------------------------------------------------------------------------
(* Types *)

\* No store is made twice, and main makes them once.
TypesInv ==
    /\ ThreadsTypeOK
    /\ pending \in Seq(Names)
    /\ \A i, j \in 1 .. Len(pending) : pending[i] = pending[j] => i = j
    /\ main \in {"new", "create", "init"} => pending = <<>> /\ visible = {}

LEMMA NamesAreFields == ToSet(Fields) = Names
BY DEF ToSet, Fields, Names

LEMMA NothingPending ==
    /\ <<>> \in Seq(Names) /\ ToSet(<<>>) = {}
    /\ \A i, j \in 1 .. Len(<<>>) : <<>>[i] = <<>>[j] => i = j
<1>1. <<>> \in Seq(Names) /\ ToSet(<<>>) = {} /\ Len(<<>>) = 0 /\ 1 .. 0 = {}
  BY EmptySeq, SMT DEF ToSet
<1> QED
  BY <1>1

LEMMA TypesInit == Init => TypesInv
<1> SUFFICES ASSUME Init PROVE TypesInv
  OBVIOUS
<1>1. 0 \in 0 .. Limit /\ 0 \in 0 .. MaxTexts
  BY ThreadsAssumption, SMT
<1> QED
  BY <1>1, NothingPending DEF Init, TypesInv, ThreadsTypeOK

LEMMA Counted == ASSUME TypesInv, NEW event, Hears(event) PROVE total' \in 0 .. MaxTexts
<1>1. total \in 0 .. MaxTexts /\ MaxTexts \in Nat
  BY ThreadsAssumption DEF TypesInv, ThreadsTypeOK
<1>2. total' = total \/ (total < MaxTexts /\ total' = total + 1)
  BY DEF Hears
<1> QED
  BY <1>1, <1>2, SMT

LEMMA TypesMain == TypesInv /\ MainNext => TypesInv'
<1> SUFFICES ASSUME TypesInv, MainNext PROVE TypesInv'
  OBVIOUS
<1> USE DEF ThreadsTypeOK
<1>1. CASE wssclient_new
  BY <1>1 DEF wssclient_new, TypesInv
<1>2. CASE pthread_create
  BY <1>2 DEF pthread_create, TypesInv
<1>3. CASE wssclient_init
  <2>1. \A i, j \in 1 .. 5 : Fields[i] = Fields[j] => i = j
    BY SMT DEF Fields
  <2>2. pending' = Fields /\ visible = {}
    BY <1>3 DEF wssclient_init, Stores, TypesInv
  <2> QED
    BY <1>3, <2>1, <2>2, FieldsType, NamesAreFields DEF wssclient_init, TypesInv
<1>4. CASE pthread_join
  <2>1. ToSet(pending') = {} /\ pending' \in Seq(Names) /\ Len(pending') = 0 /\ 1 .. 0 = {}
    BY <1>4, NothingPending, EmptySeq, SMT DEF pthread_join
  <2> QED
    BY <1>4, <2>1 DEF pthread_join, TypesInv
<1>5. CASE wssclient_drop
  <2>1. total' \in 0 .. MaxTexts
    BY <1>5, Counted DEF wssclient_drop, TypesInv
  <2> QED
    BY <1>5, <2>1 DEF wssclient_drop, TypesInv
<1> QED
  BY <1>1, <1>2, <1>3, <1>4, <1>5 DEF MainNext

LEMMA TypesLoop == TypesInv /\ LoopNext => TypesInv'
<1> SUFFICES ASSUME TypesInv, LoopNext PROVE TypesInv'
  OBVIOUS
<1> USE DEF ThreadsTypeOK
<1>1. \A result : Returns(result) => loop' \in {"check", "ended"}
  BY DEF Returns
<1>2. CASE check_time
  BY <1>2 DEF check_time, TypesInv
<1>3. CASE loop_not_init \/ loop_quiet \/ loop_closed
  BY <1>1, <1>3 DEF loop_not_init, loop_quiet, loop_closed, Loops, TypesInv
<1>4. CASE loop_start_init
  BY <1>1, <1>4 DEF loop_start_init, Loops, TypesInv
<1>5. CASE loop_event
  <2>1. total' \in 0 .. MaxTexts
    BY <1>5, Counted DEF loop_event
  <2> QED
    BY <1>5, <2>1 DEF loop_event, Loops, TypesInv
<1>6. CASE loop_aborts
  BY <1>6 DEF loop_aborts, TypesInv
<1> QED
  BY <1>2, <1>3, <1>4, <1>5, <1>6 DEF LoopNext, wssclient_loop

LEMMA TypesVisible == TypesInv /\ BecomesVisible => TypesInv'
<1> SUFFICES ASSUME TypesInv, BecomesVisible PROVE TypesInv'
  OBVIOUS
<1>1. PICK i \in DOMAIN pending :
         /\ pending' = RemoveAt(pending, i) /\ visible' = visible \cup {pending[i]}
         /\ status' = IF pending[i] = "connection_status" THEN "START_INIT" ELSE status
         /\ UNCHANGED <<main, loop, memory, used, clock, total>>
  BY DEF BecomesVisible
<1>2. /\ pending \in Seq(Names) /\ DOMAIN pending = 1 .. Len(pending)
      /\ \A k, m \in 1 .. Len(pending) : pending[k] = pending[m] => k = m
      /\ ToSet(pending) \subseteq ToSet(Fields) \ visible
  BY LenProperties DEF TypesInv, ThreadsTypeOK
<1>3. /\ pending' \in Seq(Names) /\ Len(pending') = Len(pending) - 1 /\ Len(pending) \in Nat
      /\ DOMAIN pending' = 1 .. Len(pending')
      /\ \A k \in 1 .. Len(pending) - 1 : pending'[k] = pending[IF k < i THEN k ELSE k + 1]
  <2>1. /\ RemoveAt(pending, i) \in Seq(Names) /\ Len(pending) \in Nat
        /\ Len(RemoveAt(pending, i)) = Len(pending) - 1
        /\ \A k \in 1 .. Len(pending) - 1 :
              RemoveAt(pending, i)[k] = pending[IF k < i THEN k ELSE k + 1]
    <3>1. i \in DOMAIN pending /\ pending \in Seq(Names)
      BY <1>1, <1>2
    <3> QED
      BY <3>1, StoreRemoved
  <2>2. DOMAIN pending' = 1 .. Len(pending')
    BY <1>1, <2>1, LenProperties
  <2> QED
    BY <1>1, <2>1, <2>2
<1> DEFINE from(k) == IF k < i THEN k ELSE k + 1
<1>4. /\ \A k \in 1 .. Len(pending') : from(k) \in 1 .. Len(pending) /\ from(k) # i
      /\ \A k, m \in 1 .. Len(pending') : from(k) = from(m) => k = m
  BY <1>1, <1>2, <1>3, SMT
<1>5. \A k \in 1 .. Len(pending') : pending'[k] = pending[from(k)]
  BY <1>3
<1> HIDE DEF from
<1>6. \A k, m \in 1 .. Len(pending') : pending'[k] = pending'[m] => k = m
  BY <1>2, <1>4, <1>5
<1>7. ToSet(pending') \subseteq ToSet(pending) \ {pending[i]}
  BY <1>1, <1>2, <1>3, <1>4, <1>5 DEF ToSet
<1>8. pending[i] \in ToSet(pending)
  BY <1>1 DEF ToSet
<1>9. ThreadsTypeOK'
  BY <1>1, <1>2, <1>7, <1>8 DEF TypesInv, ThreadsTypeOK
<1>10. main \notin {"new", "create", "init"}
  BY <1>1 DEF TypesInv
<1> QED
  BY <1>1, <1>3, <1>6, <1>9, <1>10 DEF TypesInv

LEMMA TypesStep == TypesInv /\ [Next]_vars => TypesInv'
<1> SUFFICES ASSUME TypesInv, [Next]_vars PROVE TypesInv'
  OBVIOUS
<1>1. CASE Tick
  <2>1. clock' \in 0 .. Limit
    BY <1>1, ThreadsAssumption, SMT DEF Tick, TypesInv, ThreadsTypeOK
  <2> QED
    BY <1>1, <2>1 DEF Tick, TypesInv, ThreadsTypeOK
<1>2. CASE UNCHANGED vars
  BY <1>2 DEF vars, TypesInv, ThreadsTypeOK
<1> QED
  BY <1>1, <1>2, TypesMain, TypesLoop, TypesVisible DEF Next

\* Each field is stored once, and is either pending or visible, in whatever
\* order main's stores reach the other thread (ffi/sync/client.rs 23-48).
THEOREM ThreadsTypeCorrect == Spec => []ThreadsTypeOK
<1>1. TypesInv => ThreadsTypeOK
  BY DEF TypesInv
<1> QED
  BY <1>1, TypesInit, TypesStep, PTL DEF Spec

=============================================================================
