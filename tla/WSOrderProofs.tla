---------------------------- MODULE WSOrderProofs ----------------------------
(***************************************************************************)
(* That frames reach the server in the order in which send queued them,    *)
(* none twice, for every server, callback, network and bound.              *)
(***************************************************************************)
EXTENDS WSProperties, WSClientProofs

\* The data frames of s are in order; those of s precede those of t; those of
\* s are among the first n.
InOrder(s) ==
    \A i, j \in 1 .. Len(s) :
        i < j /\ IsData(s[i]) /\ IsData(s[j]) => s[i].val < s[j].val
Precedes(s, t) ==
    \A i \in 1 .. Len(s), j \in 1 .. Len(t) :
        IsData(s[i]) /\ IsData(t[j]) => s[i].val < t[j].val
UpTo(s, n) == \A i \in 1 .. Len(s) : IsData(s[i]) => s[i].val <= n

\* What is written, in hand and queued is one line of the first n frames.
Piped(written, hand, queue, n) ==
    /\ InOrder(written) /\ InOrder(queue)
    /\ Precedes(written, <<hand>>) /\ Precedes(written, queue) /\ Precedes(<<hand>>, queue)
    /\ UpTo(written, n) /\ UpTo(<<hand>>, n) /\ UpTo(queue, n)

OrderInv == Piped(wire, out_event, output_events, queued)

-----------------------------------------------------------------------------
(* Lines, piece by piece *)

LEMMA ConcatItems ==
    ASSUME NEW s \in Seq(Item), NEW t \in Seq(Item)
    PROVE  /\ s \o t \in Seq(Item)
           /\ Len(s) \in Nat /\ Len(t) \in Nat
           /\ Len(s \o t) = Len(s) + Len(t)
           /\ \A i \in 1 .. Len(s) : (s \o t)[i] = s[i]
           /\ \A i \in 1 .. Len(t) : (s \o t)[Len(s) + i] = t[i]
           /\ \A k \in 1 .. Len(s \o t) :
                 k \in 1 .. Len(s) \/ \E i \in 1 .. Len(t) : k = Len(s) + i
<1>1. Len(s) \in Nat /\ Len(t) \in Nat
  BY LenProperties
<1>2. /\ s \o t \in Seq(Item)
      /\ Len(s \o t) = Len(s) + Len(t)
      /\ \A i \in 1 .. Len(s) + Len(t) :
            (s \o t)[i] = IF i <= Len(s) THEN s[i] ELSE t[i - Len(s)]
  BY ConcatProperties
<1>3. \A i \in 1 .. Len(s) : (s \o t)[i] = s[i]
  BY <1>1, <1>2, SMT
<1>4. \A i \in 1 .. Len(t) : (s \o t)[Len(s) + i] = t[i]
  <2> TAKE i \in 1 .. Len(t)
  <2>1. /\ Len(s) + i \in 1 .. Len(s) + Len(t) /\ ~(Len(s) + i <= Len(s))
        /\ (Len(s) + i) - Len(s) = i
    BY <1>1, SMT
  <2> QED
    BY <1>2, <2>1
<1>5. \A k \in 1 .. Len(s) + Len(t) :
         k \in 1 .. Len(s) \/ \E i \in 1 .. Len(t) : k = Len(s) + i
  <2> TAKE k \in 1 .. Len(s) + Len(t)
  <2>1. k \in 1 .. Len(s) \/ (k - Len(s) \in 1 .. Len(t) /\ k = Len(s) + (k - Len(s)))
    BY <1>1, SMT
  <2> QED
    BY <2>1
<1> QED
  BY <1>1, <1>2, <1>3, <1>4, <1>5

LEMMA InOrderConcat ==
    ASSUME NEW s \in Seq(Item), NEW t \in Seq(Item)
    PROVE  InOrder(s \o t) <=> InOrder(s) /\ InOrder(t) /\ Precedes(s, t)
<1> DEFINE u == s \o t
<1>1. /\ Len(s) \in Nat /\ Len(t) \in Nat /\ Len(u) = Len(s) + Len(t)
      /\ \A i \in 1 .. Len(s) : u[i] = s[i]
      /\ \A i \in 1 .. Len(t) : u[Len(s) + i] = t[i]
      /\ \A k \in 1 .. Len(u) : k \in 1 .. Len(s) \/ \E i \in 1 .. Len(t) : k = Len(s) + i
  BY ConcatItems
<1>2. /\ \A i \in 1 .. Len(s) : i \in 1 .. Len(u)
      /\ \A i \in 1 .. Len(t) : Len(s) + i \in 1 .. Len(u)
      /\ \A i \in 1 .. Len(s), j \in 1 .. Len(t) : i < Len(s) + j /\ ~(Len(s) + j < i)
      /\ \A i, j \in 1 .. Len(t) : i < j <=> Len(s) + i < Len(s) + j
  BY <1>1, SMT
<1> HIDE DEF u
<1>3. InOrder(u) => InOrder(s) /\ InOrder(t) /\ Precedes(s, t)
  <2> SUFFICES ASSUME InOrder(u) PROVE InOrder(s) /\ InOrder(t) /\ Precedes(s, t)
    OBVIOUS
  <2>1. InOrder(s)
    BY <1>1, <1>2 DEF InOrder
  <2>2. ASSUME NEW i \in 1 .. Len(t), NEW j \in 1 .. Len(t), i < j, IsData(t[i]), IsData(t[j])
        PROVE  t[i].val < t[j].val
    <3>1. Len(s) + i \in 1 .. Len(u) /\ Len(s) + j \in 1 .. Len(u) /\ Len(s) + i < Len(s) + j
      BY <1>2, <2>2
    <3>2. u[Len(s) + i] = t[i] /\ u[Len(s) + j] = t[j]
      BY <1>1
    <3> QED
      BY <2>2, <3>1, <3>2, Zenon DEF InOrder
  <2>3. ASSUME NEW i \in 1 .. Len(s), NEW j \in 1 .. Len(t), IsData(s[i]), IsData(t[j])
        PROVE  s[i].val < t[j].val
    <3>1. i \in 1 .. Len(u) /\ Len(s) + j \in 1 .. Len(u) /\ i < Len(s) + j
      BY <1>2
    <3>2. u[i] = s[i] /\ u[Len(s) + j] = t[j]
      BY <1>1
    <3> QED
      BY <2>3, <3>1, <3>2, Zenon DEF InOrder
  <2> QED
    BY <2>1, <2>2, <2>3 DEF InOrder, Precedes
<1>4. ASSUME InOrder(s), InOrder(t), Precedes(s, t) PROVE InOrder(u)
  <2> SUFFICES ASSUME NEW k \in 1 .. Len(u), NEW l \in 1 .. Len(u),
                      k < l, IsData(u[k]), IsData(u[l])
               PROVE  u[k].val < u[l].val
    BY DEF InOrder
  <2>1. CASE k \in 1 .. Len(s) /\ l \in 1 .. Len(s)
    BY <1>1, <1>4, <2>1, Zenon DEF InOrder
  <2>2. ASSUME NEW j \in 1 .. Len(t), k \in 1 .. Len(s), l = Len(s) + j
        PROVE  u[k].val < u[l].val
    BY <1>1, <1>4, <2>2, Zenon DEF Precedes
  <2>3. ASSUME NEW i \in 1 .. Len(t), NEW j \in 1 .. Len(t), k = Len(s) + i, l = Len(s) + j
        PROVE  u[k].val < u[l].val
    <3>1. i < j
      BY <1>2, <2>3
    <3>2. u[k] = t[i] /\ u[l] = t[j]
      BY <1>1, <2>3
    <3> QED
      BY <1>4, <3>1, <3>2, Zenon DEF InOrder
  <2>4. ASSUME NEW i \in 1 .. Len(t), k = Len(s) + i, l \in 1 .. Len(s)
        PROVE  u[k].val < u[l].val
    BY <1>2, <2>4
  <2> QED
    BY <1>1, <2>1, <2>2, <2>3, <2>4
<1> QED
  BY <1>3, <1>4 DEF u

LEMMA PrecedesConcat ==
    ASSUME NEW s \in Seq(Item), NEW t \in Seq(Item), NEW u \in Seq(Item)
    PROVE  /\ Precedes(s \o t, u) <=> Precedes(s, u) /\ Precedes(t, u)
           /\ Precedes(u, s \o t) <=> Precedes(u, s) /\ Precedes(u, t)
<1> DEFINE both == s \o t
<1>1. /\ \A i \in 1 .. Len(s) : i \in 1 .. Len(both) /\ both[i] = s[i]
      /\ \A i \in 1 .. Len(t) : Len(s) + i \in 1 .. Len(both) /\ both[Len(s) + i] = t[i]
      /\ \A k \in 1 .. Len(both) : k \in 1 .. Len(s) \/ \E i \in 1 .. Len(t) : k = Len(s) + i
  BY ConcatItems, SMT
<1> HIDE DEF both
<1>2. Precedes(both, u) <=> Precedes(s, u) /\ Precedes(t, u)
  BY <1>1 DEF Precedes
<1>3. Precedes(u, both) <=> Precedes(u, s) /\ Precedes(u, t)
  BY <1>1 DEF Precedes
<1> QED
  BY <1>2, <1>3 DEF both

LEMMA UpToConcat ==
    ASSUME NEW s \in Seq(Item), NEW t \in Seq(Item), NEW n
    PROVE  UpTo(s \o t, n) <=> UpTo(s, n) /\ UpTo(t, n)
<1> DEFINE both == s \o t
<1>1. /\ \A i \in 1 .. Len(s) : i \in 1 .. Len(both) /\ both[i] = s[i]
      /\ \A i \in 1 .. Len(t) : Len(s) + i \in 1 .. Len(both) /\ both[Len(s) + i] = t[i]
      /\ \A k \in 1 .. Len(both) : k \in 1 .. Len(s) \/ \E i \in 1 .. Len(t) : k = Len(s) + i
  BY ConcatItems, SMT
<1> HIDE DEF both
<1>2. UpTo(both, n) <=> UpTo(s, n) /\ UpTo(t, n)
  BY <1>1 DEF UpTo
<1> QED
  BY <1>2 DEF both

LEMMA EmptyLine ==
    /\ InOrder(<<>>)
    /\ \A s, n : Precedes(<<>>, s) /\ Precedes(s, <<>>) /\ UpTo(<<>>, n)
BY DEF InOrder, Precedes, UpTo

LEMMA OneItem ==
    ASSUME NEW x \in Item
    PROVE  /\ <<x>> \in Seq(Item) /\ InOrder(<<x>>)
           /\ ~IsData(x) => \A s, n : /\ Precedes(<<x>>, s) /\ Precedes(s, <<x>>)
                                      /\ UpTo(<<x>>, n)
BY DEF InOrder, Precedes, UpTo

LEMMA Values == ASSUME NEW s \in Seq(Item), NEW i \in 1 .. Len(s) PROVE s[i].val \in Nat
<1>1. s[i] \in Item
  BY ElementOfSeq
<1> QED
  BY <1>1 DEF Item

LEMMA Longer ==
    ASSUME NEW s \in Seq(Item), NEW n \in Nat, NEW m \in Nat, UpTo(s, n), n <= m
    PROVE  UpTo(s, m)
<1>1. \A v \in Nat : v <= n => v <= m
  BY SMT
<1> QED
  BY <1>1, Values DEF UpTo

-----------------------------------------------------------------------------
(* The frames of one send *)

LEMMA SentFrames ==
    ASSUME queued \in Nat, NEW n \in Nat, NEW s \in Seq(Item), UpTo(s, queued)
    PROVE  /\ InOrder(DataFrames(n)) /\ UpTo(DataFrames(n), queued + n)
           /\ Precedes(s, DataFrames(n))
<1>1. DOMAIN DataFrames(n) = 1 .. n /\ DataFrames(n) \in Seq(Item)
  BY DataFramesType DEF DataFrames
<1>2. Len(DataFrames(n)) = n
  <2>1. Len(DataFrames(n)) \in Nat /\ 1 .. Len(DataFrames(n)) = 1 .. n
    BY <1>1, LenProperties
  <2>2. \A m \in Nat : 1 .. m = 1 .. n => m = n
    BY SMT
  <2> QED
    BY <2>1, <2>2
<1>3. \A i \in 1 .. n : DataFrames(n)[i].val = queued + i
  BY DEF DataFrames
<1>4. InOrder(DataFrames(n))
  <2>1. \A i, j \in 1 .. n : i < j => queued + i < queued + j
    BY SMT
  <2> QED
    BY <1>2, <1>3, <2>1 DEF InOrder
<1>5. UpTo(DataFrames(n), queued + n)
  <2>1. \A i \in 1 .. n : queued + i <= queued + n
    BY SMT
  <2> QED
    BY <1>2, <1>3, <2>1 DEF UpTo
<1>6. Precedes(s, DataFrames(n))
  <2>1. \A i \in 1 .. n, v \in Nat : v <= queued => v < queued + i
    BY SMT
  <2> QED
    BY <1>2, <1>3, <2>1, Values DEF UpTo, Precedes
<1> QED
  BY <1>4, <1>5, <1>6

-----------------------------------------------------------------------------
(* What the client does to the line *)

LEMMA PipedSend ==
    ASSUME NEW w \in Seq(Item), NEW x \in Item, NEW q \in Seq(Item), NEW n \in Nat,
           queued \in Nat, Piped(w, x, q, queued)
    PROVE  Piped(w, x, q \o DataFrames(n), queued + n)
<1> DEFINE frames == DataFrames(n)
           next   == queued + n
<1>1. frames \in Seq(Item) /\ <<x>> \in Seq(Item)
  BY DataFramesType, OneItem
<1>2. next \in Nat /\ queued <= next
  BY SMT
<1>3. /\ InOrder(frames) /\ UpTo(frames, next)
      /\ Precedes(w, frames) /\ Precedes(<<x>>, frames) /\ Precedes(q, frames)
  BY <1>1, SentFrames DEF Piped
<1> HIDE DEF frames, next
<1>4. UpTo(w, next) /\ UpTo(<<x>>, next) /\ UpTo(q, next)
  BY <1>1, <1>2, Longer DEF Piped
<1>5. InOrder(q \o frames)
  BY <1>1, <1>3, InOrderConcat, Zenon DEF Piped
<1>6. Precedes(w, q \o frames) /\ Precedes(<<x>>, q \o frames)
  BY <1>1, <1>3, PrecedesConcat, Zenon DEF Piped
<1>7. UpTo(q \o frames, next)
  BY <1>1, <1>3, <1>4, UpToConcat, Zenon
<1>8. Piped(w, x, q \o frames, next)
  BY <1>4, <1>5, <1>6, <1>7, Zenon DEF Piped
<1> QED
  BY <1>8 DEF frames, next

LEMMA NoDataFrame == NoData \in Item /\ ~IsData(NoData)
BY NoDataType DEF IsData, NoData, Make, DataOps

LEMMA PipedDrop ==
    ASSUME NEW w \in Seq(Item), NEW x \in Item, NEW q \in Seq(Item), NEW n,
           Piped(w, x, q, n)
    PROVE  Piped(w, NoData, q, n)
<1>1. \A s, m : /\ Precedes(<<NoData>>, s) /\ Precedes(s, <<NoData>>)
                /\ UpTo(<<NoData>>, m)
  BY NoDataFrame, OneItem, Zenon
<1> QED
  BY <1>1, Zenon DEF Piped

LEMMA PipedWrite ==
    ASSUME NEW w \in Seq(Item), NEW x \in Item, NEW q \in Seq(Item), NEW n,
           Piped(w, x, q, n)
    PROVE  Piped(Append(w, x), NoData, q, n)
<1>1. Append(w, x) = w \o <<x>> /\ <<x>> \in Seq(Item)
  BY AppendIsConcat, OneItem
<1>2. InOrder(w \o <<x>>)
  BY <1>1, OneItem, InOrderConcat, Zenon DEF Piped
<1>3. Precedes(w \o <<x>>, q)
  BY <1>1, PrecedesConcat, Zenon DEF Piped
<1>4. UpTo(w \o <<x>>, n)
  BY <1>1, UpToConcat, Zenon DEF Piped
<1>5. Piped(w, NoData, q, n)
  BY PipedDrop
<1>6. Precedes(w \o <<x>>, <<NoData>>)
  BY NoDataFrame, OneItem, Zenon
<1> QED
  BY <1>1, <1>2, <1>3, <1>4, <1>5, <1>6, Zenon DEF Piped

LEMMA PipedRequeue ==
    ASSUME NEW w \in Seq(Item), NEW x \in Item, NEW q \in Seq(Item), NEW n,
           Piped(w, x, q, n)
    PROVE  Piped(w, NoData, <<x>> \o q, n)
<1>1. <<x>> \in Seq(Item) /\ InOrder(<<x>>)
  BY OneItem
<1>2. InOrder(<<x>> \o q)
  BY <1>1, InOrderConcat, Zenon DEF Piped
<1>3. Precedes(w, <<x>> \o q)
  BY <1>1, PrecedesConcat, Zenon DEF Piped
<1>4. UpTo(<<x>> \o q, n)
  BY <1>1, UpToConcat, Zenon DEF Piped
<1>5. Piped(w, NoData, q, n)
  BY PipedDrop
<1>6. Precedes(<<NoData>>, <<x>> \o q)
  BY NoDataFrame, OneItem, Zenon
<1> QED
  BY <1>2, <1>3, <1>4, <1>5, <1>6, Zenon DEF Piped

\* An item that is no data frame may go to the front of the queue or to the
\* wire, and be the whole queue; a new wire is empty.
LEMMA PipedOther ==
    ASSUME NEW w \in Seq(Item), NEW x \in Item, NEW q \in Seq(Item), NEW n,
           NEW y \in Item, ~IsData(y), Piped(w, x, q, n)
    PROVE  /\ Piped(w, x, <<y>> \o q, n)
           /\ Piped(Append(w, y), x, q, n)
           /\ Piped(w, x, <<y>>, n)
           /\ Piped(<<>>, x, q, n)
<1>1. /\ Append(w, y) = w \o <<y>>
      /\ <<y>> \in Seq(Item) /\ <<x>> \in Seq(Item)
  BY AppendIsConcat, OneItem
<1>2. /\ InOrder(<<y>>)
      /\ \A s, m : Precedes(<<y>>, s) /\ Precedes(s, <<y>>) /\ UpTo(<<y>>, m)
  BY OneItem, Zenon
<1>3. Piped(w, x, <<y>> \o q, n)
  <2>1. InOrder(<<y>> \o q)
    BY <1>1, <1>2, InOrderConcat, Zenon DEF Piped
  <2>2. Precedes(w, <<y>> \o q) /\ Precedes(<<x>>, <<y>> \o q)
    BY <1>1, <1>2, PrecedesConcat, Zenon DEF Piped
  <2>3. UpTo(<<y>> \o q, n)
    BY <1>1, <1>2, UpToConcat, Zenon DEF Piped
  <2> QED
    BY <2>1, <2>2, <2>3, Zenon DEF Piped
<1>4. Piped(Append(w, y), x, q, n)
  <2>1. InOrder(w \o <<y>>)
    BY <1>1, <1>2, InOrderConcat, Zenon DEF Piped
  <2>2. Precedes(w \o <<y>>, <<x>>) /\ Precedes(w \o <<y>>, q)
    BY <1>1, <1>2, PrecedesConcat, Zenon DEF Piped
  <2>3. UpTo(w \o <<y>>, n)
    BY <1>1, <1>2, UpToConcat, Zenon DEF Piped
  <2> QED
    BY <1>1, <2>1, <2>2, <2>3, Zenon DEF Piped
<1>5. Piped(w, x, <<y>>, n)
  BY <1>2, Zenon DEF Piped
<1>6. Piped(<<>>, x, q, n)
  BY EmptyLine, Zenon DEF Piped
<1> QED
  BY <1>3, <1>4, <1>5, <1>6

LEMMA PipedPop ==
    ASSUME NEW w \in Seq(Item), NEW q \in Seq(Item), NEW n, q # <<>>,
           Piped(w, NoData, q, n)
    PROVE  Piped(w, Head(q), Tail(q), n)
<1> DEFINE x == Head(q)
           t == Tail(q)
<1>1. x \in Item /\ t \in Seq(Item) /\ q = <<x>> \o t
  BY HeadTailProperties
<1> HIDE DEF x, t
<1>2. <<x>> \in Seq(Item)
  BY <1>1, OneItem
<1>3. InOrder(t) /\ Precedes(<<x>>, t)
  BY <1>1, <1>2, InOrderConcat, Zenon DEF Piped
<1>4. Precedes(w, <<x>>) /\ Precedes(w, t)
  BY <1>1, <1>2, PrecedesConcat, Zenon DEF Piped
<1>5. UpTo(<<x>>, n) /\ UpTo(t, n)
  BY <1>1, <1>2, UpToConcat, Zenon DEF Piped
<1>6. Piped(w, x, t, n)
  BY <1>3, <1>4, <1>5, Zenon DEF Piped
<1> QED
  BY <1>6 DEF x, t

-----------------------------------------------------------------------------
(* Every step keeps the line *)

USE DEF connVars, reported, received, call, fixed

OrderTypes == wire \in Seq(Item) /\ out_event \in Item /\ output_events \in Seq(Item)
                 /\ queued \in Nat

LEMMA TypesForOrder == TypeOK => OrderTypes
BY DEF OrderTypes, TypeOK, ConnTypeOK

LEMMA OtherItems ==
    /\ \A n \in Nat : Make("CLOSE", n) \in Item /\ ~IsData(Make("CLOSE", n))
    /\ \A n \in Nat : Make("PONG", n) \in Item /\ ~IsData(Make("PONG", n))
    /\ \A n \in Nat : Make("REQUEST", n) \in Item /\ ~IsData(Make("REQUEST", n))
    /\ \A n \in Nat : Make("TORN", n) \in Item /\ ~IsData(Make("TORN", n))
BY MakeType DEF Ops, DataOps, ControlOps, HttpOps, IsData, Make

LEMMA OrderSend ==
    ASSUME NEW w \in Seq(Item), NEW x \in Item, NEW outs \in Seq(Item), queued \in Nat,
           Piped(w, x, outs, queued),
           NEW text \in Texts, NEW status, NEW next, send(text, status, outs, next)
    PROVE  Piped(w, x, output_events', queued')
<1>1. CASE \E n \in 1 .. text.len : /\ output_events' = outs \o DataFrames(n)
                                    /\ queued' = queued + n
  <2>1. PICK n \in 1 .. text.len : /\ output_events' = outs \o DataFrames(n)
                                  /\ queued' = queued + n
    BY <1>1
  <2>2. n \in Nat
    OBVIOUS
  <2> QED
    BY <2>1, <2>2, PipedSend
<1>2. CASE output_events' = outs /\ queued' = queued
  BY <1>2
<1> QED
  BY <1>1, <1>2 DEF send

\* Whatever the callback does, it only queues behind what the handler left.
LEMMA OrderReport ==
    ASSUME NEW w \in Seq(Item), NEW x \in Item, NEW outs \in Seq(Item), queued \in Nat,
           Piped(w, x, outs, queued),
           NEW event, NEW status, NEW next, Report(event, status, outs, next)
    PROVE  Piped(w, x, output_events', queued')
<1>1. CASE output_events' = outs /\ queued' = queued
  BY <1>1
<1>2. CASE \E text \in Texts : send(text, status, outs, next)
  BY <1>2, OrderSend
<1> QED
  BY <1>1, <1>2 DEF Report

LEMMA ProgramKeepsOrder == OrderTypes /\ OrderInv /\ Program => OrderInv'
<1> SUFFICES ASSUME OrderTypes, OrderInv, Program PROVE OrderInv'
  OBVIOUS
<1> USE DEF OrderTypes
<1>1. CASE UNCHANGED <<wire, out_event, output_events, queued>>
  BY <1>1 DEF OrderInv
<1>2. CASE Send
  <2>1. PICK text \in Texts : send(text, connection_status, output_events, "idle")
    BY <1>2 DEF Send
  <2>2. Piped(wire, out_event, output_events', queued')
    BY <2>1, OrderSend DEF OrderInv
  <2> QED
    BY <1>2, <2>2 DEF Send, OrderInv
<1>3. CASE drop
  <2>1. Piped(wire, out_event, <<Make("CLOSE", 1000)>>, queued)
    BY OtherItems, PipedOther DEF OrderInv
  <2> QED
    BY <1>3, <2>1 DEF drop, FinalQueue, OrderInv
<1> QED
  BY <1>1, <1>2, <1>3
     DEF Program, init, reinit, set_message_size, set_timeout, drop_now

LEMMA StartKeepsOrder ==
    OrderTypes /\ websocket_key \in Nat /\ OrderInv /\ start_init => OrderInv'
<1> SUFFICES ASSUME OrderTypes, websocket_key \in Nat, OrderInv, start_init
             PROVE  OrderInv'
  OBVIOUS
<1> USE DEF OrderTypes
<1> DEFINE request == Make("REQUEST", websocket_key + 1)
<1>1. request \in Item /\ ~IsData(request)
  BY OtherItems
<1>2. UNCHANGED <<out_event, queued>>
  BY DEF start_init
<1>3. CASE UNCHANGED <<wire, output_events>>
  BY <1>2, <1>3 DEF OrderInv
<1>4. CASE UNCHANGED wire /\ output_events' = <<request>> \o output_events
  <2>1. Piped(wire, out_event, <<request>> \o output_events, queued)
    BY <1>1, PipedOther DEF OrderInv
  <2> QED
    BY <1>2, <1>4, <2>1 DEF OrderInv
<1>5. CASE wire' = <<>> /\ output_events' = <<request>> \o output_events
  <2>1. Piped(<<>>, out_event, output_events, queued)
    BY <1>1, PipedOther DEF OrderInv
  <2>2. <<>> \in Seq(Item)
    BY EmptySeq
  <2>3. Piped(<<>>, out_event, <<request>> \o output_events, queued)
    BY <1>1, <2>1, <2>2, PipedOther
  <2> QED
    BY <1>2, <1>5, <2>3 DEF OrderInv
<1> QED
  BY <1>3, <1>4, <1>5 DEF start_init, Unreachable, StaysBlocking, Connects

LEMMA ReadKeepsOrder == TypeOK /\ OrderInv /\ read_bytes_from_socket => OrderInv'
<1> SUFFICES ASSUME TypeOK, OrderInv, read_bytes_from_socket PROVE OrderInv'
  OBVIOUS
<1>1. OrderTypes /\ out_event = NoData /\ wire' = wire /\ queued' = queued
  BY TypesForOrder DEF TypeOK, read_bytes_from_socket, Calls
<1>2. CASE UNCHANGED <<out_event, output_events>>
  BY <1>1, <1>2 DEF OrderInv
<1>3. CASE pop_output_event
  <2>1. CASE output_events = <<>> \/ Held(Head(output_events))
    BY <1>1, <1>2, <1>3, <2>1 DEF pop_output_event
  <2>2. CASE ~(output_events = <<>> \/ Held(Head(output_events)))
    <3>1. Piped(wire, Head(output_events), Tail(output_events), queued)
      BY <1>1, <2>2, PipedPop DEF OrderInv, OrderTypes
    <3> QED
      BY <1>1, <1>3, <2>2, <3>1 DEF pop_output_event, OrderInv
  <2> QED
    BY <2>1, <2>2
<1>4. PICK k \in Readable :
         IF connection_status = "HANDSHAKE"
         THEN handle_recv_bytes_http_response(recv_storage \o Arrived(k))
         ELSE handle_recv_bytes_frame(recv_storage \o Arrived(k))
  BY DEF read_bytes_from_socket
<1> HIDE DEF pop_output_event
<1> QED
  BY <1>2, <1>3, <1>4
     DEF handle_recv_bytes_http_response, handle_recv_bytes_frame, Take, Panics

LEMMA InputKeepsOrder == TypeOK /\ OrderInv /\ handle_input => OrderInv'
<1> SUFFICES ASSUME TypeOK, OrderInv, handle_input PROVE OrderInv'
  OBVIOUS
<1>1. OrderTypes /\ in_event.val \in Nat
  BY TypesForOrder DEF TypeOK, Item
<1> USE DEF OrderTypes
<1>2. wire' = wire
  BY DEF handle_input, handle_recv_frame, handle_recv_http_response, recv_ping,
         recv_pong, recv_undefined, recv_close_from_server, recv_close_answer,
         recv_close_ignored
\* The popped event is kept or, when the handler fails, given up.
<1>3. ASSUME Piped(wire, out_event, output_events', queued'),
             output_events' \in Seq(Item),
             out_event' = out_event \/ out_event' = NoData
      PROVE  OrderInv'
  BY <1>1, <1>2, <1>3, PipedDrop DEF OrderInv
<1>4. output_events' \in Seq(Item)
  <2>1. TypeOK'
    BY NextType DEF Next, event_loop
  <2> QED
    BY <2>1 DEF TypeOK
<1>5. CASE UNCHANGED <<output_events, queued>>
           /\ (out_event' = out_event \/ out_event' = NoData)
  BY <1>1, <1>3, <1>4, <1>5 DEF OrderInv
<1>6. ASSUME NEW event, NEW status, Handled,
             Report(event, status, output_events, AfterInput)
      PROVE  OrderInv'
  <2>1. Piped(wire, out_event, output_events', queued')
    BY <1>1, <1>6, OrderReport DEF OrderInv
  <2> QED
    BY <1>3, <1>4, <1>6, <2>1 DEF Handled
<1>7. CASE handle_recv_frame
  BY <1>5, <1>6, <1>7 DEF handle_recv_frame, Fails, Handled
<1>8. CASE handle_recv_http_response
  BY <1>5, <1>6, <1>8 DEF handle_recv_http_response, Fails
<1>9. CASE recv_ping
  <2>1. Pong(in_event) \in Item /\ ~IsData(Pong(in_event))
    BY <1>1, OtherItems DEF Pong
  <2>2. Piped(wire, out_event, <<Pong(in_event)>> \o output_events, queued)
    BY <1>1, <2>1, PipedOther DEF OrderInv
  <2> QED
    BY <1>3, <1>4, <1>9, <2>2 DEF recv_ping, Handled
<1>10. CASE recv_close_from_server
  <2>1. ReplyStatus(in_event.val) \in Nat
    BY <1>1, ReplyStatusType
  <2>2. Piped(wire, out_event, <<Make("CLOSE", ReplyStatus(in_event.val))>>, queued)
    BY <1>1, <2>1, OtherItems, PipedOther DEF OrderInv
  <2> QED
    BY <1>3, <1>4, <1>10, <2>2 DEF recv_close_from_server, Answer, Handled
<1>11. CASE recv_close_answer
  BY <1>5, <1>6, <1>11 DEF recv_close_answer, Fails
<1>12. CASE recv_pong \/ recv_undefined \/ recv_close_ignored
  BY <1>5, <1>12 DEF recv_pong, recv_undefined, recv_close_ignored, Fails, Handled
<1> QED
  BY <1>7, <1>8, <1>9, <1>10, <1>11, <1>12 DEF handle_input

LEMMA OutputKeepsOrder == TypeOK /\ OrderInv /\ handle_output => OrderInv'
<1> SUFFICES ASSUME TypeOK, OrderInv, handle_output PROVE OrderInv'
  OBVIOUS
<1>1. OrderTypes /\ out_event.val \in Nat
  BY TypesForOrder DEF TypeOK, Item
<1> USE DEF OrderTypes
<1>2. out_event' = NoData
  BY DEF handle_output, write_sent, write_sent_closing, write_sent_shutdown_fails,
         write_blocks, write_fails
<1>3. Piped(Append(wire, out_event), NoData, output_events, queued)
  BY <1>1, PipedWrite DEF OrderInv
<1>4. CASE write_sent \/ write_sent_shutdown_fails
  BY <1>2, <1>3, <1>4 DEF write_sent, write_sent_shutdown_fails, WriteAll, OrderInv
<1>5. CASE write_sent_closing
  <2>1. Append(wire, out_event) \in Seq(Item)
    BY <1>1, AppendProperties
  <2>2. Piped(Append(wire, out_event), NoData, output_events', queued')
    BY <1>1, <1>3, <1>5, <2>1, NoDataType, OrderReport DEF write_sent_closing
  <2> QED
    BY <1>2, <1>5, <2>2 DEF write_sent_closing, WriteAll, OrderInv
<1>6. CASE write_blocks
  <2>1. Piped(wire, NoData, <<out_event>> \o output_events, queued)
    BY <1>1, PipedRequeue DEF OrderInv
  <2>2. <<out_event>> \o output_events \in Seq(Item)
    BY <1>1, PrefixType
  <2>3. Piped(Append(wire, Make("TORN", out_event.val)), NoData,
              <<out_event>> \o output_events, queued)
    BY <1>1, <2>1, <2>2, OtherItems, NoDataType, PipedOther
  <2>4. wire' = wire \/ wire' = Append(wire, Make("TORN", out_event.val))
    BY <1>6 DEF write_blocks, WouldBlock
  <2> QED
    BY <1>2, <1>6, <2>1, <2>3, <2>4 DEF write_blocks, Requeue, OrderInv
<1>7. CASE write_fails
  BY <1>1, <1>2, <1>7, PipedDrop DEF write_fails, OrderInv
<1> QED
  BY <1>4, <1>5, <1>6, <1>7 DEF handle_output

LEMMA InitOrder == Init => OrderInv
<1> SUFFICES ASSUME Init PROVE OrderInv
  OBVIOUS
<1>1. wire = <<>> /\ out_event = NoData /\ output_events = <<>>
  BY DEF Init, ConnInit
<1>2. /\ InOrder(<<NoData>>)
      /\ \A n : UpTo(<<NoData>>, n)
  BY NoDataFrame, OneItem, Zenon
<1> QED
  BY <1>1, <1>2, EmptyLine, Zenon DEF OrderInv, Piped

LEMMA NextOrder == TypeOK /\ OrderInv /\ [Next]_vars => OrderInv'
<1> SUFFICES ASSUME TypeOK, OrderInv, [Next]_vars PROVE OrderInv'
  OBVIOUS
<1>1. OrderTypes
  BY TypesForOrder
<1>2. CASE Program
  BY <1>1, <1>2, ProgramKeepsOrder
<1>3. CASE UNCHANGED <<wire, out_event, output_events, queued>>
  BY <1>3 DEF OrderInv
<1>4. CASE drop_ends \/ Tick
  BY <1>3, <1>4 DEF drop_ends, Tick
<1>5. CASE Server
  BY <1>3, <1>5 DEF Server, ServerNext, Respond, ServerFrame, ServerClose, PeerFault
<1>6. CASE event_loop_idle \/ read_fails
  BY <1>3, <1>6 DEF event_loop_idle, read_fails
<1>7. CASE start_init
  BY <1>1, <1>7, StartKeepsOrder DEF TypeOK
<1>8. CASE read_bytes_from_socket
  BY <1>8, ReadKeepsOrder
<1>9. CASE handle_input
  BY <1>9, InputKeepsOrder
<1>10. CASE handle_output
  BY <1>10, OutputKeepsOrder
<1>11. CASE UNCHANGED vars
  BY <1>3, <1>11 DEF vars
<1> QED
  BY <1>2, <1>4, <1>5, <1>6, <1>7, <1>8, <1>9, <1>10, <1>11 DEF Next, event_loop

-----------------------------------------------------------------------------
\* Of all the data frames on the wire, in the hand of event_loop and in the
\* queue, those nearer to the server were queued by send before the others,
\* and none is there twice: a write that blocks, a PONG or a Close that jumps
\* the queue, a callback's send and a second init keep it so (client.rs
\* 191-207, 228-238, 351-374).
THEOREM OrderKept == Spec => []FramesInOrder
<1>1. Init => TypeOK /\ OrderInv
  BY InitType, InitOrder
<1>2. TypeOK /\ OrderInv /\ [Next]_vars => (TypeOK /\ OrderInv)'
  BY NextType, NextOrder
<1>3. TypeOK /\ OrderInv => FramesInOrder
  <2> SUFFICES ASSUME TypeOK, OrderInv PROVE FramesInOrder
    OBVIOUS
  <2>1. /\ wire \in Seq(Item) /\ <<out_event>> \in Seq(Item)
        /\ output_events \in Seq(Item) /\ InOrder(<<out_event>>)
    BY OneItem DEF TypeOK, ConnTypeOK
  <2>2. wire \o <<out_event>> \in Seq(Item) /\ Line \in Seq(Item)
    BY <2>1, ConcatItems DEF Line
  <2>3. InOrder(wire \o <<out_event>>)
    BY <2>1, InOrderConcat, Zenon DEF OrderInv, Piped
  <2>4. Precedes(wire \o <<out_event>>, output_events)
    BY <2>1, PrecedesConcat, Zenon DEF OrderInv, Piped
  <2>5. InOrder(Line)
    BY <2>1, <2>2, <2>3, <2>4, InOrderConcat, Zenon DEF OrderInv, Piped, Line
  <2>6. DOMAIN Line = 1 .. Len(Line)
    BY <2>2, LenProperties
  <2> QED
    BY <2>5, <2>6, Zenon DEF InOrder, Increasing, FramesInOrder
<1> QED
  BY <1>1, <1>2, <1>3, PTL DEF Spec
=============================================================================
