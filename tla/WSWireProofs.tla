---------------------------- MODULE WSWireProofs -----------------------------
(***************************************************************************)
(* The conversation, byte by byte: what the two ends write is what they    *)
(* read, in its order and wherever it is cut, and what the client makes of *)
(* it.  Every text, message size, width of usize, response and list of     *)
(* frames, and every place where the bytes may be cut.                     *)
(***************************************************************************)
EXTENDS WSWireProperties, WSBytesProofs

-----------------------------------------------------------------------------
(* Frames of the client *)

\* The frames a client writes.
ClientFrames ==
    {f \in [header : [flag : Flags, code : 0 .. 15, mask_key : Masks, payload_len : Nat],
            data : Seq(Byte)] :
        /\ f.header.payload_len = Len(f.data) /\ Len(f.data) <= Longest
        /\ f.header.code = CLOSE => Len(f.data) >= 2}

\* What such a frame is made of.
LEMMA FrameParts ==
    ASSUME NEW f \in ClientFrames
    PROVE  /\ f.header.flag \in Flags /\ f.header.code \in 0 .. 15 /\ f.header.mask_key \in Masks
           /\ f.data \in Seq(Byte) /\ Len(f.data) <= Longest
           /\ f = [header |-> Header(f.header.flag, f.header.code, f.header.mask_key, Len(f.data)),
                   data |-> f.data]
           /\ is_websocket_data(f) /\ BytesOf(f) = serialize(f)
           /\ f.header.code = CLOSE => Len(f.data) >= 2
<1>1. /\ f \in [header : [flag : Flags, code : 0 .. 15, mask_key : Masks, payload_len : Nat],
                data : Seq(Byte)]
      /\ f.header.payload_len = Len(f.data) /\ Len(f.data) <= Longest
      /\ f.header.code = CLOSE => Len(f.data) >= 2
  BY DEF ClientFrames
<1>2. /\ f = [header |-> f.header, data |-> f.data] /\ f.data \in Seq(Byte)
      /\ f.header \in [flag : Flags, code : 0 .. 15, mask_key : Masks, payload_len : Nat]
  BY <1>1
<1>3. /\ f.header.flag \in Flags /\ f.header.code \in 0 .. 15 /\ f.header.mask_key \in Masks
      /\ f.header = [flag |-> f.header.flag, code |-> f.header.code,
                     mask_key |-> f.header.mask_key, payload_len |-> f.header.payload_len]
  BY <1>2
<1>4. f = [header |-> Header(f.header.flag, f.header.code, f.header.mask_key, Len(f.data)),
           data |-> f.data]
  BY <1>1, <1>2, <1>3, Zenon DEF Header
<1>5. "header" \in DOMAIN f
  BY <1>1
<1> QED BY <1>1, <1>2, <1>3, <1>4, <1>5, Zenon DEF is_websocket_data, BytesOf

\* The bytes of a frame with its length in its header, behind one another.
LEMMA FrameLaidOut ==
    ASSUME NEW flag \in Flags, NEW code \in 0 .. 15, NEW mask \in Masks,
           NEW data \in Seq(Byte), Len(data) <= Longest
    PROVE  LET frame == [header |-> Header(flag, code, mask, Len(data)), data |-> data]
           IN  serialize(frame) \in Seq(Byte) /\ Len(serialize(frame)) >= 2
<1> DEFINE n     == Len(data)
           m     == length(n)
           md    == masked(data, mask)
           first == flag + code
           one   == 1
           frame == Whole(flag, code, mask, data)
           h     == HeaderOf(first, m, one, mask)
<1>1. md \in Seq(Byte) /\ Len(md) = n
  BY MaskedBytes
<1>2. mask \in Seq(Byte) /\ Len(mask) = 4 /\ mask # <<>> /\ one \in {0, 1}
  BY MaskBytes
<1>3. n \in Nat /\ n <= Longest
  OBVIOUS
<1>4. first \in Byte
  BY FirstByte DEF Flags
<1>5. serialize(frame) = h \o md
  <2>1. serialize(frame) = ((<<first>> \o [m EXCEPT ![1] = @ + 128]) \o mask) \o md
    BY <1>2 DEF serialize, header_bytes, Whole, Header
  <2>2. 128 * 1 = 128
    BY SMT
  <2> QED
    BY <2>1, <2>2, Zenon DEF HeaderOf
<1> HIDE DEF n
<1>6. m \in Seq(Byte) /\ Announces(m, n) /\ Sized(m)
  BY <1>3, LengthBytes, AnnouncesLength
<1> HIDE DEF m, md, first, one
<1>7. Begins(h, first, m, one, mask) /\ Len(h) = 1 + Len(m) + Len(mask)
  BY <1>2, <1>4, <1>6, HeaderBytes
<1>8. h \in Seq(Byte) /\ Len(h) >= 2
  <2>1. h \in Seq(Byte)
    BY <1>7 DEF Begins
  <2>2. Len(m) \in Nat /\ Len(m) >= 1
    BY <1>6 DEF Sized
  <2> QED
    BY <1>2, <1>7, <2>1, <2>2
<1> HIDE DEF h, frame
<1>9. h \o md \in Seq(Byte) /\ Len(h \o md) = Len(h) + Len(md)
  BY <1>1, <1>8, OneAfterAnother
<1>10. Len(h \o md) >= 2
  BY <1>1, <1>3, <1>8, <1>9
<1> QED
  BY <1>5, <1>9, <1>10, Zenon DEF frame, Whole

\* What a frame of the client is on the wire, and to the server.
LEMMA FrameWritten ==
    ASSUME NEW f \in ClientFrames
    PROVE  /\ serialize(f) \in Seq(Byte) /\ Len(serialize(f)) >= 2
           /\ \A rest \in Seq(Byte) : Unframed(serialize(f) \o rest) = Reading(f)
<1> DEFINE flag == f.header.flag
           code == f.header.code
           mask == f.header.mask_key
           data == f.data
           whole == [header |-> Header(flag, code, mask, Len(data)), data |-> data]
<1>1. /\ flag \in Flags /\ code \in 0 .. 15 /\ mask \in Masks
      /\ data \in Seq(Byte) /\ Len(data) <= Longest /\ f = whole
  BY FrameParts, Zenon
<1> HIDE DEF flag, code, mask, data
<1>2. serialize(whole) \in Seq(Byte) /\ Len(serialize(whole)) >= 2
  BY <1>1, FrameLaidOut
<1>3. ASSUME NEW rest \in Seq(Byte)
      PROVE  Unframed(serialize(f) \o rest) = Reading(f)
  <2>1. Unframed(serialize(whole) \o rest)
          = [flag |-> flag, code |-> code, masks |-> 1, size |-> Len(serialize(whole)), data |-> data]
    BY <1>1, ServerReadsClient
  <2> QED BY <1>1, <2>1, Zenon DEF Reading, flag, code, data
<1> QED BY <1>1, <1>2, <1>3, Zenon

\* No piece is longer than the text.
LEMMA PieceIsShort ==
    ASSUME SendTypeOK, TextIsCut, \A text \in Payloads : Len(text) <= Longest,
           NEW k \in DOMAIN frames
    PROVE  Len(frames[k].data) <= Longest
<1> DEFINE from == (k - 1) * size
           to   == Least(k * size, Len(payload))
<1>1. payload \in Seq(Byte) /\ Len(payload) \in Nat /\ Len(payload) <= Longest
  BY TextFits DEF SendTypeOK
<1>2. k - 1 \in Nat /\ size \in Nat
  <2>1. \A S : \A s \in Seq(S) : \A i \in DOMAIN s : i - 1 \in Nat
    OBVIOUS
  <2> QED
    BY <2>1, SizeFits, Zenon DEF SendTypeOK
<1>3. from \in Nat /\ to \in Int /\ to <= Len(payload)
  <2>1. k * size \in Nat
    <3>1. (k - 1) + 1 = k
      BY <1>2
    <3>2. (k - 1) * size \in Nat /\ ((k - 1) + 1) * size = (k - 1) * size + size
      BY <1>2, OneMore
    <3> QED
      BY <1>2, <3>1, <3>2
  <2> QED
    BY <1>1, <1>2, <2>1, OneMore DEF Least
<1>4. frames[k].data = SubSeq(payload, from + 1, to)
  BY DEF TextIsCut, size
<1> HIDE DEF from, to
<1>5. /\ Len(SubSeq(payload, from + 1, to)) \in Nat
      /\ Len(SubSeq(payload, from + 1, to)) <= Len(payload)
  BY <1>1, <1>3
<1>6. \A a, b \in Nat : a <= b /\ b <= Longest => a <= Longest
  BY SMT DEF Longest
<1> QED
  BY <1>1, <1>4, <1>5, <1>6, Zenon

\* The frames of send.
LEMMA SendFrames ==
    ASSUME SendTypeOK, TextIsCut, \A text \in Payloads : Len(text) <= Longest
    PROVE  /\ frames \in Seq(ClientFrames)
           /\ \A i \in DOMAIN frames : IsDataCode(frames[i].header.code)
<1>1. ASSUME NEW i \in DOMAIN frames
      PROVE  frames[i] \in ClientFrames /\ IsDataCode(frames[i].header.code)
  <2> DEFINE F == [header : [flag : {FIN, NOFLAG}, code : {TEXT, CONTINUATION},
                             mask_key : Masks, payload_len : Nat], data : Seq(Byte)]
             f == frames[i]
  <2>1. f \in F
    <3>1. \A S : \A s \in Seq(S) : \A k \in DOMAIN s : s[k] \in S
      OBVIOUS
    <3> QED BY <3>1, Zenon DEF SendTypeOK
  <2>2. f.header.payload_len = Len(f.data)
    BY DEF TextIsCut
  <2>3. Len(f.data) <= Longest
    BY PieceIsShort
  <2> HIDE DEF f
  <2>4. /\ f.header \in [flag : {FIN, NOFLAG}, code : {TEXT, CONTINUATION},
                         mask_key : Masks, payload_len : Nat]
        /\ f.data \in Seq(Byte) /\ f = [header |-> f.header, data |-> f.data]
    BY <2>1
  <2>5. TEXT \in 0 .. 15 /\ CONTINUATION \in 0 .. 15
    BY DEF TEXT, CONTINUATION
  <2>6. f.header \in [flag : Flags, code : 0 .. 15, mask_key : Masks, payload_len : Nat]
    BY <2>4, <2>5 DEF Flags
  <2>7. IsDataCode(f.header.code) /\ f.header.code # CLOSE
    BY <2>4 DEF IsDataCode, TEXT, CONTINUATION, CLOSE
  <2>8. f \in ClientFrames
    BY <2>2, <2>3, <2>4, <2>6, <2>7 DEF ClientFrames
  <2> QED BY <2>7, <2>8 DEF f
<1>2. \A S, T : \A s \in Seq(S) : (\A i \in DOMAIN s : s[i] \in T) => s \in Seq(T)
  OBVIOUS
<1>3. frames \in Seq(ClientFrames)
  BY <1>1, <1>2, Zenon DEF SendTypeOK
<1> QED BY <1>1, <1>3

\* A control frame that fits.
LEMMA FittingControl ==
    ASSUME NEW code \in {PONG, CLOSE}, NEW status \in Seq(Byte), NEW data \in Seq(Byte),
           code = CLOSE => Len(status) = 2, Len(status) + Len(data) <= 125, NEW mask \in Masks
    PROVE  LET f == ControlFrame(FIN, code, status, data, mask)
           IN  /\ f \in ClientFrames /\ f.header.code = code /\ f.data = status \o data
               /\ ~IsDataCode(f.header.code)
<1> DEFINE whole == status \o data
           n == Len(status) + Len(data)
           f == ControlFrame(FIN, code, status, data, mask)
<1>1. whole \in Seq(Byte) /\ Len(whole) = n /\ n \in Nat /\ n <= Longest
  <2>1. whole \in Seq(Byte) /\ Len(whole) = n /\ n \in Nat
    BY OneAfterAnother
  <2> QED BY <2>1 DEF Longest
<1>2. f = [header |-> [flag |-> FIN, code |-> code, mask_key |-> mask, payload_len |-> n],
           data |-> whole]
  BY DEF ControlFrame, Header
<1>3. code \in 0 .. 15 /\ ~IsDataCode(code) /\ FIN \in Flags
  BY SMT DEF PONG, CLOSE, IsDataCode, TEXT, BINARY, CONTINUATION, Flags
<1>0. code = CLOSE => Len(whole) >= 2
  <2>1. Len(data) \in Nat /\ Len(whole) = Len(status) + Len(data)
    BY <1>1
  <2> QED BY <2>1
<1> HIDE DEF whole, n, f
<1>4. f \in ClientFrames
  BY <1>0, <1>1, <1>2, <1>3 DEF ClientFrames
<1>5. f.header.code = code /\ f.data = whole
  BY <1>2
<1> QED BY <1>3, <1>4, <1>5 DEF whole, f

-----------------------------------------------------------------------------
(* Events one after the other *)

\* Where parse and the server look for the end of a head.
HeadEnd == END_LINE \o END_LINE

\* The requests that end where their head ends.
Requests == {r \in Seq(Byte) : Finds(r, HeadEnd) # {} /\ Min(Finds(r, HeadEnd)) + 3 = Len(r)}

\* What waits in output_events, and is written.
OutEvents == [request : Requests] \cup ClientFrames

\* A request is no websocket data, and is its bytes.
LEMMA RequestEvent ==
    ASSUME NEW e \in [request : Requests]
    PROVE  ~is_websocket_data(e) /\ BytesOf(e) = e.request /\ e.request \in Requests
<1>1. e = [request |-> e.request] /\ e.request \in Requests
  OBVIOUS
<1>2. DOMAIN e = {"request"}
  BY <1>1
<1>3. ~("header" \in DOMAIN e)
  BY <1>2
<1> QED BY <1>1, <1>3 DEF is_websocket_data, BytesOf

\* Which frames of the text an event is.
TextFrame(e) ==
    IF is_websocket_data(e) /\ IsDataCode(e.header.code) THEN <<e>> ELSE <<>>

ToBytes  == [e \in OutEvents |-> BytesOf(e)]
\* An event, and the frames of the text it is.
ToFrames == [e \in OutEvents |-> TextFrame(e)]

\* Sent and TextFrames go through the events one by one.
LEMMA EventsMap ==
    /\ Into(ToBytes, OutEvents, Seq(Byte))
    /\ Into(ToFrames, OutEvents, Seq(ClientFrames))
    /\ \A evs \in Seq(OutEvents) : /\ Sent(evs) = FlattenSeq(Through(ToBytes, evs))
                                   /\ TextFrames(evs) = FlattenSeq(Through(ToFrames, evs))
<1>1. ASSUME NEW e \in OutEvents
      PROVE  BytesOf(e) \in Seq(Byte) /\ TextFrame(e) \in Seq(ClientFrames)
  <2>1. CASE e \in [request : Requests]
    <3>1. BytesOf(e) \in Seq(Byte)
      BY <2>1, RequestEvent DEF Requests
    <3>2. TextFrame(e) = <<>>
      BY <2>1, RequestEvent DEF TextFrame
    <3> QED BY <3>1, <3>2
  <2>2. CASE e \in ClientFrames
    <3>1. BytesOf(e) \in Seq(Byte)
      BY <2>2, FrameParts, FrameWritten
    <3>2. TextFrame(e) \in {<<>>, <<e>>}
      BY DEF TextFrame
    <3>3. <<e>> \in Seq(ClientFrames) /\ <<>> \in Seq(ClientFrames)
      BY <2>2
    <3> QED BY <3>1, <3>2, <3>3
  <2> QED BY <2>1, <2>2 DEF OutEvents
<1>2. Into(ToBytes, OutEvents, Seq(Byte)) /\ Into(ToFrames, OutEvents, Seq(ClientFrames))
  BY <1>1 DEF Into, ToBytes, ToFrames
<1>3. ASSUME NEW evs \in Seq(OutEvents)
      PROVE  /\ Sent(evs) = FlattenSeq(Through(ToBytes, evs))
             /\ TextFrames(evs) = FlattenSeq(Through(ToFrames, evs))
  <2>1. \A i \in DOMAIN evs : evs[i] \in OutEvents
    OBVIOUS
  <2>2. [i \in DOMAIN evs |-> BytesOf(evs[i])] = Through(ToBytes, evs)
    BY <2>1 DEF Through, ToBytes
  <2>3. [i \in DOMAIN evs |-> TextFrame(evs[i])] = Through(ToFrames, evs)
    BY <2>1 DEF Through, ToFrames
  <2> QED BY <2>2, <2>3, Zenon DEF Sent, TextFrames, TextFrame
<1> QED BY <1>2, <1>3

\* The bytes of more events are more bytes.
LEMMA SentMore ==
    ASSUME NEW s \in Seq(OutEvents), NEW t \in Seq(OutEvents)
    PROVE  Sent(s) \in Seq(Byte) /\ Sent(s \o t) = Sent(s) \o Sent(t)
<1>1. s \o t \in Seq(OutEvents)
  OBVIOUS
<1>2. Into(ToBytes, OutEvents, Seq(Byte))
  BY EventsMap
<1>3. Piecewise(ToBytes, s, t, Byte)
  BY <1>2, FlatThrough, Zenon
<1> QED BY <1>1, <1>3, EventsMap, Zenon DEF Piecewise

\* The bytes of no event, and of one.
LEMMA SentOne ==
    ASSUME NEW e \in OutEvents
    PROVE  Sent(<<>>) = <<>> /\ Sent(<<e>>) = BytesOf(e)
<1>1. <<>> \in Seq(OutEvents) /\ <<e>> \in Seq(OutEvents)
  OBVIOUS
<1>2. ToBytes[e] = BytesOf(e)
  BY DEF ToBytes
<1>3. /\ FlattenSeq(Through(ToBytes, <<>>)) = <<>>
      /\ FlattenSeq(Through(ToBytes, <<e>>)) = ToBytes[e]
  BY EventsMap, FlatThroughOne
<1> QED BY <1>1, <1>2, <1>3, EventsMap, Zenon

\* More events hold more frames of the text.
LEMMA FramesMore ==
    ASSUME NEW s \in Seq(OutEvents), NEW t \in Seq(OutEvents)
    PROVE  TextFrames(s) \in Seq(ClientFrames) /\ TextFrames(s \o t) = TextFrames(s) \o TextFrames(t)
<1>1. s \o t \in Seq(OutEvents)
  OBVIOUS
<1>2. Into(ToFrames, OutEvents, Seq(ClientFrames))
  BY EventsMap
<1>3. Piecewise(ToFrames, s, t, ClientFrames)
  BY <1>2, FlatThrough, Zenon
<1> QED BY <1>1, <1>3, EventsMap, Zenon DEF Piecewise

\* The frames of the text in no event, and in one.
LEMMA FramesOne ==
    ASSUME NEW e \in OutEvents
    PROVE  TextFrames(<<>>) = <<>> /\ TextFrames(<<e>>) = TextFrame(e)
<1>1. <<>> \in Seq(OutEvents) /\ <<e>> \in Seq(OutEvents)
  OBVIOUS
<1>2. ToFrames[e] = TextFrame(e)
  BY DEF ToFrames
<1>3. /\ FlattenSeq(Through(ToFrames, <<>>)) = <<>>
      /\ FlattenSeq(Through(ToFrames, <<e>>)) = ToFrames[e]
  BY EventsMap, FlatThroughOne
<1> QED BY <1>1, <1>2, <1>3, EventsMap, Zenon

\* The frames of the text among frames of the text are they all.
LEMMA AllFrames ==
    ASSUME NEW s \in Seq(ClientFrames), \A i \in DOMAIN s : IsDataCode(s[i].header.code)
    PROVE  TextFrames(s) = s
<1> DEFINE P == {u \in Seq(ClientFrames) :
                    (\A i \in DOMAIN u : IsDataCode(u[i].header.code)) => TextFrames(u) = u}
<1>1. <<>> \in P
  <2>1. <<>> \in Seq(ClientFrames)
    OBVIOUS
  <2>2. TextFrames(<<>>) = <<>>
    BY FlattenNone DEF TextFrames
  <2> QED BY <2>1, <2>2, Zenon
<1>2. ASSUME NEW u \in Seq(ClientFrames), NEW x \in ClientFrames, u \in P
      PROVE  Append(u, x) \in P
  <2>0. Append(u, x) \in Seq(ClientFrames)
    OBVIOUS
  <2> SUFFICES ASSUME \A i \in DOMAIN Append(u, x) : IsDataCode(Append(u, x)[i].header.code)
               PROVE  TextFrames(Append(u, x)) = Append(u, x)
    BY <2>0, Zenon
  <2>1. IsDataCode(x.header.code) /\ \A i \in DOMAIN u : IsDataCode(u[i].header.code)
    <3>1. /\ DOMAIN Append(u, x) = 1 .. Len(u) + 1 /\ DOMAIN u = 1 .. Len(u) /\ Len(u) \in Nat
          /\ Append(u, x)[Len(u) + 1] = x /\ \A i \in 1 .. Len(u) : Append(u, x)[i] = u[i]
      OBVIOUS
    <3>2. Len(u) + 1 \in 1 .. Len(u) + 1 /\ \A i \in 1 .. Len(u) : i \in 1 .. Len(u) + 1
      BY <3>1
    <3> QED BY <3>1, <3>2, Zenon
  <2>2. TextFrames(u) = u
    BY <1>2, <2>1
  <2>3. /\ u \in Seq(OutEvents) /\ x \in OutEvents /\ <<x>> \in Seq(OutEvents)
        /\ Append(u, x) = u \o <<x>>
    BY AppendIsConcat DEF OutEvents
  <2>4. TextFrames(<<x>>) = <<x>>
    BY <2>1, <2>3, FramesOne, FrameParts DEF TextFrame
  <2>5. TextFrames(u \o <<x>>) = u \o <<x>>
    BY <2>2, <2>3, <2>4, FramesMore
  <2> QED BY <2>3, <2>5
<1> HIDE DEF P
<1>3. Seq(ClientFrames) \subseteq P
  BY <1>1, <1>2, SeqInduction
<1> QED BY <1>3 DEF P

-----------------------------------------------------------------------------
(* Requests *)

\* Lines that are not empty, one after the other.
Lines(T) ==
    /\ T \in Seq(Byte) /\ Len(T) >= 2
    /\ T[1] # 13 /\ T[Len(T) - 1] = 13 /\ T[Len(T)] = 10
    /\ \A p \in 1 .. Len(T) : T[p] = 13 =>
          /\ p < Len(T) /\ T[p + 1] = 10
          /\ p + 2 <= Len(T) => T[p + 2] # 13

\* A word is what a line is made of.
Words == Seq(Byte \ {13})

\* The bytes of a word.
LEMMA WordParts ==
    ASSUME NEW w \in Words
    PROVE  /\ w \in Seq(Byte) /\ Len(w) \in Nat
           /\ \A p \in 1 .. Len(w) : w[p] \in Byte /\ w[p] # 13
<1>1. \A p \in 1 .. Len(w) : w[p] \in Byte \ {13}
  BY DEF Words
<1>2. w \in Seq(Byte) /\ Len(w) \in Nat
  BY DEF Words
<1> QED BY <1>1, <1>2

\* Two words make a word.
LEMMA WordsJoin ==
    ASSUME NEW v \in Words, NEW w \in Words
    PROVE  v \o w \in Words
BY DEF Words

\* A word that is not empty, ended, is a line.
LEMMA OneLine ==
    ASSUME NEW w \in Words, w # <<>>
    PROVE  Lines(w \o END_LINE)
<1> DEFINE T == w \o END_LINE
<1>1. w \in Seq(Byte) /\ Len(w) \in Nat /\ Len(w) >= 1 /\ \A p \in 1 .. Len(w) : w[p] # 13
  <2>1. Len(w) # 0
    BY WordParts, EmptySeq
  <2> QED BY <2>1, WordParts
<1>2. /\ END_LINE \in Seq(Byte) /\ Len(END_LINE) = 2 /\ END_LINE[1] = 13 /\ END_LINE[2] = 10
  BY DEF END_LINE, Byte
<1>3. /\ T \in Seq(Byte) /\ Len(T) = Len(w) + 2
      /\ \A i \in 1 .. Len(w) : T[i] = w[i]
      /\ \A i \in 1 .. Len(END_LINE) : T[Len(w) + i] = END_LINE[i]
  <2>1. w \in Seq(Byte) /\ END_LINE \in Seq(Byte)
    BY <1>1, <1>2
  <2>2. /\ T \in Seq(Byte) /\ Len(T) = Len(w) + Len(END_LINE)
        /\ \A i \in 1 .. Len(w) : T[i] = w[i]
        /\ \A i \in 1 .. Len(END_LINE) : T[Len(w) + i] = END_LINE[i]
    BY <2>1, OneAfterAnother, Zenon
  <2>3. Len(END_LINE) = 2
    BY <1>1, <1>2
  <2> QED BY <2>2, <2>3, Zenon
<1>4. T[Len(w) + 1] = 13 /\ T[Len(w) + 2] = 10
  BY <1>2, <1>3
<1> HIDE DEF T
<1>5. ASSUME NEW p \in 1 .. Len(T), T[p] = 13
      PROVE  p = Len(w) + 1
  <2>1. ~(p \in 1 .. Len(w))
    BY <1>1, <1>3, <1>5
  <2>2. p # Len(w) + 2
    BY <1>4, <1>5
  <2> QED BY <1>1, <1>3, <2>1, <2>2
<1>6. T[1] # 13
  BY <1>1, <1>3
<1>7. Len(T) - 1 = Len(w) + 1
  BY <1>1, <1>3
<1> QED BY <1>1, <1>3, <1>4, <1>5, <1>6, <1>7 DEF Lines, T

\* Lines after lines are lines.
LEMMA MoreLines ==
    ASSUME NEW S, Lines(S), NEW T, Lines(T)
    PROVE  Lines(S \o T)
<1> DEFINE U == S \o T
           n == Len(S)
           m == Len(T)
<1>1. S \in Seq(Byte) /\ T \in Seq(Byte) /\ n \in Nat /\ m \in Nat /\ n >= 2 /\ m >= 2
  BY DEF Lines
<1>2. /\ U \in Seq(Byte) /\ Len(U) = n + m
      /\ \A i \in 1 .. n : U[i] = S[i]
      /\ \A i \in 1 .. m : U[n + i] = T[i]
  BY <1>1, OneAfterAnother
<1>3. /\ S[1] # 13 /\ S[n] = 10
      /\ \A p \in 1 .. n : S[p] = 13 =>
            p < n /\ S[p + 1] = 10 /\ (p + 2 <= n => S[p + 2] # 13)
  BY DEF Lines
<1>4. /\ T[1] # 13 /\ T[m - 1] = 13 /\ T[m] = 10
      /\ \A p \in 1 .. m : T[p] = 13 =>
            p < m /\ T[p + 1] = 10 /\ (p + 2 <= m => T[p + 2] # 13)
  BY DEF Lines
<1> HIDE DEF U, n, m
<1>5. U[1] # 13 /\ U[(n + m) - 1] = 13 /\ U[n + m] = 10
  <2>1. U[1] = S[1]
    BY <1>1, <1>2
  <2>2. U[n + (m - 1)] = T[m - 1] /\ U[n + m] = T[m]
    BY <1>1, <1>2
  <2>3. n + (m - 1) = (n + m) - 1
    BY <1>1
  <2> QED BY <1>3, <1>4, <2>1, <2>2, <2>3
<1>6. ASSUME NEW p \in 1 .. n + m, U[p] = 13
      PROVE  p < n + m /\ U[p + 1] = 10 /\ (p + 2 <= n + m => U[p + 2] # 13)
  <2>1. CASE p <= n
    <3>1. p \in 1 .. n /\ S[p] = 13
      BY <1>1, <1>2, <1>6, <2>1
    <3>2. p < n /\ S[p + 1] = 10 /\ (p + 2 <= n => S[p + 2] # 13)
      BY <1>3, <3>1
    <3>3. U[p + 1] = 10 /\ p < n + m
      BY <1>1, <1>2, <3>1, <3>2
    <3>4. CASE p + 2 <= n
      <4>1. U[p + 2] = S[p + 2]
        BY <1>1, <1>2, <3>1, <3>4
      <4> QED BY <3>2, <3>3, <3>4, <4>1
    <3>5. CASE ~(p + 2 <= n)
      <4>1. p + 2 = n + 1
        BY <1>1, <3>1, <3>2, <3>5
      <4>2. U[n + 1] = T[1]
        BY <1>1, <1>2
      <4> QED BY <1>4, <3>3, <4>1, <4>2
    <3> QED BY <3>4, <3>5
  <2>2. CASE ~(p <= n)
    <3>1. PICK q \in 1 .. m : p = n + q
      <4>1. p - n \in 1 .. m /\ p = n + (p - n)
        BY <1>1, <2>2
      <4> QED BY <4>1
    <3>2. T[q] = 13
      BY <1>2, <1>6, <3>1
    <3>3. q < m /\ T[q + 1] = 10 /\ (q + 2 <= m => T[q + 2] # 13)
      BY <1>4, <3>2
    <3>4. U[n + (q + 1)] = T[q + 1] /\ (q + 2 <= m => U[n + (q + 2)] = T[q + 2])
      BY <1>1, <1>2, <3>3
    <3>5. n + (q + 1) = p + 1 /\ n + (q + 2) = p + 2
      BY <1>1, <3>1
    <3>6. p < n + m /\ (p + 2 <= n + m => q + 2 <= m)
      BY <1>1, <3>1, <3>3
    <3> QED BY <3>3, <3>4, <3>5, <3>6
  <2> QED BY <2>1, <2>2
<1>7. Len(U) >= 2
  BY <1>1, <1>2
<1> QED BY <1>2, <1>5, <1>6, <1>7 DEF Lines, U

\* The head of a text is found where an empty line ends it.
LEMMA HeadIsRequest ==
    ASSUME NEW T, Lines(T)
    PROVE  T \o END_LINE \in Requests
<1> DEFINE r == T \o END_LINE
           n == Len(T)
<1>1. /\ END_LINE \in Seq(Byte) /\ Len(END_LINE) = 2 /\ END_LINE[1] = 13 /\ END_LINE[2] = 10
  BY DEF END_LINE, Byte
<1>2. T \in Seq(Byte) /\ n \in Nat /\ n >= 2
  BY DEF Lines
<1>3. /\ r \in Seq(Byte) /\ Len(r) = n + 2
      /\ \A i \in 1 .. n : r[i] = T[i]
      /\ \A i \in 1 .. Len(END_LINE) : r[n + i] = END_LINE[i]
  <2>1. T \in Seq(Byte) /\ END_LINE \in Seq(Byte)
    BY <1>1, <1>2
  <2>2. /\ r \in Seq(Byte) /\ Len(r) = Len(T) + Len(END_LINE)
        /\ \A i \in 1 .. Len(T) : r[i] = T[i]
        /\ \A i \in 1 .. Len(END_LINE) : r[Len(T) + i] = END_LINE[i]
    BY <2>1, OneAfterAnother, Zenon
  <2>3. Len(END_LINE) = 2
    BY <1>1, <1>2
  <2> QED BY <2>2, <2>3, Zenon
<1>4. /\ T[n - 1] = 13 /\ T[n] = 10
      /\ \A p \in 1 .. n : T[p] = 13 =>
            p < n /\ T[p + 1] = 10 /\ (p + 2 <= n => T[p + 2] # 13)
  BY DEF Lines
<1>5. HeadEnd = <<13, 10, 13, 10>> /\ Len(HeadEnd) = 4
  <2>1. ASSUME NEW u, NEW v, u = <<13, 10>>, v = <<13, 10>>
        PROVE  u \o v = <<13, 10, 13, 10>>
    <3>1. u \in Seq(Byte) /\ v \in Seq(Byte) /\ Len(u) = 2 /\ Len(v) = 2
      BY <2>1 DEF Byte
    <3>2. /\ u \o v \in Seq(Byte) /\ Len(u \o v) = 4
          /\ (u \o v)[1] = u[1] /\ (u \o v)[2] = u[2]
          /\ (u \o v)[3] = v[1] /\ (u \o v)[4] = v[2]
      <4>1. /\ u \o v \in Seq(Byte) /\ Len(u \o v) = Len(u) + Len(v)
            /\ \A i \in 1 .. Len(u) : (u \o v)[i] = u[i]
            /\ \A i \in 1 .. Len(v) : (u \o v)[Len(u) + i] = v[i]
        BY <3>1, OneAfterAnother, Zenon
      <4>2. (u \o v)[2 + 1] = v[1] /\ (u \o v)[2 + 2] = v[2]
        BY <3>1, <4>1
      <4> QED BY <3>1, <4>1, <4>2
    <3>3. \A s \in Seq(Byte) : Len(s) = 4 /\ s[1] = 13 /\ s[2] = 10 /\ s[3] = 13 /\ s[4] = 10
                                  => s = <<13, 10, 13, 10>>
      OBVIOUS
    <3> QED BY <2>1, <3>2, <3>3
  <2>2. HeadEnd = <<13, 10, 13, 10>>
    BY <2>1, Zenon DEF HeadEnd, END_LINE
  <2> QED BY <2>2
<1> HIDE DEF r, n
<1>6. n - 1 \in Finds(r, HeadEnd)
  <2>1. n - 1 \in 1 .. Len(r) - Len(HeadEnd) + 1
    BY <1>2, <1>3, <1>5
  <2>2. r[n - 1] = 13 /\ r[n] = 10 /\ r[n + 1] = 13 /\ r[n + 2] = 10
    BY <1>1, <1>2, <1>3, <1>4
  <2>3. SubSeq(r, n - 1, (n - 1) + 4 - 1) = <<13, 10, 13, 10>>
    <3>1. (n - 1) + 4 - 1 = n + 2
      BY <1>2
    <3>2. \A k \in 1 .. 4 : SubSeq(r, n - 1, n + 2)[k] = r[(n - 1) + k - 1]
      BY <1>2, <1>3
    <3>3. Len(SubSeq(r, n - 1, n + 2)) = 4 /\ SubSeq(r, n - 1, n + 2) \in Seq(Byte)
      BY <1>2, <1>3
    <3>4. /\ SubSeq(r, n - 1, n + 2)[1] = 13 /\ SubSeq(r, n - 1, n + 2)[2] = 10
          /\ SubSeq(r, n - 1, n + 2)[3] = 13 /\ SubSeq(r, n - 1, n + 2)[4] = 10
      BY <1>2, <2>2, <3>2
    <3> HIDE DEF n
    <3>5. \A s \in Seq(Byte) : Len(s) = 4 /\ s[1] = 13 /\ s[2] = 10 /\ s[3] = 13 /\ s[4] = 10
                                  => s = <<13, 10, 13, 10>>
      OBVIOUS
    <3> QED BY <3>1, <3>3, <3>4, <3>5
  <2> QED BY <1>5, <2>1, <2>3 DEF Finds
<1>7. ASSUME NEW i \in Finds(r, HeadEnd)
      PROVE  i = n - 1
  <2>1. i \in 1 .. n - 1 /\ SubSeq(r, i, i + 3) = <<13, 10, 13, 10>>
    <3>1. i \in 1 .. Len(r) - Len(HeadEnd) + 1 /\ SubSeq(r, i, i + Len(HeadEnd) - 1) = HeadEnd
      BY DEF Finds
    <3>2. i \in 1 .. n - 1 /\ i + Len(HeadEnd) - 1 = i + 3
      BY <1>2, <1>3, <1>5, <3>1
    <3> QED BY <1>5, <3>1, <3>2
  <2>2. r[i] = 13 /\ r[i + 2] = 13
    <3>1. SubSeq(r, i, i + 3)[1] = r[i] /\ SubSeq(r, i, i + 3)[3] = r[i + 2]
      BY <1>2, <1>3, <2>1
    <3>2. <<13, 10, 13, 10>>[1] = 13 /\ <<13, 10, 13, 10>>[3] = 13
      OBVIOUS
    <3> QED BY <2>1, <3>1, <3>2, Zenon
  <2>3. T[i] = 13 /\ i \in 1 .. n
    BY <1>2, <1>3, <2>1, <2>2
  <2>4. CASE i + 2 <= n
    <3>1. T[i + 2] # 13 /\ r[i + 2] = T[i + 2]
      BY <1>2, <1>3, <1>4, <2>3, <2>4
    <3> QED BY <2>2, <3>1
  <2>5. CASE ~(i + 2 <= n)
    BY <1>2, <2>1, <2>5
  <2> QED BY <2>4, <2>5
<1>8. Finds(r, HeadEnd) = {n - 1}
  BY <1>6, <1>7
<1>9. Min(Finds(r, HeadEnd)) = n - 1
  BY <1>2, <1>8 DEF Min
<1>10. Finds(r, HeadEnd) # {} /\ Min(Finds(r, HeadEnd)) + 3 = Len(r)
  BY <1>2, <1>3, <1>8, <1>9
<1> QED BY <1>3, <1>10, Zenon DEF Requests, r

\* Two sequences of one.
LEMMA TwoInOrder ==
    ASSUME NEW a, NEW b
    PROVE  <<a>> \o <<b>> = <<a, b>>
<1>1. <<a>> \in Seq({a, b}) /\ b \in {a, b}
  OBVIOUS
<1>2. Append(<<a>>, b) = <<a>> \o <<b>>
  BY <1>1, AppendIsConcat
<1>3. Append(<<a>>, b) = <<a, b>>
  <2>1. /\ Append(<<a>>, b) \in Seq({a, b}) /\ Len(Append(<<a>>, b)) = 2
        /\ Append(<<a>>, b)[1] = a /\ Append(<<a>>, b)[2] = b
    BY <1>1
  <2>2. \A s \in Seq({a, b}) : Len(s) = 2 /\ s[1] = a /\ s[2] = b => s = <<a, b>>
    OBVIOUS
  <2> QED BY <2>1, <2>2, Zenon
<1> QED BY <1>2, <1>3

\* The names, joined, hold no end of a line.
LEMMA JoinedWord ==
    ASSUME NEW names \in Seq(Words)
    PROVE  Joined(names) \in Words
<1> DEFINE s == [i \in DOMAIN names |-> names[i] \o <<COMMA, SP>>]
           value == FlattenSeq(s)
<1>1. <<COMMA, SP>> \in Words
  BY DEF Words, COMMA, SP, Byte
<1>2. \A i \in DOMAIN names : names[i] \o <<COMMA, SP>> \in Words
  <2>1. \A i \in DOMAIN names : names[i] \in Words
    OBVIOUS
  <2> QED BY <1>1, <2>1, WordsJoin
<1>3. s \in Seq(Words)
  <2>1. DOMAIN names = 1 .. Len(names) /\ Len(names) \in Nat
    OBVIOUS
  <2> QED BY <1>2, <2>1
<1> HIDE DEF s
<1>4. value \in Words
  BY <1>3, FlattenType DEF Words
<1> HIDE DEF value
<1>5. SubSeq(value, 1, Len(value) - 2) \in Words
  <2>1. value \in Seq(Byte \ {13}) /\ Len(value) \in Nat
    BY <1>4 DEF Words
  <2>2. \A i \in 1 .. Len(value) - 2 : value[i] \in Byte \ {13}
    BY <2>1
  <2> QED BY <2>1, <2>2 DEF Words
<1> QED BY <1>5 DEF Joined, value, s

\* A header is a line.
LEMMA HeaderIsLine ==
    ASSUME NEW name \in Words, NEW value \in Words
    PROVE  Lines(HeaderLine(name, value)) /\ HeaderLine(name, value) \in Seq(Byte)
<1> DEFINE w == (name \o <<COLON, SP>>) \o value
<1>1. <<COLON, SP>> \in Words /\ Len(<<COLON, SP>>) = 2
  BY DEF Words, COLON, SP, Byte
<1>2. name \o <<COLON, SP>> \in Words
  BY <1>1, WordsJoin
<1>3. w \in Words
  BY <1>2, WordsJoin
<1>4. w # <<>>
  <2>1. name \in Seq(Byte) /\ <<COLON, SP>> \in Seq(Byte) /\ value \in Seq(Byte)
    BY <1>1, WordParts
  <2>2. Len(w) = (Len(name) + 2) + Len(value)
    BY <1>1, <2>1
  <2> QED BY <2>1, <2>2
<1>5. HeaderLine(name, value) = w \o END_LINE
  BY DEF HeaderLine
<1> HIDE DEF w
<1>6. Lines(w \o END_LINE)
  BY <1>3, <1>4, OneLine
<1> QED BY <1>5, <1>6 DEF Lines

\* The lines of one header or of two.
LEMMA HeaderLines ==
    ASSUME NEW L1, Lines(L1), NEW L2, Lines(L2)
    PROVE  Lines(FlattenSeq(<<L1>>)) /\ Lines(FlattenSeq(<<L1, L2>>))
<1>1. L1 \in Seq(Byte) /\ L2 \in Seq(Byte)
  BY DEF Lines
<1>2. FlattenSeq(<<L1>>) = L1
  BY <1>1, FlattenOne
<1>3. FlattenSeq(<<L1, L2>>) = L1 \o L2
  <2>1. <<L1, L2>> = Append(<<L1>>, L2) /\ <<L1>> \in Seq(Seq(Byte))
    BY <1>1
  <2>2. FlattenSeq(Append(<<L1>>, L2)) = FlattenSeq(<<L1>>) \o L2
    BY <1>1, <2>1, FlattenAppend
  <2> QED BY <1>2, <2>1, <2>2
<1>4. Lines(L1 \o L2)
  BY MoreLines
<1> QED BY <1>2, <1>3, <1>4

\* The request of one header or of two.
LEMMA RequestOfLines ==
    ASSUME NEW headers,
           Lines(FlattenSeq([i \in DOMAIN headers |-> HeaderLine(headers[i][1], headers[i][2])]))
    PROVE  RequestBytes(<<47>>, headers) \in Requests
<1> DEFINE F == FlattenSeq([i \in DOMAIN headers |-> HeaderLine(headers[i][1], headers[i][2])])
           w == (((GET \o <<SP>>) \o <<47>>) \o <<SP>>) \o HTTP
<1>1. GET \in Words /\ <<SP>> \in Words /\ <<47>> \in Words /\ HTTP \in Words
  BY DEF GET, SP, HTTP, Words, Byte
<1>2. GET \o <<SP>> \in Words
  BY <1>1, WordsJoin
<1>3. (GET \o <<SP>>) \o <<47>> \in Words
  BY <1>1, <1>2, WordsJoin
<1>4. ((GET \o <<SP>>) \o <<47>>) \o <<SP>> \in Words
  BY <1>1, <1>3, WordsJoin
<1>5. w \in Words
  BY <1>1, <1>4, WordsJoin
<1>6. w # <<>>
  <2>1. (((GET \o <<SP>>) \o <<47>>) \o <<SP>>) \in Seq(Byte) /\ HTTP \in Seq(Byte) /\ Len(HTTP) = 1
    BY <1>1, <1>4, WordParts DEF HTTP
  <2>2. Len(w) = Len(((GET \o <<SP>>) \o <<47>>) \o <<SP>>) + 1
    <3>1. \A u \in Seq(Byte) : \A v \in Seq(Byte) : Len(u \o v) = Len(u) + Len(v)
      OBVIOUS
    <3>2. Len(w) = Len(((GET \o <<SP>>) \o <<47>>) \o <<SP>>) + Len(HTTP)
      BY <2>1, <3>1, Zenon
    <3> QED BY <2>1, <3>2
  <2> QED BY <2>1, <2>2
<1>7. RequestBytes(<<47>>, headers) = ((w \o END_LINE) \o F) \o END_LINE
  BY DEF RequestBytes
<1> HIDE DEF w, F
<1>8. Lines(w \o END_LINE)
  BY <1>5, <1>6, OneLine
<1>9. Lines((w \o END_LINE) \o F)
  <2>1. Lines(F)
    BY DEF F
  <2> QED BY <1>8, <2>1, MoreLines
<1> QED BY <1>7, <1>9, HeadIsRequest

\* The request that start_init writes ends where its head ends.
LEMMA StartRequest ==
    ASSUME case \in Cases, NEW headers \in {Headers, Reverse(Headers)}
    PROVE  [request |-> RequestBytes(<<47>>, headers)] \in [request : Requests]
<1> DEFINE line(h) == HeaderLine(h[1], h[2])
           key_header == <<KEY, key>>
           names == case.protocols[1]
           its_header == <<PROTOCOL, Joined(names)>>
<1>1. Lines(line(key_header))
  <2>1. KEY \in Words /\ key \in Words
    BY DEF KEY, key, Words, Byte
  <2> QED BY <2>1, HeaderIsLine
<1>2. case.protocols # <<>> => Lines(line(its_header))
  <2> SUFFICES ASSUME case.protocols # <<>> PROVE Lines(line(its_header))
    OBVIOUS
  <2>1. case \in Case
    BY WireAssumption
  <2>2. case.protocols \in Seq(Seq(Seq(Byte \ {13, 10})))
    BY <2>1 DEF Case
  <2>3. names \in Seq(Seq(Byte \ {13, 10}))
    BY <2>2
  <2>4. names \in Seq(Words)
    <3>1. \A i \in DOMAIN names : names[i] \in Seq(Byte \ {13, 10})
      BY <2>3
    <3>2. \A w \in Seq(Byte \ {13, 10}) : w \in Words
      BY DEF Words
    <3>3. DOMAIN names = 1 .. Len(names) /\ Len(names) \in Nat /\ names = [i \in 1 .. Len(names) |-> names[i]]
      BY <2>3
    <3>4. \A i \in 1 .. Len(names) : names[i] \in Words
      BY <3>1, <3>2, <3>3
    <3> HIDE DEF names
    <3> QED BY <3>3, <3>4
  <2>5. PROTOCOL \in Words
    BY DEF PROTOCOL, Words, Byte
  <2> HIDE DEF names
  <2>6. Joined(names) \in Words
    BY <2>4, JoinedWord
  <2> QED BY <2>5, <2>6, HeaderIsLine
<1>3. Lines(FlattenSeq([i \in DOMAIN headers |-> HeaderLine(headers[i][1], headers[i][2])]))
  <2>1. CASE case.protocols = <<>>
    <3>1. Headers = <<key_header>>
      <4>1. Headers = <<key_header>> \o <<>>
        BY <2>1 DEF Headers
      <4> QED BY <4>1
    <3>2. headers = <<key_header>>
      <4>1. Reverse(<<key_header>>) = <<key_header>>
        BY DEF Reverse
      <4> QED BY <3>1, <4>1
    <3> HIDE DEF key_header
    <3>3. [i \in DOMAIN headers |-> HeaderLine(headers[i][1], headers[i][2])] = <<line(key_header)>>
      BY <3>2
    <3> HIDE DEF line
    <3> QED BY <1>1, <3>3, HeaderLines
  <2>2. CASE case.protocols # <<>>
    <3>1. Headers = <<key_header, its_header>>
      <4>1. Headers = <<key_header>> \o <<its_header>>
        BY <2>2 DEF Headers
      <4> HIDE DEF key_header, its_header
      <4>2. <<key_header>> \o <<its_header>> = <<key_header, its_header>>
        BY TwoInOrder
      <4> QED BY <4>1, <4>2, Zenon
    <3> HIDE DEF key_header, its_header
    <3>2. headers = <<key_header, its_header>> \/ headers = <<its_header, key_header>>
      <4>1. Reverse(<<key_header, its_header>>) = <<its_header, key_header>>
        BY DEF Reverse
      <4> QED BY <3>1, <4>1
    <3>3. \/ [i \in DOMAIN headers |-> HeaderLine(headers[i][1], headers[i][2])]
               = <<line(key_header), line(its_header)>>
          \/ [i \in DOMAIN headers |-> HeaderLine(headers[i][1], headers[i][2])]
               = <<line(its_header), line(key_header)>>
      BY <3>2
    <3>4. Lines(line(its_header)) /\ Lines(line(key_header))
      BY <1>1, <1>2, <2>2
    <3> HIDE DEF line
    <3> QED BY <3>3, <3>4, HeaderLines
  <2> QED BY <2>1, <2>2
<1>4. RequestBytes(<<47>>, headers) \in Requests
  BY <1>3, RequestOfLines
<1> QED BY <1>4

-----------------------------------------------------------------------------
(* What is found in bytes *)

\* Which bytes bytes_to_frame looks at.
Short(b)   == b[2] % 128
Start(b)   == payload_at(Short(b))
Length(b)  == payload_len(b, Short(b))
CodeOf(b)  == b[1] % 32
FlagOf(b)  == b[1] - (b[1] % 16)

\* The frame bytes_to_frame makes of the bytes at the front.
FrameAt(b) ==
    IF IsDataCode(CodeOf(b))
    THEN DataFrame(FlagOf(b), CodeOf(b), SubSeq(b, Start(b) + 1, Start(b) + Length(b)), <<>>)
    ELSE ControlFrame(FlagOf(b), CodeOf(b), SubSeq(b, Start(b) + 1, Start(b) + 2),
                      SubSeq(b, Start(b) + 3, Length(b) + 2), <<>>)

\* When there are bytes enough for it, and its code is known.
HasFrame(b) ==
    /\ Len(b) >= 2 /\ CodeOf(b) \in Opcodes /\ Len(b) >= Start(b)
    /\ Length(b) + Start(b) <= Len(b)
    /\ ~IsDataCode(CodeOf(b)) => Length(b) >= 2

\* Where its length and its payload begin.
LEMMA FramePlaces ==
    ASSUME NEW b \in Seq(Byte), Len(b) >= 2
    PROVE  /\ Short(b) \in 0 .. 127 /\ Start(b) \in {2, 4, 10}
           /\ FlagOf(b) \in Nat
           /\ Len(b) >= Start(b) => Length(b) \in Nat
<1>1. b[1] \in Byte /\ b[2] \in Byte
  OBVIOUS
<1>2. Short(b) \in 0 .. 127 /\ FlagOf(b) \in Nat
  <2>1. \A a \in 0 .. 255 : a % 128 \in 0 .. 127 /\ a - (a % 16) \in Nat
    BY SMT
  <2> QED BY <1>1, <2>1, Zenon DEF Short, FlagOf, Byte
<1>3. CASE Short(b) = 126
  <2>1. Start(b) = 4 /\ Length(b) = bytes_to_u16(SubSeq(b, 3, 4))
    BY <1>3 DEF Start, Length, payload_at, payload_len
  <2>2. Len(b) >= 4 => bytes_to_u16(SubSeq(b, 3, 4)) \in Nat
    <3> SUFFICES ASSUME Len(b) >= 4 PROVE bytes_to_u16(SubSeq(b, 3, 4)) \in Nat
      OBVIOUS
    <3>1. SubSeq(b, 3, 4)[1] \in 0 .. 255 /\ SubSeq(b, 3, 4)[2] \in 0 .. 255
      <4>1. \A k \in 1 .. 2 : SubSeq(b, 2 + 1, 2 + 2)[k] = b[2 + k]
        BY Piece
      <4>2. b[3] \in Byte /\ b[4] \in Byte
        OBVIOUS
      <4> QED BY <4>1, <4>2 DEF Byte
    <3>2. \A p, q \in 0 .. 255 : 256 * p + q \in Nat
      BY SMT
    <3> QED BY <3>1, <3>2, Zenon DEF bytes_to_u16
  <2> QED BY <1>2, <2>1, <2>2
<1>4. CASE Short(b) = 127
  <2>1. Start(b) = 10 /\ Length(b) = bytes_to_u64(SubSeq(b, 3, 10))
    BY <1>4 DEF Start, Length, payload_at, payload_len
  <2>2. Len(b) >= 10 => bytes_to_u64(SubSeq(b, 3, 10)) \in Nat
    <3> SUFFICES ASSUME Len(b) >= 10 PROVE bytes_to_u64(SubSeq(b, 3, 10)) \in Nat
      OBVIOUS
    <3>1. \A k \in 1 .. 8 : SubSeq(b, 3, 10)[k] \in 0 .. 255
      <4>1. \A k \in 1 .. 8 : SubSeq(b, 2 + 1, 2 + 8)[k] = b[2 + k]
        BY Piece
      <4>2. \A k \in 1 .. 8 : b[2 + k] \in Byte
        OBVIOUS
      <4>3. 2 + 1 = 3 /\ 2 + 8 = 10
        OBVIOUS
      <4> QED BY <4>1, <4>2, <4>3, Zenon DEF Byte
    <3>2. /\ SubSeq(b, 3, 10)[1] \in 0 .. 255 /\ SubSeq(b, 3, 10)[2] \in 0 .. 255
          /\ SubSeq(b, 3, 10)[3] \in 0 .. 255 /\ SubSeq(b, 3, 10)[4] \in 0 .. 255
          /\ SubSeq(b, 3, 10)[5] \in 0 .. 255 /\ SubSeq(b, 3, 10)[6] \in 0 .. 255
          /\ SubSeq(b, 3, 10)[7] \in 0 .. 255 /\ SubSeq(b, 3, 10)[8] \in 0 .. 255
      BY <3>1
    <3> DEFINE c == SubSeq(b, 3, 10)
    <3> HIDE DEF c
    <3>3. /\ c[1] \in 0 .. 255 /\ c[2] \in 0 .. 255 /\ c[3] \in 0 .. 255 /\ c[4] \in 0 .. 255
          /\ c[5] \in 0 .. 255 /\ c[6] \in 0 .. 255 /\ c[7] \in 0 .. 255 /\ c[8] \in 0 .. 255
      BY <3>2 DEF c
    <3>4. bytes_to_u64(c) \in Nat
      <4>1. bytes_to_u64(c) =
               65536 * (65536 * (65536 * (256 * c[1] + c[2]) + (256 * c[3] + c[4]))
                          + (256 * c[5] + c[6])) + (256 * c[7] + c[8])
        BY DEF bytes_to_u64
      <4>2. \A p, q \in 0 .. 255 : 256 * p + q \in Nat
        BY SMT
      <4>3. /\ 256 * c[1] + c[2] \in Nat /\ 256 * c[3] + c[4] \in Nat
            /\ 256 * c[5] + c[6] \in Nat /\ 256 * c[7] + c[8] \in Nat
        BY <3>3, <4>2, Zenon
      <4>4. \A p, q, r, t \in Nat : 65536 * (65536 * (65536 * p + q) + r) + t \in Nat
        BY SMT
      <4>5. PICK p, q, r, t \in Nat : /\ p = 256 * c[1] + c[2] /\ q = 256 * c[3] + c[4]
                                      /\ r = 256 * c[5] + c[6] /\ t = 256 * c[7] + c[8]
        BY <4>3, Zenon
      <4>6. bytes_to_u64(c) = 65536 * (65536 * (65536 * p + q) + r) + t
        BY <4>1, <4>5
      <4> QED BY <4>4, <4>6
    <3> QED BY <3>4 DEF c
  <2> QED BY <1>2, <2>1, <2>2
<1>5. CASE Short(b) \notin {126, 127}
  <2>1. Start(b) = 2 /\ Length(b) = Short(b)
    BY <1>5 DEF Start, Length, payload_at, payload_len
  <2>2. Short(b) \in Nat
    <3>1. \A n \in 0 .. 127 : n \in Nat
      OBVIOUS
    <3> QED BY <1>2, <3>1, Zenon
  <2> QED BY <1>2, <2>1, <2>2
<1> QED BY <1>3, <1>4, <1>5

\* A frame is found where there is one.
LEMMA FrameFound ==
    ASSUME NEW b \in Seq(Byte)
    PROVE  /\ bytes_to_frame(b).kind \in {"none", "InvalidFrame", "panic", "frame"}
           /\ bytes_to_frame(b).kind = "frame"
                => HasFrame(b) /\ bytes_to_frame(b) = Frame(FrameAt(b), Start(b) + Length(b))
<1>1. bytes_to_frame(b) =
         IF Len(b) < 2 THEN Incomplete
         ELSE IF CodeOf(b) \notin Opcodes THEN Refused
         ELSE IF Len(b) < Start(b) \/ overflows(b, Short(b)) THEN OutOfBounds
         ELSE IF Length(b) + Start(b) > Len(b) THEN Incomplete
         ELSE IF IsDataCode(CodeOf(b))
              THEN Frame(DataFrame(FlagOf(b), CodeOf(b),
                            SubSeq(b, Start(b) + 1, Start(b) + Length(b)), <<>>),
                         Start(b) + Length(b))
         ELSE IF Length(b) < Start(b) THEN OutOfBounds
         ELSE Frame(ControlFrame(FlagOf(b), CodeOf(b), SubSeq(b, Start(b) + 1, Start(b) + 2),
                            SubSeq(b, Start(b) + 3, Length(b) + 2), <<>>),
                    Start(b) + Length(b))
  BY DEF bytes_to_frame, Short, Start, Length, CodeOf, FlagOf
<1>2. /\ Incomplete.kind = "none" /\ Refused.kind = "InvalidFrame" /\ OutOfBounds.kind = "panic"
      /\ \A f, n : Frame(f, n).kind = "frame"
  BY DEF Incomplete, Refused, OutOfBounds, Frame
<1>3. CASE \/ Len(b) < 2 \/ CodeOf(b) \notin Opcodes
           \/ Len(b) < Start(b) \/ overflows(b, Short(b))
  <2>1. bytes_to_frame(b) \in {Incomplete, Refused, OutOfBounds}
    BY <1>1, <1>3, Zenon
  <2> QED BY <1>2, <2>1
<1>4. CASE ~(\/ Len(b) < 2 \/ CodeOf(b) \notin Opcodes
             \/ Len(b) < Start(b) \/ overflows(b, Short(b)))
  <2>1. Len(b) >= 2 /\ CodeOf(b) \in Opcodes /\ Len(b) \in Nat
    BY <1>4
  <2>2. Start(b) \in {2, 4, 10} /\ Len(b) >= Start(b)
    BY <1>4, <2>1, FramePlaces
  <2>3. Length(b) \in Nat
    BY <2>1, <2>2, FramePlaces
  <2>4. CASE Length(b) + Start(b) > Len(b) \/ (~IsDataCode(CodeOf(b)) /\ Length(b) < Start(b))
    <3>1. bytes_to_frame(b) \in {Incomplete, OutOfBounds}
      BY <1>1, <1>4, <2>4, Zenon
    <3> QED BY <1>2, <3>1
  <2>5. CASE ~(Length(b) + Start(b) > Len(b) \/ (~IsDataCode(CodeOf(b)) /\ Length(b) < Start(b)))
    <3>1. bytes_to_frame(b) = Frame(FrameAt(b), Start(b) + Length(b))
      BY <1>1, <1>4, <2>5, Zenon DEF FrameAt
    <3>2. /\ Length(b) + Start(b) <= Len(b)
          /\ ~IsDataCode(CodeOf(b)) => Length(b) >= 2
      BY <2>1, <2>2, <2>3, <2>5
    <3>3. HasFrame(b)
      BY <2>1, <2>2, <3>2, Zenon DEF HasFrame
    <3> QED BY <1>2, <3>1, <3>3
  <2> QED BY <2>4, <2>5
<1> QED BY <1>3, <1>4

\* What bytes_to_frame makes of bytes has a code it knows and data cut out of them,
\* of which a control frame has at least two and at most 125.
LEMMA FoundFrame ==
    ASSUME NEW b \in Seq(Byte), bytes_to_frame(b).kind = "frame"
    PROVE  LET found == bytes_to_frame(b)
           IN  /\ found.offset \in 1 .. Len(b)
               /\ found.frame = FrameAt(b)
               /\ found.frame.header.code = CodeOf(b) /\ found.frame.header.flag = FlagOf(b)
               /\ CodeOf(b) \in Opcodes /\ FlagOf(b) \in Nat
               /\ found.frame.data \in Seq(Byte)
               /\ ~IsDataCode(CodeOf(b)) => Len(found.frame.data) \in 2 .. 125
<1> DEFINE found == bytes_to_frame(b)
<1>1. HasFrame(b) /\ found = Frame(FrameAt(b), Start(b) + Length(b))
  BY FrameFound
<1>2. /\ Len(b) >= 2 /\ CodeOf(b) \in Opcodes /\ Len(b) >= Start(b)
      /\ Length(b) + Start(b) <= Len(b) /\ (~IsDataCode(CodeOf(b)) => Length(b) >= 2)
  BY <1>1 DEF HasFrame
<1>3. FlagOf(b) \in Nat /\ Length(b) \in Nat /\ Start(b) \in {2, 4, 10} /\ Len(b) \in Nat
  BY <1>2, FramePlaces
<1>4. found.frame = FrameAt(b) /\ found.offset = Start(b) + Length(b)
  BY <1>1 DEF Frame
<1>5. found.offset \in 1 .. Len(b)
  BY <1>2, <1>3, <1>4
<1>6. CASE IsDataCode(CodeOf(b))
  <2>1. /\ FrameAt(b).header.code = CodeOf(b) /\ FrameAt(b).header.flag = FlagOf(b)
        /\ FrameAt(b).data = SubSeq(b, Start(b) + 1, Start(b) + Length(b))
    BY <1>6 DEF FrameAt, DataFrame, Header
  <2>2. SubSeq(b, Start(b) + 1, Start(b) + Length(b)) \in Seq(Byte)
    <3>1. Start(b) \in Nat /\ Start(b) + Length(b) <= Len(b)
      BY <1>2, <1>3
    <3> QED BY <1>3, <3>1, Piece
  <2> QED BY <1>2, <1>3, <1>4, <1>5, <1>6, <2>1, <2>2, Zenon
<1>7. CASE ~IsDataCode(CodeOf(b))
  <2> DEFINE status == SubSeq(b, Start(b) + 1, Start(b) + 2)
             rest   == SubSeq(b, Start(b) + 3, Length(b) + 2)
             made   == ControlFrame(FlagOf(b), CodeOf(b), status, rest, <<>>)
  <2>1. FrameAt(b) = made
    BY <1>7 DEF FrameAt
  <2>2. status \in Seq(Byte) /\ Len(status) = 2
    <3>1. Start(b) \in Nat /\ 2 \in Nat /\ Start(b) + 2 <= Len(b)
      BY <1>2, <1>3, <1>7
    <3> QED BY <3>1, CutOut, Zenon
  <2>3. rest \in Seq(Byte) /\ Len(rest) \in Nat
    <3>1. Start(b) + 3 \in Nat /\ Start(b) + 3 >= 1 /\ Length(b) + 2 \in Nat /\ Length(b) + 2 <= Len(b)
      BY <1>2, <1>3
    <3>2. \A p, q \in Nat : p >= 1 /\ q <= Len(b) => SubSeq(b, p, q) \in Seq(Byte)
      OBVIOUS
    <3>3. rest \in Seq(Byte)
      BY <3>1, <3>2, Zenon
    <3> QED BY <3>3
  <2> HIDE DEF status, rest
  <2>4. made.header.code = CodeOf(b) /\ made.header.flag = FlagOf(b)
    BY DEF ControlFrame, Header
  <2>5. made.data \in Seq(Byte) /\ Len(made.data) \in 2 .. 125
    <3>1. CASE Len(status) + Len(rest) <= 125
      <4>1. made.data = status \o rest
        BY <3>1 DEF ControlFrame
      <4>2. status \o rest \in Seq(Byte) /\ Len(status \o rest) = Len(status) + Len(rest)
        BY <2>2, <2>3, OneAfterAnother, Zenon
      <4>3. Len(status) + Len(rest) \in 2 .. 125
        <5>1. \A n \in Nat : 2 + n <= 125 => 2 + n \in 2 .. 125
          BY SMT
        <5> QED BY <2>2, <2>3, <3>1, <5>1, Zenon
      <4> QED BY <4>1, <4>2, <4>3, Zenon
    <3>2. CASE ~(Len(status) + Len(rest) <= 125)
      <4>1. made.data = status \o SubSeq(rest, 1, 124 - Len(status))
        BY <3>2 DEF ControlFrame
      <4>2. 124 - Len(status) = 122 /\ 122 <= Len(rest)
        BY <2>2, <2>3, <3>2
      <4>3. SubSeq(rest, 1, 122) \in Seq(Byte) /\ Len(SubSeq(rest, 1, 122)) = 122
        <5>1. PICK n \in Nat : n = 122
          OBVIOUS
        <5>2. 0 \in Nat /\ 0 + n <= Len(rest) /\ 0 + 1 = 1 /\ 0 + n = n
          BY <4>2, <5>1
        <5>3. SubSeq(rest, 0 + 1, 0 + n) \in Seq(Byte) /\ Len(SubSeq(rest, 0 + 1, 0 + n)) = n
          BY <2>3, <5>2, CutOut, Zenon
        <5>4. SubSeq(rest, 1, n) \in Seq(Byte) /\ Len(SubSeq(rest, 1, n)) = n
          BY <5>2, <5>3, Zenon
        <5> QED BY <5>1, <5>4
      <4> DEFINE cut == SubSeq(rest, 1, 122)
      <4>4. made.data = status \o cut
        BY <4>1, <4>2
      <4> HIDE DEF cut, made
      <4>5. cut \in Seq(Byte) /\ Len(cut) = 122
        BY <4>3 DEF cut
      <4>6. status \o cut \in Seq(Byte) /\ Len(status \o cut) = Len(status) + Len(cut)
        BY <2>2, <4>5, OneAfterAnother, Zenon
      <4>7. Len(status) + Len(cut) \in 2 .. 125
        BY <2>2, <4>5
      <4> QED BY <4>4, <4>6, <4>7, Zenon
    <3> QED BY <3>1, <3>2
  <2> HIDE DEF made
  <2> QED BY <1>2, <1>3, <1>4, <1>5, <1>7, <2>1, <2>4, <2>5, Zenon
<1> QED BY <1>6, <1>7

\* The character that begins at the i-th byte, where lossy keeps one.
CharKept(bytes, i) ==
    IF char_at(bytes, i) /\ Char(bytes, i) # Replacement THEN Char(bytes, i) ELSE <<>>

\* The pieces of all bytes, one after the other, are what lossy keeps.
LEMMA LossyIs ==
    ASSUME NEW b \in Seq(Byte)
    PROVE  /\ lossy(b) = FlattenSeq([i \in 1 .. Len(b) |-> CharKept(b, i)])
           /\ [i \in 1 .. Len(b) |-> CharKept(b, i)] \in Seq(Seq(Byte))
<1>1. DOMAIN b = 1 .. Len(b) /\ Len(b) \in Nat
  OBVIOUS
<1>2. lossy(b) = FlattenSeq([i \in DOMAIN b |-> CharKept(b, i)])
  BY Zenon DEF lossy, CharKept
<1>3. ASSUME NEW i \in 1 .. Len(b)
      PROVE  CharKept(b, i) \in Seq(Byte)
  <2>1. <<>> \in Seq(Byte)
    OBVIOUS
  <2>2. ASSUME char_at(b, i)
        PROVE  Char(b, i) \in Seq(Byte)
    <3> DEFINE n == char_len(b[i])
    <3>1. n > 0 /\ i + n - 1 <= Len(b)
      BY <2>2 DEF char_at
    <3>2. n \in Nat
      BY DEF char_len
    <3> HIDE DEF n
    <3>3. SubSeq(b, i, i + n - 1) \in Seq(Byte)
      BY <3>1, <3>2
    <3> QED BY <3>3 DEF Char, n
  <2> QED BY <2>1, <2>2, Zenon DEF CharKept
<1>4. [i \in 1 .. Len(b) |-> CharKept(b, i)] \in Seq(Seq(Byte))
  <2> DEFINE f == [i \in 1 .. Len(b) |-> CharKept(b, i)]
  <2>1. f \in [1 .. Len(b) -> Seq(Byte)]
    BY <1>3, Zenon
  <2> HIDE DEF f
  <2>2. f \in Seq(Seq(Byte))
    BY <1>1, <2>1
  <2> QED BY <2>2 DEF f
<1> QED BY <1>1, <1>2, <1>4, Zenon

\* What lossy keeps is bytes.
LEMMA LossyBytes ==
    ASSUME NEW b \in Seq(Byte)
    PROVE  lossy(b) \in Seq(Byte)
BY LossyIs, FlattenType, Zenon

\* A place where a pattern is found first.
LEMMA FirstFound ==
    ASSUME NEW text \in Seq(Byte), NEW pattern, Len(pattern) \in Nat, Finds(text, pattern) # {}
    PROVE  /\ Min(Finds(text, pattern)) \in Finds(text, pattern)
           /\ Min(Finds(text, pattern)) \in Nat \ {0}
           /\ \A i \in Finds(text, pattern) : Min(Finds(text, pattern)) <= i
<1> DEFINE S == Finds(text, pattern)
<1>1. S \subseteq Nat \ {0}
  BY DEF Finds
<1> HIDE DEF S
<1>2. S \subseteq Nat /\ S # {}
  BY <1>1 DEF S
<1>3. \E x \in S : \A y \in S : x <= y
  BY <1>2, LeastOf, Zenon
<1>4. Min(S) \in S /\ \A y \in S : Min(S) <= y
  BY <1>3 DEF Min
<1> QED BY <1>1, <1>4 DEF S

\* What parse finds has a head.
LEMMA ResponseFound ==
    ASSUME NEW b \in Seq(Byte)
    PROVE  /\ parse(b).kind \in {"none", "panic", "response"}
           /\ parse(b).kind = "response" =>
                 Finds(lossy(b), HeadEnd) # {} /\ parse(b).body \in Seq(Byte)
<1> DEFINE text  == lossy(b)
           ends  == Finds(text, END_LINE \o END_LINE)
           lines == Split(SubSeq(text, 1, Min(ends) - 1), END_LINE)
           info  == Split(lines[1], <<SP>>)
           code  == parse_u16(trim(info[2]))
           heads == [k \in 1 .. Len(lines) - 1 |->
                              <<NameOf(lines[k + 1]), ValueOf(lines[k + 1])>>]
           body  == SubSeq(text, Min(ends) + 4, Len(text))
           bad   == \E k \in 2 .. Len(lines) : Finds(lines[k], <<COLON>>) = {}
           good  == [kind |-> "response", status_code |-> code, headers |-> heads, body |-> body]
<1>1. parse(b) = IF ends = {} THEN ParseError
        ELSE IF Len(info) < 2 THEN BadIndex
        ELSE IF code = -1 THEN ParseError
        ELSE IF Len(info) < 3 THEN BadIndex
        ELSE IF bad THEN ParseError
        ELSE good
  BY DEF parse
<1>2. good.kind = "response" /\ good.body = body
  OBVIOUS
<1>3. ParseError.kind = "none" /\ BadIndex.kind = "panic"
  BY DEF ParseError, BadIndex
<1>4. ends # {} => body \in Seq(Byte)
  <2> SUFFICES ASSUME ends # {} PROVE body \in Seq(Byte)
    OBVIOUS
  <2>1. text \in Seq(Byte)
    BY LossyBytes
  <2>2. Len(END_LINE \o END_LINE) \in Nat
    <3>1. END_LINE \in Seq(Byte)
      BY DEF END_LINE, Byte
    <3> QED BY <3>1
  <2> DEFINE at == Min(ends)
  <2> HIDE DEF text
  <2>3. at \in Nat \ {0}
    BY <2>1, <2>2, FirstFound
  <2> HIDE DEF at
  <2>4. SubSeq(text, at + 4, Len(text)) \in Seq(Byte)
    BY <2>1, <2>3
  <2> QED BY <2>4 DEF at
<1> HIDE DEF ends, info, code, bad, good, body
<1>5. parse(b) = good \/ parse(b) \in {ParseError, BadIndex}
  BY <1>1, Zenon
<1>6. parse(b) = good => parse(b).kind = "response" /\ parse(b).body = body
  BY <1>2, Zenon
<1>7. parse(b) \in {ParseError, BadIndex} => parse(b).kind \in {"none", "panic"}
  BY <1>3, Zenon
<1>8. parse(b).kind = "response" => ends # {}
  <2>1. ends = {} => parse(b) = ParseError
    BY <1>1, Zenon
  <2>2. ParseError.kind # "response"
    BY <1>3
  <2> QED BY <2>1, <2>2, Zenon
<1>9. ends = Finds(lossy(b), HeadEnd)
  BY Zenon DEF ends, text, HeadEnd
<1>10. parse(b).kind = "response" => parse(b) = good
  BY <1>5, <1>7
<1>11. parse(b).kind \in {"none", "panic", "response"}
  BY <1>5, <1>6, <1>7
<1> QED BY <1>4, <1>6, <1>8, <1>9, <1>10, <1>11, Zenon

-----------------------------------------------------------------------------
(* The types of the conversation *)

\* What the server may read.
Readings == {Reading(f) : f \in ClientFrames}

\* What the client may report.
Heards == [kind : {"ON_CONNECT", "ON_TEXT", "SERVER_CLOSE"}, bytes : Seq(Byte)]

\* The types of what moves, each as narrow as the steps keep it.
WireTypes ==
    /\ SInv
    /\ case \in Cases /\ payload = case.payload
    /\ connection_status \in Active \cup {"START_INIT", "CLOSE"}
    /\ result \in {"Ok", "HandShake", "InvalidFrame", "DecodingFromUTF8"}
    /\ recv_storage \in Seq(Byte) /\ recv_data \in Seq(Byte) /\ to_client \in Seq(Byte)
    /\ to_server \in Seq(Byte)
    /\ written \in Seq(OutEvents) /\ output_events \in Seq(OutEvents)
    /\ offered = <<>> \/ \E names : offered = <<names>>
    /\ srv_in \in Seq(Readings)
    /\ events \in Seq(Heards)

\* The types of a case.
LEMMA CaseParts ==
    ASSUME case \in Cases
    PROVE  /\ case.payload \in Payloads /\ case.response \in Seq(Byte)
           /\ case.frames \in Seq([flag : {16 * k : k \in 0 .. 15}, code : 0 .. 15, data : Seq(Byte)])
           /\ \A i \in DOMAIN case.frames : Len(case.frames[i].data) <= Longest
<1>1. case \in Case
  BY WireAssumption
<1>2. \A i \in DOMAIN case.frames : Len(case.frames[i].data) <= Longest
  BY WireAssumption DEF Longest
<1> QED BY <1>1, <1>2 DEF Case

\* No text is longer than the longest payload.
LEMMA ShortTexts == \A text \in Payloads : Len(text) <= Longest
BY WireAssumption DEF Longest

\* The frames of send, as they are here.
LEMMA FramesOfSend ==
    ASSUME SInv
    PROVE  /\ frames \in Seq(ClientFrames) /\ frames \in Seq(OutEvents)
           /\ TextFrames(frames) = frames
           /\ \A i \in DOMAIN frames : is_websocket_data(frames[i]) /\ IsDataCode(frames[i].header.code)
<1>1. frames \in Seq(ClientFrames) /\ \A i \in DOMAIN frames : IsDataCode(frames[i].header.code)
  BY SendFrames, ShortTexts DEF SInv
<1>2. TextFrames(frames) = frames
  BY <1>1, AllFrames
<1>3. frames \in Seq(OutEvents)
  <2>1. \A S, T : \A s \in Seq(S) : S \subseteq T => s \in Seq(T)
    OBVIOUS
  <2>2. ClientFrames \subseteq OutEvents
    BY DEF OutEvents
  <2> QED BY <1>1, <2>1, <2>2, Zenon
<1>4. \A i \in DOMAIN frames : is_websocket_data(frames[i])
  <2>1. \A S : \A s \in Seq(S) : \A k \in DOMAIN s : s[k] \in S
    OBVIOUS
  <2> QED BY <1>1, <2>1, FrameParts, Zenon
<1> QED BY <1>1, <1>2, <1>3, <1>4

\* An event is a frame or the request.
LEMMA OutEventKind ==
    ASSUME NEW e \in OutEvents
    PROVE  /\ is_websocket_data(e) => e \in ClientFrames /\ BytesOf(e) = serialize(e)
           /\ ~is_websocket_data(e) => e \in [request : Requests] /\ BytesOf(e) = e.request
<1>1. CASE e \in ClientFrames
  BY <1>1, FrameParts
<1>2. CASE e \in [request : Requests]
  BY <1>2, RequestEvent
<1> QED BY <1>1, <1>2 DEF OutEvents

\* What is popped and what is left are output_events.
LEMMA PoppedParts ==
    ASSUME output_events \in Seq(OutEvents)
    PROVE  /\ Popped \in Seq(OutEvents) /\ Left \in Seq(OutEvents)
           /\ Popped \o Left = output_events
           /\ Popped = <<>> => Left = output_events
           /\ Popped # <<>> =>
                 /\ output_events # <<>> /\ Popped = <<output_events[1]>>
                 /\ output_events[1] \in OutEvents
                 /\ Left = Tail(output_events)
           /\ Sent(Popped) = IF Popped = <<>> THEN <<>> ELSE BytesOf(Popped[1])
<1>1. CASE Popped = <<>>
  <2>1. Left = output_events
    BY <1>1 DEF Left
  <2>2. Sent(Popped) = <<>>
    BY <1>1, FlattenNone DEF Sent
  <2>3. <<>> \in Seq(OutEvents) /\ <<>> \o output_events = output_events
    BY ConcatEmptySeq
  <2> QED BY <1>1, <2>1, <2>2, <2>3
<1>2. CASE Popped # <<>>
  <2>1. output_events # <<>> /\ Popped = <<Head(output_events)>>
    BY <1>2, Zenon DEF Popped
  <2>2. Head(output_events) = output_events[1] /\ output_events[1] \in OutEvents
    BY <2>1
  <2>3. Popped = <<output_events[1]>> /\ Len(Popped) = 1
    BY <2>1, <2>2
  <2>4. Left = SubSeq(output_events, 2, Len(output_events))
    BY <2>3 DEF Left
  <2>5. Left = Tail(output_events) /\ Left \in Seq(OutEvents)
    BY <2>1, <2>4
  <2>6. <<output_events[1]>> \o Tail(output_events) = output_events
    BY <2>1, HeadTailAppend, <2>2
  <2>7. Sent(<<output_events[1]>>) = BytesOf(output_events[1])
    BY <2>2, SentOne
  <2>8. <<output_events[1]>> \in Seq(OutEvents) /\ <<output_events[1]>>[1] = output_events[1]
    BY <2>2
  <2> QED BY <1>2, <2>1, <2>2, <2>3, <2>5, <2>6, <2>7, <2>8, Zenon
<1> QED BY <1>1, <1>2

-----------------------------------------------------------------------------
(* One turn of event_loop *)

\* What is there to read when n bytes have come.
Arrived(n) == recv_storage \o SubSeq(to_client, 1, n)

\* The n bytes read are behind those kept.
LEMMA ReadPieces ==
    ASSUME recv_storage \in Seq(Byte), to_client \in Seq(Byte), NEW n \in 0 .. Len(to_client)
    PROVE  /\ Arrived(n) \in Seq(Byte)
           /\ SubSeq(to_client, n + 1, Len(to_client)) \in Seq(Byte)
           /\ Arrived(n) \o SubSeq(to_client, n + 1, Len(to_client)) = recv_storage \o to_client
<1> DEFINE a == SubSeq(to_client, 1, n)
           z == SubSeq(to_client, n + 1, Len(to_client))
<1>1. a \in Seq(Byte) /\ z \in Seq(Byte) /\ a \o z = to_client
  <2>1. a \in Seq(Byte) /\ z \in Seq(Byte) /\ Len(to_client) \in Nat
    OBVIOUS
  <2>2. to_client = SubSeq(to_client, 1, Len(to_client))
    OBVIOUS
  <2>3. Len(a) = n /\ Len(z) = Len(to_client) - n
    OBVIOUS
  <2>4. a \o z \in Seq(Byte) /\ Len(a \o z) = Len(to_client)
    <3> HIDE DEF a, z
    <3>1. a \o z \in Seq(Byte) /\ Len(a \o z) = Len(a) + Len(z)
      BY <2>1, OneAfterAnother, Zenon
    <3>2. Len(a) + Len(z) = Len(to_client)
      BY <2>1, <2>3
    <3> QED BY <3>1, <3>2, Zenon
  <2>5. ASSUME NEW i \in 1 .. Len(to_client)
        PROVE  (a \o z)[i] = to_client[i]
    <3>1. /\ i <= n => a[i] = to_client[i]
          /\ ~(i <= n) => z[i - n] = to_client[i]
      OBVIOUS
    <3>2. (a \o z)[i] = IF i <= Len(a) THEN a[i] ELSE z[i - Len(a)]
      <4>1. i \in 1 .. Len(a) + Len(z)
        <5>1. Len(a) + Len(z) = Len(to_client)
          <6> HIDE DEF a, z
          <6> QED BY <2>1, <2>3
        <5> QED BY <5>1, Zenon
      <4> HIDE DEF a, z
      <4> QED BY <2>1, <4>1, ConcatProperties
    <3> QED BY <2>3, <3>1, <3>2
  <2> HIDE DEF a, z
  <2> QED BY <2>1, <2>4, <2>5, SeqEqual
<1> HIDE DEF a, z
<1>2. (recv_storage \o a) \o z = recv_storage \o (a \o z)
  <2>1. \A x, y, w \in Seq(Byte) : (x \o y) \o w = x \o (y \o w)
    BY ConcatAssociative
  <2> QED BY <1>1, <2>1, Zenon
<1>3. recv_storage \o a \in Seq(Byte)
  BY <1>1
<1> QED BY <1>1, <1>2, <1>3 DEF Arrived, a, z

\* Nothing is taken out of what arrived.
Unread(storage) ==
    /\ recv_storage' = storage /\ UNCHANGED <<recv_data, protocol>>
    /\ \/ Output(connection_status, Left, events)
       \/ Panics
       \/ Fails("InvalidFrame", output_events)

\* The response is taken.
Opens(storage) ==
    /\ connection_status = "HANDSHAKE" /\ storage # <<>> /\ parse(storage).kind = "response"
    /\ recv_storage' = <<>> /\ handle_recv_http_response(parse(storage))

\* A frame is taken.
Takes(storage) ==
    /\ connection_status # "HANDSHAKE" /\ storage # <<>> /\ bytes_to_frame(storage).kind = "frame"
    /\ recv_storage' = Drained(storage, bytes_to_frame(storage).offset)
    /\ handle_recv_frame(bytes_to_frame(storage).frame)

\* One turn of event_loop, by what is found.
LEMMA LoopKinds ==
    ASSUME WireTypes, event_loop
    PROVE  \E n \in 0 .. Len(to_client) :
              /\ to_client' = SubSeq(to_client, n + 1, Len(to_client))
              /\ \/ /\ Found(Arrived(n)).kind = "none"
                    /\ recv_storage' = Arrived(n) /\ UNCHANGED <<recv_data, protocol>>
                    /\ Output(connection_status, Left, events)
                 \/ Found(Arrived(n)).kind \in {"panic", "InvalidFrame"} /\ Unread(Arrived(n))
                 \/ Opens(Arrived(n))
                 \/ Takes(Arrived(n))
<1>1. PICK n \in 0 .. Least(BufferSize, Len(to_client)) :
         LET storage == recv_storage \o SubSeq(to_client, 1, n)
             found   == Found(storage)
         IN  /\ to_client' = SubSeq(to_client, n + 1, Len(to_client))
             /\ \/ /\ found.kind = "none" /\ recv_storage' = storage
                   /\ NotReceived /\ Output(connection_status, Left, events)
                \/ /\ found.kind = "panic" /\ recv_storage' = storage
                   /\ NotReceived /\ Panics
                \/ /\ found.kind = "InvalidFrame" /\ recv_storage' = storage
                   /\ NotReceived /\ Fails("InvalidFrame", output_events)
                \/ /\ found.kind = "response" /\ recv_storage' = <<>>
                   /\ handle_recv_http_response(found)
                \/ /\ found.kind = "frame" /\ recv_storage' = Drained(storage, found.offset)
                   /\ handle_recv_frame(found.frame)
  BY DEF event_loop
<1> DEFINE storage == Arrived(n)
           found   == Found(storage)
<1>2. n \in 0 .. Len(to_client)
  <2>1. Len(to_client) \in Nat /\ BufferSize \in Nat
    BY WireAssumption DEF WireTypes
  <2> QED BY <2>1 DEF Least
<1>3. to_client' = SubSeq(to_client, n + 1, Len(to_client))
  BY <1>1
<1>4. storage \in Seq(Byte)
  BY <1>2, ReadPieces DEF WireTypes
<1>5. \/ /\ found.kind = "none" /\ recv_storage' = storage /\ UNCHANGED <<recv_data, protocol>>
         /\ Output(connection_status, Left, events)
      \/ found.kind \in {"panic", "InvalidFrame"} /\ Unread(storage)
      \/ /\ found.kind = "response" /\ recv_storage' = <<>>
         /\ handle_recv_http_response(found)
      \/ /\ found.kind = "frame" /\ recv_storage' = Drained(storage, found.offset)
         /\ handle_recv_frame(found.frame)
  BY <1>1, Zenon DEF Unread, NotReceived, Arrived
<1>6. \/ storage = <<>> /\ found.kind = "none"
      \/ storage # <<>> /\ connection_status = "HANDSHAKE" /\ found = parse(storage)
      \/ storage # <<>> /\ connection_status # "HANDSHAKE" /\ found = bytes_to_frame(storage)
  BY DEF Found, Incomplete
<1> HIDE DEF storage, found
<1>7. parse(storage).kind # "frame" /\ bytes_to_frame(storage).kind # "response"
  <2>1. parse(storage).kind \in {"none", "panic", "response"}
    BY <1>4, ResponseFound
  <2>2. bytes_to_frame(storage).kind \in {"none", "InvalidFrame", "panic", "frame"}
    BY <1>4, FrameFound
  <2> QED BY <2>1, <2>2
<1>8. \/ /\ found.kind = "none" /\ recv_storage' = storage /\ UNCHANGED <<recv_data, protocol>>
         /\ Output(connection_status, Left, events)
      \/ found.kind \in {"panic", "InvalidFrame"} /\ Unread(storage)
      \/ Opens(storage) \/ Takes(storage)
  <2>1. CASE storage = <<>> /\ found.kind = "none"
    BY <1>5, <2>1
  <2>2. CASE storage # <<>> /\ connection_status = "HANDSHAKE" /\ found = parse(storage)
    BY <1>5, <1>7, <2>2, Zenon DEF Opens
  <2>3. CASE storage # <<>> /\ connection_status # "HANDSHAKE" /\ found = bytes_to_frame(storage)
    BY <1>5, <1>7, <2>3, Zenon DEF Takes
  <2> QED BY <1>6, <2>1, <2>2, <2>3
<1> QED BY <1>2, <1>3, <1>8 DEF storage, found

\* Nothing is taken, or the response, or a frame.
LEMMA LoopCases ==
    ASSUME WireTypes, event_loop
    PROVE  /\ pc = "sent" /\ connection_status \in Active /\ result = "Ok"
           /\ UNCHANGED <<payload, message_size, data_sent, frames, case, offered, srv_in>>
           /\ \E n \in 0 .. Len(to_client) :
                 /\ to_client' = SubSeq(to_client, n + 1, Len(to_client))
                 /\ Unread(Arrived(n)) \/ Opens(Arrived(n)) \/ Takes(Arrived(n))
<1>1. /\ pc = "sent" /\ connection_status \in Active /\ result = "Ok"
      /\ UNCHANGED <<payload, message_size, data_sent, frames, case, offered, srv_in>>
  BY DEF event_loop
<1>2. PICK n \in 0 .. Len(to_client) :
         /\ to_client' = SubSeq(to_client, n + 1, Len(to_client))
         /\ \/ /\ recv_storage' = Arrived(n) /\ UNCHANGED <<recv_data, protocol>>
               /\ Output(connection_status, Left, events)
            \/ Unread(Arrived(n)) \/ Opens(Arrived(n)) \/ Takes(Arrived(n))
  BY LoopKinds
<1>3. Unread(Arrived(n)) \/ Opens(Arrived(n)) \/ Takes(Arrived(n))
  BY <1>2, Zenon DEF Unread
<1> QED BY <1>1, <1>2, <1>3

\* An event is written.
Moves ==
    /\ written' = written \o Popped /\ to_server' = to_server \o Sent(Popped)
    /\ result' = "Ok" /\ pc' = pc
    /\ connection_status' \in Active \cup {"CLOSE"} /\ events' \in Seq(Heards)
    /\ connection_status = "HANDSHAKE" \/ connection_status' # "HANDSHAKE"
    /\ \/ output_events' = Left
       \/ /\ connection_status # "HANDSHAKE"
          /\ \E c \in ClientFrames :
                ~IsDataCode(c.header.code) /\ output_events' \in {<<c>> \o Left, <<c>>}

\* Nothing is written.
Stays ==
    /\ UNCHANGED <<written, to_server, events, connection_status>>
    /\ \/ /\ pc' = pc /\ output_events' \in {Left, output_events}
          /\ result' \in {"HandShake", "InvalidFrame", "DecodingFromUTF8"}
       \/ pc' = "panicked" /\ result' = result /\ output_events' = output_events

\* What an iteration writes and leaves, by how it writes.
LEMMA OutputMoves ==
    ASSUME WireTypes, NEW status \in Active, NEW outs, NEW evs \in Seq(Heards),
           connection_status = "HANDSHAKE" \/ status # "HANDSHAKE",
           Output(status, outs, evs),
           \/ outs = Left
           \/ /\ connection_status # "HANDSHAKE"
              /\ \E c \in ClientFrames :
                    ~IsDataCode(c.header.code) /\ outs \in {<<c>> \o Left, <<c>>}
    PROVE  /\ Moves /\ output_events' = outs
           /\ \/ connection_status' = status /\ events' = evs
              \/ /\ connection_status' = "CLOSE" /\ status = "SERVER_WANTS_TO_CLOSE"
                 /\ \E b \in Seq(Byte) : events' = Append(evs, Event("SERVER_CLOSE", b))
<1>1. /\ output_events' = outs /\ result' = "Ok" /\ pc' = pc
      /\ written' = written \o Popped
      /\ to_server' = to_server \o (IF Popped = <<>> THEN <<>> ELSE BytesOf(Popped[1]))
  BY DEF Output
<1>2. to_server' = to_server \o Sent(Popped)
  BY <1>1, PoppedParts DEF WireTypes
<1>3. CASE ~Closing(status)
  <2>1. connection_status' = status /\ events' = evs
    BY <1>3 DEF Output
  <2>2. Moves
    BY <1>1, <1>2, <2>1 DEF Moves
  <2> QED BY <1>1, <2>1, <2>2
<1>4. CASE Closing(status)
  <2> DEFINE b == IF Popped[1].header.code = CLOSE THEN SubSeq(Popped[1].data, 1, 2) ELSE be16(0)
  <2>1. connection_status' = "CLOSE" /\ events' = Append(evs, Event("SERVER_CLOSE", b))
    BY <1>4 DEF Output
  <2>2. status = "SERVER_WANTS_TO_CLOSE" /\ Popped # <<>> /\ is_websocket_data(Popped[1])
    BY <1>4 DEF Closing
  <2>3. Popped[1] \in ClientFrames
    <3>1. Popped[1] \in OutEvents
      BY <2>2, PoppedParts DEF WireTypes
    <3> QED BY <2>2, <3>1, OutEventKind
  <2>4. b \in Seq(Byte)
    <3>1. /\ Popped[1].data \in Seq(Byte)
          /\ Popped[1].header.code = CLOSE => Len(Popped[1].data) >= 2
      BY <2>3, FrameParts
    <3>2. be16(0) \in Seq(Byte)
      BY DEF be16, Byte
    <3>3. Popped[1].header.code = CLOSE => SubSeq(Popped[1].data, 1, 2) \in Seq(Byte)
      BY <3>1
    <3> QED BY <3>2, <3>3
  <2> HIDE DEF b
  <2>5. Event("SERVER_CLOSE", b) \in Heards
    BY <2>4 DEF Event, Heards
  <2>6. events' \in Seq(Heards)
    BY <2>1, <2>5
  <2>7. Moves
    BY <1>1, <1>2, <2>1, <2>6 DEF Moves
  <2> QED BY <1>1, <2>1, <2>2, <2>4, <2>7
<1> QED BY <1>3, <1>4

\* The close of the server is reported.
Closed(before) == \E b \in Seq(Byte) : events' = Append(before, Event("SERVER_CLOSE", b))

\* A text is reported.
WithText(frame) == Append(events, Event("ON_TEXT", Kept(frame) \o frame.data))

\* What becomes of a data frame.
TextTaken(frame) ==
    /\ output_events' = Left
    /\ \/ recv_data' = <<>> /\ Moves /\ (events' = WithText(frame) \/ Closed(WithText(frame)))
       \/ recv_data' = Kept(frame) /\ Stays /\ result' # "Ok"

\* An answer to a control frame.
Reply(c, frame) ==
    /\ c \in ClientFrames /\ ~IsDataCode(c.header.code)
    /\ \/ frame.header.code = PING /\ c.header.code = PONG /\ c.data = frame.data
       \/ /\ frame.header.code = CLOSE /\ c.header.code = CLOSE
          /\ c.data = be16(Status!ReplyStatus(bytes_to_u16(frame.data)))
                         \o SubSeq(frame.data, 3, Len(frame.data))

\* What becomes of any other.
OtherTaken(frame) ==
    /\ recv_data' = recv_data /\ (Moves \/ Stays)
    /\ events' = events \/ Closed(events)
    /\ \/ output_events' \in {Left, output_events}
       \/ \E c \in ClientFrames :
             Reply(c, frame) /\ output_events' \in {<<c>> \o Left, <<c>>}

\* What handle_data does with a frame.
LEMMA DataHandled ==
    ASSUME WireTypes, connection_status \in Active, NEW frame, frame.data \in Seq(Byte),
           handle_data(frame)
    PROVE  TextTaken(frame)
<1>0. recv_data \in Seq(Byte) /\ events \in Seq(Heards)
  BY DEF WireTypes
<1>1. Kept(frame) \in Seq(Byte)
  BY <1>0 DEF Kept
<1>2. WithText(frame) \in Seq(Heards)
  <2>1. Kept(frame) \o frame.data \in Seq(Byte)
    BY <1>1
  <2>2. Event("ON_TEXT", Kept(frame) \o frame.data) \in Heards
    BY <2>1 DEF Event, Heards
  <2> QED BY <1>0, <2>2 DEF WithText
<1>3. CASE from_utf8(frame.data) /\ from_utf8(Kept(frame))
  <2>1. recv_data' = <<>> /\ Output(connection_status, Left, WithText(frame))
    BY <1>3 DEF handle_data, WithText
  <2>2. /\ Moves /\ output_events' = Left
        /\ events' = WithText(frame)
           \/ \E b \in Seq(Byte) : events' = Append(WithText(frame), Event("SERVER_CLOSE", b))
    BY <1>2, <2>1, OutputMoves
  <2> QED BY <2>1, <2>2 DEF TextTaken, Closed
<1>4. CASE ~(from_utf8(frame.data) /\ from_utf8(Kept(frame)))
  <2>1. recv_data' = Kept(frame) /\ Fails("DecodingFromUTF8", Left)
    BY <1>4 DEF handle_data
  <2>2. /\ result' = "DecodingFromUTF8" /\ output_events' = Left
        /\ UNCHANGED <<pc, connection_status, events, written, to_server>>
    BY <2>1 DEF Fails
  <2>3. Stays
    BY <2>2 DEF Stays
  <2> QED BY <2>1, <2>2, <2>3 DEF TextTaken
<1> QED BY <1>3, <1>4

\* A reply has a status of two bytes.
LEMMA ReplyStatusBytes ==
    ASSUME NEW n \in Nat
    PROVE  be16(Status!ReplyStatus(n)) \in Seq(Byte) /\ Len(be16(Status!ReplyStatus(n))) = 2
<1>1. Status!ReplyStatus(n) \in Nat
  BY DEF Status!ReplyStatus, Status!PROTOCOL_ERROR
<1>2. \A m \in Nat : m % 256 \in 0 .. 255 /\ m \div 256 \in Nat
  BY SMT
<1>3. \A m \in Nat : be16(m) \in Seq(Byte) /\ Len(be16(m)) = 2
  <2> TAKE m \in Nat
  <2>1. (m \div 256) % 256 \in Byte /\ m % 256 \in Byte
    BY <1>2, Zenon DEF Byte
  <2>2. \A p, q \in Byte : <<p, q>> \in Seq(Byte) /\ Len(<<p, q>>) = 2
    OBVIOUS
  <2> QED BY <2>1, <2>2, Zenon DEF be16
<1> QED BY <1>1, <1>3, Zenon

\* What handle_control_frame does with a frame.
LEMMA ControlHandled ==
    ASSUME WireTypes, connection_status \in Active \ {"HANDSHAKE"}, result = "Ok",
           NEW frame, frame.data \in Seq(Byte), Len(frame.data) \in 2 .. 125,
           handle_control_frame(frame)
    PROVE  OtherTaken(frame)
<1>0. /\ recv_data' = recv_data /\ events \in Seq(Heards)
      /\ connection_status \in Active /\ connection_status # "HANDSHAKE"
      /\ \A mask \in MaskKeys : mask \in Masks
  BY SendAssumption DEF handle_control_frame, NotReceived, WireTypes
<1>1. CASE /\ frame.header.code = PING
           /\ \E mask \in MaskKeys :
                 Output(connection_status,
                        <<ControlFrame(FIN, PONG, <<>>, frame.data, mask)>> \o Left, events)
  <2>1. PICK mask \in MaskKeys :
           Output(connection_status,
                  <<ControlFrame(FIN, PONG, <<>>, frame.data, mask)>> \o Left, events)
    BY <1>1
  <2> DEFINE c == ControlFrame(FIN, PONG, <<>>, frame.data, mask)
  <2>2. Reply(c, frame)
    <3>1. /\ PONG \in {PONG, CLOSE} /\ <<>> \in Seq(Byte) /\ mask \in Masks /\ PONG # CLOSE
          /\ Len(<<>>) + Len(frame.data) <= 125 /\ <<>> \o frame.data = frame.data
      <4>1. PONG # CLOSE
        BY DEF PONG, CLOSE
      <4>2. <<>> \o frame.data = frame.data
        BY ConcatEmptySeq
      <4>3. <<>> \in Seq(Byte) /\ Len(<<>>) = 0
        OBVIOUS
      <4>4. \A n \in 2 .. 125 : 0 + n <= 125
        BY SMT
      <4>5. Len(<<>>) + Len(frame.data) <= 125
        BY <4>3, <4>4, Zenon
      <4> QED BY <1>0, <4>1, <4>2, <4>3, <4>5
    <3>2. c \in ClientFrames /\ c.header.code = PONG /\ c.data = <<>> \o frame.data /\ ~IsDataCode(c.header.code)
      BY <3>1, FittingControl
    <3> QED BY <1>1, <3>1, <3>2, Zenon DEF Reply
  <2> HIDE DEF c
  <2>3. c \in ClientFrames /\ ~IsDataCode(c.header.code)
    BY <2>2 DEF Reply
  <2>4. /\ Moves /\ output_events' = <<c>> \o Left
        /\ \/ events' = events
           \/ \E b \in Seq(Byte) : events' = Append(events, Event("SERVER_CLOSE", b))
    <3>1. Output(connection_status, <<c>> \o Left, events)
      BY <2>1 DEF c
    <3>2. \E x \in ClientFrames :
             ~IsDataCode(x.header.code) /\ <<c>> \o Left \in {<<x>> \o Left, <<x>>}
      BY <2>3
    <3> QED BY <1>0, <3>1, <3>2, OutputMoves
  <2> QED BY <1>0, <2>2, <2>3, <2>4, Zenon DEF OtherTaken, Closed
<1>2. CASE frame.header.code = PONG /\ Panics
  <2>1. Stays /\ output_events' = output_events /\ events' = events
    BY <1>2 DEF Panics, Stays
  <2> QED BY <1>0, <2>1 DEF OtherTaken
<1>3. CASE /\ frame.header.code = CLOSE /\ connection_status = "OPEN"
           /\ LET code == Status!ReplyStatus(bytes_to_u16(frame.data))
              IN  \E mask \in MaskKeys :
                     Output("SERVER_WANTS_TO_CLOSE",
                            <<ControlFrame(FIN, CLOSE, be16(code), Reason(frame), mask)>>,
                            events)
  <2> DEFINE status == be16(Status!ReplyStatus(bytes_to_u16(frame.data)))
             reason == SubSeq(frame.data, 3, Len(frame.data))
  <2>1. PICK mask \in MaskKeys :
           Output("SERVER_WANTS_TO_CLOSE",
                  <<ControlFrame(FIN, CLOSE, status, reason, mask)>>, events)
    BY <1>3 DEF Reason
  <2> DEFINE c == ControlFrame(FIN, CLOSE, status, reason, mask)
  <2>2. Reply(c, frame)
    <3>1. status \in Seq(Byte) /\ Len(status) = 2
      <4>1. frame.data[1] \in 0 .. 255 /\ frame.data[2] \in 0 .. 255
        <5>1. \A s \in Seq(Byte) : Len(s) \in 2 .. 125 => s[1] \in Byte /\ s[2] \in Byte
          OBVIOUS
        <5> QED BY <5>1, Zenon DEF Byte
      <4>2. \A p, q \in 0 .. 255 : 256 * p + q \in Nat
        BY SMT
      <4>3. bytes_to_u16(frame.data) \in Nat
        BY <4>1, <4>2, Zenon DEF bytes_to_u16
      <4> QED BY <4>3, ReplyStatusBytes
    <3>2. reason \in Seq(Byte) /\ Len(reason) = Len(frame.data) - 2
      <4>1. Len(reason) = Len(frame.data) - 2
        BY StatusAndRest
      <4>2. reason \in Seq(Byte)
        OBVIOUS
      <4> QED BY <4>1, <4>2
    <3> HIDE DEF status, reason
    <3>3. CLOSE \in {PONG, CLOSE} /\ mask \in Masks /\ Len(status) + Len(reason) <= 125
      <4>1. \A n \in 2 .. 125 : 2 + (n - 2) <= 125
        BY SMT
      <4>2. Len(status) + Len(reason) <= 125
        BY <3>1, <3>2, <4>1, Zenon
      <4> QED BY <1>0, <4>2
    <3>4. c \in ClientFrames /\ c.header.code = CLOSE /\ c.data = status \o reason /\ ~IsDataCode(c.header.code)
      BY <3>1, <3>2, <3>3, FittingControl
    <3> QED BY <1>3, <3>4, Zenon DEF Reply, status, reason
  <2> HIDE DEF c
  <2>3. c \in ClientFrames /\ ~IsDataCode(c.header.code)
    BY <2>2 DEF Reply
  <2>4. /\ Moves /\ output_events' = <<c>>
        /\ \/ events' = events
           \/ \E b \in Seq(Byte) : events' = Append(events, Event("SERVER_CLOSE", b))
    <3>1. Output("SERVER_WANTS_TO_CLOSE", <<c>>, events)
      BY <2>1 DEF c
    <3>2. \E x \in ClientFrames : ~IsDataCode(x.header.code) /\ <<c>> \in {<<x>> \o Left, <<x>>}
      BY <2>3
    <3>3. "SERVER_WANTS_TO_CLOSE" \in Active
      BY DEF Active
    <3> QED BY <1>0, <3>1, <3>2, <3>3, OutputMoves
  <2> QED BY <1>0, <2>2, <2>3, <2>4, Zenon DEF OtherTaken, Closed
<1>4. CASE Output(connection_status, Left, events)
  <2>1. /\ Moves /\ output_events' = Left
        /\ \/ events' = events
           \/ \E b \in Seq(Byte) : events' = Append(events, Event("SERVER_CLOSE", b))
    BY <1>0, <1>4, OutputMoves
  <2> QED BY <1>0, <2>1 DEF OtherTaken, Closed
<1> QED BY <1>1, <1>2, <1>3, <1>4 DEF handle_control_frame

\* What taking a frame out of the storage does.
LEMMA FrameTaken ==
    ASSUME WireTypes, connection_status \in Active \ {"HANDSHAKE"}, result = "Ok",
           NEW storage \in Seq(Byte), Takes(storage)
    PROVE  LET found == bytes_to_frame(storage)
           IN  /\ recv_storage' = SubSeq(storage, found.offset + 1, Len(storage))
               /\ recv_storage' \in Seq(Byte)
               /\ IF IsDataCode(found.frame.header.code) THEN TextTaken(found.frame)
                  ELSE OtherTaken(found.frame)
<1> DEFINE found == bytes_to_frame(storage)
           frame == found.frame
<1>1. /\ found.kind = "frame" /\ handle_recv_frame(frame)
      /\ recv_storage' = SubSeq(storage, found.offset + 1, Len(storage))
  BY DEF Takes, Drained
<1>2. /\ found.offset \in 1 .. Len(storage) /\ frame.data \in Seq(Byte)
      /\ ~IsDataCode(frame.header.code) => Len(frame.data) \in 2 .. 125
  BY <1>1, FoundFrame
<1> HIDE DEF found
<1>3. recv_storage' \in Seq(Byte)
  <2>1. SubSeq(storage, found.offset + 1, Len(storage)) \in Seq(Byte)
    BY <1>2
  <2> QED BY <1>1, <2>1
<1>4. CASE IsDataCode(frame.header.code)
  <2>1. ~IsControlCode(frame.header.code)
    BY <1>4 DEF IsDataCode, IsControlCode, TEXT, BINARY, CONTINUATION, CLOSE, PING, PONG
  <2>2. handle_data(frame)
    BY <1>1, <1>4, <2>1 DEF handle_recv_frame
  <2>3. TextTaken(frame)
    <3> HIDE DEF frame
    <3> QED BY <1>2, <2>2, DataHandled
  <2> QED BY <1>1, <1>3, <1>4, <2>3 DEF found
<1>5. CASE ~IsDataCode(frame.header.code) /\ IsControlCode(frame.header.code)
  <2>1. handle_control_frame(frame)
    BY <1>1, <1>5 DEF handle_recv_frame
  <2>2. OtherTaken(frame)
    <3> HIDE DEF frame
    <3> QED BY <1>2, <1>5, <2>1, ControlHandled
  <2> QED BY <1>1, <1>3, <1>5, <2>2 DEF found
<1>6. CASE ~IsDataCode(frame.header.code) /\ ~IsControlCode(frame.header.code)
  <2>1. NotReceived /\ Fails("InvalidFrame", Left)
    BY <1>1, <1>6 DEF handle_recv_frame
  <2>2. /\ result' = "InvalidFrame" /\ output_events' = Left /\ recv_data' = recv_data
        /\ UNCHANGED <<pc, connection_status, events, written, to_server>>
    BY <2>1 DEF Fails, NotReceived
  <2>3. OtherTaken(frame)
    BY <2>2 DEF OtherTaken, Stays
  <2> QED BY <1>1, <1>3, <1>6, <2>3 DEF found
<1> QED BY <1>4, <1>5, <1>6

\* What becomes of a response.
Opened ==
    /\ recv_storage' = <<>> /\ recv_data' = recv_data /\ output_events' = Left
    /\ \/ /\ Moves /\ connection_status' = "OPEN"
          /\ \E b \in Seq(Byte) : events' = Append(events, Event("ON_CONNECT", b))
       \/ Stays /\ result' # "Ok"

\* What taking the response does.
LEMMA ResponseTaken ==
    ASSUME WireTypes, NEW storage \in Seq(Byte), Opens(storage)
    PROVE  Opened
<1> DEFINE response == parse(storage)
<1>1. /\ connection_status = "HANDSHAKE" /\ response.kind = "response"
      /\ recv_storage' = <<>> /\ handle_recv_http_response(response)
  BY DEF Opens
<1>2. response.body \in Seq(Byte)
  BY <1>1, ResponseFound
<1> HIDE DEF response
<1>3. CASE Output("OPEN", Left, Append(events, Event("ON_CONNECT", response.body)))
           /\ recv_data' = recv_data
  <2>1. Append(events, Event("ON_CONNECT", response.body)) \in Seq(Heards)
    <3>1. Event("ON_CONNECT", response.body) \in Heards
      BY <1>2 DEF Event, Heards
    <3> QED BY <3>1 DEF WireTypes
  <2> DEFINE evs == Append(events, Event("ON_CONNECT", response.body))
  <2>2. "OPEN" \in Active
    BY DEF Active
  <2> HIDE DEF evs
  <2>3. Output("OPEN", Left, evs) /\ evs \in Seq(Heards)
    BY <1>3, <2>1 DEF evs
  <2>4. Moves /\ output_events' = Left /\ connection_status' = "OPEN" /\ events' = evs
    BY <1>1, <2>2, <2>3, OutputMoves
  <2> QED BY <1>1, <1>2, <1>3, <2>4 DEF Opened, evs
<1>4. CASE NotReceived /\ Fails("HandShake", Left)
  <2>1. /\ result' = "HandShake" /\ output_events' = Left /\ recv_data' = recv_data
        /\ UNCHANGED <<pc, connection_status, events, written, to_server>>
    BY <1>4 DEF Fails, NotReceived
  <2> QED BY <1>1, <2>1 DEF Opened, Stays
<1> QED BY <1>1, <1>3, <1>4 DEF handle_recv_http_response

\* What becomes of the queues when nothing is taken.
Waited(storage) ==
    /\ recv_storage' = storage /\ recv_data' = recv_data
    /\ output_events' \in {Left, output_events}
    /\ \/ Moves /\ connection_status' = connection_status /\ events' = events
       \/ /\ Moves /\ connection_status = "SERVER_WANTS_TO_CLOSE" /\ connection_status' = "CLOSE"
          /\ Closed(events)
       \/ Stays /\ output_events' = output_events

\* What waiting for more does.
LEMMA NothingTaken ==
    ASSUME WireTypes, connection_status \in Active, NEW storage, Unread(storage)
    PROVE  Waited(storage)
<1>0. recv_storage' = storage /\ recv_data' = recv_data /\ events \in Seq(Heards)
  BY DEF Unread, WireTypes
<1>1. CASE Output(connection_status, Left, events)
  <2>1. connection_status = "HANDSHAKE" \/ connection_status # "HANDSHAKE"
    OBVIOUS
  <2>2. /\ Moves /\ output_events' = Left
        /\ \/ connection_status' = connection_status /\ events' = events
           \/ /\ connection_status' = "CLOSE" /\ connection_status = "SERVER_WANTS_TO_CLOSE"
              /\ \E b \in Seq(Byte) : events' = Append(events, Event("SERVER_CLOSE", b))
    BY <1>0, <1>1, <2>1, OutputMoves
  <2> QED BY <1>0, <2>2 DEF Waited, Closed
<1>2. CASE Panics
  BY <1>0, <1>2 DEF Panics, Waited, Stays
<1>3. CASE Fails("InvalidFrame", output_events)
  BY <1>0, <1>3 DEF Fails, Waited, Stays
<1> QED BY <1>1, <1>2, <1>3 DEF Unread

\* A turn of event_loop takes the response, or a frame, or nothing.
LEMMA LoopTurn ==
    ASSUME WireTypes, event_loop
    PROVE  /\ pc = "sent" /\ connection_status \in Active /\ result = "Ok"
           /\ UNCHANGED <<payload, message_size, data_sent, frames, case, offered, srv_in>>
           /\ Moves \/ Stays
           /\ recv_storage' \in Seq(Byte) /\ recv_data' \in Seq(Byte) /\ to_client' \in Seq(Byte)
           /\ \E n \in 0 .. Len(to_client) :
                 /\ to_client' = SubSeq(to_client, n + 1, Len(to_client))
                 /\ \/ Waited(Arrived(n))
                    \/ Opens(Arrived(n)) /\ Opened
                    \/ /\ Takes(Arrived(n))
                       /\ LET found == bytes_to_frame(Arrived(n))
                          IN  /\ recv_storage' = SubSeq(Arrived(n), found.offset + 1, Len(Arrived(n)))
                              /\ IF IsDataCode(found.frame.header.code) THEN TextTaken(found.frame)
                                 ELSE OtherTaken(found.frame)
<1>1. /\ pc = "sent" /\ connection_status \in Active /\ result = "Ok"
      /\ UNCHANGED <<payload, message_size, data_sent, frames, case, offered, srv_in>>
      /\ recv_data \in Seq(Byte)
  BY LoopCases DEF WireTypes
<1>2. PICK n \in 0 .. Len(to_client) :
         /\ to_client' = SubSeq(to_client, n + 1, Len(to_client))
         /\ Unread(Arrived(n)) \/ Opens(Arrived(n)) \/ Takes(Arrived(n))
  BY LoopCases
<1> DEFINE storage == Arrived(n)
<1>3. storage \in Seq(Byte) /\ to_client' \in Seq(Byte)
  BY <1>2, ReadPieces DEF WireTypes
<1> HIDE DEF storage
<1>4. CASE Unread(storage)
  <2>1. Waited(storage)
    BY <1>1, <1>4, NothingTaken
  <2>2. Moves \/ Stays
    BY <2>1 DEF Waited
  <2>3. recv_storage' \in Seq(Byte) /\ recv_data' \in Seq(Byte)
    BY <1>1, <1>3, <2>1 DEF Waited
  <2> QED BY <1>1, <1>2, <1>3, <2>1, <2>2, <2>3, Zenon DEF storage
<1>5. CASE Opens(storage)
  <2>1. Opened
    BY <1>3, <1>5, ResponseTaken
  <2>2. Moves \/ Stays
    BY <2>1 DEF Opened
  <2>3. recv_storage' \in Seq(Byte) /\ recv_data' \in Seq(Byte)
    BY <1>1, <2>1 DEF Opened
  <2> QED BY <1>1, <1>2, <1>3, <1>5, <2>1, <2>2, <2>3, Zenon DEF storage
<1>6. CASE Takes(storage)
  <2> DEFINE found == bytes_to_frame(storage)
             frame == found.frame
  <2>1. connection_status # "HANDSHAKE" /\ found.kind = "frame"
    BY <1>6 DEF Takes
  <2>2. /\ recv_storage' = SubSeq(storage, found.offset + 1, Len(storage))
        /\ recv_storage' \in Seq(Byte)
        /\ IF IsDataCode(frame.header.code) THEN TextTaken(frame) ELSE OtherTaken(frame)
    BY <1>1, <1>3, <1>6, <2>1, FrameTaken
  <2>3. frame.data \in Seq(Byte)
    BY <1>3, <2>1, FoundFrame
  <2> HIDE DEF found
  <2>4. Moves \/ Stays
    BY <2>2 DEF TextTaken, OtherTaken
  <2>5. recv_data' \in Seq(Byte)
    <3>1. CASE TextTaken(frame)
      <4>1. recv_data' \in {<<>>, Kept(frame)}
        BY <3>1 DEF TextTaken
      <4>2. Kept(frame) \in {recv_data \o frame.data, recv_data}
        BY DEF Kept
      <4>3. recv_data \o frame.data \in Seq(Byte) /\ <<>> \in Seq(Byte)
        BY <1>1, <2>3
      <4> QED BY <1>1, <4>1, <4>2, <4>3
    <3>2. CASE OtherTaken(frame)
      BY <1>1, <3>2 DEF OtherTaken
    <3> QED BY <2>2, <3>1, <3>2
  <2> QED BY <1>1, <1>2, <1>3, <1>6, <2>2, <2>4, <2>5, Zenon DEF storage, found, frame
<1> QED BY <1>2, <1>4, <1>5, <1>6 DEF storage

-----------------------------------------------------------------------------
(* Frames of the server *)

\* The frames a server may write.
ServerFrames ==
    {f \in [flag : {16 * k : k \in 0 .. 15}, code : 0 .. 15, data : Seq(Byte)] :
        Len(f.data) <= Longest}

\* What such a frame is made of.
LEMMA ServerFrameParts ==
    ASSUME NEW f \in ServerFrames
    PROVE  /\ f.code \in 0 .. 15 /\ f.data \in Seq(Byte) /\ Len(f.data) \in Nat /\ Len(f.data) <= Longest
           /\ f.flag + f.code \in Byte
           /\ (f.flag + f.code) - ((f.flag + f.code) % 16) = f.flag
           /\ (f.flag + f.code) % 32 \in {f.code, f.code + 16}
           /\ f.flag \in {FIN, NOFLAG} => (f.flag + f.code) % 32 = f.code
<1>1. /\ f.code \in 0 .. 15 /\ f.data \in Seq(Byte) /\ Len(f.data) <= Longest
      /\ f.flag \in {16 * k : k \in 0 .. 15}
  BY DEF ServerFrames
<1>2. PICK k \in 0 .. 15 : f.flag = 16 * k
  BY <1>1
<1> DEFINE n == f.flag + f.code
<1>3. n \in 0 .. 255 /\ n - (n % 16) = f.flag
  <2>1. n \in Nat /\ n = 16 * k + f.code /\ k \in Nat /\ f.code \in Nat /\ f.code < 16
    BY <1>1, <1>2
  <2>2. n % 16 = f.code
    BY <2>1, Divides
  <2>3. n = f.flag + f.code /\ f.flag \in Nat /\ n \in 0 .. 255
    <3>1. \A c, d \in 0 .. 15 : 16 * d + c \in 0 .. 255 /\ 16 * d \in Nat
      BY SMT
    <3> QED BY <1>1, <1>2, <3>1, Zenon
  <2> HIDE DEF n
  <2>4. \A p, q \in Nat : (p + q) - q = p
    BY SMT
  <2> QED BY <2>1, <2>2, <2>3, <2>4, Zenon
<1>4. n % 32 \in {f.code, f.code + 16}
  <2>1. PICK q \in Nat, s \in {0, 1} : k = 2 * q + s
    BY Halves
  <2>2. n = 32 * q + (16 * s + f.code) /\ 16 * s + f.code \in Nat /\ 16 * s + f.code < 32 /\ n \in Nat
    <3>1. n = 16 * (2 * q + s) + f.code
      BY <1>2, <2>1
    <3>2. \A p, c \in Nat : \A d \in {0, 1} : c < 16 =>
             /\ 16 * (2 * p + d) + c = 32 * p + (16 * d + c)
             /\ 16 * d + c \in Nat /\ 16 * d + c < 32 /\ 32 * p + (16 * d + c) \in Nat
      BY SMT
    <3>3. f.code \in Nat /\ f.code < 16
      BY <1>1
    <3>4. /\ 16 * (2 * q + s) + f.code = 32 * q + (16 * s + f.code)
          /\ 16 * s + f.code \in Nat /\ 16 * s + f.code < 32 /\ 32 * q + (16 * s + f.code) \in Nat
      <4>1. q \in Nat /\ s \in {0, 1}
        BY <2>1
      <4> QED BY <4>1, <3>2, <3>3
    <3> HIDE DEF n
    <3> QED BY <3>1, <3>4, Zenon
  <2>3. n % 32 = 16 * s + f.code
    BY <2>2, Divides
  <2> QED BY <1>1, <2>1, <2>3
<1>5. f.flag \in {FIN, NOFLAG} => (f.flag + f.code) % 32 = f.code
  BY <1>1, SMT DEF FIN, NOFLAG
<1> QED BY <1>1, <1>3, <1>4, <1>5 DEF Byte

\* The frames of a case are such.
LEMMA CaseFrames ==
    ASSUME case \in Cases
    PROVE  case.frames \in Seq(ServerFrames)
<1>1. \A S, T : \A s \in Seq(S) : (\A i \in DOMAIN s : s[i] \in T) => s \in Seq(T)
  OBVIOUS
<1>2. \A S : \A s \in Seq(S) : \A i \in DOMAIN s : s[i] \in S
  OBVIOUS
<1>3. \A i \in DOMAIN case.frames : case.frames[i] \in ServerFrames
  BY <1>2, CaseParts, Zenon DEF ServerFrames
<1> QED BY <1>1, <1>3, CaseParts, Zenon

\* The bytes of a frame of the server.
LEMMA FramedBytes ==
    ASSUME NEW f \in ServerFrames
    PROVE  LET m == ShortLength(Len(f.data))
           IN  /\ Framed(f) = (<<f.flag + f.code>> \o m) \o f.data
               /\ m \in Seq(Byte) /\ Announces(m, Len(f.data)) /\ Sized(m)
               /\ Framed(f) \in Seq(Byte) /\ Len(Framed(f)) = 1 + Len(m) + Len(f.data)
               /\ Len(Framed(f)) >= 2
<1> DEFINE n == Len(f.data)
           m == ShortLength(n)
           first == f.flag + f.code
<1>1. f.data \in Seq(Byte) /\ n \in Nat /\ n <= Longest /\ first \in Byte
  BY ServerFrameParts
<1>2. Framed(f) = (<<first>> \o m) \o f.data
  BY DEF Framed, ShortLength
<1> HIDE DEF n, first
<1>3. m \in Seq(Byte) /\ Announces(m, n)
  BY <1>1, ShortLengthBytes
<1> HIDE DEF m
<1>4. Sized(m)
  BY <1>1, <1>3, AnnouncesLength
<1>5. (<<first>> \o m) \o f.data \in Seq(Byte) /\ Len((<<first>> \o m) \o f.data) = 1 + Len(m) + Len(f.data)
  BY <1>1, <1>3, FramedLength
<1>6. Len(Framed(f)) >= 2
  <2>1. Len(m) >= 1 /\ Len(m) \in Nat
    BY <1>4 DEF Sized
  <2>2. Len(f.data) \in Nat
    BY <1>1
  <2>3. \A p, q \in Nat : p >= 1 => 1 + p + q >= 2
    BY SMT
  <2> QED BY <1>2, <1>5, <2>1, <2>2, <2>3, Zenon
<1> QED BY <1>2, <1>3, <1>4, <1>5, <1>6 DEF n, m, first

\* A frame, and its bytes.
ToWire == [f \in ServerFrames |-> Framed(f)]

\* Stream goes through the frames one by one.
LEMMA WireMap ==
    /\ Into(ToWire, ServerFrames, Seq(Byte))
    /\ \A all \in Seq(ServerFrames) : Stream(all) = FlattenSeq(Through(ToWire, all))
<1>1. Into(ToWire, ServerFrames, Seq(Byte))
  BY FramedBytes DEF Into, ToWire
<1>2. ASSUME NEW all \in Seq(ServerFrames)
      PROVE  Stream(all) = FlattenSeq(Through(ToWire, all))
  <2>1. \A i \in DOMAIN all : all[i] \in ServerFrames
    OBVIOUS
  <2>2. [i \in DOMAIN all |-> Framed(all[i])] = Through(ToWire, all)
    BY <2>1 DEF Through, ToWire
  <2> QED BY <2>2, Zenon DEF Stream
<1> QED BY <1>1, <1>2

\* More frames are more bytes.
LEMMA StreamMore ==
    ASSUME NEW s \in Seq(ServerFrames), NEW t \in Seq(ServerFrames)
    PROVE  Stream(s) \in Seq(Byte) /\ Stream(s \o t) = Stream(s) \o Stream(t)
<1>1. s \o t \in Seq(ServerFrames)
  OBVIOUS
<1>2. Into(ToWire, ServerFrames, Seq(Byte))
  BY WireMap
<1>3. Piecewise(ToWire, s, t, Byte)
  BY <1>2, FlatThrough, Zenon
<1> QED BY <1>1, <1>3, WireMap, Zenon DEF Piecewise

\* The bytes of no frame, and of one.
LEMMA StreamOne ==
    ASSUME NEW f \in ServerFrames
    PROVE  Stream(<<>>) = <<>> /\ Stream(<<f>>) = Framed(f)
<1>1. <<>> \in Seq(ServerFrames) /\ <<f>> \in Seq(ServerFrames)
  OBVIOUS
<1>2. ToWire[f] = Framed(f)
  BY DEF ToWire
<1>3. /\ FlattenSeq(Through(ToWire, <<>>)) = <<>>
      /\ FlattenSeq(Through(ToWire, <<f>>)) = ToWire[f]
  BY WireMap, FlatThroughOne
<1> QED BY <1>1, <1>2, <1>3, WireMap, Zenon

-----------------------------------------------------------------------------
(* What is written and what is read *)

\* A sequence without what comes before its k-th element, for the one after it.
LEMMA NextOf ==
    ASSUME NEW S, NEW s \in Seq(S), NEW k \in Nat, k < Len(s)
    PROVE  /\ SubSeq(s, k + 1, Len(s)) = <<s[k + 1]>> \o SubSeq(s, k + 2, Len(s))
           /\ s[k + 1] \in S /\ SubSeq(s, k + 2, Len(s)) \in Seq(S)
           /\ <<s[k + 1]>> \in Seq(S)
<1>1. k + 1 \in 1 .. Len(s) /\ Len(s) \in k + 1 .. Len(s) /\ (k + 1) + 1 = k + 2
  OBVIOUS
<1>2. SubSeq(s, k + 1, Len(s)) = <<s[k + 1]>> \o SubSeq(s, k + 2, Len(s))
  BY <1>1, SubSeqRecursiveFirst, Zenon
<1>3. s[k + 1] \in S /\ SubSeq(s, k + 2, Len(s)) \in Seq(S)
  OBVIOUS
<1> QED BY <1>2, <1>3

\* More behind a sequence is behind every end of it.
LEMMA EndMore ==
    ASSUME NEW S, NEW s \in Seq(S), NEW t \in Seq(S), NEW k \in Nat, k <= Len(s)
    PROVE  /\ SubSeq(s \o t, k + 1, Len(s \o t)) = SubSeq(s, k + 1, Len(s)) \o t
           /\ SubSeq(s, k + 1, Len(s)) \in Seq(S)
           /\ Len(s) <= Len(s \o t)
<1> DEFINE a == SubSeq(s \o t, k + 1, Len(s \o t))
           e == SubSeq(s, k + 1, Len(s))
<1>1. /\ s \o t \in Seq(S) /\ Len(s \o t) = Len(s) + Len(t)
      /\ \A i \in 1 .. Len(s) + Len(t) :
            (s \o t)[i] = IF i <= Len(s) THEN s[i] ELSE t[i - Len(s)]
  BY ConcatProperties
<1>2. Len(s) \in Nat /\ Len(t) \in Nat /\ k + 1 \in Nat
  OBVIOUS
<1>3. /\ e \in Seq(S) /\ Len(e) = Len(s) - k
      /\ \A i \in 1 .. Len(s) - k : e[i] = s[k + i]
  OBVIOUS
<1>4. /\ a \in Seq(S) /\ Len(a) = (Len(s) + Len(t)) - k
      /\ \A i \in 1 .. (Len(s) + Len(t)) - k : a[i] = (s \o t)[k + i]
  BY <1>1, <1>2
<1> HIDE DEF a, e
<1>5. /\ e \o t \in Seq(S) /\ Len(e \o t) = Len(e) + Len(t)
      /\ \A i \in 1 .. Len(e) + Len(t) : (e \o t)[i] = IF i <= Len(e) THEN e[i] ELSE t[i - Len(e)]
  BY <1>3, ConcatProperties
<1>6. ASSUME NEW i \in 1 .. Len(a)
      PROVE  a[i] = (e \o t)[i]
  <2>1. i \in 1 .. (Len(s) + Len(t)) - k /\ i \in 1 .. Len(e) + Len(t)
    BY <1>2, <1>3, <1>4
  <2>2. a[i] = (s \o t)[k + i] /\ k + i \in 1 .. Len(s) + Len(t)
    BY <1>2, <1>4, <2>1
  <2>3. CASE i <= Len(e)
    <3>1. i \in 1 .. Len(s) - k /\ k + i <= Len(s)
      BY <1>2, <1>3, <2>1, <2>3
    <3>2. (e \o t)[i] = e[i] /\ e[i] = s[k + i]
      BY <1>3, <1>5, <2>1, <2>3, <3>1
    <3> QED BY <1>1, <2>2, <3>1, <3>2
  <2>4. CASE ~(i <= Len(e))
    <3>1. ~(k + i <= Len(s)) /\ (k + i) - Len(s) = i - Len(e)
      BY <1>2, <1>3, <2>1, <2>4
    <3>2. (e \o t)[i] = t[i - Len(e)]
      BY <1>5, <2>1, <2>4
    <3> QED BY <1>1, <2>2, <3>1, <3>2
  <2> QED BY <2>3, <2>4
<1>7. Len(a) = Len(e \o t)
  BY <1>2, <1>3, <1>4, <1>5
<1>8. a = e \o t
  BY <1>4, <1>5, <1>6, <1>7, SeqEqual
<1>9. Len(s) <= Len(s \o t)
  BY <1>1, <1>2
<1> QED BY <1>3, <1>8, <1>9 DEF a, e

-----------------------------------------------------------------------------
(* What is in flight, and when *)

\* The part of the invariant that everything else rests on.
Base == WireTypes /\ Phases /\ InTransit

\* The request is first.
RequestFirst(s) == \A i \in DOMAIN s : is_websocket_data(s[i]) <=> i > 1
OnlyFrames(s)   == \A i \in DOMAIN s : is_websocket_data(s[i])

\* Where the request is, in two sequences.
LEMMA FirstAndRest ==
    ASSUME NEW s \in Seq(OutEvents), NEW t \in Seq(OutEvents)
    PROVE  /\ OnlyFrames(s \o t) <=> OnlyFrames(s) /\ OnlyFrames(t)
           /\ s # <<>> => (RequestFirst(s \o t) <=> RequestFirst(s) /\ OnlyFrames(t))
<1>1. /\ Len(s \o t) = Len(s) + Len(t) /\ s \o t \in Seq(OutEvents)
      /\ \A i \in 1 .. Len(s) + Len(t) :
            (s \o t)[i] = IF i <= Len(s) THEN s[i] ELSE t[i - Len(s)]
  BY ConcatProperties
<1>2. /\ DOMAIN s = 1 .. Len(s) /\ DOMAIN t = 1 .. Len(t) /\ DOMAIN (s \o t) = 1 .. Len(s) + Len(t)
      /\ Len(s) \in Nat /\ Len(t) \in Nat
  BY <1>1
<1>3. \A i \in 1 .. Len(s) : i \in 1 .. Len(s) + Len(t) /\ (s \o t)[i] = s[i]
  BY <1>1, <1>2
<1>4. \A i \in 1 .. Len(t) : i + Len(s) \in 1 .. Len(s) + Len(t) /\ (s \o t)[i + Len(s)] = t[i]
  BY <1>1, <1>2
<1>5. \A i \in 1 .. Len(s) + Len(t) :
         \/ i \in 1 .. Len(s)
         \/ i - Len(s) \in 1 .. Len(t) /\ i = (i - Len(s)) + Len(s)
  BY <1>2
<1>6. \A i \in DOMAIN (s \o t) :
         \/ i \in DOMAIN s /\ (s \o t)[i] = s[i]
         \/ \E k \in DOMAIN t : i = k + Len(s) /\ (s \o t)[i] = t[k]
  <2> TAKE i \in DOMAIN (s \o t)
  <2>1. CASE i \in 1 .. Len(s)
    BY <1>2, <1>3, <2>1, Zenon
  <2>2. CASE i - Len(s) \in 1 .. Len(t) /\ i = (i - Len(s)) + Len(s)
    BY <1>2, <1>4, <2>2, Zenon
  <2> QED BY <1>2, <1>5, <2>1, <2>2, Zenon
<1>7. /\ \A i \in DOMAIN s : i \in DOMAIN (s \o t) /\ (s \o t)[i] = s[i]
      /\ \A k \in DOMAIN t : k + Len(s) \in DOMAIN (s \o t) /\ (s \o t)[k + Len(s)] = t[k]
  BY <1>2, <1>3, <1>4, Zenon
<1>8. OnlyFrames(s \o t) <=> OnlyFrames(s) /\ OnlyFrames(t)
  <2>1. OnlyFrames(s \o t) => OnlyFrames(s) /\ OnlyFrames(t)
    BY <1>7, Zenon DEF OnlyFrames
  <2>2. OnlyFrames(s) /\ OnlyFrames(t) => OnlyFrames(s \o t)
    BY <1>6, Zenon DEF OnlyFrames
  <2> QED BY <2>1, <2>2
<1>9. ASSUME s # <<>>
      PROVE  RequestFirst(s \o t) <=> RequestFirst(s) /\ OnlyFrames(t)
  <2>1. \A k \in DOMAIN t : k + Len(s) > 1
    BY <1>2, <1>9
  <2>2. RequestFirst(s \o t) => RequestFirst(s) /\ OnlyFrames(t)
    BY <1>7, <2>1, Zenon DEF OnlyFrames, RequestFirst
  <2>3. RequestFirst(s) /\ OnlyFrames(t) => RequestFirst(s \o t)
    BY <1>6, <2>1, Zenon DEF OnlyFrames, RequestFirst
  <2> QED BY <2>2, <2>3
<1> QED BY <1>8, <1>9

\* What the phases say of what is taken.
LEMMA EarlyPhases ==
    ASSUME Base
    PROVE  /\ offered = <<>> => srv_in = <<>>
           /\ connection_status = "START_INIT" => srv_in = <<>>
           /\ written = <<>> => offered = <<>> /\ to_server = <<>>
           /\ connection_status # "START_INIT" => RequestFirst(written \o output_events)
           /\ Len(offered) \in {0, 1} /\ Taken \in Nat /\ Len(srv_in) \in Nat
           /\ Taken = Len(offered) + Len(srv_in)
<1>1. Len(offered) \in {0, 1} /\ (Len(offered) = 0 <=> offered = <<>>)
  <2>1. offered = <<>> \/ \E names : offered = <<names>>
    BY DEF Base, WireTypes
  <2>2. \A names : Len(<<names>>) = 1 /\ <<names>> # <<>>
    OBVIOUS
  <2> QED BY <2>1, <2>2
<1>2. srv_in \in Seq(Readings) /\ Len(srv_in) \in Nat /\ (Len(srv_in) = 0 => srv_in = <<>>)
  BY EmptySeq DEF Base, WireTypes
<1>3. Taken = Len(offered) + Len(srv_in) /\ Taken \in Nat
  BY <1>1, <1>2 DEF Taken
<1>4. written = <<>> => offered = <<>> /\ srv_in = <<>> /\ to_server = <<>>
  <2> HAVE written = <<>>
  <2>1. Taken <= 0
    BY DEF Base, InTransit
  <2>2. Len(offered) = 0 /\ Len(srv_in) = 0 /\ Taken = 0
    BY <1>1, <1>2, <1>3, <2>1
  <2>3. to_server = Sent(SubSeq(<<>>, 1, 0))
    BY <2>2 DEF Base, InTransit
  <2>4. SubSeq(<<>>, 1, 0) = <<>> /\ Sent(<<>>) = <<>>
    BY FlattenNone DEF Sent
  <2> QED BY <1>1, <1>2, <2>2, <2>3, <2>4
<1>5. connection_status # "START_INIT" => RequestFirst(written \o output_events)
  BY DEF Base, Phases, RequestFirst
<1>6. connection_status = "START_INIT" => srv_in = <<>>
  BY <1>4 DEF Base, Phases
<1>7. offered = <<>> => srv_in = <<>>
  BY <1>6 DEF Base, Phases
<1> QED BY <1>1, <1>2, <1>3, <1>4, <1>5, <1>6, <1>7

\* Base holds at the start.
LEMMA BaseStarts == Init => Base
<1> SUFFICES ASSUME Init PROVE Base
  OBVIOUS
<1>1. SInv
  BY SendInitOK DEF Init
<1>2. WireTypes
  BY <1>1 DEF Init, WireTypes
<1>3. Phases
  BY DEF Init, Phases
<1>4. InTransit
  <2>1. offered = <<>> /\ srv_in = <<>> /\ written = <<>> /\ to_server = <<>>
    BY DEF Init
  <2>2. Taken = 0
    BY <2>1 DEF Taken
  <2>3. SubSeq(<<>>, 1, 0) = <<>> /\ Sent(<<>>) = <<>>
    BY FlattenNone DEF Sent
  <2>4. to_server = Sent(SubSeq(written, Taken + 1, Len(written))) /\ Taken <= Len(written)
    <3>1. Len(written) = 0 /\ 0 + 1 = 1 /\ 0 <= 0
      BY <2>1
    <3> QED BY <2>1, <2>2, <2>3, <3>1, Zenon
  <2>5. DOMAIN srv_in = {}
    BY <2>1
  <2> QED BY <2>4, <2>5, Zenon DEF InTransit
<1> QED BY <1>2, <1>3, <1>4 DEF Base

\* What is in flight stays there while nobody writes or reads.
LEMMA SameTransit ==
    ASSUME InTransit, UNCHANGED <<offered, srv_in, written, to_server>>
    PROVE  InTransit'
BY DEF InTransit, Taken, Sent, BytesOf, is_websocket_data, Reading

\* A round of send keeps Base.
LEMMA BaseSend ==
    ASSUME Base, send
    PROVE  Base'
<1>1. /\ SendNext
      /\ UNCHANGED <<case, connection_status, output_events, recv_storage, recv_data,
                     protocol, result, events, written, to_server, to_client, offered,
                     srv_in>>
  BY DEF send
<1>2. pc = "send" /\ payload' = payload
  BY <1>1 DEF SendNext, push, slice_panics, send_returns
<1>3. connection_status = "START_INIT"
  BY <1>2 DEF Base, Phases
<1>4. SInv'
  BY <1>1, SendStepOK DEF Base, WireTypes
<1>5. WireTypes'
  BY <1>1, <1>2, <1>4 DEF Base, WireTypes, Active, OutEvents, Requests, Readings, Reading, Heards,
                          ClientFrames, HeadEnd
<1>6. Phases'
  BY <1>1, <1>3 DEF Base, Phases
<1>7. InTransit'
  BY <1>1, SameTransit DEF Base
<1> QED BY <1>5, <1>6, <1>7 DEF Base

\* A stuttering step keeps Base.
LEMMA BaseStutters ==
    ASSUME Base, UNCHANGED vars
    PROVE  Base'
<1>1. UNCHANGED <<case, connection_status, output_events, recv_storage, recv_data,
                  protocol, result, events, written, to_server, to_client, offered,
                  srv_in>> /\ UNCHANGED sendVars
  BY DEF vars
<1>2. payload' = payload /\ message_size' = message_size /\ frames' = frames /\ pc' = pc
  BY <1>1 DEF sendVars
<1>4. SInv'
  BY <1>1, SendStepOK DEF Base, WireTypes
<1>5. WireTypes'
  BY <1>1, <1>2, <1>4 DEF Base, WireTypes, Active, OutEvents, Requests, Readings, Reading, Heards,
                          ClientFrames, HeadEnd
<1>6. Phases'
  BY <1>1, <1>2 DEF Base, Phases, is_websocket_data, as_usize
<1>7. InTransit'
  BY <1>1, SameTransit DEF Base
<1> QED BY <1>5, <1>6, <1>7 DEF Base

\* The start of the handshake keeps Base.
LEMMA BaseStart ==
    ASSUME Base, start_init
    PROVE  Base'
<1>1. /\ pc = "sent" /\ connection_status = "START_INIT"
      /\ UNCHANGED <<payload, message_size, data_sent, frames, case, recv_storage,
                     recv_data, protocol, result, events, written, to_server,
                     to_client, offered, srv_in>>
  BY DEF start_init
<1>2. /\ SInv /\ Len(frames) * as_usize(message_size) >= Len(payload)
      /\ written = <<>> /\ offered = <<>> /\ srv_in = <<>> /\ output_events = <<>>
  <2>1. SInv /\ Len(frames) * as_usize(message_size) >= Len(payload)
    BY <1>1 DEF Base, WireTypes, SInv, TextIsCut
  <2> QED BY <1>1, <2>1, EarlyPhases DEF Base, Phases
<1>3. InTransit'
  BY <1>1, SameTransit DEF Base
<1>4. CASE /\ pc' = "panicked" /\ UNCHANGED <<output_events, connection_status>>
  <2>1. SInv'
    BY <1>1, <1>2, <1>4 DEF SInv, SendTypeOK, Steps, TextIsCut, size, as_usize, Least
  <2>2. WireTypes'
    BY <1>1, <1>4, <2>1 DEF Base, WireTypes, Active, OutEvents, Requests, Readings, Reading,
                            Heards, ClientFrames, HeadEnd
  <2>3. Phases'
    BY <1>1, <1>4 DEF Base, Phases
  <2> QED BY <1>3, <2>2, <2>3 DEF Base
<1>5. CASE /\ \E headers \in {Headers, Reverse(Headers)} :
                 output_events' = <<[request |-> RequestBytes(<<47>>, headers)]>> \o frames
           /\ connection_status' = "HANDSHAKE" /\ UNCHANGED pc
  <2>1. PICK headers \in {Headers, Reverse(Headers)} :
           output_events' = <<[request |-> RequestBytes(<<47>>, headers)]>> \o frames
    BY <1>5
  <2> DEFINE r == [request |-> RequestBytes(<<47>>, headers)]
  <2>2. r \in [request : Requests]
    BY StartRequest DEF Base, WireTypes
  <2> HIDE DEF r
  <2>3. r \in OutEvents /\ ~is_websocket_data(r) /\ <<r>> \in Seq(OutEvents) /\ <<r>> # <<>>
    BY <2>2, RequestEvent DEF OutEvents
  <2>4. frames \in Seq(OutEvents) /\ OnlyFrames(frames)
    BY <1>2, FramesOfSend DEF OnlyFrames
  <2>5. output_events' = <<r>> \o frames
    BY <2>1 DEF r
  <2>6. output_events' \in Seq(OutEvents) /\ output_events' # <<>> /\ Tail(output_events') = frames
    BY <2>3, <2>4, <2>5, ConcatSimplifications
  <2>7. RequestFirst(output_events')
    <3>1. RequestFirst(<<r>>)
      BY <2>3 DEF RequestFirst
    <3> QED BY <2>3, <2>4, <2>5, <3>1, FirstAndRest
  <2>8. SInv'
    BY <1>1, <1>2, <1>5 DEF SInv, SendTypeOK, Steps, TextIsCut, size, as_usize, Least
  <2>9. WireTypes'
    BY <1>1, <1>5, <2>6, <2>8 DEF Base, WireTypes, Active, OutEvents, Requests, Readings, Reading,
                            Heards, ClientFrames, HeadEnd
  <2>10. \A i \in DOMAIN (written' \o output_events') :
            is_websocket_data((written' \o output_events')[i]) <=> i > 1
    <3>1. written' \o output_events' = output_events'
      BY <1>1, <1>2, <2>6, ConcatEmptySeq
    <3> QED BY <2>7, <3>1 DEF RequestFirst
  <2>11. Phases'
    <3>1. offered' = <<>> /\ recv_storage' = <<>> /\ to_client' = <<>> /\ written' = <<>> /\ srv_in' = <<>>
          /\ events' = <<>> /\ recv_data' = <<>> /\ frames' = frames
      BY <1>1, <1>2 DEF Base, Phases
    <3>2. Len(frames)' * as_usize(message_size)' >= Len(payload)' /\ pc' # "send"
      BY <1>1, <1>2, <1>5 DEF as_usize
    <3> QED BY <1>5, <2>6, <2>10, <3>1, <3>2 DEF Phases, is_websocket_data
  <2> QED BY <1>3, <2>9, <2>11 DEF Base
<1> QED BY <1>4, <1>5 DEF start_init

\* The server reading the request keeps Base.
LEMMA BaseRequest ==
    ASSUME Base, ServerReadsRequest
    PROVE  Base'
<1> DEFINE end == Min(Finds(to_server, END_LINE \o END_LINE))
<1>1. /\ offered = <<>> /\ Finds(to_server, HeadEnd) # {}
      /\ \E names : offered' = <<names>>
      /\ to_server' = SubSeq(to_server, end + 4, Len(to_server))
      /\ to_client' = case.response
      /\ UNCHANGED <<sendVars, case, connection_status, output_events, recv_storage,
                     recv_data, protocol, result, events, written, srv_in>>
  BY DEF ServerReadsRequest, HeadEnd
<1>2. to_server # <<>>
  <2>1. \A i \in Finds(<<>>, HeadEnd) : FALSE
    <3>1. Len(HeadEnd) = 4 /\ Len(<<>>) = 0
      BY DEF HeadEnd, END_LINE
    <3> QED BY <3>1 DEF Finds
  <2> QED BY <1>1, <2>1
<1>3. written # <<>> /\ connection_status = "HANDSHAKE" /\ srv_in = <<>>
  <2>1. written # <<>>
    BY <1>2, EarlyPhases
  <2> QED BY <1>1, <2>1 DEF Base, Phases
<1>4. Len(written) = 1 /\ output_events = frames
  BY <1>3 DEF Base, Phases
<1> DEFINE r == written[1]
<1>5. written = <<r>> /\ r \in OutEvents /\ r \in [request : Requests] /\ BytesOf(r) = r.request
  <2>1. written \in Seq(OutEvents) /\ output_events \in Seq(OutEvents)
    BY DEF Base, WireTypes
  <2>2. written = <<r>> /\ r \in OutEvents
    BY <1>4, <2>1
  <2>3. RequestFirst(written)
    BY <1>3, <2>1, EarlyPhases, FirstAndRest
  <2>4. ~is_websocket_data(r)
    BY <1>4, <2>1, <2>3 DEF RequestFirst
  <2>5. r \in [request : Requests] /\ BytesOf(r) = r.request
    <3> HIDE DEF r
    <3> QED BY <2>2, <2>4, OutEventKind
  <2> QED BY <2>2, <2>5
<1> HIDE DEF r
<1>6. to_server = r.request /\ to_server \in Requests
  <2>1. Taken = 0
    BY <1>1, <1>3 DEF Taken
  <2>2. to_server = Sent(SubSeq(written, Taken + 1, Len(written)))
    BY DEF Base, InTransit
  <2>3. SubSeq(written, Taken + 1, Len(written)) = <<r>>
    <3>1. SubSeq(written, 1, Len(written)) = written
      BY DEF Base, WireTypes
    <3>2. Taken + 1 = 1
      BY <2>1
    <3> QED BY <1>4, <1>5, <3>1, <3>2, Zenon
  <2>4. Sent(<<r>>) = BytesOf(r)
    BY <1>5, SentOne
  <2> QED BY <1>5, <2>2, <2>3, <2>4
<1>7. to_server' = <<>>
  <2>1. to_server \in Seq(Byte) /\ end + 3 = Len(to_server)
    BY <1>6 DEF Requests, HeadEnd
  <2>2. end \in Nat
    <3>1. Len(HeadEnd) \in Nat
      BY DEF HeadEnd, END_LINE
    <3> QED BY <1>1, <2>1, <3>1, FirstFound DEF HeadEnd
  <2> HIDE DEF end
  <2>3. end + 4 = Len(to_server) + 1
    BY <2>1, <2>2
  <2> QED BY <1>1, <2>1, <2>3
<1> HIDE DEF end
<1>8. SInv'
  BY <1>1, SendStepOK DEF Base, WireTypes
<1>9. case.response \in Seq(Byte)
  BY CaseParts DEF Base, WireTypes
<1>10. WireTypes'
  <2>1. to_client' \in Seq(Byte) /\ to_server' \in Seq(Byte)
    <3>1. <<>> \in Seq(Byte)
      OBVIOUS
    <3> QED BY <1>1, <1>7, <1>9, <3>1, Zenon
  <2>2. payload' = payload
    BY <1>1 DEF sendVars
  <2> QED BY <1>1, <1>8, <2>1, <2>2 DEF Base, WireTypes, Active, OutEvents, Requests, Readings, Reading,
                                   Heards, ClientFrames, HeadEnd
<1>11. Phases'
  <2>1. /\ pc' = pc /\ payload' = payload /\ frames' = frames /\ message_size' = message_size
    BY <1>1 DEF sendVars
  <2>2. \E names : offered' = <<names>>
    BY <1>1
  <2>3. offered' # <<>>
    BY <2>2
  <2>4. /\ connection_status' = "HANDSHAKE" /\ srv_in' = <<>> /\ Len(written') = 1
        /\ output_events' = frames' /\ events' = <<>> /\ recv_data' = <<>>
    BY <1>1, <1>3, <1>4, <2>1 DEF Base, Phases
  <2>5. recv_storage' \o to_client' = case'.response
    <3>1. recv_storage' = <<>>
      BY <1>1 DEF Base, Phases
    <3> QED BY <1>1, <1>9, <3>1, ConcatEmptySeq
  <2>6. pc' # "send" /\ Len(frames') * as_usize(message_size') >= Len(payload')
    BY <1>3, <2>1 DEF Base, Phases
  <2>7. \A i \in DOMAIN (written' \o output_events') :
            is_websocket_data((written' \o output_events')[i]) <=> i > 1
    BY <1>1, <1>3, EarlyPhases DEF RequestFirst
  <2> QED BY <2>3, <2>4, <2>5, <2>6, <2>7 DEF Phases, is_websocket_data, as_usize
<1>12. InTransit'
  <2>1. Taken' = 1
    <3>1. \A names : Len(<<names>>) = 1
      OBVIOUS
    <3>2. Len(offered') = 1 /\ Len(srv_in') = 0
      BY <1>1, <1>3, <3>1
    <3> QED BY <3>2 DEF Taken
  <2>2. written' = <<r>> /\ Len(written') = 1 /\ srv_in' = <<>>
    BY <1>1, <1>3, <1>4, <1>5
  <2>3. SubSeq(written', 2, 1) = <<>> /\ Sent(<<>>) = <<>>
    BY <2>2, FlattenNone DEF Sent
  <2>4. 1 <= 1 /\ 1 + 1 = 2
    OBVIOUS
  <2>5. to_server' = Sent(SubSeq(written', Taken' + 1, Len(written'))) /\ Taken' <= Len(written')
    BY <1>7, <2>1, <2>2, <2>3, <2>4, Zenon
  <2>6. DOMAIN srv_in' = {}
    BY <2>2
  <2> QED BY <2>5, <2>6, Zenon DEF InTransit, Sent, Taken, BytesOf, is_websocket_data
<1> QED BY <1>10, <1>11, <1>12 DEF Base

\* The server reading a frame keeps Base, and reads the next one written.
LEMMA BaseFrame ==
    ASSUME Base, ServerReadsFrame
    PROVE  /\ Base'
           /\ \E f \in ClientFrames :
                 /\ Taken < Len(written) /\ f = written[Taken + 1] /\ Taken >= 1
                 /\ srv_in' = Append(srv_in, Reading(f))
<1> DEFINE frame == Unframed(to_server)
<1>1. /\ offered # <<>> /\ to_server # <<>>
      /\ srv_in' = Append(srv_in, frame)
      /\ to_server' = SubSeq(to_server, frame.size + 1, Len(to_server))
      /\ to_client' = IF srv_in = <<>> THEN to_client \o Stream(case.frames) ELSE to_client
      /\ UNCHANGED <<sendVars, case, connection_status, output_events, recv_storage,
                     recv_data, protocol, result, events, written, offered>>
  BY DEF ServerReadsFrame
<1>2. /\ Taken \in Nat /\ Taken >= 1 /\ Taken <= Len(written) /\ Len(srv_in) \in Nat
      /\ Taken = 1 + Len(srv_in) /\ Len(offered) = 1
  <2>1. Len(offered) # 0
    <3>1. \E names : offered = <<names>>
      BY <1>1 DEF Base, WireTypes
    <3> QED BY <3>1
  <2>2. Len(offered) \in {0, 1} /\ Taken \in Nat /\ Len(srv_in) \in Nat
        /\ Taken = Len(offered) + Len(srv_in)
    BY EarlyPhases
  <2>3. Taken <= Len(written)
    BY DEF Base, InTransit
  <2>4. \A a \in {0, 1} : \A b, c \in Nat : a # 0 /\ c = a + b => a = 1 /\ c >= 1 /\ c = 1 + b
    BY SMT
  <2> QED BY <2>1, <2>2, <2>3, <2>4, Zenon
<1>3. /\ written \in Seq(OutEvents) /\ output_events \in Seq(OutEvents) /\ Len(written) \in Nat
      /\ to_server = Sent(SubSeq(written, Taken + 1, Len(written)))
  BY DEF Base, WireTypes, InTransit
<1>4. Taken < Len(written)
  <2>1. ASSUME Taken = Len(written)
        PROVE  FALSE
    <3>1. SubSeq(written, Taken + 1, Len(written)) = <<>>
      BY <1>3, <2>1
    <3>2. Sent(<<>>) = <<>>
      BY FlattenNone DEF Sent
    <3> QED BY <1>1, <1>3, <3>1, <3>2, Zenon
  <2> QED BY <1>2, <1>3, <2>1
<1> DEFINE f    == written[Taken + 1]
           rest == SubSeq(written, Taken + 2, Len(written))
<1>5. /\ SubSeq(written, Taken + 1, Len(written)) = <<f>> \o rest
      /\ f \in OutEvents /\ rest \in Seq(OutEvents) /\ <<f>> \in Seq(OutEvents)
  BY <1>2, <1>3, <1>4, NextOf
<1>6. connection_status # "START_INIT" /\ connection_status # "HANDSHAKE"
  <2>1. connection_status # "START_INIT"
    BY <1>1 DEF Base, Phases
  <2>2. connection_status = "HANDSHAKE" => Len(written) \in {0, 1}
    <3>1. connection_status = "HANDSHAKE" => Len(written) = 1 \/ written = <<>>
      BY DEF Base, Phases
    <3>2. Len(<<>>) = 0
      OBVIOUS
    <3> QED BY <3>1, <3>2
  <2>3. \A a \in {0, 1} : \A b \in Nat : ~(b >= 1 /\ b < a)
    BY SMT
  <2> QED BY <1>2, <1>4, <2>1, <2>2, <2>3, Zenon
<1>7. is_websocket_data(f)
  <2>1. RequestFirst(written)
    <3>1. written # <<>>
      BY <1>2, <1>4
    <3> QED BY <1>3, <1>6, <3>1, EarlyPhases, FirstAndRest
  <2>2. Taken + 1 \in DOMAIN written /\ Taken + 1 > 1
    BY <1>2, <1>3, <1>4
  <2> QED BY <2>1, <2>2, Zenon DEF RequestFirst
<1> HIDE DEF f, rest, frame
<1>8. f \in ClientFrames /\ BytesOf(f) = serialize(f)
  BY <1>5, <1>7, OutEventKind
<1>9. /\ to_server = serialize(f) \o Sent(rest) /\ Sent(rest) \in Seq(Byte)
      /\ serialize(f) \in Seq(Byte) /\ Len(serialize(f)) \in Nat
  <2>1. Sent(<<f>> \o rest) = Sent(<<f>>) \o Sent(rest)
    BY <1>5, SentMore
  <2>2. Sent(<<f>>) = serialize(f)
    BY <1>5, <1>8, SentOne
  <2>3. Sent(rest) \in Seq(Byte)
    BY <1>5, SentMore
  <2>4. serialize(f) \in Seq(Byte)
    BY <1>8, FrameWritten
  <2>5. Len(serialize(f)) \in Nat
    BY <2>4
  <2> QED BY <1>3, <1>5, <2>1, <2>2, <2>3, <2>4, <2>5, Zenon
<1>10. frame = Reading(f)
  <2>1. \A r \in Seq(Byte) : Unframed(serialize(f) \o r) = Reading(f)
    BY <1>8, FrameWritten
  <2> QED BY <1>9, <2>1, Zenon DEF frame
<1>11. srv_in' = Append(srv_in, Reading(f)) /\ Reading(f) \in Readings
  BY <1>1, <1>8, <1>10 DEF Readings
<1>12. to_server' = Sent(rest)
  <2>1. frame.size = Len(serialize(f))
    BY <1>10 DEF Reading
  <2>2. \A a, b \in Seq(Byte) : SubSeq(a \o b, Len(a) + 1, Len(a \o b)) = b
    BY SubSeqOfConcat2, ConcatProperties
  <2> QED BY <1>1, <1>9, <2>1, <2>2, Zenon
<1>13. srv_in \in Seq(Readings)
  BY DEF Base, WireTypes
<1>14. SInv' /\ payload' = payload /\ pc' = pc /\ frames' = frames /\ message_size' = message_size
  <2>1. SInv'
    BY <1>1, SendStepOK DEF Base, WireTypes
  <2> QED BY <1>1, <2>1 DEF sendVars
<1>15. WireTypes'
  <2>1. to_client' \in Seq(Byte)
    <3>1. to_client \in Seq(Byte) /\ Stream(case.frames) \in Seq(Byte)
      <4>1. case.frames \in Seq(ServerFrames)
        BY CaseFrames DEF Base, WireTypes
      <4> QED BY <4>1, StreamMore DEF Base, WireTypes
    <3> QED BY <1>1, <3>1
  <2>2. srv_in' \in Seq(Readings)
    BY <1>11, <1>13
  <2>3. to_server' \in Seq(Byte)
    BY <1>9, <1>12
  <2> QED BY <1>1, <1>14, <2>1, <2>2, <2>3 DEF Base, WireTypes, Active, OutEvents, Requests,
                                     Readings, Reading, Heards, ClientFrames, HeadEnd
<1>16. Phases'
  BY <1>1, <1>6, <1>14 DEF Base, Phases, is_websocket_data, as_usize
<1>17. InTransit'
  <2>1. Len(srv_in') = Len(srv_in) + 1 /\ Taken' = Taken + 1
    <3>1. Len(srv_in') = Len(srv_in) + 1
      BY <1>11, <1>13
    <3>2. offered' = offered
      BY <1>1
    <3>3. Taken' = Len(offered) + (Len(srv_in) + 1)
      BY <3>1, <3>2 DEF Taken
    <3> QED BY <1>2, <3>1, <3>3
  <2>2. Taken' <= Len(written) /\ Taken' + 1 = Taken + 2
    BY <1>2, <1>3, <1>4, <2>1
  <2>3. to_server' = Sent(SubSeq(written, Taken' + 1, Len(written)))
    BY <1>12, <2>2, Zenon DEF rest
  <2>4. ASSUME NEW i \in DOMAIN srv_in'
        PROVE  srv_in'[i] = Reading(written[i + 1])
    <3>1. CASE i = Len(srv_in) + 1
      <4>1. srv_in'[i] = Reading(f)
        BY <1>11, <1>13, <3>1
      <4>2. i + 1 = Taken + 1
        BY <1>2, <3>1
      <4> QED BY <4>1, <4>2, Zenon DEF f
    <3>2. CASE i # Len(srv_in) + 1
      <4>1. i \in DOMAIN srv_in /\ srv_in'[i] = srv_in[i]
        BY <1>11, <1>13, <3>2
      <4> QED BY <4>1, Zenon DEF Base, InTransit
    <3> QED BY <3>1, <3>2
  <2>5. written' = written
    BY <1>1
  <2> HIDE DEF f, rest, frame
  <2> QED BY <2>2, <2>3, <2>4, <2>5, Zenon DEF InTransit, Sent, Taken, BytesOf, is_websocket_data, Reading
<1>18. Base'
  BY <1>15, <1>16, <1>17 DEF Base
<1> QED BY <1>2, <1>4, <1>8, <1>11, <1>18 DEF f

\* Writing what is popped keeps InTransit.
LEMMA TransitMoves ==
    ASSUME Base, Moves, UNCHANGED <<offered, srv_in>>
    PROVE  /\ InTransit' /\ written' \in Seq(OutEvents) /\ to_server' \in Seq(Byte)
           /\ \A i \in DOMAIN written : i \in DOMAIN written' /\ written'[i] = written[i]
<1>1. /\ written \in Seq(OutEvents) /\ Popped \in Seq(OutEvents) /\ to_server \in Seq(Byte)
      /\ written' = written \o Popped /\ to_server' = to_server \o Sent(Popped)
  BY PoppedParts DEF Base, WireTypes, Moves
<1>2. /\ Taken \in Nat /\ Taken <= Len(written) /\ Taken = Len(offered) + Len(srv_in)
      /\ to_server = Sent(SubSeq(written, Taken + 1, Len(written)))
      /\ \A i \in DOMAIN srv_in : srv_in[i] = Reading(written[i + 1])
      /\ offered = <<>> => srv_in = <<>>
      /\ Len(srv_in) \in Nat /\ Len(offered) \in {0, 1}
  BY EarlyPhases DEF Base, InTransit
<1>3. /\ SubSeq(written \o Popped, Taken + 1, Len(written \o Popped))
            = SubSeq(written, Taken + 1, Len(written)) \o Popped
      /\ SubSeq(written, Taken + 1, Len(written)) \in Seq(OutEvents)
      /\ Len(written) <= Len(written \o Popped)
  <2>1. written \in Seq(OutEvents) /\ Popped \in Seq(OutEvents) /\ Taken \in Nat /\ Taken <= Len(written)
    BY <1>1, <1>2
  <2> QED BY <2>1, EndMore, Zenon
<1>4. Sent(SubSeq(written \o Popped, Taken + 1, Len(written \o Popped))) = to_server \o Sent(Popped)
  <2> DEFINE e == SubSeq(written, Taken + 1, Len(written))
  <2>1. e \in Seq(OutEvents)
    BY <1>3
  <2> HIDE DEF e
  <2>2. Sent(e \o Popped) = Sent(e) \o Sent(Popped)
    BY <1>1, <2>1, SentMore
  <2> QED BY <1>2, <1>3, <2>2, Zenon DEF e
<1>5. /\ \A i \in DOMAIN written : i \in DOMAIN (written \o Popped) /\ (written \o Popped)[i] = written[i]
  <2>1. /\ \A i \in 1 .. Len(written) + Len(Popped) :
            (written \o Popped)[i] = IF i <= Len(written) THEN written[i] ELSE Popped[i - Len(written)]
        /\ Len(written \o Popped) = Len(written) + Len(Popped) /\ written \o Popped \in Seq(OutEvents)
    BY <1>1, ConcatProperties
  <2> QED BY <1>1, <2>1
<1>6. ASSUME NEW i \in DOMAIN srv_in
      PROVE  i + 1 \in DOMAIN written
  <2>1. srv_in \in Seq(Readings) /\ i \in 1 .. Len(srv_in)
    BY DEF Base, WireTypes
  <2>2. offered # <<>>
    BY <1>2, <2>1
  <2>3. Len(offered) = 1
    <3>1. \E names : offered = <<names>>
      BY <2>2 DEF Base, WireTypes
    <3> QED BY <3>1
  <2>4. DOMAIN written = 1 .. Len(written) /\ Len(written) \in Nat
    BY <1>1
  <2>5. \A a, b, c, w \in Nat : a = 1 /\ c = a + b /\ c <= w => \A k \in 1 .. b : k + 1 \in 1 .. w
    BY SMT
  <2>6. Len(offered) \in Nat
    BY <2>3
  <2> QED BY <1>2, <2>1, <2>3, <2>4, <2>5, <2>6, Zenon
<1>7. Taken' = Taken
  BY DEF Taken
<1>8. Taken <= Len(written \o Popped)
  <2>1. Len(written) \in Nat /\ Len(written \o Popped) \in Nat
    BY <1>1
  <2>2. \A a, b, c \in Nat : a <= b /\ b <= c => a <= c
    BY SMT
  <2> QED BY <1>2, <1>3, <2>1, <2>2, Zenon
<1>9. written' \in Seq(OutEvents)
  BY <1>1
<1>10. to_server' \in Seq(Byte)
  <2>1. Sent(Popped) \in Seq(Byte)
    BY <1>1, SentMore
  <2> QED BY <1>1, <2>1
<1>11. InTransit'
  <2>1. to_server' = Sent(SubSeq(written', Taken' + 1, Len(written')))
    BY <1>1, <1>4, <1>7, Zenon
  <2>2. \A i \in DOMAIN srv_in : srv_in[i] = Reading(written'[i + 1])
    BY <1>1, <1>2, <1>5, <1>6, Zenon
  <2>3. Taken' <= Len(written')
    BY <1>1, <1>7, <1>8, Zenon
  <2> QED BY <2>1, <2>2, <2>3, Zenon DEF InTransit, Sent, Taken, BytesOf, is_websocket_data, Reading
<1> QED BY <1>1, <1>5, <1>9, <1>10, <1>11, Zenon

\* Which event is popped before the handshake is over.
LEMMA PoppedEarly ==
    ASSUME Base, connection_status = "HANDSHAKE"
    PROVE  /\ written = <<>> =>
                 /\ Left = frames /\ Len(Popped) = 1 /\ recv_storage = <<>> /\ to_client = <<>>
                 /\ offered = <<>>
           /\ written # <<>> =>
                 Popped = <<>> /\ Left = output_events /\ output_events = frames /\ Len(written) = 1
<1>1. output_events \in Seq(OutEvents) /\ RequestFirst(written \o output_events)
      /\ written \in Seq(OutEvents)
  BY EarlyPhases DEF Base, WireTypes
<1>2. ASSUME written = <<>>
      PROVE  Left = frames /\ Len(Popped) = 1
  <2>1. written \o output_events = output_events /\ output_events # <<>> /\ Tail(output_events) = frames
    BY <1>1, <1>2, ConcatEmptySeq DEF Base, Phases
  <2>2. ~is_websocket_data(Head(output_events))
    <3>1. 1 \in DOMAIN output_events /\ Head(output_events) = output_events[1] /\ ~(1 > 1)
      BY <1>1, <2>1
    <3> QED BY <1>1, <2>1, <3>1, Zenon DEF RequestFirst
  <2>3. Popped = <<Head(output_events)>>
    BY <2>1, <2>2 DEF Popped
  <2>4. Popped # <<>> /\ Len(Popped) = 1
    BY <2>3
  <2> QED BY <1>1, <2>1, <2>4, PoppedParts
<1>3. ASSUME written # <<>>
      PROVE  Popped = <<>> /\ Left = output_events /\ output_events = frames /\ Len(written) = 1
  <2>1. output_events = frames /\ Len(written) = 1
    BY <1>3 DEF Base, Phases
  <2>2. OnlyFrames(output_events)
    BY <1>1, <1>3, FirstAndRest
  <2>3. output_events # <<>> => is_websocket_data(Head(output_events))
    <3> HAVE output_events # <<>>
    <3>1. 1 \in DOMAIN output_events /\ Head(output_events) = output_events[1]
      BY <1>1
    <3> QED BY <2>2, <3>1, Zenon DEF OnlyFrames
  <2>4. Popped = <<>>
    BY <2>3 DEF Popped
  <2> QED BY <1>1, <2>1, <2>4, PoppedParts
<1>4. written = <<>> => offered = <<>> /\ recv_storage = <<>> /\ to_client = <<>>
  BY EarlyPhases DEF Base, Phases
<1> QED BY <1>2, <1>3, <1>4

\* What is queued is what was queued, and answers.
LEMMA QueueTypes ==
    ASSUME Base, Moves \/ (Stays /\ output_events' \in {Left, output_events})
    PROVE  output_events' \in Seq(OutEvents)
<1>1. output_events \in Seq(OutEvents) /\ Left \in Seq(OutEvents)
  BY PoppedParts DEF Base, WireTypes
<1>2. CASE output_events' \in {Left, output_events}
  BY <1>1, <1>2
<1>3. CASE \E c \in ClientFrames : output_events' \in {<<c>> \o Left, <<c>>}
  <2>1. PICK c \in ClientFrames : output_events' \in {<<c>> \o Left, <<c>>}
    BY <1>3
  <2>2. <<c>> \in Seq(OutEvents)
    BY DEF OutEvents
  <2>3. <<c>> \o Left \in Seq(OutEvents)
    BY <1>1, <2>2
  <2> QED BY <2>1, <2>2, <2>3
<1> QED BY <1>2, <1>3 DEF Moves

\* The request is first, after a step as well.
LEMMA FirstStays ==
    ASSUME Base, written # <<>>, connection_status # "START_INIT", Moves \/ Stays
    PROVE  RequestFirst(written \o output_events)'
<1>1. /\ written \in Seq(OutEvents) /\ output_events \in Seq(OutEvents)
      /\ Popped \in Seq(OutEvents) /\ Left \in Seq(OutEvents) /\ Popped \o Left = output_events
  BY PoppedParts DEF Base, WireTypes
<1>2. RequestFirst(written) /\ OnlyFrames(output_events)
  BY <1>1, EarlyPhases, FirstAndRest
<1>3. OnlyFrames(Popped) /\ OnlyFrames(Left)
  BY <1>1, <1>2, FirstAndRest
<1>4. /\ written' \in {written, written \o Popped}
      /\ written' \in Seq(OutEvents) /\ written' # <<>> /\ RequestFirst(written')
  <2>1. written' \in {written, written \o Popped}
    BY DEF Moves, Stays
  <2>2. written \o Popped \in Seq(OutEvents) /\ written \o Popped # <<>>
    BY <1>1
  <2>3. RequestFirst(written \o Popped)
    BY <1>1, <1>2, <1>3, FirstAndRest
  <2> QED BY <1>1, <1>2, <2>1, <2>2, <2>3
<1>5. output_events' \in Seq(OutEvents) /\ OnlyFrames(output_events')
  <2>1. CASE output_events' \in {Left, output_events}
    BY <1>1, <1>2, <1>3, <2>1
  <2>2. CASE \E c \in ClientFrames : output_events' \in {<<c>> \o Left, <<c>>}
    <3>1. PICK c \in ClientFrames : output_events' \in {<<c>> \o Left, <<c>>}
      BY <2>2
    <3>2. <<c>> \in Seq(OutEvents) /\ <<c>> \o Left \in Seq(OutEvents)
      <4>1. <<c>> \in Seq(OutEvents)
        BY DEF OutEvents
      <4> QED BY <1>1, <4>1
    <3>3. OnlyFrames(<<c>>)
      <4>1. is_websocket_data(c)
        BY FrameParts
      <4> QED BY <4>1 DEF OnlyFrames
    <3>4. OnlyFrames(<<c>> \o Left)
      BY <1>1, <1>3, <3>2, <3>3, FirstAndRest
    <3> QED BY <3>1, <3>2, <3>3, <3>4
  <2> QED BY <2>1, <2>2 DEF Moves, Stays
<1>6. RequestFirst(written' \o output_events')
  BY <1>4, <1>5, FirstAndRest
<1> QED BY <1>6 DEF RequestFirst, is_websocket_data

\* An iteration of the event loop keeps Base.
LEMMA BaseLoop ==
    ASSUME Base, event_loop
    PROVE  Base'
<1>1. /\ pc = "sent" /\ connection_status \in Active /\ result = "Ok"
      /\ UNCHANGED <<payload, message_size, data_sent, frames, case, offered, srv_in>>
      /\ Moves \/ Stays
      /\ recv_storage' \in Seq(Byte) /\ recv_data' \in Seq(Byte) /\ to_client' \in Seq(Byte)
  BY LoopTurn DEF Base
<1>2. PICK n \in 0 .. Len(to_client) :
         /\ to_client' = SubSeq(to_client, n + 1, Len(to_client))
         /\ \/ Waited(Arrived(n))
            \/ Opens(Arrived(n)) /\ Opened
            \/ /\ Takes(Arrived(n))
               /\ LET found == bytes_to_frame(Arrived(n))
                  IN  /\ recv_storage' = SubSeq(Arrived(n), found.offset + 1, Len(Arrived(n)))
                      /\ IF IsDataCode(found.frame.header.code) THEN TextTaken(found.frame)
                         ELSE OtherTaken(found.frame)
  BY LoopTurn DEF Base
<1>3. output_events' \in {Left, output_events} \/ Moves
  <2>1. ASSUME NEW frame, TextTaken(frame) \/ OtherTaken(frame)
        PROVE  output_events' \in {Left, output_events} \/ Moves
    BY <1>1, <2>1 DEF TextTaken, OtherTaken, Stays
  <2> QED BY <1>2, <2>1, Zenon DEF Waited, Opened
<1>4. \/ Waited(Arrived(n))
      \/ Arrived(n) # <<>> /\ Opened
      \/ connection_status # "HANDSHAKE"
  BY <1>2, Zenon DEF Opens, Takes
<1> HIDE <1>2
<1>5. connection_status # "START_INIT" /\ offered' = offered /\ srv_in' = srv_in
  BY <1>1 DEF Active
<1>6. InTransit' /\ written' \in Seq(OutEvents) /\ to_server' \in Seq(Byte)
  <2>1. CASE Moves
    BY <1>1, <2>1, TransitMoves
  <2>2. CASE Stays
    <3>1. written' = written /\ to_server' = to_server
      BY <2>2 DEF Stays
    <3>2. written' \in Seq(OutEvents) /\ to_server' \in Seq(Byte)
      BY <3>1 DEF Base, WireTypes
    <3> QED BY <1>5, <3>1, <3>2, SameTransit DEF Base
  <2> QED BY <1>1, <2>1, <2>2
<1>7. output_events' \in Seq(OutEvents)
  BY <1>1, <1>3, QueueTypes
<1>8. pc' \in {"sent", "panicked"} /\ result' \in {"Ok", "HandShake", "InvalidFrame", "DecodingFromUTF8"}
  BY <1>1 DEF Moves, Stays
<1>9. SInv'
  <2>1. SInv /\ Len(frames) * as_usize(message_size) >= Len(payload)
    BY <1>1 DEF Base, WireTypes, SInv, TextIsCut
  <2> QED BY <1>1, <1>8, <2>1 DEF SInv, SendTypeOK, Steps, TextIsCut, size, as_usize, Least
<1>10. WireTypes'
  <2>1. connection_status' \in Active \cup {"START_INIT", "CLOSE"} /\ events' \in Seq(Heards)
    BY <1>1 DEF Moves, Stays, Base, WireTypes
  <2>2. case' = case /\ offered' = offered /\ srv_in' = srv_in /\ payload' = payload
    BY <1>1
  <2> QED BY <1>6, <1>7, <1>8, <1>9, <1>1, <2>1, <2>2
          DEF Base, WireTypes, Active, OutEvents, Requests, Readings, Reading, Heards, ClientFrames, HeadEnd
<1>11. /\ connection_status' # "START_INIT" /\ pc' # "send"
       /\ Len(frames') * as_usize(message_size') >= Len(payload')
       /\ connection_status # "HANDSHAKE" => connection_status' # "HANDSHAKE"
  <2>1. connection_status' # "START_INIT"
    BY <1>1 DEF Moves, Stays, Active
  <2>2. Len(frames) * as_usize(message_size) >= Len(payload)
    BY <1>5 DEF Base, Phases
  <2> QED BY <1>1, <1>8, <2>1, <2>2 DEF as_usize, Moves, Stays
<1>12. Phases'
  <2>1. CASE written = <<>>
    <3>1. /\ connection_status = "HANDSHAKE" /\ offered = <<>> /\ srv_in = <<>> /\ events = <<>> /\ recv_data = <<>>
          /\ output_events # <<>> /\ Tail(output_events) = frames
      <4>1. connection_status = "HANDSHAKE"
        BY <1>1, <2>1 DEF Base, Phases, Active
      <4> QED BY <2>1, <4>1, EarlyPhases DEF Base, Phases
    <3>2. Left = frames /\ Len(Popped) = 1 /\ recv_storage = <<>> /\ to_client = <<>>
      BY <2>1, <3>1, PoppedEarly
    <3>3. Arrived(n) = <<>> /\ to_client' = <<>>
      <4>1. SubSeq(<<>>, 1, n) = <<>> /\ SubSeq(<<>>, n + 1, Len(<<>>)) = <<>> /\ <<>> \o <<>> = <<>>
        BY <1>2, <3>2
      <4> QED BY <1>2, <3>2, <4>1, Zenon DEF Arrived
    <3>4. Waited(Arrived(n))
      BY <1>4, <3>1, <3>3
    <3>5. /\ recv_storage' = <<>> /\ recv_data' = <<>> /\ events' = <<>> /\ connection_status' = "HANDSHAKE"
          /\ \/ Moves /\ output_events' = Left
             \/ Stays /\ output_events' = output_events
      <4>1. Moves \/ (Stays /\ output_events' = output_events)
        BY <3>4 DEF Waited
      <4>2. Moves => output_events' = Left
        BY <3>1 DEF Moves
      <4>3. recv_storage' = <<>> /\ recv_data' = <<>>
        BY <3>1, <3>3, <3>4 DEF Waited
      <4>4. events' = <<>> /\ connection_status' = "HANDSHAKE"
        BY <3>1, <3>4 DEF Waited, Stays
      <4> QED BY <4>1, <4>2, <4>3, <4>4
    <3>6. /\ \/ Len(written') = 1 /\ output_events' = frames'
             \/ written' = <<>> /\ output_events' # <<>> /\ Tail(output_events') = frames'
          /\ written' \o output_events' = output_events
      <4>0. Popped \in Seq(OutEvents) /\ Popped \o Left = output_events /\ output_events \in Seq(OutEvents)
        BY PoppedParts DEF Base, WireTypes
      <4>1. CASE Moves /\ output_events' = Left
        <5>1. written' = Popped
          BY <2>1, <4>0, <4>1, ConcatEmptySeq DEF Moves
        <5> QED BY <1>1, <3>2, <4>0, <4>1, <5>1
      <4>2. CASE Stays /\ output_events' = output_events
        <5>1. written' = <<>> /\ <<>> \o output_events = output_events
          BY <2>1, <4>0, <4>2, ConcatEmptySeq DEF Stays
        <5> QED BY <1>1, <3>1, <4>2, <5>1
      <4> QED BY <3>5, <4>1, <4>2
    <3>7. RequestFirst(written' \o output_events')
      <4>1. written \o output_events = output_events
        BY <2>1, ConcatEmptySeq DEF Base, WireTypes
      <4> QED BY <1>5, <3>6, <4>1, EarlyPhases
    <3>8. \A i \in DOMAIN (written' \o output_events') :
             is_websocket_data((written' \o output_events')[i]) <=> i > 1
      BY <3>7 DEF RequestFirst
    <3> QED BY <1>5, <1>11, <3>1, <3>3, <3>5, <3>6, <3>8 DEF Phases, is_websocket_data, as_usize
  <2>2. CASE written # <<>>
    <3>1. \A i \in DOMAIN (written' \o output_events') :
             is_websocket_data((written' \o output_events')[i]) <=> i > 1
      <4>1. RequestFirst(written \o output_events)'
        BY <1>1, <1>5, <2>2, FirstStays
      <4> QED BY <4>1 DEF RequestFirst, is_websocket_data
    <3>2. written' # <<>>
      <4>1. written \in Seq(OutEvents) /\ Popped \in Seq(OutEvents)
        BY PoppedParts DEF Base, WireTypes
      <4>2. written' \in {written, written \o Popped}
        BY <1>1 DEF Moves, Stays
      <4> QED BY <2>2, <4>1, <4>2
    <3>3. CASE connection_status # "HANDSHAKE"
      <4>1. offered # <<>>
        BY <1>5, <3>3 DEF Base, Phases
      <4> QED BY <1>5, <1>11, <3>1, <3>2, <3>3, <4>1 DEF Phases, is_websocket_data, as_usize
    <3>4. CASE connection_status = "HANDSHAKE"
      <4>1. /\ Popped = <<>> /\ Left = output_events /\ output_events = frames /\ Len(written) = 1
            /\ srv_in = <<>> /\ events = <<>> /\ recv_data = <<>>
        BY <2>2, <3>4, PoppedEarly DEF Base, Phases
      <4>2. written' = written
        <5>1. written \o <<>> = written
          BY ConcatEmptySeq DEF Base, WireTypes
        <5> QED BY <1>1, <4>1, <5>1 DEF Moves, Stays
      <4>3. output_events' = frames'
        <5>1. Moves => output_events' = Left
          BY <3>4 DEF Moves
        <5> QED BY <1>1, <1>3, <4>1, <5>1
      <4>4. /\ Arrived(n) \o SubSeq(to_client, n + 1, Len(to_client)) = recv_storage \o to_client
            /\ n \in 0 .. Len(to_client)
        BY <1>2, ReadPieces DEF Base, WireTypes
      <4>5. offered = <<>> => Arrived(n) = <<>> /\ to_client' = <<>>
        <5> HAVE offered = <<>>
        <5>1. recv_storage = <<>> /\ to_client = <<>>
          BY DEF Base, Phases
        <5>2. SubSeq(<<>>, 1, n) = <<>> /\ SubSeq(<<>>, n + 1, Len(<<>>)) = <<>> /\ <<>> \o <<>> = <<>>
          BY <1>2, <5>1
        <5> QED BY <1>2, <5>1, <5>2, Zenon DEF Arrived
      <4>6. CASE Waited(Arrived(n))
        <5>1. /\ recv_storage' = Arrived(n) /\ recv_data' = <<>>
              /\ events' = <<>> /\ connection_status' = "HANDSHAKE"
          BY <3>4, <4>1, <4>6 DEF Waited, Stays
        <5>2. offered # <<>> => recv_storage' \o to_client' = case'.response
          <6>1. offered # <<>> => recv_storage \o to_client = case.response
            BY <1>1, <3>4 DEF Base, Phases
          <6> QED BY <1>1, <1>2, <4>4, <5>1, <6>1
        <5> QED BY <1>1, <1>5, <1>11, <3>1, <3>2, <4>1, <4>2, <4>3, <4>5, <5>1, <5>2
                DEF Phases, is_websocket_data, as_usize
      <4>7. CASE Arrived(n) # <<>> /\ Opened
        <5>1. offered # <<>>
          BY <4>5, <4>7
        <5>2. \/ connection_status' = "OPEN"
              \/ /\ connection_status' = "HANDSHAKE" /\ result' # "Ok" /\ events' = <<>> /\ recv_data' = <<>>
          BY <3>4, <4>1, <4>7 DEF Opened, Stays
        <5> QED BY <1>1, <1>5, <1>11, <3>1, <3>2, <4>1, <4>2, <4>3, <5>1, <5>2
                DEF Phases, is_websocket_data, as_usize
      <4> QED BY <1>4, <3>4, <4>6, <4>7
    <3> QED BY <3>3, <3>4
  <2> QED BY <2>1, <2>2
<1> QED BY <1>6, <1>10, <1>12 DEF Base

\* Every step keeps Base.
LEMMA BaseStep == Base /\ [Next]_vars => Base'
<1> SUFFICES ASSUME Base, [Next]_vars PROVE Base'
  OBVIOUS
<1> QED
  BY BaseSend, BaseStart, BaseLoop, BaseRequest, BaseFrame, BaseStutters DEF Next

\* Base is an invariant.
LEMMA BaseAlways == Spec => []Base
<1> QED BY BaseStarts, BaseStep, PTL DEF Spec

-----------------------------------------------------------------------------
(* Beginnings *)

\* A prefix, element by element.
LEMMA PrefixIs ==
    ASSUME NEW S, NEW s \in Seq(S), NEW t \in Seq(S)
    PROVE  IsPrefix(s, t) <=> Len(s) <= Len(t) /\ \A i \in 1 .. Len(s) : s[i] = t[i]
<1>1. Len(s) \in Nat /\ Len(t) \in Nat
  OBVIOUS
<1>2. ASSUME IsPrefix(s, t)
      PROVE  Len(s) <= Len(t) /\ \A i \in 1 .. Len(s) : s[i] = t[i]
  <2>1. Len(s) <= Len(t) /\ SubSeq(s, 1, Len(s)) = SubSeq(t, 1, Len(s))
    BY <1>2 DEF IsPrefix
  <2>2. \A i \in 1 .. Len(s) : SubSeq(s, 1, Len(s))[i] = s[i] /\ SubSeq(t, 1, Len(s))[i] = t[i]
    BY <1>1, <2>1
  <2> QED BY <2>1, <2>2, Zenon
<1>3. ASSUME Len(s) <= Len(t), \A i \in 1 .. Len(s) : s[i] = t[i]
      PROVE  IsPrefix(s, t)
  <2>1. /\ SubSeq(s, 1, Len(s)) \in Seq(S) /\ SubSeq(t, 1, Len(s)) \in Seq(S)
        /\ Len(SubSeq(s, 1, Len(s))) = Len(s) /\ Len(SubSeq(t, 1, Len(s))) = Len(s)
    BY <1>1, <1>3
  <2>2. \A i \in 1 .. Len(s) : SubSeq(s, 1, Len(s))[i] = s[i] /\ SubSeq(t, 1, Len(s))[i] = t[i]
    BY <1>1, <1>3
  <2>3. \A i \in 1 .. Len(s) : SubSeq(s, 1, Len(s))[i] = SubSeq(t, 1, Len(s))[i]
    BY <1>3, <2>2, Zenon
  <2>4. SubSeq(s, 1, Len(s)) = SubSeq(t, 1, Len(s))
    BY <2>1, <2>3, SeqEqual
  <2> QED BY <1>3, <2>4 DEF IsPrefix
<1> QED BY <1>2, <1>3

\* The beginning of a prefix is one.
LEMMA PrefixOfMore ==
    ASSUME NEW S, NEW s \in Seq(S), NEW t \in Seq(S), NEW u \in Seq(S), IsPrefix(s \o u, t)
    PROVE  IsPrefix(s, t)
<1>1. /\ s \o u \in Seq(S) /\ Len(s \o u) = Len(s) + Len(u)
      /\ \A i \in 1 .. Len(s) + Len(u) :
            (s \o u)[i] = IF i <= Len(s) THEN s[i] ELSE u[i - Len(s)]
  BY ConcatProperties
<1>2. Len(s \o u) <= Len(t) /\ \A i \in 1 .. Len(s \o u) : (s \o u)[i] = t[i]
  BY <1>1, PrefixIs
<1>3. Len(s) \in Nat /\ Len(u) \in Nat /\ Len(t) \in Nat
  OBVIOUS
<1>4. Len(s) <= Len(t) /\ \A i \in 1 .. Len(s) : s[i] = t[i]
  BY <1>1, <1>2, <1>3
<1> QED BY <1>4, PrefixIs

-----------------------------------------------------------------------------
(* The order of the text *)

\* What of the queue can still be written.
Queued == IF result = "Ok" THEN TextFrames(output_events) ELSE <<>>

\* TextInOrder, without its definitions.
LEMMA OrderIs == TextInOrder <=> IsPrefix(TextFrames(written) \o Queued, frames)
BY DEF TextInOrder, Queued

\* Nothing holds no frames.
LEMMA NoTextFrames == TextFrames(<<>>) = <<>>
BY FlattenNone DEF TextFrames

\* Nothing is a prefix, and a sequence is one of itself.
LEMMA NothingIsPrefix ==
    ASSUME NEW S, NEW t \in Seq(S)
    PROVE  IsPrefix(<<>>, t) /\ IsPrefix(t, t)
<1>1. <<>> \in Seq(S) /\ Len(<<>>) = 0 /\ Len(t) \in Nat
  OBVIOUS
<1>2. /\ Len(<<>>) <= Len(t) /\ \A i \in 1 .. Len(<<>>) : <<>>[i] = t[i]
      /\ Len(t) <= Len(t) /\ \A i \in 1 .. Len(t) : t[i] = t[i]
  BY <1>1
<1> QED BY <1>1, <1>2, PrefixIs

\* Before the handshake nothing is written or waits.
LEMMA OrderEmpty ==
    ASSUME Base, connection_status = "START_INIT"
    PROVE  TextInOrder
<1>1. written = <<>> /\ output_events = <<>>
  BY DEF Base, Phases
<1>2. TextFrames(written) = <<>> /\ Queued = <<>>
  BY <1>1, NoTextFrames DEF Queued
<1>3. <<>> \o <<>> = <<>>
  OBVIOUS
<1>4. frames \in Seq(ClientFrames)
  BY FramesOfSend DEF Base, WireTypes
<1>5. IsPrefix(TextFrames(written) \o Queued, frames)
  BY <1>2, <1>3, <1>4, NothingIsPrefix
<1> QED BY <1>5, OrderIs

\* TextInOrder is about what it names.
LEMMA OrderSame ==
    ASSUME TextInOrder, UNCHANGED <<written, output_events, result, frames>>
    PROVE  TextInOrder'
BY DEF TextInOrder, TextFrames, is_websocket_data

\* The start of the handshake queues the frames in their order.
LEMMA OrderStart ==
    ASSUME Base, start_init, connection_status' = "HANDSHAKE"
    PROVE  TextInOrder'
<1>1. connection_status = "START_INIT" /\ written' = written /\ result' = result /\ frames' = frames
  BY DEF start_init
<1>2. PICK headers \in {Headers, Reverse(Headers)} :
         output_events' = <<[request |-> RequestBytes(<<47>>, headers)]>> \o frames
  BY <1>1 DEF start_init
<1> DEFINE r == [request |-> RequestBytes(<<47>>, headers)]
<1>3. r \in [request : Requests]
  BY StartRequest DEF Base, WireTypes
<1>4. output_events' = <<r>> \o frames
  BY <1>2
<1> HIDE DEF r
<1>5. r \in OutEvents /\ ~is_websocket_data(r) /\ <<r>> \in Seq(OutEvents)
  BY <1>3, RequestEvent DEF OutEvents
<1>6. frames \in Seq(OutEvents) /\ frames \in Seq(ClientFrames) /\ TextFrames(frames) = frames
  BY FramesOfSend DEF Base, WireTypes
<1>7. TextFrames(<<r>>) = <<>>
  <2>1. TextFrame(r) = <<>>
    BY <1>5 DEF TextFrame
  <2> QED BY <1>5, <2>1, FramesOne
<1>8. TextFrames(<<r>> \o frames) = frames
  <2>1. TextFrames(<<r>> \o frames) = TextFrames(<<r>>) \o TextFrames(frames)
    BY <1>5, <1>6, FramesMore
  <2>2. <<>> \o frames = frames
    BY <1>6, ConcatEmptySeq
  <2> QED BY <1>6, <1>7, <2>1, <2>2
<1>9. TextFrames(written) = <<>>
  BY <1>1, NoTextFrames DEF Base, Phases
<1>10. TextFrames(written)' = TextFrames(written) /\ TextFrames(output_events)' = frames
  BY <1>1, <1>4, <1>8 DEF TextFrames, is_websocket_data
<1>11. <<>> \o frames = frames /\ <<>> \o <<>> = <<>>
  BY <1>6, ConcatEmptySeq
<1>12. (TextFrames(written) \o Queued)' \in {frames, <<>>}
  BY <1>9, <1>10, <1>11 DEF Queued
<1>13. IsPrefix((TextFrames(written) \o Queued)', frames)
  BY <1>6, <1>12, NothingIsPrefix
<1> QED BY <1>1, <1>13 DEF TextInOrder, Queued

\* An iteration of the event loop keeps the order.
LEMMA OrderLoop ==
    ASSUME Base, TextInOrder, event_loop
    PROVE  TextInOrder'
<1>1. result = "Ok" /\ frames' = frames /\ (Moves \/ Stays)
  BY LoopTurn DEF Base
<1>2. /\ written \in Seq(OutEvents) /\ output_events \in Seq(OutEvents)
      /\ Popped \in Seq(OutEvents) /\ Left \in Seq(OutEvents) /\ Popped \o Left = output_events
      /\ frames \in Seq(ClientFrames)
  BY PoppedParts, FramesOfSend DEF Base, WireTypes
<1> DEFINE w == TextFrames(written)
           p == TextFrames(Popped)
           l == TextFrames(Left)
<1>3. /\ w \in Seq(ClientFrames) /\ p \in Seq(ClientFrames) /\ l \in Seq(ClientFrames)
      /\ TextFrames(output_events) = p \o l /\ TextFrames(written \o Popped) = w \o p
  BY <1>2, FramesMore, Zenon
<1>4. IsPrefix(w \o (p \o l), frames)
  BY <1>1, <1>3 DEF TextInOrder
<1> HIDE DEF w, p, l
<1>5. w \o p \in Seq(ClientFrames) /\ p \o l \in Seq(ClientFrames) /\ w \o (p \o l) = (w \o p) \o l
  <2>1. \A x, y, z \in Seq(ClientFrames) : x \o (y \o z) = (x \o y) \o z
    BY ConcatAssociative
  <2>2. w \o p \in Seq(ClientFrames) /\ p \o l \in Seq(ClientFrames)
    BY <1>3
  <2> QED BY <1>3, <2>1, <2>2, Zenon
<1>6. IsPrefix(w \o p, frames) /\ IsPrefix(w, frames)
  <2>1. IsPrefix((w \o p) \o l, frames)
    BY <1>4, <1>5, Zenon
  <2>2. IsPrefix(w \o p, frames)
    BY <1>2, <1>3, <1>5, <2>1, PrefixOfMore, Zenon
  <2> QED BY <1>2, <1>3, <2>2, PrefixOfMore
<1>7. w \o <<>> = w /\ (w \o p) \o <<>> = w \o p
  BY <1>3, <1>5, ConcatEmptySeq
<1>8. CASE Moves
  <2>1. written' = written \o Popped /\ result' = "Ok"
    BY <1>8 DEF Moves
  <2>2. TextFrames(written)' = w \o p
    BY <1>3, <2>1 DEF TextFrames, is_websocket_data
  <2>3. TextFrames(output_events') \in {l, <<>>}
    <3>1. CASE output_events' = Left
      BY <3>1 DEF l
    <3>2. CASE \E c \in ClientFrames :
                  ~IsDataCode(c.header.code) /\ output_events' \in {<<c>> \o Left, <<c>>}
      <4>1. PICK c \in ClientFrames :
                  ~IsDataCode(c.header.code) /\ output_events' \in {<<c>> \o Left, <<c>>}
        BY <3>2
      <4>2. c \in OutEvents /\ <<c>> \in Seq(OutEvents)
        BY DEF OutEvents
      <4>3. TextFrames(<<c>>) = <<>>
        <5>1. TextFrame(c) = <<>>
          BY <4>1 DEF TextFrame
        <5> QED BY <4>2, <5>1, FramesOne
      <4>4. TextFrames(<<c>> \o Left) = l
        <5>1. TextFrames(<<c>> \o Left) = TextFrames(<<c>>) \o TextFrames(Left)
          BY <1>2, <4>2, FramesMore
        <5>2. <<>> \o l = l
          BY <1>3, ConcatEmptySeq
        <5> QED BY <4>3, <5>1, <5>2 DEF l
      <4> QED BY <4>1, <4>3, <4>4
    <3> QED BY <1>8, <3>1, <3>2 DEF Moves
  <2>4. (TextFrames(written) \o Queued)' \in {(w \o p) \o l, (w \o p) \o <<>>}
    <3>1. Queued' = TextFrames(output_events')
      BY <2>1 DEF Queued, TextFrames, is_websocket_data
    <3> QED BY <2>2, <2>3, <3>1
  <2>5. IsPrefix((TextFrames(written) \o Queued)', frames)
    BY <1>4, <1>5, <1>6, <1>7, <2>4, Zenon
  <2> QED BY <1>1, <2>5 DEF TextInOrder, Queued
<1>9. CASE Stays
  <2>1. CASE result' = "Ok"
    <3>1. written' = written /\ output_events' = output_events
      BY <1>1, <1>9, <2>1 DEF Stays
    <3> QED BY <1>1, <2>1, <3>1, OrderSame
  <2>2. CASE result' # "Ok"
    <3>1. TextFrames(written)' = w
      BY <1>9 DEF Stays, TextFrames, is_websocket_data, w
    <3>2. (TextFrames(written) \o Queued)' = w \o <<>>
      BY <2>2, <3>1 DEF Queued
    <3>3. IsPrefix((TextFrames(written) \o Queued)', frames)
      BY <1>6, <1>7, <3>2, Zenon
    <3> QED BY <1>1, <3>3 DEF TextInOrder, Queued
  <2> QED BY <2>1, <2>2
<1> QED BY <1>1, <1>8, <1>9

\* Every step keeps the order.
LEMMA OrderStep == Base /\ TextInOrder /\ [Next]_vars => TextInOrder'
<1> SUFFICES ASSUME Base, TextInOrder, [Next]_vars PROVE TextInOrder'
  OBVIOUS
<1>0. Base'
  BY BaseStep
<1>1. CASE send
  <2>1. connection_status' = connection_status /\ pc = "send"
    BY <1>1 DEF send, SendNext, push, slice_panics, send_returns
  <2>2. connection_status' = "START_INIT"
    BY <2>1 DEF Base, Phases
  <2>3. (Base /\ connection_status = "START_INIT" => TextInOrder)'
    BY OrderEmpty, PTL
  <2> QED BY <1>0, <2>2, <2>3
<1>2. CASE start_init
  <2>1. CASE connection_status' = "HANDSHAKE"
    BY <1>2, <2>1, OrderStart
  <2>2. CASE connection_status' # "HANDSHAKE"
    BY <1>2, <2>2, OrderSame DEF start_init
  <2> QED BY <2>1, <2>2
<1>3. CASE event_loop
  BY <1>3, OrderLoop
<1>4. CASE ServerReadsRequest \/ ServerReadsFrame \/ UNCHANGED vars
  <2>1. UNCHANGED <<written, output_events, result, frames>>
    BY <1>4 DEF ServerReadsRequest, ServerReadsFrame, vars, sendVars
  <2> QED BY <2>1, OrderSame
<1> QED BY <1>1, <1>2, <1>3, <1>4 DEF Next

-----------------------------------------------------------------------------
(* What the server makes of the text *)

\* An element, and the data frames it is.
DataFrom(S) == [r \in S |-> IF IsDataCode(r.code) THEN <<r>> ELSE <<>>]

\* DataOf goes through them one by one.
LEMMA DataMap ==
    ASSUME NEW S
    PROVE  /\ Into(DataFrom(S), S, Seq(S))
           /\ \A all \in Seq(S) : DataOf(all) = FlattenSeq(Through(DataFrom(S), all))
<1>1. ASSUME NEW r \in S
      PROVE  DataFrom(S)[r] \in Seq(S)
  <2>1. <<r>> \in Seq(S) /\ <<>> \in Seq(S)
    OBVIOUS
  <2> QED BY <2>1 DEF DataFrom
<1>2. ASSUME NEW all \in Seq(S)
      PROVE  DataOf(all) = FlattenSeq(Through(DataFrom(S), all))
  <2>1. \A i \in DOMAIN all : all[i] \in S
    OBVIOUS
  <2>2. [i \in DOMAIN all |-> IF IsDataCode(all[i].code) THEN <<all[i]>> ELSE <<>>]
          = Through(DataFrom(S), all)
    BY <2>1 DEF Through, DataFrom
  <2> QED BY <2>2, Zenon DEF DataOf
<1> QED BY <1>1, <1>2 DEF Into

\* More elements hold more data frames.
LEMMA DataMore ==
    ASSUME NEW S, NEW s \in Seq(S), NEW t \in Seq(S)
    PROVE  DataOf(s) \in Seq(S) /\ DataOf(s \o t) = DataOf(s) \o DataOf(t)
<1>1. s \o t \in Seq(S)
  OBVIOUS
<1>2. Into(DataFrom(S), S, Seq(S))
  BY DataMap
<1>3. Piecewise(DataFrom(S), s, t, S)
  BY <1>2, FlatThrough, Zenon
<1> QED BY <1>1, <1>3, DataMap, Zenon DEF Piecewise

\* The data frames in nothing, and in one.
LEMMA DataOne ==
    ASSUME NEW r
    PROVE  /\ DataOf(<<>>) = <<>>
           /\ DataOf(<<r>>) = IF IsDataCode(r.code) THEN <<r>> ELSE <<>>
<1>1. <<>> \in Seq({r}) /\ <<r>> \in Seq({r}) /\ r \in {r}
  OBVIOUS
<1>2. DataFrom({r})[r] = IF IsDataCode(r.code) THEN <<r>> ELSE <<>>
  BY DEF DataFrom
<1>3. /\ FlattenSeq(Through(DataFrom({r}), <<>>)) = <<>>
      /\ FlattenSeq(Through(DataFrom({r}), <<r>>)) = DataFrom({r})[r]
  BY <1>1, DataMap, FlatThroughOne
<1> QED BY <1>1, <1>2, <1>3, DataMap, Zenon

\* A frame, and what the server reads of it.
ToReading == [f \in ClientFrames |-> Reading(f)]

\* The frames go to readings.
LEMMA ReadingMap ==
    /\ Into(ToReading, ClientFrames, Readings)
    /\ \A f \in ClientFrames : ToReading[f] = Reading(f)
BY DEF Into, ToReading, Readings

\* What the server reads of one frame.
LEMMA ReadingOne ==
    ASSUME NEW f \in ClientFrames
    PROVE  /\ Through(ToReading, <<>>) = <<>> /\ Through(ToReading, <<f>>) = <<Reading(f)>>
           /\ Reading(f).code = f.header.code /\ Reading(f).flag = f.header.flag
           /\ Reading(f).data = f.data /\ Reading(f).masks = 1
<1>1. Through(ToReading, <<>>) = <<>>
  BY DEF Through
<1>2. Through(ToReading, <<f>>) = <<ToReading[f]>>
  BY DEF Through
<1> QED BY <1>1, <1>2, ReadingMap DEF Reading

\* Reading and leaving out the frames that are not of the text commute.
LEMMA DataRead ==
    ASSUME NEW s \in Seq(ClientFrames)
    PROVE  DataOf(Through(ToReading, s)) = Through(ToReading, TextFrames(s))
<1> DEFINE P == {u \in Seq(ClientFrames) :
                    DataOf(Through(ToReading, u)) = Through(ToReading, TextFrames(u))}
<1>0. \A u \in Seq(ClientFrames) : EachThrough(ToReading, u, Readings)
  BY ReadingMap, ThroughType
<1>1. <<>> \in P
  <2>1. <<>> \in Seq(ClientFrames) /\ Through(ToReading, <<>>) = <<>>
    BY DEF Through
  <2>2. DataOf(<<>>) = <<>>
    BY DataOne
  <2> QED BY <2>1, <2>2, NoTextFrames, Zenon
<1>2. ASSUME NEW u \in Seq(ClientFrames), NEW x \in ClientFrames, u \in P
      PROVE  Append(u, x) \in P
  <2>1. <<x>> \in Seq(ClientFrames) /\ Append(u, x) = u \o <<x>> /\ Append(u, x) \in Seq(ClientFrames)
    BY AppendIsConcat
  <2>2. Through(ToReading, u \o <<x>>) = Through(ToReading, u) \o <<Reading(x)>>
    <3>1. Through(ToReading, u \o <<x>>) = Through(ToReading, u) \o Through(ToReading, <<x>>)
      <4> DEFINE v == <<x>>
      <4>1. v \in Seq(ClientFrames) /\ Into(ToReading, ClientFrames, Readings)
        BY <2>1, ReadingMap
      <4> HIDE DEF v
      <4>2. Through(ToReading, u \o v) = Through(ToReading, u) \o Through(ToReading, v)
        BY <4>1, ThroughConcat
      <4> QED BY <4>2 DEF v
    <3> QED BY <3>1, ReadingOne
  <2>3. /\ Through(ToReading, u) \in Seq(Readings)
        /\ Reading(x) \in Readings /\ <<Reading(x)>> \in Seq(Readings)
    <3>1. Reading(x) \in Readings
      BY DEF Readings
    <3>2. \A r \in Readings : <<r>> \in Seq(Readings)
      OBVIOUS
    <3> QED BY <1>0, <3>1, <3>2, Zenon DEF EachThrough
  <2>4. DataOf(Through(ToReading, u) \o <<Reading(x)>>)
          = DataOf(Through(ToReading, u)) \o DataOf(<<Reading(x)>>)
    BY <2>3, DataMore
  <2>5. u \in Seq(OutEvents) /\ x \in OutEvents /\ <<x>> \in Seq(OutEvents)
    BY DEF OutEvents
  <2>6. TextFrames(u \o <<x>>) = TextFrames(u) \o TextFrame(x)
    BY <2>5, FramesMore, FramesOne
  <2>7. TextFrame(x) \in Seq(ClientFrames) /\ TextFrames(u) \in Seq(ClientFrames)
    <3>1. <<>> \in Seq(ClientFrames)
      OBVIOUS
    <3> QED BY <2>1, <2>5, <3>1, FramesMore DEF TextFrame
  <2>8. Through(ToReading, TextFrames(u) \o TextFrame(x))
          = Through(ToReading, TextFrames(u)) \o Through(ToReading, TextFrame(x))
    BY <2>7, ReadingMap, ThroughConcat
  <2>9. Through(ToReading, TextFrame(x)) = DataOf(<<Reading(x)>>)
    <3>1. is_websocket_data(x)
      BY FrameParts
    <3>2. CASE IsDataCode(x.header.code)
      BY <3>1, <3>2, ReadingOne, DataOne DEF TextFrame
    <3>3. CASE ~IsDataCode(x.header.code)
      BY <3>1, <3>3, ReadingOne, DataOne DEF TextFrame
    <3> QED BY <3>2, <3>3
  <2>10. DataOf(Through(ToReading, u)) = Through(ToReading, TextFrames(u))
    BY <1>2
  <2>11. DataOf(Through(ToReading, Append(u, x))) = Through(ToReading, TextFrames(Append(u, x)))
    BY <2>1, <2>2, <2>4, <2>6, <2>8, <2>9, <2>10, Zenon
  <2> QED BY <2>1, <2>11
<1> HIDE DEF P
<1>3. Seq(ClientFrames) \subseteq P
  BY <1>1, <1>2, SeqInduction
<1> QED BY <1>3 DEF P

\* The data frames that the server has read are the first frames of the text.
LEMMA GotBeginning ==
    ASSUME Base, TextInOrder
    PROVE  \E g \in Seq(ClientFrames) : IsPrefix(g, frames) /\ DataOf(srv_in) = Through(ToReading, g)
<1>0. /\ written \in Seq(OutEvents) /\ output_events \in Seq(OutEvents) /\ srv_in \in Seq(Readings)
      /\ frames \in Seq(ClientFrames)
  BY FramesOfSend DEF Base, WireTypes
<1>1. CASE srv_in = <<>>
  <2>1. DataOf(srv_in) = <<>> /\ Through(ToReading, <<>>) = <<>> /\ <<>> \in Seq(ClientFrames)
    <3>1. DataOf(<<>>) = <<>>
      BY DataOne, Zenon
    <3>2. Through(ToReading, <<>>) = <<>> /\ <<>> \in Seq(ClientFrames)
      BY DEF Through
    <3> QED BY <1>1, <3>1, <3>2
  <2> QED BY <1>0, <2>1, NothingIsPrefix
<1>2. CASE srv_in # <<>>
  <2> DEFINE n  == Len(srv_in)
             ws == SubSeq(written, 2, n + 1)
             r  == <<written[1]>>
             z  == SubSeq(written, n + 2, Len(written))
  <2>1. /\ n \in Nat /\ n + 1 <= Len(written) /\ n >= 1 /\ Len(written) \in Nat
        /\ \A i \in 1 .. n : srv_in[i] = Reading(written[i + 1])
    <3>1. Len(offered) = 1
      <4>1. offered # <<>>
        BY <1>2, EarlyPhases
      <4>2. \E names : offered = <<names>>
        BY <4>1 DEF Base, WireTypes
      <4> QED BY <4>2
    <3>2. n \in Nat /\ n >= 1 /\ DOMAIN srv_in = 1 .. n /\ Len(written) \in Nat
      BY <1>0, <1>2
    <3>3. Taken = 1 + n /\ Taken <= Len(written)
      BY <3>1, EarlyPhases DEF Base, InTransit
    <3> QED BY <3>2, <3>3 DEF Base, InTransit
  <2> HIDE DEF n
  <2>2. /\ r \in Seq(OutEvents) /\ ws \in Seq(OutEvents) /\ z \in Seq(OutEvents)
        /\ Len(ws) = n /\ (\A i \in 1 .. n : ws[i] = written[i + 1])
        /\ r = <<written[1]>> /\ written[1] \in OutEvents
    <3>1. /\ ws \in Seq(OutEvents) /\ z \in Seq(OutEvents)
          /\ Len(ws) = n /\ (\A i \in 1 .. n : ws[i] = written[i + 1])
      BY <1>0, <2>1
    <3>2. written[1] \in OutEvents
      BY <1>0, <2>1
    <3>3. \A e \in OutEvents : <<e>> \in Seq(OutEvents)
      OBVIOUS
    <3> QED BY <3>1, <3>2, <3>3, Zenon
  <2>3. written = r \o (ws \o z)
    <3>1. SubSeq(written, 1, Len(written)) = written
      BY <1>0
    <3>2. SubSeq(written, 0 + 1, Len(written)) = <<written[0 + 1]>> \o SubSeq(written, 0 + 2, Len(written))
      <4>1. 0 \in Nat /\ 0 < Len(written)
        BY <2>1
      <4> QED BY <1>0, <4>1, NextOf, Zenon
    <3>3. 0 + 1 = 1 /\ 0 + 2 = 2
      OBVIOUS
    <3>4. ws \o z = SubSeq(written, 2, Len(written))
      <4>1. 2 \in 1 .. Len(written) + 1 /\ n + 1 \in 2 - 1 .. Len(written) /\ Len(written) \in n + 1 .. Len(written)
            /\ (n + 1) + 1 = n + 2
        BY <2>1
      <4>2. SubSeq(written, 2, n + 1) \o SubSeq(written, (n + 1) + 1, Len(written)) = SubSeq(written, 2, Len(written))
        BY <1>0, <4>1, ConcatAdjacentSubSeq, Zenon
      <4> QED BY <4>1, <4>2, Zenon
    <3> QED BY <3>1, <3>2, <3>3, <3>4, Zenon
  <2>4. RequestFirst(written)
    <3>1. written # <<>> /\ connection_status # "START_INIT"
      <4>1. written # <<>>
        BY <2>1
      <4> QED BY <4>1 DEF Base, Phases
    <3> QED BY <1>0, <3>1, EarlyPhases, FirstAndRest
  <2>5. ws \in Seq(ClientFrames)
    <3>1. ASSUME NEW i \in 1 .. n
          PROVE  ws[i] \in ClientFrames
      <4>1. i + 1 \in DOMAIN written /\ i + 1 > 1
        BY <1>0, <2>1
      <4>2. is_websocket_data(written[i + 1])
        BY <2>4, <4>1, Zenon DEF RequestFirst
      <4>3. written[i + 1] \in OutEvents
        BY <1>0, <4>1
      <4>4. ws[i] = written[i + 1]
        BY <2>2
      <4> QED BY <4>2, <4>3, <4>4, OutEventKind
    <3>2. \A S, T : \A s \in Seq(S) : (\A i \in 1 .. Len(s) : s[i] \in T) => s \in Seq(T)
      OBVIOUS
    <3> QED BY <2>2, <3>1, <3>2, Zenon
  <2>6. srv_in = Through(ToReading, ws)
    <3>1. EachThrough(ToReading, ws, Readings)
      BY <2>5, ReadingMap, ThroughType
    <3>2. \A i \in 1 .. n : ws[i] \in ClientFrames
      BY <2>2, <2>5
    <3>3. \A i \in 1 .. n : srv_in[i] = Through(ToReading, ws)[i]
      <4> TAKE i \in 1 .. n
      <4>1. Through(ToReading, ws)[i] = ToReading[ws[i]]
        BY <2>2, <3>1, Zenon DEF EachThrough
      <4>2. ToReading[ws[i]] = Reading(written[i + 1])
        BY <2>2, <3>2, ReadingMap, Zenon
      <4> QED BY <2>1, <4>1, <4>2, Zenon
    <3>4. Through(ToReading, ws) \in Seq(Readings) /\ Len(Through(ToReading, ws)) = n
      BY <2>2, <3>1 DEF EachThrough
    <3> HIDE DEF ws
    <3> QED BY <1>0, <3>3, <3>4, SeqEqual DEF n
  <2>7. TextFrames(r) = <<>>
    <3>1. 1 \in DOMAIN written /\ ~(1 > 1)
      BY <1>0, <2>1
    <3>2. ~is_websocket_data(written[1])
      BY <2>4, <3>1, Zenon DEF RequestFirst
    <3>3. TextFrame(written[1]) = <<>>
      BY <3>2 DEF TextFrame
    <3> QED BY <2>2, <3>3, FramesOne
  <2> HIDE DEF ws, r, z
  <2>8. TextFrames(written) = TextFrames(ws) \o TextFrames(z) /\ TextFrames(ws) \in Seq(ClientFrames)
        /\ TextFrames(z) \in Seq(ClientFrames)
    <3>1. ws \o z \in Seq(OutEvents)
      BY <2>2
    <3>2. TextFrames(r \o (ws \o z)) = TextFrames(r) \o TextFrames(ws \o z)
      BY <2>2, <3>1, FramesMore
    <3>3. /\ TextFrames(ws \o z) = TextFrames(ws) \o TextFrames(z)
          /\ TextFrames(ws) \in Seq(ClientFrames) /\ TextFrames(z) \in Seq(ClientFrames)
      BY <2>2, FramesMore
    <3>4. TextFrames(ws \o z) \in Seq(ClientFrames)
      BY <3>1, FramesMore
    <3>5. <<>> \o TextFrames(ws \o z) = TextFrames(ws \o z)
      BY <3>4, ConcatEmptySeq
    <3> QED BY <2>3, <2>7, <3>2, <3>3, <3>5, Zenon
  <2>9. IsPrefix(TextFrames(ws), frames)
    <3>1. Queued \in Seq(ClientFrames)
      <4>1. TextFrames(output_events) \in Seq(ClientFrames)
        BY <1>0, FramesMore
      <4> QED BY <4>1 DEF Queued
    <3>2. IsPrefix((TextFrames(ws) \o TextFrames(z)) \o Queued, frames)
      BY <2>8, OrderIs
    <3>3. TextFrames(ws) \o TextFrames(z) \in Seq(ClientFrames)
      BY <2>8
    <3>4. IsPrefix(TextFrames(ws) \o TextFrames(z), frames)
      BY <1>0, <3>1, <3>2, <3>3, PrefixOfMore, Zenon
    <3> QED BY <1>0, <2>8, <3>4, PrefixOfMore, Zenon
  <2>10. DataOf(srv_in) = Through(ToReading, TextFrames(ws))
    BY <2>5, <2>6, DataRead
  <2> QED BY <2>8, <2>9, <2>10
<1> QED BY <1>1, <1>2

\* Where the k-th frame of the text ends.
EndOf(k) == Least(k * size, Len(payload))

\* The frames of send, once it is done.
LEMMA FramesOfText ==
    ASSUME Base, connection_status # "START_INIT"
    PROVE  /\ size \in Nat /\ Len(payload) \in Nat /\ payload \in Seq(Byte)
           /\ frames \in Seq(ClientFrames) /\ Len(frames) \in Nat
           /\ \A k \in 1 .. Len(frames) :
                 /\ frames[k].data = SubSeq(payload, (k - 1) * size + 1, EndOf(k))
                 /\ frames[k].header.code = IF k = 1 THEN TEXT ELSE CONTINUATION
                 /\ frames[k].header.flag = IF k * size >= Len(payload) THEN FIN ELSE NOFLAG
                 /\ (k - 1) * size < Len(payload)
<1>1. SendTypeOK /\ TextIsCut /\ frames \in Seq(ClientFrames) /\ DOMAIN frames = 1 .. Len(frames)
      /\ Len(frames) \in Nat
  <2>1. SInv /\ frames \in Seq(ClientFrames)
    BY FramesOfSend DEF Base, WireTypes
  <2> QED BY <2>1 DEF SInv
<1>2. size \in Nat /\ Len(payload) \in Nat /\ payload \in Seq(Byte)
  BY <1>1, SizeFits, TextFits
<1>3. Len(frames) * size >= Len(payload)
  BY DEF Base, Phases, size
<1>4. \A k \in 1 .. Len(frames) :
         /\ frames[k].data = SubSeq(payload, (k - 1) * size + 1, EndOf(k))
         /\ frames[k].header.code = IF k = 1 \/ size = 0 THEN TEXT ELSE CONTINUATION
         /\ frames[k].header.flag = IF k * size >= Len(payload) THEN FIN ELSE NOFLAG
         /\ (k - 1) * size < Len(payload)
  BY <1>1, Zenon DEF TextIsCut, size, EndOf
<1>5. ASSUME NEW k \in 1 .. Len(frames)
      PROVE  size # 0
  <2>1. ASSUME size = 0
        PROVE  FALSE
    <3>1. Len(frames) * size = 0
      BY <1>1, <2>1, OneMore
    <3>2. k - 1 \in Nat
      OBVIOUS
    <3>3. (k - 1) * size = 0
      BY <2>1, <3>2, <1>2, OneMore
    <3>4. (k - 1) * size < Len(payload)
      BY <1>4
    <3> QED BY <1>2, <1>3, <3>1, <3>3, <3>4
  <2> QED BY <2>1
<1>6. \A k \in 1 .. Len(frames) : frames[k].header.code = IF k = 1 THEN TEXT ELSE CONTINUATION
  BY <1>4, <1>5, Zenon
<1> QED BY <1>1, <1>2, <1>4, <1>6, Zenon

\* The texts of the first frames, one behind the other.
LEMMA TextGathered ==
    ASSUME Base, connection_status # "START_INIT", NEW m \in 0 .. Len(frames)
    PROVE  FlattenSeq([i \in 1 .. m |-> frames[i].data]) = SubSeq(payload, 1, EndOf(m))
<1>1. /\ size \in Nat /\ Len(payload) \in Nat /\ payload \in Seq(Byte)
      /\ frames \in Seq(ClientFrames) /\ Len(frames) \in Nat
      /\ \A k \in 1 .. Len(frames) :
            /\ frames[k].data = SubSeq(payload, (k - 1) * size + 1, EndOf(k))
            /\ (k - 1) * size < Len(payload)
  BY FramesOfText
<1> DEFINE s(k) == [i \in 1 .. k |-> frames[i].data]
           S == {k \in Nat : k <= Len(frames) => FlattenSeq(s(k)) = SubSeq(payload, 1, EndOf(k))}
<1>2. 0 \in S
  <2>1. s(0) = <<>>
    OBVIOUS
  <2>2. EndOf(0) = 0
    <3>1. 0 * size = 0
      BY <1>1, OneMore
    <3> QED BY <1>1, <3>1 DEF EndOf, Least
  <2>3. SubSeq(payload, 1, 0) = <<>>
    BY <1>1
  <2> QED BY <2>1, <2>2, <2>3, FlattenNone
<1>3. ASSUME NEW k \in Nat, k \in S
      PROVE  k + 1 \in S
  <2> SUFFICES ASSUME k + 1 <= Len(frames)
               PROVE  FlattenSeq(s(k + 1)) = SubSeq(payload, 1, EndOf(k + 1))
    OBVIOUS
  <2>1. k + 1 \in 1 .. Len(frames) /\ (k + 1) - 1 = k /\ k <= Len(frames)
    BY <1>1
  <2>2. k * size < Len(payload) /\ frames[k + 1].data = SubSeq(payload, k * size + 1, EndOf(k + 1))
    BY <1>1, <2>1, Zenon
  <2>3. k * size \in Nat /\ (k + 1) * size = k * size + size
    BY <1>1, OneMore
  <2>4. EndOf(k) = k * size /\ EndOf(k + 1) \in Nat /\ EndOf(k) <= EndOf(k + 1) /\ EndOf(k + 1) <= Len(payload)
    BY <1>1, <2>2, <2>3 DEF EndOf, Least
  <2>5. /\ s(k) \in Seq(Seq(Byte)) /\ s(k + 1) = Append(s(k), frames[k + 1].data)
        /\ frames[k + 1].data \in Seq(Byte)
    <3>1. \A i \in 1 .. Len(frames) : frames[i].data \in Seq(Byte)
      <4> TAKE i \in 1 .. Len(frames)
      <4>1. frames[i] \in ClientFrames
        BY <1>1
      <4> QED BY <4>1, FrameParts
    <3>2. s(k) \in Seq(Seq(Byte)) /\ Len(s(k)) = k /\ \A i \in 1 .. k : s(k)[i] = frames[i].data
      <4>1. \A i \in 1 .. k : i \in 1 .. Len(frames)
        BY <1>1, <2>1
      <4> QED BY <3>1, <4>1
    <3>3. s(k + 1) \in Seq(Seq(Byte)) /\ Len(s(k + 1)) = k + 1
          /\ \A i \in 1 .. k + 1 : s(k + 1)[i] = frames[i].data
      <4>1. \A i \in 1 .. k + 1 : i \in 1 .. Len(frames)
        BY <1>1, <2>1
      <4> QED BY <3>1, <4>1
    <3>4. frames[k + 1].data \in Seq(Byte)
      BY <2>1, <3>1
    <3> DEFINE d == frames[k + 1].data
               a == s(k)
               b == s(k + 1)
    <3>5. \A i \in 1 .. k : b[i] = a[i]
      BY <3>2, <3>3
    <3>6. b[k + 1] = d
      BY <3>3
    <3>7. a \in Seq(Seq(Byte)) /\ b \in Seq(Seq(Byte)) /\ Len(a) = k /\ Len(b) = k + 1 /\ d \in Seq(Byte)
      BY <3>2, <3>3, <3>4
    <3> HIDE DEF a, b, d
    <3>8. Append(a, d) \in Seq(Seq(Byte)) /\ Len(Append(a, d)) = k + 1
          /\ \A i \in 1 .. k + 1 : Append(a, d)[i] = IF i = k + 1 THEN d ELSE a[i]
      BY <3>7
    <3>9. \A i \in 1 .. k + 1 : b[i] = Append(a, d)[i]
      BY <3>5, <3>6, <3>8
    <3>10. b = Append(a, d)
      BY <3>7, <3>8, <3>9, SeqEqual
    <3> QED BY <3>7, <3>10 DEF a, b, d
  <2>6. FlattenSeq(s(k + 1)) = FlattenSeq(s(k)) \o frames[k + 1].data
    <3> HIDE DEF s
    <3> QED BY <2>5, FlattenAppend
  <2>7. FlattenSeq(s(k)) = SubSeq(payload, 1, EndOf(k))
    BY <1>3, <2>1
  <2>8. SubSeq(payload, 1, EndOf(k)) \o SubSeq(payload, EndOf(k) + 1, EndOf(k + 1)) = SubSeq(payload, 1, EndOf(k + 1))
    <3>1. 1 \in 1 .. Len(payload) + 1 /\ EndOf(k) \in 1 - 1 .. Len(payload) /\ EndOf(k + 1) \in EndOf(k) .. Len(payload)
      BY <1>1, <2>3, <2>4
    <3> QED BY <1>1, <3>1, ConcatAdjacentSubSeq, Zenon
  <2> QED BY <2>2, <2>4, <2>6, <2>7, <2>8, Zenon
<1> HIDE DEF S
<1>4. m \in S
  <2>1. Nat \subseteq S
    BY <1>2, <1>3, SetInduction
  <2> QED BY <1>1, <2>1
<1>5. m <= Len(frames)
  BY <1>1
<1> QED BY <1>4, <1>5 DEF S

\* ServerGetsText follows from the order.
LEMMA TextReaches ==
    ASSUME Base, TextInOrder
    PROVE  ServerGetsText
<1> DEFINE got == DataOf(srv_in)
<1>1. PICK g \in Seq(ClientFrames) : IsPrefix(g, frames) /\ got = Through(ToReading, g)
  BY GotBeginning
<1> DEFINE m == Len(g)
<1>2. /\ got \in Seq(Readings) /\ Len(got) = m /\ m \in Nat
      /\ \A i \in 1 .. m : got[i] = ToReading[g[i]] /\ g[i] \in ClientFrames
  BY <1>1, ReadingMap, ThroughType DEF EachThrough
<1> HIDE DEF got
<1>3. CASE connection_status = "START_INIT"
  <2>1. srv_in = <<>>
    BY <1>3, EarlyPhases
  <2>2. got = <<>>
    <3>1. DataOf(<<>>) = <<>>
      BY DataOne, Zenon
    <3> QED BY <2>1, <3>1 DEF got
  <2>3. FlattenSeq([i \in DOMAIN got |-> got[i].data]) = <<>> /\ DOMAIN got = {}
    <3>1. [i \in DOMAIN got |-> got[i].data] = <<>>
      BY <2>2
    <3>2. DOMAIN got = {}
      BY <2>2
    <3> QED BY <3>1, <3>2, FlattenNone, Zenon
  <2>4. payload \in Seq(Byte)
    BY TextFits DEF Base, WireTypes, SInv
  <2>5. IsPrefix(<<>>, payload)
    BY <2>4, NothingIsPrefix
  <2> QED BY <2>3, <2>5, Zenon DEF ServerGetsText, got
<1>4. CASE connection_status # "START_INIT"
  <2>1. /\ size \in Nat /\ Len(payload) \in Nat /\ payload \in Seq(Byte)
        /\ frames \in Seq(ClientFrames) /\ Len(frames) \in Nat
        /\ \A k \in 1 .. Len(frames) :
              /\ frames[k].data = SubSeq(payload, (k - 1) * size + 1, EndOf(k))
              /\ frames[k].header.code = IF k = 1 THEN TEXT ELSE CONTINUATION
              /\ frames[k].header.flag = IF k * size >= Len(payload) THEN FIN ELSE NOFLAG
              /\ (k - 1) * size < Len(payload)
    BY <1>4, FramesOfText
  <2>2. m <= Len(frames) /\ \A i \in 1 .. m : g[i] = frames[i]
    BY <1>1, <2>1, PrefixIs
  <2>3. \A i \in 1 .. m : i \in 1 .. Len(frames)
    BY <1>2, <2>1, <2>2
  <2>4. \A i \in 1 .. m : /\ got[i].masks = 1 /\ got[i].code = frames[i].header.code
                          /\ got[i].flag = frames[i].header.flag /\ got[i].data = frames[i].data
    <3> TAKE i \in 1 .. m
    <3>1. g[i] \in ClientFrames /\ got[i] = Reading(g[i])
      BY <1>2, ReadingMap, Zenon
    <3> QED BY <2>2, <3>1, ReadingOne, Zenon
  <2>5. DOMAIN got = 1 .. m
    BY <1>2
  <2> DEFINE text == FlattenSeq([i \in DOMAIN got |-> got[i].data])
  <2>6. text = SubSeq(payload, 1, EndOf(m))
    <3>1. [i \in DOMAIN got |-> got[i].data] = [i \in 1 .. m |-> frames[i].data]
      BY <2>4, <2>5, Zenon
    <3>2. m \in 0 .. Len(frames)
      BY <1>2, <2>1, <2>2
    <3>3. FlattenSeq([i \in 1 .. m |-> frames[i].data]) = SubSeq(payload, 1, EndOf(m))
      BY <1>4, <3>2, TextGathered
    <3> QED BY <3>1, <3>3, Zenon
  <2> HIDE DEF text
  <2>7. m * size \in Nat
    BY <1>2, <2>1, OneMore
  <2>8. IsPrefix(text, payload) /\ (text = payload <=> m * size >= Len(payload))
    <3> DEFINE e == EndOf(m)
    <3>1. e \in 0 .. Len(payload) /\ (e = Len(payload) <=> m * size >= Len(payload))
      BY <2>1, <2>7 DEF EndOf, Least
    <3>2. text = SubSeq(payload, 1, e)
      BY <2>6
    <3> HIDE DEF e
    <3>3. text \in Seq(Byte) /\ Len(text) = e /\ \A i \in 1 .. e : text[i] = payload[i]
      BY <2>1, <3>1, <3>2
    <3>4. e = Len(payload) => text = payload
      BY <2>1, <3>1, <3>2
    <3>5. text = payload => e = Len(payload)
      BY <3>3
    <3>6. IsPrefix(text, payload)
      BY <2>1, <3>1, <3>3, PrefixIs
    <3> QED BY <3>1, <3>4, <3>5, <3>6
  <2>9. ASSUME NEW i \in 1 .. m
        PROVE  got[i].flag = FIN <=> i = m /\ text = payload
    <3>1. i \in 1 .. Len(frames)
      BY <2>3
    <3>2. i * size \in Nat
      BY <2>1, OneMore
    <3>3. got[i].flag = FIN <=> i * size >= Len(payload)
      <4>1. FIN # NOFLAG
        BY DEF FIN, NOFLAG
      <4>2. got[i].flag = IF i * size >= Len(payload) THEN FIN ELSE NOFLAG
        BY <2>1, <2>4, <3>1, Zenon
      <4> QED BY <4>1, <4>2
    <3>4. i # m => ~(i * size >= Len(payload))
      <4> HAVE i # m
      <4>1. i + 1 \in 1 .. m
        BY <1>2
      <4>2. ((i + 1) - 1) * size < Len(payload)
        BY <2>1, <2>3, <4>1, Zenon
      <4>3. (i + 1) - 1 = i
        OBVIOUS
      <4>4. i * size < Len(payload)
        BY <4>2, <4>3, Zenon
      <4> QED BY <2>1, <3>2, <4>4
    <3> QED BY <2>8, <3>3, <3>4
  <2>10. \A i \in 1 .. m : got[i].code = IF i = 1 THEN TEXT ELSE CONTINUATION
    BY <2>1, <2>3, <2>4, Zenon
  <2> QED BY <1>2, <2>4, <2>5, <2>8, <2>9, <2>10, Zenon DEF ServerGetsText, got, text
<1> QED BY <1>3, <1>4

\* What the server has read of the text is, for every text, message size and width
\* of usize, and wherever the bytes were cut, what send was given, in its order, up
\* to the last frame of it (ServerGetsText).
THEOREM ServerGetsTheText == Spec => []ServerGetsText
<1>1. Init => Base /\ TextInOrder
  <2>1. Init => connection_status = "START_INIT"
    BY DEF Init
  <2> QED BY <2>1, BaseStarts, OrderEmpty
<1>2. Base /\ TextInOrder /\ [Next]_vars => (Base /\ TextInOrder)'
  BY BaseStep, OrderStep
<1>3. Base /\ TextInOrder => ServerGetsText
  BY TextReaches
<1> QED BY <1>1, <1>2, <1>3, PTL DEF Spec

-----------------------------------------------------------------------------
(* Frames of the server, found *)

\* Where the payload of a frame of the server starts.
PayloadAt(n) == IF n <= 125 THEN 2 ELSE IF n <= 65535 THEN 4 ELSE 10

\* Where the payload begins by its length.
LEMMA ShortForm ==
    ASSUME NEW n \in Nat
    PROVE  1 + Len(ShortLength(n)) = PayloadAt(n)
<1>1. CASE n <= 125
  <2>1. ShortLength(n) = <<n>>
    BY <1>1 DEF ShortLength
  <2> QED BY <1>1, <2>1 DEF PayloadAt
<1>2. CASE ~(n <= 125) /\ n <= 65535
  <2>1. ShortLength(n) = <<126>> \o be16(n)
    BY <1>2 DEF ShortLength
  <2>2. Len(<<126>> \o be16(n)) = 3
    <3>1. Len(be16(n)) = 2 /\ Len(<<126>>) = 1
      BY DEF be16
    <3>2. be16(n) \in Seq(Int) /\ <<126>> \in Seq(Int)
      <4>1. \A m \in Nat : (m \div 256) % 256 \in Int /\ m % 256 \in Int
        BY SMT
      <4> QED BY <4>1 DEF be16
    <3>3. Len(<<126>> \o be16(n)) = Len(<<126>>) + Len(be16(n))
      <4>1. \A p, q \in Seq(Int) : Len(p \o q) = Len(p) + Len(q)
        OBVIOUS
      <4> QED BY <3>2, <4>1, Zenon
    <3>4. Len(<<126>>) + Len(be16(n)) = 3
      BY <3>1
    <3> QED BY <3>3, <3>4, Zenon
  <2> QED BY <1>2, <2>1, <2>2 DEF PayloadAt
<1>3. CASE ~(n <= 65535)
  <2>1. ShortLength(n) = <<127>> \o be64(n)
    BY <1>3 DEF ShortLength
  <2>2. Len(<<127>> \o be64(n)) = 9
    <3>1. Len(be64(n)) = 8 /\ Len(<<127>>) = 1
      BY DEF be64
    <3>2. be64(n) \in Seq(Int) /\ <<127>> \in Seq(Int)
      <4>1. \A m \in Nat : /\ m \div 16777216 \in Int /\ (m \div 65536) % 256 \in Int
                           /\ (m \div 256) % 256 \in Int /\ m % 256 \in Int
        BY SMT
      <4> QED BY <4>1 DEF be64
    <3>3. Len(<<127>> \o be64(n)) = Len(<<127>>) + Len(be64(n))
      <4>1. \A p, q \in Seq(Int) : Len(p \o q) = Len(p) + Len(q)
        OBVIOUS
      <4> QED BY <3>2, <4>1, Zenon
    <3>4. Len(<<127>>) + Len(be64(n)) = 9
      BY <3>1
    <3> QED BY <3>3, <3>4, Zenon
  <2> QED BY <1>3, <2>1, <2>2 DEF PayloadAt
<1> QED BY <1>1, <1>2, <1>3

\* A frame found at the beginning of bytes that begin with a frame of the server.
FoundAt(b, f) ==
    /\ HasFrame(b) /\ Length(b) = Len(f.data)
    /\ Start(b) = PayloadAt(Len(f.data))
    /\ Start(b) + Length(b) = Len(Framed(f))
    /\ CodeOf(b) = f.code /\ FlagOf(b) = f.flag
    /\ \A k \in 1 .. Len(f.data) : b[Start(b) + k] = f.data[k]

\* A frame found at the front of what is left is the next one the server sent.
LEMMA FrameAligned ==
    ASSUME NEW f \in ServerFrames, NEW b \in Seq(Byte), NEW more \in Seq(Byte), NEW rest \in Seq(Byte),
           b \o more = Framed(f) \o rest, bytes_to_frame(b).kind = "frame"
    PROVE  FoundAt(b, f)
<1> DEFINE n     == Len(f.data)
           m     == ShortLength(n)
           first == f.flag + f.code
           zero  == 0
           none  == <<>>
           full  == b \o more
<1>1. /\ f.data \in Seq(Byte) /\ n \in Nat /\ first \in Byte
      /\ first - (first % 16) = f.flag /\ first % 32 \in {f.code, f.code + 16}
      /\ f.code \in 0 .. 15
  BY ServerFrameParts
<1>2. /\ Framed(f) = (<<first>> \o m) \o f.data
      /\ m \in Seq(Byte) /\ Announces(m, n) /\ Sized(m)
      /\ Len(Framed(f)) = 1 + Len(m) + n
  BY FramedBytes
<1>3. 1 + Len(m) = PayloadAt(n)
  <2>1. \A k \in Nat : 1 + Len(ShortLength(k)) = PayloadAt(k)
    BY ShortForm
  <2>2. m = ShortLength(n)
    OBVIOUS
  <2>3. n \in Nat
    BY <1>1
  <2> HIDE DEF m, n
  <2> QED BY <2>1, <2>2, <2>3, Zenon
<1>4. zero \in {0, 1} /\ none \in Seq(Byte) /\ Len(none) = 0 /\ 1 + Len(m) + Len(none) = 1 + Len(m)
  <2>1. Len(m) \in Nat
    BY <1>2 DEF Sized
  <2> HIDE DEF m
  <2> QED BY <2>1
<1>5. HeaderOf(first, m, 0, <<>>) = <<first>> \o m
  BY <1>1, <1>2, BareHeader
<1>6. Framed(f) \o rest = FrameOf(first, m, zero, none, f.data, rest)
  BY <1>2, <1>5, Zenon DEF FrameOf
<1>7. full = FrameOf(first, m, zero, none, f.data, rest)
  BY <1>6
<1>8. HasFrame(b)
  BY FrameFound
<1> HIDE DEF m, first, n, zero, none
<1>9. Carries(full, first, m, zero, none, f.data)
  <2>1. Carries(FrameOf(first, m, zero, none, f.data, rest), first, m, zero, none, f.data)
    BY <1>1, <1>2, <1>4, FrameBytes
  <2> QED BY <1>7, <2>1, Zenon
<1> DEFINE i == 1 + Len(m)
<1>10. i \in Nat /\ i >= 2 /\ Len(m) \in Nat /\ Len(m) >= 1 /\ Len(b) \in Nat /\ Len(b) >= 2
  <2>1. Len(b) >= 2 /\ Len(b) \in Nat
    BY <1>8 DEF HasFrame
  <2> QED BY <1>2, <2>1 DEF Sized
<1>11. /\ \A k \in 1 .. Len(b) : full[k] = b[k]
       /\ full \in Seq(Byte)
  BY OneAfterAnother
<1>12. /\ Begins(full, first, m, zero, none)
       /\ SubSeq(full, i + 1, i + n) = f.data /\ Len(full) >= i + n
  BY <1>4, <1>9, Zenon DEF Carries, n
<1>13. payload_at(full[2] % 128) = i
  BY <1>1, <1>2, <1>12, ReadsLength
<1> HIDE DEF full
<1>14. b[1] = full[1] /\ b[2] = full[2]
  BY <1>10, <1>11
<1>15. Start(b) = i
  BY <1>13, <1>14, Zenon DEF Start, Short
<1>16. Len(b) >= i
  BY <1>8, <1>15, Zenon DEF HasFrame
<1>17. Begins(b, first, m, zero, none)
  <2>1. /\ Sized(m) /\ zero \in {0, 1} /\ none \in Seq(Byte)
        /\ full[1] = first /\ full[2] = m[1] + 128 * zero
        /\ \A k \in 2 .. Len(m) : full[k + 1] = m[k]
        /\ \A k \in 1 .. Len(none) : full[1 + Len(m) + k] = none[k]
    BY <1>12 DEF Begins
  <2>2. \A k \in 2 .. Len(m) : k + 1 \in 1 .. Len(b)
    BY <1>10, <1>16
  <2>3. \A k \in 2 .. Len(m) : b[k + 1] = m[k]
    BY <1>11, <2>1, <2>2, Zenon
  <2>4. 1 .. Len(none) = {}
    BY <1>4
  <2>5. \A k \in 1 .. Len(none) : b[1 + Len(m) + k] = none[k]
    BY <2>4, Zenon
  <2>6. Len(b) >= 1 + Len(m) + Len(none)
    BY <1>4, <1>16, Zenon
  <2> QED BY <1>14, <2>1, <2>3, <2>5, <2>6, Zenon DEF Begins
<1>18. Length(b) = n
  <2>1. payload_len(b, b[2] % 128) = n
    BY <1>1, <1>2, <1>17, ReadsLength
  <2> QED BY <2>1 DEF Length, Short
<1>19. i + n <= Len(b)
  <2>1. Length(b) + Start(b) <= Len(b)
    BY <1>8 DEF HasFrame
  <2> QED BY <1>1, <1>10, <1>15, <1>18, <2>1
<1>20. ASSUME NEW k \in 1 .. n
       PROVE  b[Start(b) + k] = f.data[k]
  <2>1. i + k \in 1 .. Len(b)
    BY <1>1, <1>10, <1>19
  <2>2. SubSeq(full, i + 1, i + n)[k] = full[i + k]
    <3>1. \A j \in 1 .. n : SubSeq(full, i + 1, i + n)[j] = full[i + j]
      <4> HIDE DEF i
      <4>1. i \in Nat /\ n \in Nat /\ i + n <= Len(full)
        <5>1. Len(full) \in Nat
          BY <1>11
        <5> QED BY <1>1, <1>10, <1>12, <5>1
      <4> QED BY <1>11, <4>1, Piece
    <3> QED BY <3>1, Zenon
  <2> QED BY <1>11, <1>12, <1>15, <2>1, <2>2, Zenon
<1>21. CodeOf(b) = f.code /\ FlagOf(b) = f.flag
  <2>1. b[1] = first
    BY <1>17 DEF Begins
  <2>2. CodeOf(b) \in Opcodes
    BY <1>8 DEF HasFrame
  <2>3. \A c \in 0 .. 15 : c + 16 \notin Opcodes
    BY SMT DEF Opcodes
  <2> QED BY <1>1, <2>1, <2>2, <2>3, Zenon DEF CodeOf, FlagOf
<1>22. Start(b) + Length(b) = Len(Framed(f))
  BY <1>2, <1>15, <1>18, Zenon
<1>23. Start(b) = PayloadAt(n)
  BY <1>3, <1>15, Zenon DEF i
<1>24. \A k \in 1 .. n : b[Start(b) + k] = f.data[k]
  BY <1>20
<1>25. n = Len(f.data)
  BY DEF n
<1> QED BY <1>8, <1>18, <1>21, <1>22, <1>23, <1>24, <1>25, Zenon DEF FoundAt

\* The beginning of a piece of a sequence is a piece of it.
LEMMA PieceOfPiece ==
    ASSUME NEW s \in Seq(Byte), NEW at \in Nat, NEW r \in Nat, NEW c \in Nat,
           at + r <= Len(s), c <= r
    PROVE  SubSeq(SubSeq(s, at + 1, at + r), 1, c) = SubSeq(s, at + 1, at + c)
<1> DEFINE p == SubSeq(s, at + 1, at + r)
           x == SubSeq(p, 1, c)
           y == SubSeq(s, at + 1, at + c)
<1>1. p \in Seq(Byte) /\ Len(p) = r /\ \A k \in 1 .. r : p[k] = s[at + k]
  BY Piece
<1>2. at + c <= Len(s)
  OBVIOUS
<1>3. y \in Seq(Byte) /\ Len(y) = c /\ \A k \in 1 .. c : y[k] = s[at + k]
  BY <1>2, Piece
<1> HIDE DEF p, y
<1>4. x \in Seq(Byte) /\ Len(x) = c /\ \A k \in 1 .. c : x[k] = p[k]
  BY <1>1
<1>5. \A k \in 1 .. c : k \in 1 .. r
  OBVIOUS
<1>6. \A k \in 1 .. Len(x) : x[k] = y[k]
  BY <1>1, <1>3, <1>4, <1>5, Zenon
<1> HIDE DEF x
<1>7. x = y
  BY <1>3, <1>4, <1>6, SeqEqual, Zenon
<1> QED BY <1>7 DEF x, y, p

\* The data of a control frame that bytes_to_frame makes is a piece of the bytes.
LEMMA ControlData ==
    ASSUME NEW b \in Seq(Byte), NEW i \in Nat, NEW n \in Nat, i >= 2, i <= n, i + n <= Len(b),
           NEW flag, NEW code
    PROVE  LET made == ControlFrame(flag, code, SubSeq(b, i + 1, i + 2), SubSeq(b, i + 3, n + 2), <<>>)
           IN  made.data = SubSeq(b, i + 1, IF 2 + (n - i) <= 125 THEN n + 2 ELSE i + 124)
<1> DEFINE status == SubSeq(b, i + 1, i + 2)
           rest   == SubSeq(b, i + 3, n + 2)
           made   == ControlFrame(flag, code, status, rest, <<>>)
           r      == n - i
<1>1. r \in Nat /\ n = i + r /\ (i + 2) + r <= Len(b)
  OBVIOUS
<1>2. Len(status) = 2
  <2>1. 2 \in Nat /\ i + 2 <= Len(b)
    OBVIOUS
  <2> QED BY <2>1, CutOut, Zenon
<1>3. rest = SubSeq(b, (i + 2) + 1, (i + 2) + r)
  <2>1. (i + 2) + 1 = i + 3 /\ (i + 2) + r = n + 2
    BY <1>1
  <2> QED BY <2>1, Zenon
<1>4. Len(rest) = r
  <2> DEFINE j == i + 2
  <2>1. r \in Nat /\ j \in Nat /\ j + r <= Len(b) /\ rest = SubSeq(b, j + 1, j + r)
    BY <1>1, <1>3
  <2> HIDE DEF j, r, rest
  <2>2. Len(SubSeq(b, j + 1, j + r)) = r
    BY <2>1, CutOut, Zenon
  <2> QED BY <2>1, <2>2, Zenon
<1>5. ASSUME NEW c \in Nat, c <= r
      PROVE  status \o SubSeq(b, i + 3, (i + 2) + c) = SubSeq(b, i + 1, (i + 2) + c)
  <2>1. /\ i + 1 \in 1 .. Len(b) + 1 /\ i + 2 \in (i + 1) - 1 .. Len(b)
        /\ (i + 2) + c \in i + 2 .. Len(b) /\ (i + 2) + 1 = i + 3
    BY <1>1, <1>5
  <2> QED BY <2>1, ConcatAdjacentSubSeq, Zenon
<1>6. CASE 2 + r <= 125
  <2>1. made.data = status \o rest
    <3> HIDE DEF status, rest, r
    <3> QED BY <1>2, <1>4, <1>6 DEF ControlFrame
  <2>2. r <= r /\ (i + 2) + r = n + 2
    BY <1>1
  <2>3. status \o SubSeq(b, i + 3, (i + 2) + r) = SubSeq(b, i + 1, (i + 2) + r)
    BY <1>1, <1>5, <2>2
  <2>4. made.data = SubSeq(b, i + 1, n + 2)
    <3> HIDE DEF status, made
    <3> QED BY <2>1, <2>2, <2>3, Zenon
  <2> QED BY <1>6, <2>4
<1>7. CASE ~(2 + r <= 125)
  <2>1. made.data = status \o SubSeq(rest, 1, 124 - Len(status))
    <3> HIDE DEF status, rest, r
    <3> QED BY <1>2, <1>4, <1>7 DEF ControlFrame
  <2>2. PICK c \in Nat : c = 122
    OBVIOUS
  <2>3. 124 - Len(status) = c /\ c <= r /\ (i + 2) + c = i + 124
    BY <1>1, <1>2, <1>7, <2>2
  <2>4. SubSeq(rest, 1, c) = SubSeq(b, i + 3, (i + 2) + c)
    <3> DEFINE j == i + 2
    <3>1. /\ r \in Nat /\ j \in Nat /\ j + r <= Len(b) /\ rest = SubSeq(b, j + 1, j + r)
          /\ j + 1 = i + 3 /\ c <= r
      BY <1>1, <1>3, <2>3
    <3>0. c \in Nat
      BY <2>2
    <3>2. SubSeq(b, j + 1, j + c) = SubSeq(b, i + 3, (i + 2) + c)
      BY <3>1, Zenon
    <3> HIDE DEF j, r, rest
    <3>3. SubSeq(SubSeq(b, j + 1, j + r), 1, c) = SubSeq(b, j + 1, j + c)
      BY <3>0, <3>1, PieceOfPiece, Zenon
    <3> QED BY <3>1, <3>2, <3>3, Zenon
  <2>5. status \o SubSeq(b, i + 3, (i + 2) + c) = SubSeq(b, i + 1, (i + 2) + c)
    BY <1>5, <2>3
  <2>6. made.data = SubSeq(b, i + 1, i + 124)
    <3> HIDE DEF status, made, rest
    <3> QED BY <2>1, <2>3, <2>4, <2>5, Zenon
  <2> QED BY <1>7, <2>6
<1> QED BY <1>6, <1>7

\* How much of a payload of n bytes a control frame keeps.
KeptOf(n) == IF 2 + (n - PayloadAt(n)) <= 125 THEN (n + 2) - PayloadAt(n) ELSE 124

\* How much of a control frame bytes_to_frame keeps.
LEMMA KeptLength ==
    ASSUME NEW n \in Nat, n >= 2
    PROVE  /\ PayloadAt(n) \in Nat /\ PayloadAt(n) >= 2 /\ PayloadAt(n) <= n
           /\ KeptOf(n) \in Nat /\ KeptOf(n) <= n /\ KeptOf(n) >= 2
           /\ KeptOf(n) \in IF n <= 125 THEN {n} ELSE {124, 125}
           /\ (IF 2 + (n - PayloadAt(n)) <= 125 THEN n + 2 ELSE PayloadAt(n) + 124) = PayloadAt(n) + KeptOf(n)
BY SMT DEF PayloadAt, KeptOf

\* What is found is a frame of the server.
FindsFrame(found, f) ==
    /\ found.offset = Len(Framed(f))
    /\ found.frame.header.code = f.code /\ found.frame.header.flag = f.flag
    /\ IsDataCode(f.code) => found.frame.data = f.data
    /\ ~IsDataCode(f.code) => Len(f.data) >= 2 /\ Mirrors(found.frame.data, f.data)

\* bytes_to_frame takes the frame of the server that the bytes begin with.
LEMMA FoundIsSent ==
    ASSUME NEW f \in ServerFrames, NEW b \in Seq(Byte), bytes_to_frame(b).kind = "frame", FoundAt(b, f)
    PROVE  FindsFrame(bytes_to_frame(b), f)
<1> DEFINE found == bytes_to_frame(b)
           n == Len(f.data)
           i == Start(b)
<1>1. /\ HasFrame(b) /\ found = Frame(FrameAt(b), Start(b) + Length(b))
  BY FrameFound
<1>2. /\ Length(b) = n /\ i = PayloadAt(n) /\ i + n = Len(Framed(f))
      /\ CodeOf(b) = f.code /\ FlagOf(b) = f.flag
      /\ \A k \in 1 .. n : b[i + k] = f.data[k]
  BY DEF FoundAt
<1>3. found.frame = FrameAt(b) /\ found.offset = Len(Framed(f))
  BY <1>1, <1>2 DEF Frame
<1>4. found.frame.header.code = f.code /\ found.frame.header.flag = f.flag
  BY <1>2, FoundFrame
<1>5. f.data \in Seq(Byte) /\ n \in Nat
  BY ServerFrameParts
<1>6. Len(b) \in Nat /\ i + n <= Len(b) /\ i \in Nat /\ (~IsDataCode(f.code) => n >= 2)
  <2>1. Len(b) >= 2 /\ Length(b) + Start(b) <= Len(b) /\ (~IsDataCode(f.code) => n >= 2)
    BY <1>1, <1>2 DEF HasFrame
  <2>2. Start(b) \in {2, 4, 10}
    BY <2>1, FramePlaces
  <2> QED BY <1>2, <1>5, <2>1, <2>2
<1> HIDE DEF found, n, i
<1>7. ASSUME NEW q \in Nat, q <= n
      PROVE  SubSeq(b, i + 1, i + q) = SubSeq(f.data, 1, q) /\ Len(SubSeq(b, i + 1, i + q)) = q
  <2> DEFINE x == SubSeq(b, i + 1, i + q)
             y == SubSeq(f.data, 1, q)
  <2>1. i + q <= Len(b) /\ \A k \in 1 .. q : k \in 1 .. n
    BY <1>5, <1>6, <1>7
  <2>2. x \in Seq(Byte) /\ Len(x) = q /\ \A k \in 1 .. q : x[k] = b[i + k]
    BY <1>6, <2>1, Piece
  <2>3. y \in Seq(Byte) /\ Len(y) = q /\ \A k \in 1 .. q : y[k] = f.data[k]
    BY <1>5, <1>7 DEF n
  <2> HIDE DEF x, y
  <2>4. \A k \in 1 .. Len(x) : x[k] = y[k]
    BY <1>2, <2>1, <2>2, <2>3, Zenon
  <2>5. x = y
    BY <2>2, <2>3, <2>4, SeqEqual, Zenon
  <2> QED BY <2>2, <2>5 DEF x, y
<1>8. CASE IsDataCode(f.code)
  <2>1. FrameAt(b).data = SubSeq(b, i + 1, i + n)
    BY <1>2, <1>8 DEF FrameAt, DataFrame, i
  <2>2. SubSeq(b, i + 1, i + n) = SubSeq(f.data, 1, n)
    <3>1. n \in Nat /\ n <= n
      BY <1>5
    <3> QED BY <1>7, <3>1, Zenon
  <2>3. SubSeq(f.data, 1, n) = f.data
    BY <1>5 DEF n
  <2> QED BY <1>3, <1>4, <1>8, <2>1, <2>2, <2>3 DEF found, FindsFrame
<1>9. CASE ~IsDataCode(f.code)
  <2> DEFINE made == ControlFrame(f.flag, f.code, SubSeq(b, i + 1, i + 2), SubSeq(b, i + 3, n + 2), <<>>)
             q == KeptOf(n)
  <2>1. FrameAt(b) = made
    BY <1>2, <1>9 DEF FrameAt, i
  <2>2. /\ i >= 2 /\ i <= n /\ q \in Nat /\ q <= n
        /\ q \in IF n <= 125 THEN {n} ELSE {124, 125}
        /\ (IF 2 + (n - i) <= 125 THEN n + 2 ELSE i + 124) = i + q
    BY <1>2, <1>5, <1>6, <1>9, KeptLength
  <2>3. made.data = SubSeq(b, i + 1, IF 2 + (n - i) <= 125 THEN n + 2 ELSE i + 124)
    <3> DEFINE a == SubSeq(b, i + 1, i + 2)
               z == SubSeq(b, i + 3, n + 2)
               to == IF 2 + (n - i) <= 125 THEN n + 2 ELSE i + 124
    <3>1. i \in Nat /\ n \in Nat /\ i >= 2 /\ i <= n /\ i + n <= Len(b)
      BY <1>5, <1>6, <2>2
    <3>2. ControlFrame(f.flag, f.code, a, z, <<>>).data = SubSeq(b, i + 1, to)
      BY <3>1, ControlData
    <3> HIDE DEF a, z, to
    <3>3. made = ControlFrame(f.flag, f.code, a, z, <<>>)
      BY DEF a, z
    <3>4. made.data = SubSeq(b, i + 1, to)
      <4> HIDE DEF made
      <4> QED BY <3>2, <3>3, Zenon
    <3> QED BY <3>4, Zenon DEF to
  <2> HIDE DEF made, q
  <2>4. made.data = SubSeq(f.data, 1, q) /\ Len(made.data) = q
    BY <1>7, <2>2, <2>3
  <2>5. Mirrors(made.data, f.data)
    BY <2>2, <2>4 DEF Mirrors, n
  <2>6. Len(f.data) >= 2
    BY <1>6, <1>9 DEF n
  <2> QED BY <1>3, <1>4, <1>9, <2>1, <2>5, <2>6 DEF found, FindsFrame
<1> QED BY <1>8, <1>9

\* A sequence without its first two elements.
LEMMA AfterTwo ==
    ASSUME NEW s \in Seq(Byte), Len(s) >= 2
    PROVE  LET z == SubSeq(s, 3, Len(s))
           IN  z \in Seq(Byte) /\ Len(z) = Len(s) - 2 /\ \A k \in 1 .. Len(s) - 2 : z[k] = s[k + 2]
<1> DEFINE z == SubSeq(s, 3, Len(s))
<1>1. PICK c \in Nat : c = Len(s) - 2
  OBVIOUS
<1>2. 2 \in Nat /\ c \in Nat /\ 2 + c <= Len(s) /\ 2 + 1 = 3 /\ 2 + c = Len(s)
  BY <1>1
<1>3. z = SubSeq(s, 2 + 1, 2 + c)
  BY <1>2
<1> HIDE DEF z
<1>4. z \in Seq(Byte) /\ Len(z) = c /\ \A k \in 1 .. c : z[k] = s[2 + k]
  BY <1>2, <1>3, Piece
<1>5. \A k \in 1 .. c : 2 + k = k + 2
  BY <1>2
<1>6. \A k \in 1 .. c : z[k] = s[k + 2]
  BY <1>4, <1>5, Zenon
<1> QED BY <1>1, <1>4, <1>6, Zenon DEF z

\* What answers the beginning of a Close answers the Close.
LEMMA MirrorsReason ==
    ASSUME NEW d \in Seq(Byte), NEW asked \in Seq(Byte), Len(d) >= 2, Len(asked) >= 2, Mirrors(d, asked)
    PROVE  LET status == be16(Status!ReplyStatus(bytes_to_u16(d)))
           IN  /\ status = be16(Status!ReplyStatus(bytes_to_u16(asked)))
               /\ Mirrors(status \o SubSeq(d, 3, Len(d)), status \o SubSeq(asked, 3, Len(asked)))
<1> DEFINE status == be16(Status!ReplyStatus(bytes_to_u16(d)))
           x == SubSeq(d, 3, Len(d))
           y == SubSeq(asked, 3, Len(asked))
           q == Len(d)
           n == Len(asked)
<1>1. d = SubSeq(asked, 1, q) /\ q \in (IF n <= 125 THEN {n} ELSE {124, 125}) /\ q \in Nat /\ n \in Nat
  <2>1. d = SubSeq(asked, 1, q) /\ q \in (IF n <= 125 THEN {n} ELSE {124, 125})
    BY Zenon DEF Mirrors
  <2>2. q \in Nat /\ n \in Nat
    OBVIOUS
  <2> HIDE DEF q, n
  <2> QED BY <2>1, <2>2, Zenon
<1>2. q <= n
  <2>1. \A p, m \in Nat : p \in (IF m <= 125 THEN {m} ELSE {124, 125}) => p <= m
    BY SMT
  <2> HIDE DEF q, n
  <2> QED BY <1>1, <2>1, Zenon
<1>3. \A k \in 1 .. q : d[k] = asked[k]
  BY <1>1, <1>2
<1>4. bytes_to_u16(d) = bytes_to_u16(asked) /\ bytes_to_u16(d) \in Nat
  <2>1. d[1] = asked[1] /\ d[2] = asked[2]
    BY <1>1, <1>3
  <2>2. d[1] \in 0 .. 255 /\ d[2] \in 0 .. 255
    BY <1>1 DEF Byte
  <2>3. \A a, e \in 0 .. 255 : 256 * a + e \in Nat
    BY SMT
  <2> QED BY <2>1, <2>2, <2>3, Zenon DEF bytes_to_u16
<1>5. status = be16(Status!ReplyStatus(bytes_to_u16(asked)))
  BY <1>4, Zenon
<1>6. status \in Seq(Byte) /\ Len(status) = 2
  BY <1>4, ReplyStatusBytes
<1>7. /\ x \in Seq(Byte) /\ Len(x) = q - 2 /\ \A k \in 1 .. q - 2 : x[k] = d[k + 2]
      /\ y \in Seq(Byte) /\ Len(y) = n - 2 /\ \A k \in 1 .. n - 2 : y[k] = asked[k + 2]
  BY AfterTwo
<1>8. q - 2 \in Nat /\ n - 2 \in Nat /\ q - 2 <= n - 2
  BY <1>1, <1>2
<1>9. \A k \in 1 .. q - 2 : x[k] = y[k]
  <2>1. \A k \in 1 .. q - 2 : k \in 1 .. n - 2 /\ k + 2 \in 1 .. q
    BY <1>1, <1>2
  <2> HIDE DEF x, y
  <2> QED BY <1>3, <1>7, <2>1, Zenon
<1> HIDE DEF status, x, y, q, n
<1> DEFINE u == status \o x
           v == status \o y
<1>10. /\ u \in Seq(Byte) /\ Len(u) = q
       /\ v \in Seq(Byte) /\ Len(v) = n
  <2>1. /\ u \in Seq(Byte) /\ Len(u) = Len(status) + Len(x)
        /\ v \in Seq(Byte) /\ Len(v) = Len(status) + Len(y)
    BY <1>6, <1>7, OneAfterAnother, Zenon
  <2>2. Len(status) + Len(x) = q /\ Len(status) + Len(y) = n
    BY <1>1, <1>6, <1>7
  <2> HIDE DEF u, v
  <2> QED BY <2>1, <2>2, Zenon
<1>11. \A k \in 1 .. q : u[k] = v[k]
  <2>1. /\ \A k \in 1 .. 2 : u[k] = status[k]
        /\ \A k \in 1 .. q - 2 : u[2 + k] = x[k]
    <3>1. /\ \A k \in 1 .. Len(status) : u[k] = status[k]
          /\ \A k \in 1 .. Len(x) : u[Len(status) + k] = x[k]
      BY <1>6, <1>7, OneAfterAnother, Zenon
    <3> HIDE DEF u
    <3> QED BY <1>6, <1>7, <3>1, Zenon
  <2>2. /\ \A k \in 1 .. 2 : v[k] = status[k]
        /\ \A k \in 1 .. n - 2 : v[2 + k] = y[k]
    <3>1. /\ \A k \in 1 .. Len(status) : v[k] = status[k]
          /\ \A k \in 1 .. Len(y) : v[Len(status) + k] = y[k]
      BY <1>6, <1>7, OneAfterAnother, Zenon
    <3> HIDE DEF v
    <3> QED BY <1>6, <1>7, <3>1, Zenon
  <2> HIDE DEF u, v
  <2> SUFFICES ASSUME NEW k \in 1 .. q PROVE u[k] = v[k]
    OBVIOUS
  <2>3. CASE k \in 1 .. 2
    BY <2>1, <2>2, <2>3, Zenon
  <2>4. CASE k \notin 1 .. 2
    <3>1. PICK j \in 1 .. q - 2 : k = 2 + j
      <4>1. k - 2 \in 1 .. q - 2 /\ k = 2 + (k - 2)
        BY <1>1, <2>4
      <4> QED BY <4>1
    <3>2. j \in 1 .. n - 2
      BY <1>8, <3>1
    <3> QED BY <1>9, <2>1, <2>2, <3>1, <3>2, Zenon
  <2> QED BY <2>3, <2>4
<1> HIDE DEF u, v
<1>12. u = SubSeq(v, 1, q)
  <2> DEFINE w == SubSeq(v, 1, q)
  <2>1. w \in Seq(Byte) /\ Len(w) = q /\ \A k \in 1 .. q : w[k] = v[k]
    BY <1>1, <1>2, <1>10
  <2> HIDE DEF w
  <2>2. \A k \in 1 .. Len(u) : u[k] = w[k]
    BY <1>10, <1>11, <2>1, Zenon
  <2>3. u = w
    BY <1>10, <2>1, <2>2, SeqEqual, Zenon
  <2> QED BY <2>3 DEF w
<1>13. Mirrors(u, v)
  BY <1>1, <1>10, <1>12, Zenon DEF Mirrors
<1> QED BY <1>5, <1>13 DEF u, v, status, x, y

-----------------------------------------------------------------------------
(* What is heard *)

\* The texts among the callback's events.
HeardIn(evs) ==
    FlattenSeq([i \in DOMAIN evs |-> IF evs[i].kind = "ON_TEXT" THEN <<evs[i].bytes>> ELSE <<>>])

\* An event, and the texts it is.
ToTexts == [e \in Heards |-> IF e.kind = "ON_TEXT" THEN <<e.bytes>> ELSE <<>>]

\* The texts heard are Heard, and an event adds its own.
LEMMA HeardMap ==
    /\ Into(ToTexts, Heards, Seq(Seq(Byte)))
    /\ \A evs \in Seq(Heards) : HeardIn(evs) = FlattenSeq(Through(ToTexts, evs))
<1>1. ASSUME NEW e \in Heards
      PROVE  ToTexts[e] \in Seq(Seq(Byte))
  <2>1. e.bytes \in Seq(Byte)
    BY DEF Heards
  <2>2. \A b \in Seq(Byte) : <<b>> \in Seq(Seq(Byte)) /\ <<>> \in Seq(Seq(Byte))
    OBVIOUS
  <2> QED BY <2>1, <2>2 DEF ToTexts
<1>2. ASSUME NEW evs \in Seq(Heards)
      PROVE  HeardIn(evs) = FlattenSeq(Through(ToTexts, evs))
  <2>1. \A i \in DOMAIN evs : evs[i] \in Heards
    OBVIOUS
  <2>2. [i \in DOMAIN evs |-> IF evs[i].kind = "ON_TEXT" THEN <<evs[i].bytes>> ELSE <<>>]
          = Through(ToTexts, evs)
    BY <2>1 DEF Through, ToTexts
  <2> QED BY <2>2, Zenon DEF HeardIn
<1> QED BY <1>1, <1>2 DEF Into

\* One more event.
LEMMA HeardMore ==
    ASSUME NEW evs \in Seq(Heards), NEW e \in Heards
    PROVE  /\ HeardIn(evs) \in Seq(Seq(Byte)) /\ HeardIn(<<>>) = <<>>
           /\ HeardIn(Append(evs, e)) = HeardIn(evs) \o (IF e.kind = "ON_TEXT" THEN <<e.bytes>> ELSE <<>>)
<1>1. <<>> \in Seq(Heards) /\ <<e>> \in Seq(Heards) /\ Append(evs, e) = evs \o <<e>>
      /\ Append(evs, e) \in Seq(Heards)
  BY AppendIsConcat
<1>2. Into(ToTexts, Heards, Seq(Seq(Byte)))
  BY HeardMap
<1> DEFINE v == <<e>>
<1>3. v \in Seq(Heards)
  BY <1>1
<1>4. FlattenSeq(Through(ToTexts, v)) = ToTexts[e] /\ FlattenSeq(Through(ToTexts, <<>>)) = <<>>
  BY <1>2, FlatThroughOne
<1>5. Append(evs, e) = evs \o v
  BY <1>1
<1> HIDE DEF v
<1>6. Piecewise(ToTexts, evs, v, Seq(Byte))
  BY <1>2, <1>3, FlatThrough, Zenon
<1>7. ToTexts[e] = IF e.kind = "ON_TEXT" THEN <<e.bytes>> ELSE <<>>
  BY DEF ToTexts
<1> QED BY <1>1, <1>4, <1>5, <1>6, <1>7, HeardMap, Zenon DEF Piecewise

\* Events that are not texts add nothing.
LEMMA HeardNothing ==
    ASSUME NEW evs \in Seq(Heards), NEW more \in Seq(Heards), NEW kind \in {"ON_CONNECT", "SERVER_CLOSE"},
           more = evs \/ \E b \in Seq(Byte) : more = Append(evs, Event(kind, b))
    PROVE  HeardIn(more) = HeardIn(evs)
<1>1. CASE more = evs
  BY <1>1
<1>2. CASE \E b \in Seq(Byte) : more = Append(evs, Event(kind, b))
  <2>1. PICK b \in Seq(Byte) : more = Append(evs, Event(kind, b))
    BY <1>2
  <2>2. Event(kind, b) \in Heards /\ Event(kind, b).kind # "ON_TEXT"
    BY DEF Event, Heards
  <2> DEFINE e == Event(kind, b)
  <2> HIDE DEF e
  <2>3. e \in Heards /\ e.kind # "ON_TEXT" /\ more = Append(evs, e)
    BY <2>1, <2>2 DEF e
  <2>4. HeardIn(evs) \in Seq(Seq(Byte)) /\ HeardIn(more) = HeardIn(evs) \o <<>>
    BY <2>3, HeardMore
  <2> QED BY <2>4, ConcatEmptySeq
<1> QED BY <1>1, <1>2

\* A frame, and its data.
ToPayload == [f \in ServerFrames |-> f.data]

\* The payloads of frames in a row.
LEMMA PayloadsMore ==
    ASSUME NEW s \in Seq(ServerFrames), NEW t \in Seq(ServerFrames)
    PROVE  /\ PayloadsOf(s) \in Seq(Seq(Byte)) /\ PayloadsOf(t) \in Seq(Seq(Byte))
           /\ PayloadsOf(s \o t) = PayloadsOf(s) \o PayloadsOf(t)
<1>1. Into(ToPayload, ServerFrames, Seq(Byte))
  BY ServerFrameParts DEF Into, ToPayload
<1>2. ASSUME NEW all \in Seq(ServerFrames)
      PROVE  PayloadsOf(all) = Through(ToPayload, all)
  <2>1. \A i \in DOMAIN all : all[i] \in ServerFrames
    OBVIOUS
  <2> QED BY <2>1 DEF PayloadsOf, Through, ToPayload
<1>3. EachThrough(ToPayload, s, Seq(Byte)) /\ EachThrough(ToPayload, t, Seq(Byte))
  BY <1>1, ThroughType, Zenon
<1>4. Through(ToPayload, s \o t) = Through(ToPayload, s) \o Through(ToPayload, t)
  BY <1>1, ThroughConcat
<1>5. s \o t \in Seq(ServerFrames)
  OBVIOUS
<1> QED BY <1>2, <1>3, <1>4, <1>5, Zenon DEF EachThrough

\* The data of no frame, and of one.
LEMMA PayloadsOne ==
    ASSUME NEW f
    PROVE  PayloadsOf(<<>>) = <<>> /\ PayloadsOf(<<f>>) = <<f.data>>
<1>1. PayloadsOf(<<>>) = <<>>
  BY DEF PayloadsOf
<1>2. PayloadsOf(<<f>>) = <<f.data>>
  BY DEF PayloadsOf
<1> QED BY <1>1, <1>2

\* The data frames of a case are as whole as all of them.
LEMMA WholeOne ==
    ASSUME case \in Cases, WholeTexts, NEW k \in DOMAIN case.frames, IsDataCode(case.frames[k].code)
    PROVE  case.frames[k].flag = FIN
<1> DEFINE all == case.frames
           f   == all[k]
           a   == SubSeq(all, 1, k - 1)
           z   == SubSeq(all, k + 1, Len(all))
<1>1. all \in Seq(ServerFrames)
  BY CaseFrames
<1>2. k \in 1 .. Len(all) /\ Len(all) \in Nat
  BY <1>1
<1>3. /\ a \in Seq(ServerFrames) /\ z \in Seq(ServerFrames) /\ f \in ServerFrames
      /\ <<f>> \in Seq(ServerFrames) /\ <<f>> \o z \in Seq(ServerFrames)
  BY <1>1, <1>2
<1>4. all = a \o (<<f>> \o z)
  <2>1. SubSeq(all, 1, Len(all)) = all
    BY <1>1
  <2>2. SubSeq(all, k, Len(all)) = <<f>> \o z
    <3>1. k - 1 \in Nat /\ k - 1 < Len(all) /\ (k - 1) + 1 = k /\ (k - 1) + 2 = k + 1
      BY <1>2
    <3>2. \A j \in Nat : j < Len(all) =>
             SubSeq(all, j + 1, Len(all)) = <<all[j + 1]>> \o SubSeq(all, j + 2, Len(all))
      BY <1>1, NextOf
    <3>3. SubSeq(all, (k - 1) + 1, Len(all)) = <<all[(k - 1) + 1]>> \o SubSeq(all, (k - 1) + 2, Len(all))
      BY <3>1, <3>2, Zenon
    <3> QED BY <3>1, <3>3, Zenon
  <2>3. /\ 1 \in 1 .. Len(all) + 1 /\ k - 1 \in 1 - 1 .. Len(all) /\ Len(all) \in k - 1 .. Len(all)
        /\ (k - 1) + 1 = k
    BY <1>2
  <2>4. SubSeq(all, 1, k - 1) \o SubSeq(all, (k - 1) + 1, Len(all)) = SubSeq(all, 1, Len(all))
    BY <1>1, <2>3, ConcatAdjacentSubSeq, Zenon
  <2> QED BY <2>1, <2>2, <2>3, <2>4, Zenon
<1>5. DataOf(<<f>>) = <<f>>
  BY DataOne
<1> HIDE DEF a, z, f, all
<1>6. /\ DataOf(all) = DataOf(a) \o (<<f>> \o DataOf(z))
      /\ DataOf(a) \in Seq(ServerFrames) /\ DataOf(z) \in Seq(ServerFrames)
  <2>1. /\ DataOf(a \o (<<f>> \o z)) = DataOf(a) \o DataOf(<<f>> \o z)
        /\ DataOf(a) \in Seq(ServerFrames)
    BY <1>3, DataMore
  <2>2. /\ DataOf(<<f>> \o z) = DataOf(<<f>>) \o DataOf(z)
        /\ DataOf(z) \in Seq(ServerFrames)
    BY <1>3, DataMore
  <2> QED BY <1>4, <1>5, <2>1, <2>2
<1>7. PICK i \in DOMAIN DataOf(all) : DataOf(all)[i] = f
  <2> DEFINE p == DataOf(a)
             q == DataOf(z)
  <2> HIDE DEF p, q
  <2>1. /\ p \in Seq(ServerFrames) /\ q \in Seq(ServerFrames) /\ <<f>> \o q \in Seq(ServerFrames)
        /\ Len(<<f>> \o q) = 1 + Len(q) /\ (<<f>> \o q)[1] = f
    BY <1>3, <1>6 DEF p, q
  <2> DEFINE y == <<f>> \o q
  <2> HIDE DEF y
  <2>2. Len(p) + 1 \in DOMAIN (p \o y) /\ (p \o y)[Len(p) + 1] = f
    <3>1. y \in Seq(ServerFrames) /\ Len(y) >= 1 /\ y[1] = f /\ p \in Seq(ServerFrames)
      BY <2>1 DEF y
    <3> QED BY <3>1
  <2> QED BY <1>6, <2>2 DEF p, q, y
<1>8. TextsSent = DataOf(all)
  BY DEF TextsSent, all
<1> QED BY <1>7, <1>8 DEF WholeTexts, f, all

\* The frames of the case after the first j, and those before.
FramesBefore(j) == SubSeq(case.frames, 1, j)
FramesAfter(j)  == SubSeq(case.frames, j + 1, Len(case.frames))

\* One more frame of the case.
LEMMA NextFrameIs ==
    ASSUME case \in Cases, NEW j \in Nat, j < Len(case.frames)
    PROVE  /\ case.frames[j + 1] \in ServerFrames
           /\ FramesBefore(j) \in Seq(ServerFrames) /\ FramesAfter(j + 1) \in Seq(ServerFrames)
           /\ FramesBefore(j + 1) = FramesBefore(j) \o <<case.frames[j + 1]>>
           /\ Stream(FramesAfter(j)) = Framed(case.frames[j + 1]) \o Stream(FramesAfter(j + 1))
           /\ Stream(FramesAfter(j + 1)) \in Seq(Byte) /\ Framed(case.frames[j + 1]) \in Seq(Byte)
<1> DEFINE all == case.frames
           f   == all[j + 1]
           v   == <<f>>
           z   == SubSeq(all, j + 2, Len(all))
<1>1. all \in Seq(ServerFrames) /\ j + 1 \in 1 .. Len(all) /\ Len(all) \in Nat /\ (j + 1) + 1 = j + 2
  BY CaseFrames
<1>2. SubSeq(all, j + 1, Len(all)) = v \o z /\ f \in ServerFrames /\ z \in Seq(ServerFrames)
      /\ v \in Seq(ServerFrames)
  BY <1>1, NextOf
<1>3. FramesBefore(j) \in Seq(ServerFrames)
  BY <1>1 DEF FramesBefore
<1>4. FramesBefore(j + 1) = FramesBefore(j) \o v
  <2>1. 1 \in 1 .. Len(all) /\ j + 1 \in 1 .. Len(all) /\ (j + 1) - 1 = j
    BY <1>1
  <2>2. SubSeq(all, 1, j + 1) = SubSeq(all, 1, (j + 1) - 1) \o <<all[j + 1]>>
    BY <1>1, <2>1, SubSeqRecursiveSecond, Zenon
  <2> QED BY <2>1, <2>2, Zenon DEF FramesBefore
<1>5. z = FramesAfter(j + 1)
  BY <1>1 DEF FramesAfter
<1>6. Stream(v) = Framed(f)
  BY <1>2, StreamOne
<1> HIDE DEF v, z
<1>7. Stream(v \o z) = Stream(v) \o Stream(z) /\ Stream(z) \in Seq(Byte) /\ Stream(v) \in Seq(Byte)
  BY <1>2, StreamMore
<1>8. FramesAfter(j) = v \o z
  BY <1>2 DEF FramesAfter
<1>9. /\ case.frames[j + 1] = f /\ v = <<case.frames[j + 1]>>
      /\ Framed(f) = Framed(case.frames[j + 1])
  BY DEF v
<1> HIDE DEF f
<1>10. FramesAfter(j + 1) \in Seq(ServerFrames) /\ case.frames[j + 1] \in ServerFrames
  BY <1>2, <1>5, <1>9, Zenon
<1>11. /\ Stream(FramesAfter(j)) = Framed(case.frames[j + 1]) \o Stream(FramesAfter(j + 1))
       /\ Stream(FramesAfter(j + 1)) \in Seq(Byte) /\ Framed(case.frames[j + 1]) \in Seq(Byte)
  BY <1>5, <1>6, <1>7, <1>8, <1>9, Zenon
<1>12. FramesBefore(j + 1) = FramesBefore(j) \o <<case.frames[j + 1]>>
  BY <1>4, <1>9, Zenon
<1> QED BY <1>3, <1>10, <1>11, <1>12, Zenon

\* Taking a frame that was found leaves the frames after it.
LEMMA TakesNext ==
    ASSUME case \in Cases, NEW b \in Seq(Byte), NEW more \in Seq(Byte),
           b # <<>>, bytes_to_frame(b).kind = "frame",
           NEW j \in 0 .. Len(case.frames), b \o more = Stream(FramesAfter(j))
    PROVE  /\ j + 1 \in DOMAIN case.frames /\ case.frames[j + 1] \in ServerFrames
           /\ FindsFrame(bytes_to_frame(b), case.frames[j + 1])
           /\ SubSeq(b, bytes_to_frame(b).offset + 1, Len(b)) \o more = Stream(FramesAfter(j + 1))
<1> DEFINE f == case.frames[j + 1]
           x == Framed(f)
           y == Stream(FramesAfter(j + 1))
           k == bytes_to_frame(b).offset
<1>0. j \in Nat /\ Len(case.frames) \in Nat /\ case.frames \in Seq(ServerFrames)
  BY CaseFrames
<1>1. j < Len(case.frames)
  <2> SUFFICES ASSUME j = Len(case.frames) PROVE FALSE
    BY <1>0
  <2>1. FramesAfter(j) = <<>>
    BY <1>0 DEF FramesAfter
  <2>2. b \o more = <<>>
    BY <2>1, FlattenNone DEF Stream
  <2>3. Len(b \o more) = Len(b) + Len(more) /\ Len(b) \in Nat /\ Len(more) \in Nat /\ Len(b) # 0
    BY EmptySeq
  <2> QED BY <2>2, <2>3
<1>2. f \in ServerFrames /\ b \o more = x \o y /\ x \in Seq(Byte) /\ y \in Seq(Byte)
  <2>1. /\ case.frames[j + 1] \in ServerFrames
        /\ Stream(FramesAfter(j)) = Framed(case.frames[j + 1]) \o Stream(FramesAfter(j + 1))
        /\ Stream(FramesAfter(j + 1)) \in Seq(Byte) /\ Framed(case.frames[j + 1]) \in Seq(Byte)
    <3>1. case \in Cases /\ j \in Nat /\ j < Len(case.frames)
      BY <1>0, <1>1
    <3> HIDE DEF f, x, y, k
    <3> QED BY <3>1, NextFrameIs, Zenon
  <2> QED BY <2>1, Zenon
<1>3. FoundAt(b, f)
  BY <1>2, FrameAligned
<1>4. FindsFrame(bytes_to_frame(b), f)
  BY <1>2, <1>3, FoundIsSent
<1>5. k = Len(x) /\ k \in 1 .. Len(b)
  BY <1>4, FoundFrame DEF FindsFrame
<1>6. k \in Nat /\ k <= Len(b) /\ k <= Len(x)
  BY <1>2, <1>5
<1> HIDE DEF x, y, k
<1>7. SubSeq(b \o more, k + 1, Len(b \o more)) = SubSeq(b, k + 1, Len(b)) \o more
  BY <1>6, EndMore
<1>8. SubSeq(x \o y, k + 1, Len(x \o y)) = SubSeq(x, k + 1, Len(x)) \o y
  BY <1>2, <1>6, EndMore
<1>9. SubSeq(x, k + 1, Len(x)) = <<>> /\ <<>> \o y = y
  BY <1>2, <1>5, <1>6, ConcatEmptySeq
<1>10. SubSeq(b, k + 1, Len(b)) \o more = y
  BY <1>2, <1>7, <1>8, <1>9, Zenon
<1>11. j + 1 \in DOMAIN case.frames
  BY <1>0, <1>1
<1> QED BY <1>2, <1>4, <1>10, <1>11 DEF k, y

\* Before the session.
Early == {"START_INIT", "HANDSHAKE"}

\* InStep at the j-th frame of the case, of values of the variables.
At(j, srv, ahead, heard, data, res) ==
    /\ IF srv = <<>> THEN j = 0 /\ ahead = <<>> ELSE ahead = Stream(FramesAfter(j))
    /\ WholeTexts =>
          /\ IsPrefix(heard, PayloadsOf(DataOf(FramesBefore(j))))
          /\ res = "Ok" => heard = PayloadsOf(DataOf(FramesBefore(j))) /\ data = <<>>

\* InStep, without its definitions.
LEMMA InStepIs ==
    InStep <=>
        (~HasBody /\ connection_status \notin Early =>
            \E j \in 0 .. Len(case.frames) :
                At(j, srv_in, recv_storage \o to_client, HeardIn(events), recv_data, result))
BY Zenon DEF InStep, InStepAt, IsOpen, At, FramesAfter, FramesBefore, Heard, HeardIn, Early

\* The same after a step.
LEMMA InStepNext ==
    ASSUME case' = case
    PROVE  InStep' <=>
              (~HasBody /\ connection_status' \notin Early =>
                  \E j \in 0 .. Len(case.frames) :
                      At(j, srv_in', recv_storage' \o to_client', HeardIn(events'), recv_data', result'))
<1>1. /\ HasBody' <=> HasBody
      /\ WholeTexts' <=> WholeTexts
      /\ Heard' = HeardIn(events')
  BY DEF HasBody, WholeTexts, TextsSent, Heard, HeardIn
<1>2. InStep' <=>
        (~HasBody' /\ connection_status' \notin {"START_INIT", "HANDSHAKE"} =>
            \E j \in 0 .. Len(case.frames) :
                LET before == SubSeq(case.frames, 1, j)
                    after  == SubSeq(case.frames, j + 1, Len(case.frames))
                IN  /\ IF srv_in' = <<>> THEN j = 0 /\ recv_storage' \o to_client' = <<>>
                       ELSE recv_storage' \o to_client' = Stream(after)
                    /\ WholeTexts' =>
                          /\ IsPrefix(Heard', PayloadsOf(DataOf(before)))
                          /\ result' = "Ok" =>
                                Heard' = PayloadsOf(DataOf(before)) /\ recv_data' = <<>>)
  BY Zenon DEF InStep, InStepAt, IsOpen
<1> QED BY <1>1, <1>2, Zenon DEF At, FramesAfter, FramesBefore, Early

\* What is at the j-th frame stays there.
LEMMA StaysAt ==
    ASSUME srv_in' = srv_in, recv_storage' \o to_client' = recv_storage \o to_client,
           HeardIn(events') = HeardIn(events), recv_data' = recv_data, result' = "Ok" => result = "Ok",
           NEW j, At(j, srv_in, recv_storage \o to_client, HeardIn(events), recv_data, result)
    PROVE  At(j, srv_in', recv_storage' \o to_client', HeardIn(events'), recv_data', result')
BY Zenon DEF At

\* A step that takes no frame.
LEMMA InStepKept ==
    ASSUME InStep, case' = case, connection_status' \in Early \/ connection_status \notin Early,
           srv_in' = srv_in, recv_storage' \o to_client' = recv_storage \o to_client,
           HeardIn(events') = HeardIn(events), recv_data' = recv_data, result' = "Ok" => result = "Ok"
    PROVE  InStep'
<1>1. ASSUME NEW j, At(j, srv_in, recv_storage \o to_client, HeardIn(events), recv_data, result)
      PROVE  At(j, srv_in', recv_storage' \o to_client', HeardIn(events'), recv_data', result')
  BY <1>1, StaysAt, Zenon
<1> QED BY <1>1, InStepIs, InStepNext, Zenon

\* The response that opens the connection is all that the server has said.
LEMMA InStepOpens ==
    ASSUME Base, case' = case, connection_status = "HANDSHAKE", result = "Ok", srv_in' = srv_in,
           NEW n \in 0 .. Len(to_client), to_client' = SubSeq(to_client, n + 1, Len(to_client)),
           Opens(Arrived(n)), Opened
    PROVE  InStep'
<1>1. /\ recv_storage \in Seq(Byte) /\ to_client \in Seq(Byte) /\ events = <<>> /\ recv_data = <<>>
      /\ srv_in = <<>> /\ case \in Cases
  BY DEF Base, WireTypes, Phases
<1> DEFINE b == Arrived(n)
           z == SubSeq(to_client, n + 1, Len(to_client))
<1>2. b \in Seq(Byte) /\ z \in Seq(Byte) /\ b \o z = recv_storage \o to_client
  BY <1>1, ReadPieces
<1>3. b # <<>> /\ parse(b).kind = "response" /\ recv_storage' = <<>> /\ recv_data' = recv_data
  BY DEF Opens, Opened
<1>4. offered # <<>>
  <2> SUFFICES ASSUME offered = <<>> PROVE FALSE
    OBVIOUS
  <2>1. recv_storage = <<>> /\ to_client = <<>>
    BY DEF Base, Phases
  <2>2. recv_storage \o to_client = <<>>
    BY <2>1
  <2> HIDE DEF b, z
  <2>3. Len(b \o z) = Len(b) + Len(z) /\ Len(b) \in Nat /\ Len(z) \in Nat /\ Len(b) # 0
    BY <1>2, <1>3, EmptySeq
  <2> QED BY <1>2, <2>2, <2>3
<1>5. b \o z = case.response
  BY <1>2, <1>4 DEF Base, Phases
<1> HIDE DEF b, z
<1>6. ~HasBody => z = <<>>
  <2> SUFFICES ASSUME z # <<>> PROVE HasBody
    OBVIOUS
  <2>1. Len(b) \in Nat /\ Len(z) \in Nat /\ Len(z) # 0 /\ Len(case.response) = Len(b) + Len(z)
    <3>1. Len(b) \in Nat /\ Len(z) \in Nat /\ Len(z) # 0
      BY <1>2, EmptySeq
    <3>2. Len(b \o z) = Len(b) + Len(z)
      BY <1>2, OneAfterAnother, Zenon
    <3> QED BY <1>5, <3>1, <3>2, Zenon
  <2>2. Len(b) \in 0 .. Len(case.response) - 1
    BY <2>1
  <2>3. SubSeq(case.response, 1, Len(b)) = b
    <3>1. b # <<>> => 1 \in 1 .. Len(b) /\ Len(b) \in 1 .. Len(b)
      BY <1>2, EmptySeq
    <3>2. SubSeq(b \o z, 1, Len(b)) = SubSeq(b, 1, Len(b))
      BY <1>2, <1>3, <3>1, SubSeqOfConcat1, Zenon
    <3>3. SubSeq(b, 1, Len(b)) = b
      BY <1>2
    <3> QED BY <1>5, <3>2, <3>3, Zenon
  <2>4. Finds(lossy(b), END_LINE \o END_LINE) # {}
    BY <1>2, <1>3, ResponseFound DEF HeadEnd
  <2> QED BY <2>2, <2>3, <2>4, Zenon DEF HasBody
<1>7. HeardIn(events') = <<>>
  <2>1. events' = <<>> \/ \E b2 \in Seq(Byte) : events' = Append(<<>>, Event("ON_CONNECT", b2))
    BY <1>1 DEF Opened, Stays
  <2>2. <<>> \in Seq(Heards) /\ events' \in Seq(Heards)
    <3>1. <<>> \in Seq(Heards)
      OBVIOUS
    <3>2. \A b2 \in Seq(Byte) : Event("ON_CONNECT", b2) \in Heards
      BY DEF Event, Heards
    <3>3. \A e \in Heards : Append(<<>>, e) \in Seq(Heards)
      OBVIOUS
    <3> QED BY <2>1, <3>1, <3>2, <3>3, Zenon
  <2>3. HeardIn(events') = HeardIn(<<>>)
    BY <2>1, <2>2, HeardNothing
  <2>4. HeardIn(<<>>) = <<>>
    BY FlattenNone DEF HeardIn
  <2> QED BY <2>3, <2>4
<1>8. ~HasBody => At(0, srv_in', recv_storage' \o to_client', HeardIn(events'), recv_data', result')
  <2> HAVE ~HasBody
  <2>1. recv_storage' \o to_client' = <<>>
    BY <1>3, <1>6, ConcatEmptySeq DEF z
  <2>2. PayloadsOf(DataOf(FramesBefore(0))) = <<>>
    <3>1. FramesBefore(0) = <<>>
      BY <1>1, CaseFrames DEF FramesBefore
    <3>2. DataOf(<<>>) = <<>> /\ PayloadsOf(<<>>) = <<>>
      BY DataOne, PayloadsOne, Zenon
    <3> QED BY <3>1, <3>2, Zenon
  <2>3. IsPrefix(<<>>, <<>>)
    <3>1. <<>> \in Seq(Byte)
      OBVIOUS
    <3> QED BY <3>1, NothingIsPrefix, Zenon
  <2> QED BY <1>1, <1>3, <1>7, <2>1, <2>2, <2>3, Zenon DEF At
<1>9. 0 \in 0 .. Len(case.frames)
  BY <1>1, CaseFrames
<1> QED BY <1>8, <1>9, InStepNext, Zenon

\* What was heard after one more frame of the case.
LEMMA HeardNext ==
    ASSUME case \in Cases, NEW j \in Nat, j < Len(case.frames)
    PROVE  /\ PayloadsOf(DataOf(FramesBefore(j))) \in Seq(Seq(Byte))
           /\ PayloadsOf(DataOf(FramesBefore(j + 1)))
                = PayloadsOf(DataOf(FramesBefore(j)))
                    \o (IF IsDataCode(case.frames[j + 1].code) THEN <<case.frames[j + 1].data>> ELSE <<>>)
<1> DEFINE f == case.frames[j + 1]
           a == FramesBefore(j)
           v == <<f>>
<1>1. f \in ServerFrames /\ a \in Seq(ServerFrames) /\ FramesBefore(j + 1) = a \o v
  BY NextFrameIs
<1>2. v \in Seq(ServerFrames) /\ DataOf(v) = IF IsDataCode(f.code) THEN v ELSE <<>>
  BY <1>1, DataOne
<1>3. PayloadsOf(v) = <<f.data>> /\ PayloadsOf(<<>>) = <<>>
  BY PayloadsOne
<1> HIDE DEF a, v
<1>4. /\ DataOf(a \o v) = DataOf(a) \o DataOf(v)
      /\ DataOf(a) \in Seq(ServerFrames) /\ DataOf(v) \in Seq(ServerFrames)
  BY <1>1, <1>2, DataMore
<1>5. /\ PayloadsOf(DataOf(a) \o DataOf(v)) = PayloadsOf(DataOf(a)) \o PayloadsOf(DataOf(v))
      /\ PayloadsOf(DataOf(a)) \in Seq(Seq(Byte))
  BY <1>4, PayloadsMore
<1>6. PayloadsOf(DataOf(v)) = IF IsDataCode(f.code) THEN <<f.data>> ELSE <<>>
  BY <1>2, <1>3, Zenon
<1> HIDE DEF f
<1>7. PayloadsOf(DataOf(FramesBefore(j + 1)))
        = PayloadsOf(DataOf(a)) \o (IF IsDataCode(f.code) THEN <<f.data>> ELSE <<>>)
  BY <1>1, <1>4, <1>5, <1>6, Zenon
<1> QED BY <1>5, <1>7, Zenon DEF a, f

\* What becomes of the frame found.
Handled(found) ==
    IF IsDataCode(found.frame.header.code) THEN TextTaken(found.frame) ELSE OtherTaken(found.frame)

\* What the callback heard, when a whole frame was taken.
LEMMA HeardTaken ==
    ASSUME WireTypes, NEW found, NEW f \in ServerFrames, FindsFrame(found, f),
           recv_data = <<>>, IsDataCode(f.code) => f.flag = FIN,
           Handled(found),
           NEW heard, heard = HeardIn(events) \o (IF IsDataCode(f.code) THEN <<f.data>> ELSE <<>>)
    PROVE  /\ IsPrefix(HeardIn(events'), heard)
           /\ result' = "Ok" => HeardIn(events') = heard /\ recv_data' = <<>>
<1> DEFINE w == IF IsDataCode(f.code) THEN <<f.data>> ELSE <<>>
           h == HeardIn(events)
<1>1. /\ events \in Seq(Heards) /\ f.data \in Seq(Byte) /\ found.frame.header.code = f.code
      /\ found.frame.header.flag = f.flag
      /\ IsDataCode(f.code) => found.frame.data = f.data
  BY ServerFrameParts DEF WireTypes, FindsFrame
<1> DEFINE e == Event("ON_TEXT", f.data)
<1>2. e \in Heards /\ e.kind = "ON_TEXT" /\ e.bytes = f.data
  BY <1>1 DEF Event, Heards
<1> HIDE DEF e
<1>3. h \in Seq(Seq(Byte)) /\ HeardIn(Append(events, e)) = h \o <<f.data>>
      /\ Append(events, e) \in Seq(Heards)
  <2>1. Append(events, e) \in Seq(Heards)
    BY <1>1, <1>2
  <2> QED BY <1>1, <1>2, <2>1, HeardMore
<1>4. w \in Seq(Seq(Byte)) /\ h \o <<>> = h
  <2>1. \A b \in Seq(Byte) : <<b>> \in Seq(Seq(Byte)) /\ <<>> \in Seq(Seq(Byte))
    OBVIOUS
  <2>2. w \in Seq(Seq(Byte))
    BY <1>1, <2>1, Zenon
  <2> QED BY <1>3, <2>2, ConcatEmptySeq
<1>5. IsPrefix(h, h \o w) /\ IsPrefix(h \o w, h \o w)
  <2> HIDE DEF h, w
  <2>1. h \o w \in Seq(Seq(Byte))
    BY <1>3, <1>4
  <2>2. IsPrefix(h \o w, h \o w)
    BY <2>1, NothingIsPrefix, Zenon
  <2> QED BY <1>3, <1>4, <2>1, <2>2, PrefixOfMore, Zenon
<1>6. CASE IsDataCode(f.code)
  <2> DEFINE frame == found.frame
  <2>1. TextTaken(frame)
    BY <1>1, <1>6 DEF Handled
  <2>2. Kept(frame) = <<>>
    BY <1>1, <1>6 DEF Kept
  <2>3. WithText(frame) = Append(events, e)
    <3>1. <<>> \o f.data = f.data
      BY <1>1, ConcatEmptySeq
    <3>2. Kept(frame) \o frame.data = f.data
      BY <1>1, <1>6, <2>2, <3>1
    <3> QED BY <3>2, Zenon DEF WithText, e
  <2> HIDE DEF frame, h
  <2>4. CASE recv_data' = <<>> /\ Moves /\ (events' = WithText(frame) \/ Closed(WithText(frame)))
    <3>1. events' \in Seq(Heards)
      BY <2>4 DEF Moves
    <3>2. HeardIn(events') = HeardIn(Append(events, e))
      <4> DEFINE evs == Append(events, e)
      <4>1. events' = evs \/ \E b \in Seq(Byte) : events' = Append(evs, Event("SERVER_CLOSE", b))
        BY <2>3, <2>4 DEF Closed
      <4>2. evs \in Seq(Heards)
        BY <1>3
      <4> HIDE DEF evs
      <4>3. HeardIn(events') = HeardIn(evs)
        BY <3>1, <4>1, <4>2, HeardNothing
      <4> QED BY <4>3 DEF evs
    <3>3. HeardIn(events') = h \o w
      BY <1>3, <1>6, <3>2, Zenon
    <3> QED BY <1>5, <2>4, <3>3, Zenon DEF h
  <2>5. CASE recv_data' = Kept(frame) /\ Stays /\ result' # "Ok"
    <3>1. events' = events
      BY <2>5 DEF Stays
    <3> QED BY <1>5, <2>5, <3>1, Zenon DEF h
  <2> QED BY <2>1, <2>4, <2>5 DEF TextTaken
<1>7. CASE ~IsDataCode(f.code)
  <2>1. OtherTaken(found.frame)
    BY <1>1, <1>7 DEF Handled
  <2>2. recv_data' = recv_data /\ (Moves \/ Stays) /\ (events' = events \/ Closed(events))
    BY <2>1 DEF OtherTaken
  <2>3. events' \in Seq(Heards)
    BY <1>1, <2>2 DEF Moves, Stays
  <2>4. HeardIn(events') = h
    <3>1. events' = events \/ \E b \in Seq(Byte) : events' = Append(events, Event("SERVER_CLOSE", b))
      BY <2>2 DEF Closed
    <3> QED BY <1>1, <2>3, <3>1, HeardNothing
  <2>5. h \o w = h
    BY <1>4, <1>7, Zenon
  <2> QED BY <1>5, <2>2, <2>4, <2>5, Zenon
<1> QED BY <1>6, <1>7

\* The frame taken is the next one of the case.
NextOfCase(j, b) ==
    /\ At(j, srv_in, recv_storage \o to_client, HeardIn(events), recv_data, result)
    /\ srv_in # <<>> /\ j + 1 \in DOMAIN case.frames /\ case.frames[j + 1] \in ServerFrames
    /\ FindsFrame(bytes_to_frame(b), case.frames[j + 1])

\* When the first j were taken, and a frame is found, it is the one after them.
LEMMA TakesOfCase ==
    ASSUME Base, ~HasBody, NEW n \in 0 .. Len(to_client), Takes(Arrived(n)),
           NEW j \in 0 .. Len(case.frames),
           At(j, srv_in, recv_storage \o to_client, HeardIn(events), recv_data, result)
    PROVE  /\ NextOfCase(j, Arrived(n))
           /\ SubSeq(Arrived(n), bytes_to_frame(Arrived(n)).offset + 1, Len(Arrived(n)))
                   \o SubSeq(to_client, n + 1, Len(to_client)) = Stream(FramesAfter(j + 1))
<1> DEFINE b == Arrived(n)
           z == SubSeq(to_client, n + 1, Len(to_client))
<1>1. recv_storage \in Seq(Byte) /\ to_client \in Seq(Byte) /\ case \in Cases
  BY DEF Base, WireTypes
<1>2. b \in Seq(Byte) /\ z \in Seq(Byte) /\ b \o z = recv_storage \o to_client
  BY <1>1, ReadPieces
<1>3. b # <<>> /\ bytes_to_frame(b).kind = "frame"
  BY DEF Takes
<1> HIDE DEF b, z
<1>4. j \in 0 .. Len(case.frames)
  OBVIOUS
<1>5. srv_in # <<>> /\ b \o z = Stream(FramesAfter(j))
  <2>1. b \o z # <<>>
    <3>1. Len(b \o z) = Len(b) + Len(z)
      BY <1>2, OneAfterAnother, Zenon
    <3>2. Len(b) \in Nat /\ Len(z) \in Nat /\ Len(b) # 0
      BY <1>2, <1>3, EmptySeq
    <3>3. Len(b \o z) # 0
      BY <3>1, <3>2
    <3>4. Len(<<>>) = 0
      OBVIOUS
    <3> QED BY <3>3, <3>4, Zenon
  <2> QED BY <1>2, <2>1, Zenon DEF At
<1>6. /\ j + 1 \in DOMAIN case.frames /\ case.frames[j + 1] \in ServerFrames
      /\ FindsFrame(bytes_to_frame(b), case.frames[j + 1])
      /\ SubSeq(b, bytes_to_frame(b).offset + 1, Len(b)) \o z = Stream(FramesAfter(j + 1))
  <2>1. case \in Cases /\ b \in Seq(Byte) /\ z \in Seq(Byte)
    BY <1>1, <1>2
  <2>2. b \o z = Stream(FramesAfter(j))
    BY <1>5
  <2>3. b # <<>> /\ bytes_to_frame(b).kind = "frame"
    BY <1>3
  <2> QED BY ONLY <2>1, <2>2, <2>3, <1>4, TakesNext, ZenonT(60)
<1>7. NextOfCase(j, b)
  BY <1>5, <1>6, Zenon DEF NextOfCase
<1> QED BY <1>6, <1>7, Zenon DEF b, z

\* A frame taken is one step further.
LEMMA TakesOneMore ==
    ASSUME Base, ~HasBody, result = "Ok", case' = case, srv_in' = srv_in,
           NEW n \in 0 .. Len(to_client), to_client' = SubSeq(to_client, n + 1, Len(to_client)),
           Takes(Arrived(n)),
           recv_storage' = SubSeq(Arrived(n), bytes_to_frame(Arrived(n)).offset + 1, Len(Arrived(n))),
           Handled(bytes_to_frame(Arrived(n))),
           NEW j \in 0 .. Len(case.frames),
           At(j, srv_in, recv_storage \o to_client, HeardIn(events), recv_data, result)
    PROVE  /\ j + 1 \in 0 .. Len(case.frames)
           /\ At(j + 1, srv_in', recv_storage' \o to_client', HeardIn(events'), recv_data', result')
<1> DEFINE found == bytes_to_frame(Arrived(n))
<1>1. case \in Cases /\ WireTypes
  BY DEF Base, WireTypes
<1>2. /\ NextOfCase(j, Arrived(n))
      /\ SubSeq(Arrived(n), found.offset + 1, Len(Arrived(n)))
              \o SubSeq(to_client, n + 1, Len(to_client)) = Stream(FramesAfter(j + 1))
  BY TakesOfCase
<1>3. Handled(found)
  OBVIOUS
<1>4. srv_in # <<>>
  BY <1>2, Zenon DEF NextOfCase
<1>5. recv_storage' \o to_client' = Stream(FramesAfter(j + 1))
  BY <1>2, Zenon
<1> HIDE DEF found
<1> DEFINE f == case.frames[j + 1]
<1>6. j + 1 \in DOMAIN case.frames /\ f \in ServerFrames /\ FindsFrame(found, f)
  BY <1>2, Zenon DEF NextOfCase, found
<1>7. j \in Nat /\ j < Len(case.frames) /\ j + 1 \in 0 .. Len(case.frames)
  BY <1>1, <1>6, CaseFrames
<1>8. ASSUME WholeTexts
      PROVE  /\ IsPrefix(HeardIn(events'), PayloadsOf(DataOf(FramesBefore(j + 1))))
             /\ result' = "Ok" =>
                   HeardIn(events') = PayloadsOf(DataOf(FramesBefore(j + 1))) /\ recv_data' = <<>>
  <2>1. recv_data = <<>> /\ HeardIn(events) = PayloadsOf(DataOf(FramesBefore(j)))
    BY <1>8, Zenon DEF At
  <2>2. PayloadsOf(DataOf(FramesBefore(j + 1)))
          = HeardIn(events) \o (IF IsDataCode(f.code) THEN <<f.data>> ELSE <<>>)
    BY <1>1, <1>7, <2>1, HeardNext
  <2>3. IsDataCode(f.code) => f.flag = FIN
    BY <1>1, <1>6, <1>8, WholeOne
  <2> HIDE DEF f
  <2> DEFINE heard == PayloadsOf(DataOf(FramesBefore(j + 1)))
  <2> HIDE DEF heard
  <2>4. heard = HeardIn(events) \o (IF IsDataCode(f.code) THEN <<f.data>> ELSE <<>>)
    BY <2>2 DEF heard
  <2>5. IsPrefix(HeardIn(events'), heard) /\ (result' = "Ok" => HeardIn(events') = heard /\ recv_data' = <<>>)
    BY <1>1, <1>3, <1>6, <2>1, <2>3, <2>4, HeardTaken, Zenon
  <2> QED BY <2>5, Zenon DEF heard
<1>9. At(j + 1, srv_in', recv_storage' \o to_client', HeardIn(events'), recv_data', result')
  BY <1>4, <1>5, <1>8, Zenon DEF At
<1> QED BY <1>7, <1>9, Zenon

\* Taking a frame keeps InStep.
LEMMA InStepTakes ==
    ASSUME Base, InStep, connection_status \notin Early, result = "Ok", case' = case, srv_in' = srv_in,
           NEW n \in 0 .. Len(to_client), to_client' = SubSeq(to_client, n + 1, Len(to_client)),
           Takes(Arrived(n)),
           recv_storage' = SubSeq(Arrived(n), bytes_to_frame(Arrived(n)).offset + 1, Len(Arrived(n))),
           Handled(bytes_to_frame(Arrived(n)))
    PROVE  InStep'
<1> SUFFICES ASSUME ~HasBody
             PROVE  \E j \in 0 .. Len(case.frames) :
                      At(j, srv_in', recv_storage' \o to_client', HeardIn(events'), recv_data', result')
  BY InStepNext, Zenon
<1>1. PICK j \in 0 .. Len(case.frames) :
         At(j, srv_in, recv_storage \o to_client, HeardIn(events), recv_data, result)
  BY InStepIs, Zenon
<1>2. /\ j + 1 \in 0 .. Len(case.frames)
      /\ At(j + 1, srv_in', recv_storage' \o to_client', HeardIn(events'), recv_data', result')
  BY <1>1, TakesOneMore
<1> QED BY <1>2, Zenon

\* An iteration of the event loop keeps InStep.
LEMMA InStepLoop ==
    ASSUME Base, InStep, event_loop
    PROVE  InStep'
<1>1. /\ connection_status \in Active /\ result = "Ok"
      /\ case' = case /\ srv_in' = srv_in
      /\ recv_storage \in Seq(Byte) /\ to_client \in Seq(Byte) /\ events \in Seq(Heards)
  BY LoopTurn DEF Base, WireTypes
<1>2. PICK n \in 0 .. Len(to_client) :
         /\ to_client' = SubSeq(to_client, n + 1, Len(to_client))
         /\ \/ Waited(Arrived(n))
            \/ Opens(Arrived(n)) /\ Opened
            \/ /\ Takes(Arrived(n))
               /\ LET found == bytes_to_frame(Arrived(n))
                  IN  /\ recv_storage' = SubSeq(Arrived(n), found.offset + 1, Len(Arrived(n)))
                      /\ Handled(found)
  BY LoopTurn DEF Base, Handled
<1>3. CASE Waited(Arrived(n))
  <2>1. recv_storage' \o to_client' = recv_storage \o to_client
    BY <1>1, <1>2, <1>3, ReadPieces DEF Waited
  <2>2. recv_data' = recv_data /\ (connection_status' \in Early \/ connection_status \notin Early)
        /\ (events' = events \/ Closed(events))
    BY <1>3 DEF Waited, Stays, Early
  <2>3. HeardIn(events') = HeardIn(events)
    <3>1. events' \in Seq(Heards)
      BY <1>1, <1>3 DEF Waited, Moves, Stays
    <3>2. events' = events \/ \E b \in Seq(Byte) : events' = Append(events, Event("SERVER_CLOSE", b))
      BY <2>2 DEF Closed
    <3> QED BY <1>1, <3>1, <3>2, HeardNothing
  <2> QED BY <1>1, <2>1, <2>2, <2>3, InStepKept
<1>4. CASE Opens(Arrived(n)) /\ Opened
  <2>1. connection_status = "HANDSHAKE"
    BY <1>4 DEF Opens
  <2> QED BY <1>1, <1>2, <1>4, <2>1, InStepOpens
<1>5. CASE /\ Takes(Arrived(n))
           /\ LET found == bytes_to_frame(Arrived(n))
              IN  /\ recv_storage' = SubSeq(Arrived(n), found.offset + 1, Len(Arrived(n)))
                  /\ Handled(found)
  <2>1. connection_status \notin Early
    BY <1>1, <1>5 DEF Takes, Active, Early
  <2> QED BY <1>1, <1>2, <1>5, <2>1, InStepTakes
<1> QED BY <1>2, <1>3, <1>4, <1>5

\* The server's first frame lets it speak, and nothing is taken.
LEMMA SpeaksInStep ==
    ASSUME Base, ServerReadsFrame, NEW j \in 0 .. Len(case.frames),
           At(j, srv_in, recv_storage \o to_client, HeardIn(events), recv_data, result)
    PROVE  At(j, srv_in', recv_storage' \o to_client', HeardIn(events'), recv_data', result')
<1>1. /\ UNCHANGED <<case, connection_status, recv_storage, recv_data, result, events>>
      /\ to_client' = IF srv_in = <<>> THEN to_client \o Stream(case.frames) ELSE to_client
  BY DEF ServerReadsFrame
<1>2. srv_in' # <<>>
  <2>1. PICK r \in Readings : srv_in' = Append(srv_in, r)
    BY BaseFrame DEF Readings
  <2>2. srv_in \in Seq(Readings)
    BY DEF Base, WireTypes
  <2> QED BY <2>1, <2>2, AppendProperties
<1>3. case.frames \in Seq(ServerFrames) /\ recv_storage \in Seq(Byte) /\ to_client \in Seq(Byte)
  BY CaseFrames DEF Base, WireTypes
<1>4. recv_storage' \o to_client' = Stream(FramesAfter(j))
  <2>1. CASE srv_in = <<>>
    <3>1. j = 0 /\ recv_storage \o to_client = <<>>
      BY <2>1, Zenon DEF At
    <3>2. FramesAfter(j) = case.frames
      BY <1>3, <3>1 DEF FramesAfter
    <3>3. Stream(case.frames) \in Seq(Byte)
      BY <1>3, StreamMore
    <3>4. recv_storage \o (to_client \o Stream(case.frames)) = (recv_storage \o to_client) \o Stream(case.frames)
      <4>1. \A x, y, w \in Seq(Byte) : x \o (y \o w) = (x \o y) \o w
        BY ConcatAssociative
      <4> QED BY <1>3, <3>3, <4>1, Zenon
    <3>5. <<>> \o Stream(case.frames) = Stream(case.frames)
      BY <3>3, ConcatEmptySeq
    <3> QED BY <1>1, <2>1, <3>1, <3>2, <3>4, <3>5, Zenon
  <2>2. CASE srv_in # <<>>
    BY <1>1, <2>2, Zenon DEF At
  <2> QED BY <2>1, <2>2
<1> QED BY <1>1, <1>2, <1>4, Zenon DEF At

\* Every step keeps InStep.
LEMMA InStepStep == Base /\ InStep /\ [Next]_vars => InStep'
<1> SUFFICES ASSUME Base, InStep, [Next]_vars PROVE InStep'
  OBVIOUS
<1>1. CASE send \/ start_init \/ ServerReadsRequest
  <2>1. case' = case /\ connection_status' \in Early
    <3>1. CASE send
      <4>1. pc = "send" /\ connection_status' = connection_status /\ case' = case
        BY <3>1 DEF send, SendNext, push, slice_panics, send_returns
      <4> QED BY <4>1 DEF Base, Phases, Early
    <3>2. CASE start_init
      BY <3>2 DEF start_init, Early
    <3>3. CASE ServerReadsRequest
      <4>1. offered = <<>> /\ connection_status' = connection_status /\ case' = case
        BY <3>3 DEF ServerReadsRequest
      <4> QED BY <4>1 DEF Base, Phases, Early
    <3> QED BY <1>1, <3>1, <3>2, <3>3
  <2> QED BY <2>1, InStepNext, Zenon
<1>2. CASE event_loop
  BY <1>2, InStepLoop
<1>3. CASE ServerReadsFrame
  <2>1. UNCHANGED <<case, connection_status>>
    BY <1>3 DEF ServerReadsFrame
  <2>2. ASSUME NEW j \in 0 .. Len(case.frames),
               At(j, srv_in, recv_storage \o to_client, HeardIn(events), recv_data, result)
        PROVE  At(j, srv_in', recv_storage' \o to_client', HeardIn(events'), recv_data', result')
    BY <1>3, <2>2, SpeaksInStep
  <2> QED BY <2>1, <2>2, InStepIs, InStepNext, Zenon
<1>4. CASE UNCHANGED vars
  <2>1. UNCHANGED <<case, connection_status, srv_in, recv_storage, to_client, events, recv_data, result>>
    BY <1>4 DEF vars
  <2> QED BY <2>1, InStepKept
<1> QED BY <1>1, <1>2, <1>3, <1>4 DEF Next

\* What was taken of the frames of the server stays in step with what was heard.
THEOREM TakenInStep == Spec => [](Base /\ InStep)
<1>1. Init => Base /\ InStep
  <2>1. Init => connection_status \in Early
    BY DEF Init, Early
  <2> QED BY <2>1, BaseStarts, InStepIs, Zenon
<1>2. (Base /\ InStep) /\ [Next]_vars => (Base /\ InStep)'
  BY BaseStep, InStepStep
<1> QED BY <1>1, <1>2, PTL DEF Spec

\* recv_storage begins where a frame of the server begins (client.rs 240-250).
THEOREM StaysAligned == Spec => []Aligned
<1>1. Base /\ InStep => Aligned
  <2> SUFFICES ASSUME Base, InStep, ~HasBody, srv_in # <<>>
               PROVE  \E j \in 0 .. Len(case.frames) :
                         recv_storage \o to_client = Stream(SubSeq(case.frames, j + 1, Len(case.frames)))
    BY Zenon DEF Aligned
  <2>1. connection_status \notin Early
    BY EarlyPhases DEF Base, Phases, Early
  <2>2. PICK j \in 0 .. Len(case.frames) :
           At(j, srv_in, recv_storage \o to_client, HeardIn(events), recv_data, result)
    BY <2>1, InStepIs, Zenon
  <2> QED BY <2>2, Zenon DEF At, FramesAfter
<1> QED BY <1>1, TakenInStep, PTL

\* The texts that the callback hears are those the server sent, in order
\* (client.rs 252-298).
THEOREM HearsWhatIsSent == Spec => []HeardIsSent
<1>1. Base /\ InStep => HeardIsSent
  <2> SUFFICES ASSUME Base, InStep, ~HasBody, WholeTexts
               PROVE  IsPrefix(HeardIn(events), PayloadsOf(TextsSent))
    BY Zenon DEF HeardIsSent, Heard, HeardIn
  <2>0. case \in Cases /\ case.frames \in Seq(ServerFrames) /\ events \in Seq(Heards)
    BY CaseFrames DEF Base, WireTypes
  <2>00. PayloadsOf(TextsSent) \in Seq(Seq(Byte))
    <3>1. DataOf(case.frames) \in Seq(ServerFrames)
      BY <2>0, DataMore
    <3> QED BY <3>1, PayloadsMore DEF TextsSent
  <2>1. CASE connection_status \in Early
    <3>1. events = <<>>
      BY <2>1 DEF Base, Phases, Early
    <3>2. HeardIn(<<>>) = <<>>
      BY FlattenNone DEF HeardIn
    <3> QED BY <2>00, <3>1, <3>2, NothingIsPrefix
  <2>2. CASE connection_status \notin Early
    <3>1. PICK j \in 0 .. Len(case.frames) :
             At(j, srv_in, recv_storage \o to_client, HeardIn(events), recv_data, result)
      BY <2>2, InStepIs, Zenon
    <3> DEFINE a == FramesBefore(j)
               z == FramesAfter(j)
    <3>2. a \in Seq(ServerFrames) /\ z \in Seq(ServerFrames) /\ case.frames = a \o z
      <4>1. a \in Seq(ServerFrames) /\ z \in Seq(ServerFrames)
        BY <2>0 DEF FramesBefore, FramesAfter
      <4>2. /\ 1 \in 1 .. Len(case.frames) + 1 /\ j \in 1 - 1 .. Len(case.frames)
            /\ Len(case.frames) \in j .. Len(case.frames)
        BY <2>0
      <4>3. a \o z = SubSeq(case.frames, 1, Len(case.frames))
        BY <2>0, <4>2, ConcatAdjacentSubSeq, Zenon DEF FramesBefore, FramesAfter
      <4>4. SubSeq(case.frames, 1, Len(case.frames)) = case.frames
        BY <2>0
      <4> QED BY <4>1, <4>3, <4>4
    <3> HIDE DEF a, z
    <3>3. /\ TextsSent = DataOf(a) \o DataOf(z)
          /\ DataOf(a) \in Seq(ServerFrames) /\ DataOf(z) \in Seq(ServerFrames)
      <4>1. DataOf(a \o z) = DataOf(a) \o DataOf(z) /\ DataOf(a) \in Seq(ServerFrames)
        BY <3>2, DataMore
      <4>2. DataOf(z) \in Seq(ServerFrames)
        BY <3>2, DataMore
      <4> QED BY <3>2, <4>1, <4>2 DEF TextsSent
    <3>4. /\ PayloadsOf(TextsSent) = PayloadsOf(DataOf(a)) \o PayloadsOf(DataOf(z))
          /\ PayloadsOf(DataOf(a)) \in Seq(Seq(Byte)) /\ PayloadsOf(DataOf(z)) \in Seq(Seq(Byte))
      BY <3>3, PayloadsMore
    <3> DEFINE p == PayloadsOf(DataOf(a))
               q == PayloadsOf(DataOf(z))
               h == HeardIn(events)
    <3>5. IsPrefix(h, p)
      BY <3>1, Zenon DEF At, a
    <3>6. h \in Seq(Seq(Byte))
      <4>1. Event("ON_CONNECT", <<>>) \in Heards
        <5>1. <<>> \in Seq(Byte)
          OBVIOUS
        <5> QED BY <5>1 DEF Event, Heards
      <4> QED BY <2>0, <4>1, HeardMore
    <3> HIDE DEF p, q, h
    <3>7. p \in Seq(Seq(Byte)) /\ q \in Seq(Seq(Byte)) /\ p \o q \in Seq(Seq(Byte))
      BY <3>4 DEF p, q
    <3>8. IsPrefix(h, p \o q)
      <4>0. h \in Seq(Seq(Byte)) /\ p \in Seq(Seq(Byte))
        BY <3>6, <3>7, Zenon
      <4>1. Len(h) <= Len(p) /\ \A i \in 1 .. Len(h) : h[i] = p[i]
        <5>1. IsPrefix(h, p) <=> Len(h) <= Len(p) /\ \A i \in 1 .. Len(h) : h[i] = p[i]
          <6>1. \A s, t \in Seq(Seq(Byte)) :
                   IsPrefix(s, t) <=> Len(s) <= Len(t) /\ \A i \in 1 .. Len(s) : s[i] = t[i]
            BY ONLY PrefixIs, ZenonT(60)
          <6> QED BY ONLY <6>1, <4>0, Zenon
        <5> QED BY <5>1, <3>5, Zenon
      <4>2. /\ Len(p \o q) = Len(p) + Len(q)
            /\ \A i \in 1 .. Len(p) : (p \o q)[i] = p[i]
        BY <3>7
      <4>3. Len(h) \in Nat /\ Len(p) \in Nat /\ Len(q) \in Nat
        BY <3>6, <3>7
      <4>4. Len(h) <= Len(p \o q) /\ \A i \in 1 .. Len(h) : i \in 1 .. Len(p)
        BY <4>1, <4>2, <4>3
      <4>5. \A i \in 1 .. Len(h) : h[i] = (p \o q)[i]
        BY <4>1, <4>2, <4>4, Zenon
      <4> QED BY <3>6, <3>7, <4>4, <4>5, PrefixIs
    <3> QED BY <3>4, <3>8 DEF p, q, h
  <2> QED BY <2>1, <2>2
<1> QED BY <1>1, TakenInStep, PTL

-----------------------------------------------------------------------------
(* What answers the control frames *)

\* The control frames among events answer the server's.
AllAnswer(evs) ==
    \A i \in DOMAIN evs :
        is_websocket_data(evs[i]) /\ ~IsDataCode(evs[i].header.code) =>
            Answers(evs[i].header.code, evs[i].data)

\* ControlsAnswer, of what is written and of what waits.
LEMMA AnswersAre ==
    ControlsAnswer <=> (~HasBody => AllAnswer(written) /\ AllAnswer(output_events))
BY Zenon DEF ControlsAnswer, AllAnswer

\* The same after a step.
LEMMA AnswersNext ==
    ASSUME case' = case
    PROVE  ControlsAnswer' <=> (~HasBody => AllAnswer(written') /\ AllAnswer(output_events'))
<1>1. HasBody' <=> HasBody
  BY DEF HasBody
<1>2. \A code, data : Answers(code, data)' <=> Answers(code, data)
  BY DEF Answers
<1>3. ControlsAnswer' <=>
        (~HasBody' =>
            \A evs \in {written', output_events'} : \A i \in DOMAIN evs :
                is_websocket_data(evs[i]) /\ ~IsDataCode(evs[i].header.code) =>
                    Answers(evs[i].header.code, evs[i].data))
  BY DEF ControlsAnswer, Answers
<1> QED BY <1>1, <1>3, Zenon DEF AllAnswer

\* st holds what s and t hold, and nothing else.
HasBoth(st, s, t) ==
    /\ \A i \in DOMAIN st : (\E k \in DOMAIN s : st[i] = s[k]) \/ (\E k \in DOMAIN t : st[i] = t[k])
    /\ \A k \in DOMAIN s : \E i \in DOMAIN st : st[i] = s[k]
    /\ \A k \in DOMAIN t : \E i \in DOMAIN st : st[i] = t[k]

\* The elements of two sequences in a row are those of both.
LEMMA ElementsOfBoth ==
    ASSUME NEW S, NEW s \in Seq(S), NEW t \in Seq(S)
    PROVE  HasBoth(s \o t, s, t)
<1>1. /\ Len(s \o t) = Len(s) + Len(t) /\ s \o t \in Seq(S)
      /\ \A i \in 1 .. Len(s) + Len(t) :
            (s \o t)[i] = IF i <= Len(s) THEN s[i] ELSE t[i - Len(s)]
  BY ConcatProperties
<1>2. /\ DOMAIN s = 1 .. Len(s) /\ DOMAIN t = 1 .. Len(t) /\ DOMAIN (s \o t) = 1 .. Len(s) + Len(t)
      /\ Len(s) \in Nat /\ Len(t) \in Nat
  BY <1>1
<1>3. \A i \in 1 .. Len(s) : i \in 1 .. Len(s) + Len(t) /\ (s \o t)[i] = s[i]
  BY <1>1, <1>2
<1>4. \A i \in 1 .. Len(t) : i + Len(s) \in 1 .. Len(s) + Len(t) /\ (s \o t)[i + Len(s)] = t[i]
  BY <1>1, <1>2
<1>5. \A i \in 1 .. Len(s) + Len(t) :
         \/ i \in 1 .. Len(s)
         \/ i - Len(s) \in 1 .. Len(t) /\ i = (i - Len(s)) + Len(s)
  BY <1>2
<1>6. ASSUME NEW i \in DOMAIN (s \o t)
      PROVE  \/ \E k \in DOMAIN s : (s \o t)[i] = s[k]
             \/ \E k \in DOMAIN t : (s \o t)[i] = t[k]
  <2>1. CASE i \in 1 .. Len(s)
    BY <1>2, <1>3, <2>1, Zenon
  <2>2. CASE i - Len(s) \in 1 .. Len(t) /\ i = (i - Len(s)) + Len(s)
    BY <1>2, <1>4, <2>2, Zenon
  <2> QED BY <1>2, <1>5, <2>1, <2>2, Zenon
<1>7. \A k \in DOMAIN s : \E i \in DOMAIN (s \o t) : (s \o t)[i] = s[k]
  BY <1>2, <1>3, Zenon
<1>8. \A k \in DOMAIN t : \E i \in DOMAIN (s \o t) : (s \o t)[i] = t[k]
  BY <1>2, <1>4, Zenon
<1> QED BY <1>6, <1>7, <1>8, Zenon DEF HasBoth

\* Of two sequences, each answers.
LEMMA AllAnswerBoth ==
    ASSUME NEW s \in Seq(OutEvents), NEW t \in Seq(OutEvents)
    PROVE  AllAnswer(s \o t) <=> AllAnswer(s) /\ AllAnswer(t)
<1> DEFINE Good(e) == is_websocket_data(e) /\ ~IsDataCode(e.header.code) => Answers(e.header.code, e.data)
<1>1. \A evs : AllAnswer(evs) <=> \A i \in DOMAIN evs : Good(evs[i])
  BY Zenon DEF AllAnswer
<1> HIDE DEF Good
<1>2. /\ \A i \in DOMAIN (s \o t) :
            \/ \E k \in DOMAIN s : (s \o t)[i] = s[k]
            \/ \E k \in DOMAIN t : (s \o t)[i] = t[k]
      /\ \A k \in DOMAIN s : \E i \in DOMAIN (s \o t) : (s \o t)[i] = s[k]
      /\ \A k \in DOMAIN t : \E i \in DOMAIN (s \o t) : (s \o t)[i] = t[k]
  <2>1. HasBoth(s \o t, s, t)
    BY ElementsOfBoth
  <2> QED BY <2>1, Zenon DEF HasBoth
<1>3. AllAnswer(s) /\ AllAnswer(t) => AllAnswer(s \o t)
  <2> SUFFICES ASSUME \A i \in DOMAIN s : Good(s[i]), \A i \in DOMAIN t : Good(t[i]),
                      NEW i \in DOMAIN (s \o t)
               PROVE  Good((s \o t)[i])
    BY <1>1, Zenon
  <2>1. CASE \E k \in DOMAIN s : (s \o t)[i] = s[k]
    BY <2>1, Zenon
  <2>2. CASE \E k \in DOMAIN t : (s \o t)[i] = t[k]
    BY <2>2, Zenon
  <2> QED BY <1>2, <2>1, <2>2, Zenon
<1>4. AllAnswer(s \o t) => AllAnswer(s) /\ AllAnswer(t)
  <2> SUFFICES ASSUME \A i \in DOMAIN (s \o t) : Good((s \o t)[i])
               PROVE  (\A i \in DOMAIN s : Good(s[i])) /\ (\A i \in DOMAIN t : Good(t[i]))
    BY <1>1, Zenon
  <2> QED BY <1>2, Zenon
<1> QED BY <1>3, <1>4

\* A reply to a frame found answers it.
LEMMA ReplyAnswers ==
    ASSUME case \in Cases, NEW b \in Seq(Byte), bytes_to_frame(b).kind = "frame",
           NEW j \in DOMAIN case.frames, case.frames[j] \in ServerFrames,
           FindsFrame(bytes_to_frame(b), case.frames[j]),
           NEW c, Reply(c, bytes_to_frame(b).frame)
    PROVE  Answers(c.header.code, c.data)
<1> DEFINE found == bytes_to_frame(b)
           f     == case.frames[j]
           d     == found.frame.data
           code  == found.frame.header.code
<1>1. code = f.code /\ (~IsDataCode(f.code) => Len(f.data) >= 2 /\ Mirrors(d, f.data))
  BY DEF FindsFrame
<1>2. f.data \in Seq(Byte)
  BY ServerFrameParts
<1>3. d \in Seq(Byte) /\ (~IsDataCode(code) => Len(d) \in 2 .. 125)
  BY FoundFrame
<1>4. ~IsDataCode(PING) /\ ~IsDataCode(CLOSE)
  BY DEF IsDataCode, PING, CLOSE, CONTINUATION, TEXT, BINARY
<1>5. CASE code = PING /\ c.header.code = PONG /\ c.data = d
  <2>1. f.code = PING /\ Mirrors(c.data, f.data)
    BY <1>1, <1>4, <1>5
  <2> QED BY <1>5, <2>1, Zenon DEF Answers
<1>6. CASE /\ code = CLOSE /\ c.header.code = CLOSE
           /\ c.data = be16(Status!ReplyStatus(bytes_to_u16(d))) \o SubSeq(d, 3, Len(d))
  <2>1. f.code = CLOSE /\ Len(f.data) >= 2 /\ Mirrors(d, f.data) /\ Len(d) >= 2
    <3>1. f.code = CLOSE /\ ~IsDataCode(f.code) /\ ~IsDataCode(code)
      BY <1>1, <1>4, <1>6, Zenon
    <3>2. Len(d) \in 2 .. 125 /\ Len(f.data) >= 2 /\ Mirrors(d, f.data)
      BY <1>1, <1>3, <3>1, Zenon
    <3> HIDE DEF d
    <3>3. Len(d) >= 2
      <4>1. \A n \in 2 .. 125 : n >= 2
        OBVIOUS
      <4> QED BY <3>2, <4>1, Zenon
    <3> QED BY <3>1, <3>2, <3>3, Zenon
  <2>2. LET status == be16(Status!ReplyStatus(bytes_to_u16(d)))
        IN  /\ status = be16(Status!ReplyStatus(bytes_to_u16(f.data)))
            /\ Mirrors(status \o SubSeq(d, 3, Len(d)), status \o SubSeq(f.data, 3, Len(f.data)))
    <3> HIDE DEF d, f
    <3> QED BY <1>2, <1>3, <2>1, MirrorsReason DEF d, f
  <2>3. Mirrors(c.data, be16(Status!ReplyStatus(bytes_to_u16(f.data))) \o SubSeq(f.data, 3, Len(f.data)))
    BY <1>6, <2>2, Zenon
  <2> QED BY <1>6, <2>1, <2>3, Zenon DEF Answers
<1> QED BY <1>5, <1>6 DEF Reply

\* An iteration of the event loop keeps the answers.
LEMMA AnswersLoop ==
    ASSUME Base, InStep, ControlsAnswer, event_loop
    PROVE  ControlsAnswer'
<1>1. /\ connection_status \in Active /\ case' = case /\ case \in Cases
      /\ recv_storage \in Seq(Byte) /\ to_client \in Seq(Byte)
      /\ written \in Seq(OutEvents) /\ output_events \in Seq(OutEvents)
      /\ Moves \/ Stays
  BY LoopTurn DEF Base, WireTypes
<1>2. Popped \in Seq(OutEvents) /\ Left \in Seq(OutEvents) /\ Popped \o Left = output_events
  BY PoppedParts DEF Base, WireTypes
<1> SUFFICES ASSUME ~HasBody
             PROVE  AllAnswer(written') /\ AllAnswer(output_events')
  BY <1>1, AnswersNext, Zenon
<1>3. AllAnswer(written) /\ AllAnswer(output_events)
  BY AnswersAre, Zenon
<1>4. AllAnswer(Popped) /\ AllAnswer(Left)
  BY <1>2, <1>3, AllAnswerBoth
<1>5. AllAnswer(written')
  <2>1. written' \in {written, written \o Popped}
    BY <1>1 DEF Moves, Stays
  <2>2. AllAnswer(written \o Popped)
    BY <1>1, <1>2, <1>3, <1>4, AllAnswerBoth
  <2> QED BY <1>3, <2>1, <2>2
<1>6. PICK n \in 0 .. Len(to_client) :
         \/ Waited(Arrived(n))
         \/ Opened
         \/ Takes(Arrived(n)) /\ Handled(bytes_to_frame(Arrived(n)))
  BY LoopTurn DEF Base, Handled
<1> DEFINE b     == Arrived(n)
           found == bytes_to_frame(b)
<1>7. \/ output_events' \in {Left, output_events}
      \/ /\ Takes(b)
         /\ \E c \in ClientFrames : Reply(c, found.frame) /\ output_events' \in {<<c>> \o Left, <<c>>}
  <2>1. CASE Waited(b)
    BY <2>1 DEF Waited
  <2>2. CASE Opened
    BY <2>2 DEF Opened
  <2>3. CASE Takes(b) /\ Handled(found)
    <3>1. TextTaken(found.frame) \/ OtherTaken(found.frame)
      BY <2>3 DEF Handled
    <3> QED BY <2>3, <3>1 DEF TextTaken, OtherTaken
  <2> QED BY <1>6, <2>1, <2>2, <2>3
<1>8. AllAnswer(output_events')
  <2>1. CASE output_events' \in {Left, output_events}
    BY <1>3, <1>4, <2>1
  <2>2. CASE /\ Takes(b)
             /\ \E c \in ClientFrames : Reply(c, found.frame) /\ output_events' \in {<<c>> \o Left, <<c>>}
    <3>1. PICK c \in ClientFrames : Reply(c, found.frame) /\ output_events' \in {<<c>> \o Left, <<c>>}
      BY <2>2
    <3>2. b \in Seq(Byte) /\ found.kind = "frame" /\ connection_status \notin Early
      BY <1>1, <2>2, ReadPieces DEF Takes, Active, Early
    <3>3. PICK j \in 0 .. Len(case.frames) : NextOfCase(j, b)
      <4>1. PICK j \in 0 .. Len(case.frames) :
               At(j, srv_in, recv_storage \o to_client, HeardIn(events), recv_data, result)
        BY <3>2, InStepIs, Zenon
      <4>2. NextOfCase(j, b)
        BY <2>2, <4>1, TakesOfCase
      <4> QED BY <4>2
    <3>4. /\ j + 1 \in DOMAIN case.frames /\ case.frames[j + 1] \in ServerFrames
          /\ FindsFrame(found, case.frames[j + 1])
      BY <3>3 DEF NextOfCase
    <3>5. Answers(c.header.code, c.data)
      BY <1>1, <3>1, <3>2, <3>4, ReplyAnswers
    <3>6. <<c>> \in Seq(OutEvents) /\ DOMAIN <<c>> = {1} /\ <<c>>[1] = c
      BY DEF OutEvents
    <3>7. AllAnswer(<<c>>)
      BY <3>5, <3>6, Zenon DEF AllAnswer
    <3>8. AllAnswer(<<c>> \o Left)
      <4> DEFINE v == <<c>>
      <4>1. v \in Seq(OutEvents) /\ AllAnswer(v)
        BY <3>6, <3>7
      <4> HIDE DEF v
      <4>2. AllAnswer(v \o Left)
        BY <1>2, <1>4, <4>1, AllAnswerBoth
      <4> QED BY <4>2 DEF v
    <3> QED BY <3>1, <3>7, <3>8
  <2> QED BY <1>7, <2>1, <2>2
<1> QED BY <1>5, <1>8

\* Every step keeps the answers.
LEMMA AnswersStep == Base /\ InStep /\ ControlsAnswer /\ [Next]_vars => ControlsAnswer'
<1> SUFFICES ASSUME Base, InStep, ControlsAnswer, [Next]_vars PROVE ControlsAnswer'
  OBVIOUS
<1>1. CASE UNCHANGED <<case, written, output_events>>
  BY <1>1, AnswersAre, AnswersNext, Zenon
<1>2. CASE start_init
  <2>1. CASE connection_status' # "HANDSHAKE"
    BY <1>1, <1>2, <2>1 DEF start_init
  <2>2. CASE connection_status' = "HANDSHAKE"
    <3>1. /\ case' = case /\ written' = written
          /\ \E headers \in {Headers, Reverse(Headers)} :
                output_events' = <<[request |-> RequestBytes(<<47>>, headers)]>> \o frames
      BY <1>2, <2>2 DEF start_init, Base, Phases
    <3>2. PICK e : output_events' = <<e>> \o frames /\ ~is_websocket_data(e)
      <4>1. PICK headers \in {Headers, Reverse(Headers)} :
               output_events' = <<[request |-> RequestBytes(<<47>>, headers)]>> \o frames
        BY <3>1
      <4> DEFINE e == [request |-> RequestBytes(<<47>>, headers)]
      <4>2. ~is_websocket_data(e)
        BY DEF is_websocket_data
      <4>3. output_events' = <<e>> \o frames
        BY <4>1
      <4> HIDE DEF e
      <4> QED BY <4>2, <4>3, Zenon
    <3>3. frames \in Seq(ClientFrames) /\ \A i \in DOMAIN frames : IsDataCode(frames[i].header.code)
      BY FramesOfSend DEF Base, WireTypes
    <3>4. ASSUME NEW i \in DOMAIN (<<e>> \o frames)
          PROVE  \/ ~is_websocket_data((<<e>> \o frames)[i])
                 \/ IsDataCode((<<e>> \o frames)[i].header.code)
      <4> DEFINE S == ClientFrames \cup {e}
                 v == <<e>>
      <4>1. v \in Seq(S) /\ frames \in Seq(S) /\ DOMAIN v = {1} /\ v[1] = e
        BY <3>3
      <4> HIDE DEF v, S
      <4>2. HasBoth(v \o frames, v, frames)
        BY <4>1, ElementsOfBoth, Zenon
      <4>3. i \in DOMAIN (v \o frames)
        BY <3>4 DEF v
      <4>4. \/ ~is_websocket_data((v \o frames)[i])
            \/ IsDataCode((v \o frames)[i].header.code)
        BY <3>2, <3>3, <4>1, <4>2, <4>3, Zenon DEF HasBoth
      <4> QED BY <4>4 DEF v
    <3>5. AllAnswer(<<e>> \o frames)
      BY <3>4, Zenon DEF AllAnswer
    <3> QED BY <3>1, <3>2, <3>5, AnswersAre, AnswersNext, Zenon
  <2> QED BY <2>1, <2>2
<1>3. CASE event_loop
  BY <1>3, AnswersLoop
<1>4. CASE send \/ ServerReadsRequest \/ ServerReadsFrame \/ UNCHANGED vars
  <2>1. UNCHANGED <<case, written, output_events>>
    BY <1>4 DEF send, ServerReadsRequest, ServerReadsFrame, vars
  <2> QED BY <1>1, <2>1
<1> QED BY <1>2, <1>3, <1>4 DEF Next

\* Each control frame waiting or written answers one of the server's.
THEOREM AllControlsAnswer == Spec => [](Base /\ InStep /\ ControlsAnswer)
<1>1. Init => ControlsAnswer
  <2>1. Init => written = <<>> /\ output_events = <<>>
    BY DEF Init
  <2>2. AllAnswer(<<>>)
    BY DEF AllAnswer
  <2> QED BY <2>1, <2>2, AnswersAre, Zenon
<1>2. (Base /\ InStep) /\ ControlsAnswer /\ [Next]_vars => ControlsAnswer'
  BY AnswersStep
<1> QED BY <1>1, <1>2, TakenInStep, PTL DEF Spec

\* The server reads no control frame that is not an answer to one of its own.
THEOREM MirrorsControls == Spec => []ControlMirrored
<1>1. Base /\ ControlsAnswer => ControlMirrored
  <2> SUFFICES ASSUME Base, ControlsAnswer, ~HasBody, NEW i \in DOMAIN srv_in,
                      ~IsDataCode(srv_in[i].code)
               PROVE  Answers(srv_in[i].code, srv_in[i].data)
    BY Zenon DEF ControlMirrored
  <2>1. srv_in[i] = Reading(written[i + 1])
    BY DEF Base, InTransit
  <2>2. srv_in[i].code = written[i + 1].header.code /\ srv_in[i].data = written[i + 1].data
    BY <2>1 DEF Reading
  <2>3. /\ srv_in \in Seq(Readings) /\ written \in Seq(OutEvents) /\ output_events \in Seq(OutEvents)
        /\ srv_in # <<>> /\ i \in 1 .. Len(srv_in) /\ Len(srv_in) \in Nat
    BY DEF Base, WireTypes
  <2>4. i + 1 \in DOMAIN written /\ i + 1 > 1
    <3>1. offered # <<>>
      BY <2>3, EarlyPhases
    <3>2. Len(offered) = 1
      <4>1. \E names : offered = <<names>>
        BY <3>1 DEF Base, WireTypes
      <4> QED BY <4>1
    <3>3. Taken <= Len(written) /\ Taken = 1 + Len(srv_in) /\ Len(written) \in Nat
      BY <2>3, <3>2, EarlyPhases DEF Base, InTransit
    <3> QED BY <2>3, <3>3
  <2>5. is_websocket_data(written[i + 1])
    <3>1. written # <<>> /\ connection_status # "START_INIT"
      <4>1. written # <<>>
        BY <2>3, <2>4
      <4> QED BY <4>1 DEF Base, Phases
    <3>2. RequestFirst(written)
      BY <2>3, <3>1, EarlyPhases, FirstAndRest
    <3> QED BY <2>4, <3>2, Zenon DEF RequestFirst
  <2>6. AllAnswer(written)
    BY AnswersAre, Zenon
  <2> QED BY <2>2, <2>4, <2>5, <2>6, Zenon DEF AllAnswer
<1> QED BY <1>1, AllControlsAnswer, PTL

-----------------------------------------------------------------------------
(* A response in pieces *)

\* What may be a second byte is a continuation byte.
LEMMA SecondContinues == ASSUME NEW x, NEW y, y \in second(x) PROVE Continues(y)
<1>1. second(x) \in {160 .. 191, 128 .. 159, 144 .. 191, 128 .. 143, 128 .. 191}
  <2>1. x = 224 => second(x) = 160 .. 191
    BY DEF second
  <2>2. x = 237 => second(x) = 128 .. 159
    BY DEF second
  <2>3. x = 240 => second(x) = 144 .. 191
    BY DEF second
  <2>4. x = 244 => second(x) = 128 .. 143
    BY DEF second
  <2>5. x \notin {224, 237, 240, 244} => second(x) = 128 .. 191
    BY DEF second
  <2> QED BY <2>1, <2>2, <2>3, <2>4, <2>5, Zenon
<1>2. \A c \in {160 .. 191, 128 .. 159, 144 .. 191, 128 .. 143, 128 .. 191} :
         y \in c => y \in 128 .. 191
  OBVIOUS
<1> QED BY <1>1, <1>2, Zenon DEF Continues

\* A continuation byte begins no character.
LEMMA NoCharBegins == ASSUME NEW x, Continues(x) PROVE char_len(x) = 0
<1>1. x \in 128 .. 191
  BY Zenon DEF Continues
<1>2. ~(x < 128) /\ x \notin 194 .. 223 /\ x \notin 224 .. 239 /\ x \notin 240 .. 244
  BY <1>1
<1> QED BY <1>2, Zenon DEF char_len

\* A character that has arrived stays, and what a byte begins only with the
\* bytes that follow has none but continuation bytes behind it.
LEMMA CharStays ==
    ASSUME NEW a \in Seq(Byte), NEW z \in Seq(Byte), NEW i \in 1 .. Len(a)
    PROVE  /\ CharKept(a \o z, i) = CharKept(a, i) \/ CharKept(a, i) = <<>>
           /\ CharKept(a \o z, i) # CharKept(a, i) =>
                 \A j \in i + 1 .. Len(a) : CharKept(a, j) = <<>>
<1> DEFINE b == a \o z
           n == char_len(a[i])
<1>1. /\ b \in Seq(Byte) /\ Len(b) = Len(a) + Len(z) /\ Len(a) \in Nat /\ Len(z) \in Nat
      /\ \A j \in 1 .. Len(a) : b[j] = a[j] /\ a[j] \in Byte
  <2>1. \A j \in 1 .. Len(a) : b[j] = a[j]
    BY OneAfterAnother
  <2> QED BY <2>1
<1>2. n \in 0 .. 4
  BY DEF char_len
<1>3. /\ char_at(a, i) <=> /\ n > 0 /\ i + n - 1 <= Len(a)
                           /\ n > 1 => a[i + 1] \in second(a[i])
                           /\ \A j \in i + 2 .. i + n - 1 : Continues(a[j])
      /\ char_at(b, i) <=> /\ n > 0 /\ i + n - 1 <= Len(b)
                           /\ n > 1 => b[i + 1] \in second(a[i])
                           /\ \A j \in i + 2 .. i + n - 1 : Continues(b[j])
  BY <1>1, Zenon DEF char_at
<1>4. Char(a, i) = SubSeq(a, i, i + n - 1) /\ Char(b, i) = SubSeq(b, i, i + n - 1)
  BY <1>1, Zenon DEF Char
<1> HIDE DEF n, b
<1>5. CASE i + n - 1 <= Len(a)
  <2>1. char_at(a, i) <=> char_at(b, i)
    <3>1. i + n - 1 <= Len(b) /\ (n > 1 => i + 1 \in 1 .. Len(a))
          /\ \A j \in i + 2 .. i + n - 1 : j \in 1 .. Len(a)
      BY <1>1, <1>2, <1>5
    <3>2. n > 1 => b[i + 1] = a[i + 1]
      BY <1>1, <3>1
    <3>3. \A j \in i + 2 .. i + n - 1 : b[j] = a[j]
      BY <1>1, <3>1
    <3> QED BY <1>3, <1>5, <3>1, <3>2, <3>3, Zenon
  <2>2. n > 0 => Char(a, i) = Char(b, i)
    <3> SUFFICES ASSUME n > 0 PROVE SubSeq(a, i, i + n - 1) = SubSeq(b, i, i + n - 1)
      BY <1>4, Zenon
    <3> DEFINE k == i + n - 1
    <3>1. k \in 1 .. Len(a)
      BY <1>1, <1>2, <1>5
    <3> HIDE DEF k
    <3>2. SubSeq(a \o z, i, k) = SubSeq(a, i, k)
      BY <3>1, SubSeqOfConcat1, Zenon
    <3> QED BY <3>2 DEF k, b
  <2>3. CharKept(b, i) = CharKept(a, i)
    BY <1>3, <2>1, <2>2, Zenon DEF CharKept
  <2> QED BY <2>3 DEF b
<1>6. CASE ~(i + n - 1 <= Len(a))
  <2>1. CharKept(a, i) = <<>>
    BY <1>3, <1>6, Zenon DEF CharKept
  <2>2. CharKept(b, i) # CharKept(a, i) => char_at(b, i)
    BY <2>1, Zenon DEF CharKept
  <2>3. ASSUME char_at(b, i), NEW j \in i + 1 .. Len(a)
        PROVE  CharKept(a, j) = <<>>
    <3>1. j \in 1 .. Len(a) /\ b[j] = a[j] /\ n > 1 /\ j <= i + n - 1
      BY <1>1, <1>2, <1>6
    <3>2. Continues(a[j])
      <4>1. CASE j = i + 1
        <5>1. a[j] \in second(a[i])
          BY <1>3, <2>3, <3>1, <4>1
        <5> QED BY <5>1, SecondContinues, Zenon
      <4>2. CASE j # i + 1
        <5>1. j \in i + 2 .. i + n - 1
          BY <1>2, <3>1, <4>2
        <5> QED BY <1>3, <2>3, <3>1, <5>1, Zenon
      <4> QED BY <4>1, <4>2
    <3>3. char_len(a[j]) = 0
      BY <3>2, NoCharBegins, Zenon
    <3>4. ~char_at(a, j)
      BY <3>3 DEF char_at
    <3> QED BY <3>4, Zenon DEF CharKept
  <2> QED BY <2>1, <2>2, <2>3, Zenon DEF b
<1> QED BY <1>5, <1>6

\* What is kept of a piece is kept of the whole, whatever becomes of a
\* character that the piece ends in.
LEMMA LossyMore ==
    ASSUME NEW a \in Seq(Byte), NEW z \in Seq(Byte)
    PROVE  \E w \in Seq(Byte) : lossy(a \o z) = lossy(a) \o w
<1> DEFINE b == a \o z
           A == [i \in 1 .. Len(a) |-> CharKept(a, i)]
           B == [i \in 1 .. Len(b) |-> CharKept(b, i)]
           D == {i \in 1 .. Len(a) : A[i] # B[i]}
<1>1. b \in Seq(Byte) /\ Len(b) = Len(a) + Len(z) /\ Len(a) \in Nat /\ Len(z) \in Nat
  OBVIOUS
<1> HIDE DEF b
<1>2. lossy(a) = FlattenSeq(A) /\ lossy(b) = FlattenSeq(B) /\ A \in Seq(Seq(Byte)) /\ B \in Seq(Seq(Byte))
  BY <1>1, LossyIs
<1>3. Len(A) = Len(a) /\ Len(B) = Len(b) /\ Len(A) <= Len(B)
  BY <1>1
<1>4. \A i \in 1 .. Len(a) : A[i] = CharKept(a, i) /\ B[i] = CharKept(b, i)
  BY <1>1
<1>5. \A i \in 1 .. Len(a) : A[i] # B[i] => A[i] = <<>> /\ \A j \in i + 1 .. Len(a) : A[j] = <<>>
  <2>1. \A i \in 1 .. Len(a) : \A j \in i + 1 .. Len(a) : j \in 1 .. Len(a)
    BY <1>1
  <2> QED BY <1>4, <2>1, CharStays, Zenon DEF b
<1> HIDE DEF A, B
<1>6. \E k \in 0 .. Len(A) : /\ \A i \in 1 .. k : A[i] = B[i]
                             /\ \A i \in k + 1 .. Len(A) : A[i] = <<>>
  <2>1. CASE D = {}
    <3>1. Len(a) \in 0 .. Len(A) /\ Len(a) + 1 .. Len(A) = {}
      BY <1>1, <1>3
    <3> QED BY <2>1, <3>1, Zenon
  <2>2. CASE D # {}
    <3>1. PICK p \in D : \A y \in D : p <= y
      <4>1. D \subseteq Nat
        OBVIOUS
      <4> QED BY <2>2, <4>1, LeastOf, Zenon
    <3>2. p - 1 \in 0 .. Len(A) /\ p \in 1 .. Len(a)
          /\ \A i \in 1 .. p - 1 : i \in 1 .. Len(a) /\ ~(p <= i)
      BY <1>1, <1>3
    <3>3. \A i \in 1 .. p - 1 : A[i] = B[i]
      BY <3>1, <3>2, Zenon
    <3>4. \A i \in p - 1 + 1 .. Len(A) : i = p \/ i \in p + 1 .. Len(a)
      BY <1>1, <1>3, <3>2
    <3>5. A[p] = <<>> /\ \A j \in p + 1 .. Len(a) : A[j] = <<>>
      BY <1>5, <3>2, Zenon
    <3> QED BY <3>2, <3>3, <3>4, <3>5, Zenon
  <2> QED BY <2>1, <2>2
<1>7. \E w \in Seq(Byte) : FlattenSeq(B) = FlattenSeq(A) \o w
  BY <1>2, <1>3, <1>6, FlattenBegins
<1> QED BY <1>2, <1>7, Zenon DEF b

\* Where the head ends.
EndOfHead(text) == Min(Finds(text, HeadEnd))

\* A head that has ended ends there, whatever follows.
LEMMA HeadStays ==
    ASSUME NEW a \in Seq(Byte), NEW t \in Seq(Byte), Finds(a, HeadEnd) # {}
    PROVE  /\ Finds(a \o t, HeadEnd) # {}
           /\ EndOfHead(a \o t) = EndOfHead(a)
           /\ SubSeq(a \o t, 1, EndOfHead(a) - 1) = SubSeq(a, 1, EndOfHead(a) - 1)
<1> DEFINE m == EndOfHead(a)
           b == a \o t
<1>1. /\ b \in Seq(Byte) /\ Len(b) = Len(a) + Len(t)
      /\ Len(a) \in Nat /\ Len(t) \in Nat
  <2>1. Len(a) \in Nat /\ Len(t) \in Nat
    OBVIOUS
  <2> QED BY <2>1, OneAfterAnother, Zenon
<1>2. Len(HeadEnd) = 4 /\ Len(HeadEnd) \in Nat
  BY DEF HeadEnd, END_LINE
<1>3. /\ m \in Finds(a, HeadEnd) /\ m \in Nat \ {0}
      /\ \A i \in Finds(a, HeadEnd) : m <= i
  BY <1>2, FirstFound DEF EndOfHead
<1>4. ASSUME NEW i \in Nat \ {0}
      PROVE  /\ i \in Finds(a, HeadEnd) => i \in Finds(b, HeadEnd) /\ i + 3 <= Len(a)
             /\ i \in Finds(b, HeadEnd) /\ i + 3 <= Len(a) => i \in Finds(a, HeadEnd)
  <2>1. \A s : i \in Finds(s, HeadEnd) <=>
               i \in 1 .. Len(s) - 4 + 1 /\ SubSeq(s, i, i + 4 - 1) = HeadEnd
    BY <1>2 DEF Finds
  <2>2. i + 4 - 1 = i + 3
    OBVIOUS
  <2>3. i + 3 <= Len(a) => SubSeq(b, i, i + 3) = SubSeq(a, i, i + 3)
    <3> HAVE i + 3 <= Len(a)
    <3> DEFINE k == i + 3
    <3>1. i \in 1 .. Len(a) /\ k \in 1 .. Len(a)
      BY <1>1
    <3> HIDE DEF k
    <3>2. SubSeq(a \o t, i, k) = SubSeq(a, i, k)
      BY <3>1, SubSeqOfConcat1, Zenon
    <3> QED BY <3>2 DEF k
  <2>4. /\ i \in 1 .. Len(a) - 4 + 1 <=> i + 3 <= Len(a)
        /\ i + 3 <= Len(a) => i \in 1 .. Len(b) - 4 + 1
    BY <1>1
  <2> HIDE DEF b
  <2> QED BY <2>1, <2>2, <2>3, <2>4, Zenon
<1>5. m \in Finds(b, HeadEnd) /\ m + 3 <= Len(a)
  BY <1>3, <1>4
<1>6. EndOfHead(b) = m
  <2>1. /\ EndOfHead(b) \in Finds(b, HeadEnd) /\ EndOfHead(b) \in Nat \ {0}
        /\ \A i \in Finds(b, HeadEnd) : EndOfHead(b) <= i
    BY <1>1, <1>2, <1>5, FirstFound DEF EndOfHead
  <2> DEFINE k == EndOfHead(b)
  <2> HIDE DEF k, m, b
  <2>2. k <= m /\ k \in Nat \ {0} /\ k \in Finds(b, HeadEnd)
    BY <1>5, <2>1 DEF k
  <2>3. k + 3 <= Len(a)
    BY <1>1, <1>3, <1>5, <2>2
  <2>4. k \in Finds(a, HeadEnd)
    BY <1>4, <2>2, <2>3
  <2>5. m <= k
    BY <1>3, <2>4
  <2>6. k = m
    BY <1>3, <2>2, <2>5
  <2> QED BY <2>6 DEF k
<1>7. SubSeq(b, 1, m - 1) = SubSeq(a, 1, m - 1)
  <2> HIDE DEF m, b
  <2>1. CASE m = 1
    <3>1. \A s \in Seq(Byte) : SubSeq(s, 1, 0) = <<>>
      OBVIOUS
    <3>2. m - 1 = 0
      BY <2>1
    <3> QED BY <1>1, <3>1, <3>2, Zenon
  <2>2. CASE m # 1
    <3> DEFINE k == m - 1
    <3>1. 1 \in 1 .. Len(a) /\ k \in 1 .. Len(a)
      BY <1>1, <1>3, <1>5, <2>2
    <3> HIDE DEF k
    <3>2. SubSeq(a \o t, 1, k) = SubSeq(a, 1, k)
      BY <3>1, SubSeqOfConcat1, Zenon
    <3> QED BY <3>2 DEF k, b
  <2> QED BY <2>1, <2>2
<1> QED BY <1>5, <1>6, <1>7

\* What is made of the head of a response, and what follows it.
ParsedHead(head, body) ==
    LET lines == Split(head, END_LINE)
        info  == Split(lines[1], <<SP>>)
        code  == parse_u16(trim(info[2]))
    IN  IF Len(info) < 2 THEN BadIndex
        ELSE IF code = -1 THEN ParseError
        ELSE IF Len(info) < 3 THEN BadIndex
        ELSE IF \E k \in 2 .. Len(lines) : Finds(lines[k], <<COLON>>) = {} THEN ParseError
        ELSE [kind |-> "response", status_code |-> code,
              headers |-> [k \in 1 .. Len(lines) - 1 |->
                              <<NameOf(lines[k + 1]), ValueOf(lines[k + 1])>>],
              body |-> body]

\* parse, by where the head ends.
LEMMA ParseIs ==
    ASSUME NEW bytes
    PROVE  parse(bytes) =
              IF Finds(lossy(bytes), HeadEnd) = {} THEN ParseError
              ELSE ParsedHead(SubSeq(lossy(bytes), 1, EndOfHead(lossy(bytes)) - 1),
                              SubSeq(lossy(bytes), EndOfHead(lossy(bytes)) + 4, Len(lossy(bytes))))
BY Zenon DEF parse, ParsedHead, HeadEnd, EndOfHead

\* What two responses with the same head have in common.
SameHead(one, other) ==
    /\ one.kind = other.kind
    /\ one.kind = "response" =>
          one.status_code = other.status_code /\ one.headers = other.headers

\* Whatever follows it, a head is read the same.
LEMMA HeadDecides ==
    ASSUME NEW head, NEW x, NEW y
    PROVE  SameHead(ParsedHead(head, x), ParsedHead(head, y))
<1> DEFINE lines == Split(head, END_LINE)
           info  == Split(lines[1], <<SP>>)
           code  == parse_u16(trim(info[2]))
           heads == [k \in 1 .. Len(lines) - 1 |->
                              <<NameOf(lines[k + 1]), ValueOf(lines[k + 1])>>]
           bad   == \E k \in 2 .. Len(lines) : Finds(lines[k], <<COLON>>) = {}
           good(body) == [kind |-> "response", status_code |-> code, headers |-> heads, body |-> body]
<1>1. \A body : ParsedHead(head, body) =
        IF Len(info) < 2 THEN BadIndex
        ELSE IF code = -1 THEN ParseError
        ELSE IF Len(info) < 3 THEN BadIndex
        ELSE IF bad THEN ParseError
        ELSE good(body)
  BY Zenon DEF ParsedHead
<1>2. SameHead(good(x), good(y))
  <2> HIDE DEF heads, code
  <2> QED BY DEF SameHead
<1>3. SameHead(BadIndex, BadIndex) /\ SameHead(ParseError, ParseError)
  BY DEF SameHead
<1>4. /\ ParsedHead(head, x) = IF Len(info) < 2 THEN BadIndex
             ELSE IF code = -1 THEN ParseError
             ELSE IF Len(info) < 3 THEN BadIndex
             ELSE IF bad THEN ParseError
             ELSE good(x)
      /\ ParsedHead(head, y) = IF Len(info) < 2 THEN BadIndex
             ELSE IF code = -1 THEN ParseError
             ELSE IF Len(info) < 3 THEN BadIndex
             ELSE IF bad THEN ParseError
             ELSE good(y)
  BY <1>1, Zenon
<1> HIDE DEF info, code, bad, good
<1>5. \/ \E r \in {BadIndex, ParseError} : ParsedHead(head, x) = r /\ ParsedHead(head, y) = r
      \/ ParsedHead(head, x) = good(x) /\ ParsedHead(head, y) = good(y)
  BY <1>4
<1> QED BY <1>2, <1>3, <1>5, Zenon

\* A response of which a piece has a head is what the piece is, but for the body.
LEMMA PieceDecides ==
    ASSUME NEW a \in Seq(Byte), NEW z \in Seq(Byte), Finds(lossy(a), HeadEnd) # {}
    PROVE  SameHead(parse(a), parse(a \o z))
<1> DEFINE s == lossy(a)
           t == lossy(a \o z)
<1>1. PICK w \in Seq(Byte) : t = s \o w
  BY LossyMore
<1>2. /\ Finds(t, HeadEnd) # {} /\ EndOfHead(t) = EndOfHead(s)
      /\ SubSeq(t, 1, EndOfHead(s) - 1) = SubSeq(s, 1, EndOfHead(s) - 1)
  <2>1. s \in Seq(Byte)
    BY LossyBytes
  <2> HIDE DEF s, t
  <2> QED BY <1>1, <2>1, HeadStays DEF s
<1>3. parse(a) = ParsedHead(SubSeq(s, 1, EndOfHead(s) - 1), SubSeq(s, EndOfHead(s) + 4, Len(s)))
  BY ParseIs
<1>4. parse(a \o z) = ParsedHead(SubSeq(s, 1, EndOfHead(s) - 1), SubSeq(t, EndOfHead(s) + 4, Len(t)))
  BY <1>2, ParseIs, Zenon
<1> QED BY <1>3, <1>4, HeadDecides, Zenon

\* The response is one that opens the connection.
Opening(response) ==
    /\ response.kind = "response" /\ CodeIsChecked(response)
    /\ header(response, ACCEPT) # <<>> /\ verify_key(header(response, ACCEPT)[1])

\* What parse finds in the whole response.
AtOnce == parse(case.response)

\* How the handshake ended is how the whole response says.
Handshaken ==
    /\ connection_status \notin Early => Opening(AtOnce) /\ protocol = header(AtOnce, PROTOCOL)
    /\ result = "HandShake" => ~Opening(AtOnce)

\* Two responses with one head open the session alike.
LEMMA SameHeadOpens ==
    ASSUME NEW one, NEW other, SameHead(one, other), one.kind = "response"
    PROVE  /\ Opening(one) <=> Opening(other)
           /\ header(one, PROTOCOL) = header(other, PROTOCOL)
<1>1. /\ other.kind = "response" /\ one.status_code = other.status_code
      /\ one.headers = other.headers
  BY DEF SameHead
<1>2. \A name : header(one, name) = header(other, name)
  BY <1>1 DEF header
<1> QED BY <1>1, <1>2, Zenon DEF Opening, CodeIsChecked

\* What is not a response is not what the handshake fails on.
LEMMA NoHandshake ==
    ASSUME result = "Ok", NEW storage, Unread(storage) \/ Takes(storage)
    PROVE  protocol' = protocol /\ result' # "HandShake"
<1>1. ASSUME NEW status, NEW outs, NEW evs, Output(status, outs, evs)
      PROVE  result' # "HandShake"
  BY <1>1 DEF Output
<1>2. ASSUME NEW error, NEW outs, Fails(error, outs), error # "HandShake"
      PROVE  result' # "HandShake"
  BY <1>2 DEF Fails
<1>3. ASSUME Panics
      PROVE  result' # "HandShake"
  BY <1>3 DEF Panics
<1>4. "DecodingFromUTF8" # "HandShake" /\ "InvalidFrame" # "HandShake"
  OBVIOUS
<1>5. CASE Unread(storage)
  BY <1>1, <1>2, <1>3, <1>4, <1>5, Zenon DEF Unread
<1>6. CASE Takes(storage)
  <2> DEFINE frame == bytes_to_frame(storage).frame
  <2>1. handle_recv_frame(frame)
    BY <1>6 DEF Takes
  <2> HIDE DEF frame
  <2>2. CASE handle_data(frame)
    <3>1. protocol' = protocol
      BY <2>2 DEF handle_data
    <3>2. result' # "HandShake"
      BY <1>1, <1>2, <1>4, <2>2, Zenon DEF handle_data
    <3> QED BY <3>1, <3>2
  <2>3. CASE handle_control_frame(frame)
    <3>1. protocol' = protocol
      BY <2>3 DEF handle_control_frame, NotReceived
    <3>2. result' # "HandShake"
      BY <1>1, <1>3, <2>3, Zenon DEF handle_control_frame
    <3> QED BY <3>1, <3>2
  <2>4. CASE NotReceived /\ Fails("InvalidFrame", Left)
    <3>1. protocol' = protocol
      BY <2>4 DEF NotReceived
    <3> QED BY <1>2, <1>4, <2>4, <3>1, Zenon
  <2> QED BY <2>1, <2>2, <2>3, <2>4, Zenon DEF handle_recv_frame
<1> QED BY <1>5, <1>6

\* What arrives before the connection opens begins the response.
LEMMA ResponsePieces ==
    ASSUME Base, result = "Ok", connection_status = "HANDSHAKE",
           NEW n \in 0 .. Len(to_client), Arrived(n) # <<>>
    PROVE  \E z \in Seq(Byte) : Arrived(n) \in Seq(Byte) /\ case.response = Arrived(n) \o z
<1>1. recv_storage \in Seq(Byte) /\ to_client \in Seq(Byte)
  BY DEF Base, WireTypes
<1> DEFINE b == Arrived(n)
           z == SubSeq(to_client, n + 1, Len(to_client))
<1>2. b \in Seq(Byte) /\ z \in Seq(Byte) /\ b \o z = recv_storage \o to_client
  BY <1>1, ReadPieces
<1>3. offered # <<>>
  <2> SUFFICES ASSUME offered = <<>> PROVE FALSE
    OBVIOUS
  <2>1. recv_storage = <<>> /\ to_client = <<>>
    BY DEF Base, Phases
  <2>2. recv_storage \o to_client = <<>>
    BY <2>1
  <2>3. b # <<>>
    OBVIOUS
  <2> HIDE DEF b, z
  <2>4. Len(b \o z) = Len(b) + Len(z) /\ Len(b) \in Nat /\ Len(z) \in Nat /\ Len(b) # 0
    BY <1>2, <2>3, EmptySeq
  <2> QED BY <1>2, <2>2, <2>4
<1>4. b \o z = case.response
  BY <1>1, <1>2, <1>3 DEF Base, Phases
<1> HIDE DEF z
<1> QED BY <1>2, <1>4

\* An iteration of the event loop keeps Handshaken.
LEMMA HandshakenLoop ==
    ASSUME Base, Handshaken, event_loop
    PROVE  Handshaken'
<1>1. /\ connection_status \in Active /\ result = "Ok" /\ case' = case
  BY LoopCases DEF Base
<1>2. PICK n \in 0 .. Len(to_client) : Unread(Arrived(n)) \/ Opens(Arrived(n)) \/ Takes(Arrived(n))
  BY LoopCases DEF Base
<1>3. Moves \/ Stays
  BY LoopTurn DEF Base
<1>4. AtOnce' = AtOnce
  BY <1>1 DEF AtOnce
<1>5. CASE Unread(Arrived(n)) \/ Takes(Arrived(n))
  <2>1. protocol' = protocol /\ result' # "HandShake"
    BY <1>1, <1>5, NoHandshake
  <2>2. connection_status \in Early => connection_status' \in Early
    <3> SUFFICES ASSUME connection_status = "HANDSHAKE" PROVE connection_status' \in Early
      BY <1>1 DEF Early, Active
    <3>1. Unread(Arrived(n))
      BY <1>5 DEF Takes
    <3>2. Waited(Arrived(n))
      BY <1>1, <3>1, NothingTaken DEF Base
    <3> QED BY <3>2 DEF Waited, Stays, Early
  <2> QED BY <1>4, <2>1, <2>2 DEF Handshaken, Opening, CodeIsChecked, header, verify_key
<1>6. CASE Opens(Arrived(n))
  <2> DEFINE response == parse(Arrived(n))
  <2>1. response.kind = "response" /\ handle_recv_http_response(response)
    BY <1>6 DEF Opens
  <2>2. /\ Opening(response) <=> Opening(AtOnce)
        /\ header(response, PROTOCOL) = header(AtOnce, PROTOCOL)
    <3>1. PICK z \in Seq(Byte) : Arrived(n) \in Seq(Byte) /\ case.response = Arrived(n) \o z
      BY <1>1, <1>6, ResponsePieces DEF Opens
    <3>2. Finds(lossy(Arrived(n)), HeadEnd) # {}
      BY <2>1, <3>1, ResponseFound
    <3>3. SameHead(response, AtOnce)
      BY <3>1, <3>2, PieceDecides, Zenon DEF AtOnce
    <3> HIDE DEF response
    <3> QED BY <2>1, <3>3, SameHeadOpens
  <2> HIDE DEF response
  <2>3. CASE Opening(response)
    <3>1. /\ protocol' = header(response, PROTOCOL)
          /\ Output("OPEN", Left, Append(events, Event("ON_CONNECT", response.body)))
      BY <2>1, <2>3, Zenon DEF handle_recv_http_response, Opening
    <3>2. result' = "Ok"
      BY <3>1 DEF Output
    <3> QED BY <1>4, <2>2, <2>3, <3>1, <3>2 DEF Handshaken, Opening, CodeIsChecked, header, verify_key
  <2>4. CASE ~Opening(response)
    <3>1. NotReceived /\ Fails("HandShake", Left)
      BY <2>1, <2>4, Zenon DEF handle_recv_http_response, Opening
    <3>2. connection_status' = connection_status /\ protocol' = protocol
      BY <3>1 DEF NotReceived, Fails
    <3>3. connection_status = "HANDSHAKE"
      BY <1>6 DEF Opens
    <3> QED BY <1>4, <2>2, <2>4, <3>2, <3>3 DEF Handshaken, Opening, CodeIsChecked, header, verify_key, Early
  <2> QED BY <2>3, <2>4
<1> QED BY <1>2, <1>5, <1>6

\* Every step keeps Handshaken.
LEMMA HandshakenStep == Base /\ Handshaken /\ [Next]_vars => Handshaken'
<1> SUFFICES ASSUME Base, Handshaken, [Next]_vars PROVE Handshaken'
  OBVIOUS
<1>1. CASE /\ connection_status' \in Early \/ connection_status \notin Early
           /\ UNCHANGED <<case, protocol, result>>
  BY <1>1 DEF Handshaken, AtOnce, Opening, CodeIsChecked, header, verify_key
<1>2. CASE start_init
  <2>1. connection_status \in Early /\ connection_status' \in Early
    BY <1>2 DEF start_init, Early
  <2> QED BY <1>1, <1>2, <2>1 DEF start_init
<1>3. CASE event_loop
  BY <1>3, HandshakenLoop
<1>4. CASE send \/ ServerReadsRequest \/ ServerReadsFrame \/ UNCHANGED vars
  <2>1. UNCHANGED <<case, protocol, result, connection_status>>
    BY <1>4 DEF send, ServerReadsRequest, ServerReadsFrame, vars
  <2> QED BY <1>1, <2>1
<1> QED BY <1>2, <1>3, <1>4 DEF Next

\* The connection opens if and only if the response does that would arrive at
\* once, and with its protocol (client.rs 312-349).
THEOREM HandshakeAsAWhole == Spec => []Handshaken
<1>1. Init => Handshaken
  BY DEF Init, Handshaken, Early
<1> QED BY <1>1, HandshakenStep, BaseAlways, PTL DEF Spec

\* So the handshake ends as the case says, wherever the response is cut.
THEOREM AgreesWhereverCut == Spec => [](CaseIsTrue => HandshakeAgrees)
<1>1. Handshaken => (CaseIsTrue => HandshakeAgrees)
  <2> SUFFICES ASSUME Handshaken, CaseIsTrue PROVE HandshakeAgrees
    OBVIOUS
  <2>1. /\ case.accepts <=> Opening(AtOnce)
        /\ case.accepts => case.protocol = header(AtOnce, PROTOCOL)
    BY Zenon DEF CaseIsTrue, Opening, AtOnce
  <2> QED BY <2>1 DEF HandshakeAgrees, Handshaken, Early
<1> QED BY <1>1, HandshakeAsAWhole, PTL

\* What trim leaves is bytes.
LEMMA TrimmedBytes ==
    ASSUME NEW text \in Seq(Byte)
    PROVE  trim(text) \in Seq(Byte)
<1> DEFINE kept == {i \in DOMAIN text : text[i] \notin White}
<1>1. kept \subseteq 1 .. Len(text) /\ Len(text) \in Nat
  OBVIOUS
<1>2. trim(text) = IF kept = {} THEN <<>> ELSE SubSeq(text, Min(kept), Max(kept))
  BY DEF trim
<1> HIDE DEF kept
<1>3. CASE kept = {}
  <2>1. <<>> \in Seq(Byte)
    OBVIOUS
  <2> QED BY <1>2, <1>3, <2>1
<1>4. CASE kept # {}
  <2>1. Min(kept) \in kept
    <3>1. kept \subseteq Nat
      BY <1>1
    <3>2. \E x \in kept : \A y \in kept : x <= y
      BY <1>4, <3>1, LeastOf, Zenon
    <3> QED BY <3>2 DEF Min
  <2>2. Max(kept) \in kept
    <3>1. kept \subseteq 0 .. Len(text)
      BY <1>1
    <3> QED BY <1>1, <1>4, <3>1, GreatestOf
  <2> DEFINE a == Min(kept)
             z == Max(kept)
  <2>3. a \in 1 .. Len(text) /\ z \in 1 .. Len(text)
    BY <1>1, <2>1, <2>2
  <2> HIDE DEF a, z
  <2>4. SubSeq(text, a, z) \in Seq(Byte)
    BY <1>1, <2>3
  <2> QED BY <1>2, <1>4, <2>4 DEF a, z
<1> QED BY <1>3, <1>4

\* The values of the headers of a response are bytes.
LEMMA ResponseHeaders ==
    ASSUME NEW b \in Seq(Byte), parse(b).kind = "response", NEW name
    PROVE  header(parse(b), name) \in Seq(Seq(Byte))
<1> DEFINE text  == lossy(b)
           first == SubSeq(text, 1, EndOfHead(text) - 1)
           lines == Split(first, END_LINE)
           found == parse(b)
<1>1. Finds(text, HeadEnd) # {}
  BY ResponseFound
<1>2. first \in Seq(Byte)
  <2> DEFINE e == EndOfHead(text)
  <2>1. text \in Seq(Byte)
    BY LossyBytes
  <2>2. Len(HeadEnd) \in Nat
    BY DEF HeadEnd, END_LINE
  <2> HIDE DEF text
  <2>3. e \in Finds(text, HeadEnd) /\ e \in Nat \ {0}
    BY <1>1, <2>1, <2>2, FirstFound DEF EndOfHead
  <2>4. e <= Len(text) + 1
    <3>1. Len(HeadEnd) = 4
      BY DEF HeadEnd, END_LINE
    <3>2. e <= Len(text) - 4 + 1 /\ Len(text) \in Nat
      BY <2>1, <2>3, <3>1 DEF Finds
    <3> HIDE DEF e
    <3> QED BY <2>3, <3>2
  <2> HIDE DEF e
  <2>5. SubSeq(text, 1, e - 1) \in Seq(Byte)
    BY <2>1, <2>3, <2>4
  <2> QED BY <2>5 DEF e
<1> DEFINE body == SubSeq(text, EndOfHead(text) + 4, Len(text))
<1>3. found = ParsedHead(first, body)
  BY <1>1, ParseIs
<1> HIDE DEF first, body
<1>4. /\ \A k \in 2 .. Len(lines) : Finds(lines[k], <<COLON>>) # {}
      /\ found.headers = [k \in 1 .. Len(lines) - 1 |-> <<NameOf(lines[k + 1]), ValueOf(lines[k + 1])>>]
  <2> DEFINE info  == Split(lines[1], <<SP>>)
             code  == parse_u16(trim(info[2]))
             heads == [k \in 1 .. Len(lines) - 1 |->
                              <<NameOf(lines[k + 1]), ValueOf(lines[k + 1])>>]
             bad   == \E k \in 2 .. Len(lines) : Finds(lines[k], <<COLON>>) = {}
             good  == [kind |-> "response", status_code |-> code, headers |-> heads, body |-> body]
  <2>1. found =
          IF Len(info) < 2 THEN BadIndex
          ELSE IF code = -1 THEN ParseError
          ELSE IF Len(info) < 3 THEN BadIndex
          ELSE IF bad THEN ParseError
          ELSE good
    BY <1>3, Zenon DEF ParsedHead
  <2>2. BadIndex.kind # "response" /\ ParseError.kind # "response"
    BY DEF BadIndex, ParseError
  <2>3. good.headers = heads
    OBVIOUS
  <2>4. found.kind = "response"
    OBVIOUS
  <2> HIDE DEF info, code, bad, good, found
  <2>5. found = good /\ ~bad
    BY <2>1, <2>2, <2>4
  <2> QED BY <2>3, <2>5 DEF bad
<1>5. /\ Len(lines) \in Nat \ {0}
      /\ \A k \in 1 .. Len(lines) : lines[k] \in Seq(Byte)
  <2>1. Len(END_LINE) \in Nat \ {0}
    BY DEF END_LINE
  <2> QED BY <1>2, <2>1, SplitPieces
<1> HIDE DEF lines, found
<1>6. ASSUME NEW k \in 2 .. Len(lines)
      PROVE  ValueOf(lines[k]) \in Seq(Byte)
  <2> DEFINE line == lines[k]
             at   == Min(Finds(line, <<COLON>>))
  <2>1. line \in Seq(Byte) /\ Finds(line, <<COLON>>) # {} /\ Len(<<COLON>>) \in Nat
    <3>1. k \in 1 .. Len(lines)
      BY <1>5
    <3>2. lines[k] \in Seq(Byte) /\ Finds(lines[k], <<COLON>>) # {}
      BY <1>4, <1>5, <3>1, Zenon
    <3>3. Len(<<COLON>>) = 1
      OBVIOUS
    <3> QED BY <3>2, <3>3
  <2> HIDE DEF line
  <2>2. at \in Nat \ {0}
    BY <2>1, FirstFound
  <2> HIDE DEF at
  <2>3. SubSeq(line, at + 1, Len(line)) \in Seq(Byte)
    BY <2>1, <2>2
  <2> QED BY <2>3, TrimmedBytes DEF ValueOf, at, line
<1> DEFINE named == {k \in DOMAIN found.headers : found.headers[k][1] = to_lowercase(name)}
<1>7. header(found, name) = IF named = {} THEN <<>> ELSE <<found.headers[Max(named)][2]>>
  BY DEF header
<1>8. CASE named = {}
  <2>1. <<>> \in Seq(Seq(Byte))
    OBVIOUS
  <2> QED BY <1>7, <1>8, <2>1 DEF found
<1>9. CASE named # {}
  <2>1. DOMAIN found.headers = 1 .. Len(lines) - 1
    BY <1>4
  <2>2. named \subseteq 1 .. Len(lines) - 1
    BY <2>1
  <2>3. named \subseteq 0 .. Len(lines)
    BY <1>5, <2>2
  <2> HIDE DEF named
  <2>4. Max(named) \in named
    BY <1>5, <1>9, <2>3, GreatestOf
  <2> DEFINE m == Max(named)
  <2>5. m \in 1 .. Len(lines) - 1
    BY <2>2, <2>4
  <2> HIDE DEF m
  <2>6. found.headers[m][2] = ValueOf(lines[m + 1])
    BY <1>4, <2>5
  <2>7. m + 1 \in 2 .. Len(lines)
    BY <1>5, <2>5
  <2>8. ValueOf(lines[m + 1]) \in Seq(Byte)
    BY <1>6, <2>7
  <2>9. <<ValueOf(lines[m + 1])>> \in Seq(Seq(Byte))
    BY <2>8
  <2> QED BY <1>7, <1>9, <2>6, <2>9 DEF m, found
<1> QED BY <1>8, <1>9

\* The protocol is none or the bytes of one.
ProtocolTyped == protocol \in Seq(Seq(Byte))

\* Every step keeps the type of the protocol.
LEMMA ProtocolStep == Base /\ ProtocolTyped /\ [Next]_vars => ProtocolTyped'
<1> SUFFICES ASSUME Base, ProtocolTyped, [Next]_vars PROVE ProtocolTyped'
  OBVIOUS
<1>1. CASE protocol' = protocol
  BY <1>1 DEF ProtocolTyped
<1>2. CASE event_loop
  <2>1. result = "Ok"
    BY <1>2, LoopCases DEF Base
  <2>2. PICK n \in 0 .. Len(to_client) : Unread(Arrived(n)) \/ Opens(Arrived(n)) \/ Takes(Arrived(n))
    BY <1>2, LoopCases DEF Base
  <2>3. CASE Unread(Arrived(n)) \/ Takes(Arrived(n))
    BY <1>1, <2>1, <2>3, NoHandshake
  <2>4. CASE Opens(Arrived(n))
    <3>1. Arrived(n) \in Seq(Byte)
      BY ReadPieces DEF Base, WireTypes
    <3>2. parse(Arrived(n)).kind = "response" /\ handle_recv_http_response(parse(Arrived(n)))
      BY <2>4 DEF Opens
    <3>3. header(parse(Arrived(n)), PROTOCOL) \in Seq(Seq(Byte))
      BY <3>1, <3>2, ResponseHeaders
    <3>4. protocol' = header(parse(Arrived(n)), PROTOCOL) \/ protocol' = protocol
      BY <3>2, Zenon DEF handle_recv_http_response, NotReceived
    <3> QED BY <1>1, <3>3, <3>4 DEF ProtocolTyped
  <2> QED BY <2>2, <2>3, <2>4
<1>3. CASE send \/ start_init \/ ServerReadsRequest \/ ServerReadsFrame \/ UNCHANGED vars
  <2>1. protocol' = protocol
    BY <1>3 DEF send, start_init, ServerReadsRequest, ServerReadsFrame, vars
  <2> QED BY <1>1, <2>1
<1> QED BY <1>2, <1>3 DEF Next

\* The variables have their types.
THEOREM WireTyped == Spec => []WireTypeOK
<1>1. Init => ProtocolTyped
  <2>1. <<>> \in Seq(Seq(Byte))
    OBVIOUS
  <2> QED BY <2>1 DEF Init, ProtocolTyped
<1>2. Base /\ ProtocolTyped => WireTypeOK
  <2> SUFFICES ASSUME Base, ProtocolTyped PROVE WireTypeOK
    OBVIOUS
  <2>1. \A i \in DOMAIN events :
          events[i].kind \in {"ON_CONNECT", "ON_TEXT", "SERVER_CLOSE"} /\ events[i].bytes \in Seq(Byte)
    <3>1. \A i \in DOMAIN events : events[i] \in Heards
      BY DEF Base, WireTypes
    <3> QED BY <3>1 DEF Heards
  <2> QED BY <2>1 DEF Base, ProtocolTyped, WireTypeOK, WireTypes, SInv
<1> QED BY <1>1, <1>2, ProtocolStep, BaseAlways, PTL DEF Spec

-----------------------------------------------------------------------------
(* Ordinary conversations *)

\* A frame of an ordinary conversation.
OrdinaryFrame(f) ==
    IF IsDataCode(f.code)
    THEN f.flag \in {FIN, NOFLAG} /\ Len(f.data) < 126 /\ from_utf8(f.data)
    ELSE f.code \in {PING, CLOSE} /\ f.flag = FIN /\ Len(f.data) \in 2 .. 125

\* How it begins on the wire: two bytes that bytes_to_frame understands.
LEMMA OrdinaryBegins ==
    ASSUME NEW f \in ServerFrames, OrdinaryFrame(f), NEW rest \in Seq(Byte)
    PROVE  LET n    == Len(f.data)
               full == Framed(f) \o rest
           IN  /\ n \in 0 .. 125 /\ (~IsDataCode(f.code) => n >= 2) /\ f.code \in Opcodes
               /\ Len(Framed(f)) = 2 + n /\ full \in Seq(Byte) /\ Len(full) >= 2 + n
               /\ full[1] % 32 = f.code /\ full[2] = n
<1> DEFINE n     == Len(f.data)
           first == f.flag + f.code
           v     == <<first>>
           m     == <<n>>
           h     == v \o m
           full  == Framed(f) \o rest
<1>1. n \in 0 .. 125 /\ (~IsDataCode(f.code) => n >= 2) /\ f.flag \in {FIN, NOFLAG} /\ f.code \in Opcodes
  <2>1. n \in Nat
    BY ServerFrameParts
  <2>2. CASE IsDataCode(f.code)
    <3>1. f.flag \in {FIN, NOFLAG} /\ n < 126
      BY <2>2, Zenon DEF OrdinaryFrame
    <3>2. f.code \in Opcodes
      BY <2>2 DEF IsDataCode, Opcodes, CONTINUATION, TEXT, BINARY
    <3>3. \A k \in Nat : k < 126 => k \in 0 .. 125
      BY SMT
    <3> QED BY <2>1, <2>2, <3>1, <3>2, <3>3, Zenon
  <2>3. CASE ~IsDataCode(f.code)
    <3>1. f.code \in {PING, CLOSE} /\ f.flag = FIN /\ n \in 2 .. 125
      BY <2>3, Zenon DEF OrdinaryFrame
    <3>2. f.code \in Opcodes
      BY <3>1 DEF Opcodes, PING, CLOSE
    <3>3. \A k \in 2 .. 125 : k \in 0 .. 125 /\ k >= 2
      BY SMT
    <3> QED BY <3>1, <3>2, <3>3, Zenon
  <2> QED BY <2>2, <2>3
<1>2. first \in Byte /\ first % 32 = f.code /\ f.data \in Seq(Byte)
  BY <1>1, ServerFrameParts
<1>3. Framed(f) = h \o f.data /\ Framed(f) \in Seq(Byte)
  <2>1. ShortLength(n) = <<n>>
    <3>1. \A k \in 0 .. 125 : k <= 125
      BY SMT
    <3>2. n <= 125
      BY <1>1, <3>1, Zenon
    <3> HIDE DEF n
    <3> QED BY <3>2 DEF ShortLength
  <2>2. Framed(f) = (<<first>> \o ShortLength(n)) \o f.data /\ Framed(f) \in Seq(Byte)
    BY FramedBytes
  <2> QED BY <2>1, <2>2
<1>4. v \in Seq(Byte) /\ m \in Seq(Byte) /\ Len(v) = 1 /\ Len(m) = 1 /\ v[1] = first /\ m[1] = n
  <2>1. n \in Byte
    BY <1>1 DEF Byte
  <2> QED BY <1>2, <2>1
<1> HIDE DEF v, m, n, first
<1>5. h \in Seq(Byte) /\ Len(h) = 2 /\ h[1] = first /\ h[2] = n
  <2>1. /\ h \in Seq(Byte) /\ Len(h) = Len(v) + Len(m)
        /\ \A i \in 1 .. Len(v) : h[i] = v[i]
        /\ \A i \in 1 .. Len(m) : h[Len(v) + i] = m[i]
    BY <1>4, OneAfterAnother, Zenon
  <2> HIDE DEF h
  <2>2. h[1] = v[1] /\ h[1 + 1] = m[1] /\ Len(h) = 2
    BY <1>4, <2>1
  <2>3. 1 + 1 = 2
    OBVIOUS
  <2> QED BY <1>4, <2>1, <2>2, <2>3, Zenon
<1> HIDE DEF h
<1>6. Len(f.data) = n /\ n \in Nat
  BY <1>1 DEF n
<1>7. Len(Framed(f)) = 2 + n /\ Framed(f)[1] = first /\ Framed(f)[2] = n
  <2> DEFINE x == h \o f.data
  <2>1. /\ Len(x) = Len(h) + Len(f.data)
        /\ \A i \in 1 .. Len(h) : x[i] = h[i]
    BY <1>2, <1>5, OneAfterAnother, Zenon
  <2> HIDE DEF x
  <2>2. 1 \in 1 .. Len(h) /\ 2 \in 1 .. Len(h)
    BY <1>5
  <2>3. Framed(f) = x
    BY <1>3 DEF x
  <2> QED BY <1>5, <1>6, <2>1, <2>2, <2>3, Zenon
<1>8. full \in Seq(Byte) /\ Len(full) >= 2 + n /\ full[1] = first /\ full[2] = n
  <2> DEFINE x == Framed(f)
  <2> HIDE DEF x
  <2>1. x \in Seq(Byte) /\ Len(x) = 2 + n /\ x[1] = first /\ x[2] = n
    BY <1>3, <1>7 DEF x
  <2>2. x \o rest \in Seq(Byte) /\ Len(x \o rest) >= 2 + n /\ (x \o rest)[1] = first /\ (x \o rest)[2] = n
    BY <1>6, <2>1
  <2> QED BY <2>2 DEF x
<1> HIDE DEF full
<1>9. full[1] % 32 = f.code
  BY <1>2, <1>8
<1> QED BY <1>1, <1>7, <1>8, <1>9 DEF n, full

\* It is found when all of it has arrived, and awaited before.
LEMMA OrdinaryFound ==
    ASSUME NEW f \in ServerFrames, OrdinaryFrame(f), NEW rest \in Seq(Byte),
           NEW b \in Seq(Byte), NEW more \in Seq(Byte), b \o more = Framed(f) \o rest
    PROVE  /\ bytes_to_frame(b).kind \in {"none", "frame"}
           /\ Len(b) >= Len(Framed(f)) => bytes_to_frame(b).kind = "frame"
<1> DEFINE n    == Len(f.data)
           full == Framed(f) \o rest
<1>1. /\ n \in 0 .. 125 /\ (~IsDataCode(f.code) => n >= 2) /\ f.code \in Opcodes
      /\ Len(Framed(f)) = 2 + n /\ full \in Seq(Byte) /\ Len(full) >= 2 + n
      /\ full[1] % 32 = f.code /\ full[2] = n
  BY OrdinaryBegins
<1>2. /\ \A k \in 1 .. Len(b) : full[k] = b[k]
      /\ Len(b) \in Nat
  BY OneAfterAnother
<1>3. /\ Incomplete.kind = "none"
      /\ \A fr, k : Frame(fr, k).kind = "frame"
  BY DEF Incomplete, Frame
<1> HIDE DEF n, full
<1>4. CASE Len(b) < 2
  <2>1. bytes_to_frame(b) = Incomplete
    BY <1>4, Zenon DEF bytes_to_frame
  <2>2. ~(Len(b) >= Len(Framed(f)))
    BY <1>1, <1>2, <1>4
  <2> QED BY <1>3, <2>1, <2>2
<1>5. CASE ~(Len(b) < 2)
  <2>1. b[1] % 32 = f.code /\ b[2] = n
    <3>1. 1 \in 1 .. Len(b) /\ 2 \in 1 .. Len(b)
      BY <1>2, <1>5
    <3> QED BY <1>1, <1>2, <3>1, Zenon
  <2>2. n % 128 = n /\ n # 126 /\ n # 127
    <3>1. \A k \in 0 .. 125 : k % 128 = k /\ k # 126 /\ k # 127
      <4> TAKE k \in 0 .. 125
      <4> DEFINE zero == 0
      <4>1. zero \in {0, 1} /\ k \in 0 .. 127 /\ k # 126 /\ k # 127 /\ k + 128 * zero = k
        OBVIOUS
      <4> HIDE DEF zero
      <4>2. (k + 128 * zero) % 128 = k
        BY <4>1, SecondByte
      <4> QED BY <4>1, <4>2
    <3> QED BY <1>1, <3>1, Zenon
  <2>3. payload_at(n) = 2 /\ payload_len(b, n) = n
    BY <2>2 DEF payload_at, payload_len
  <2>4. /\ ~(Len(b) < 2) /\ f.code \in Opcodes
        /\ (~IsDataCode(f.code) => ~(n < 2))
    BY <1>1, <1>5
  <2>5. \E x, y : bytes_to_frame(b) =
           IF n + 2 > Len(b) THEN Incomplete
           ELSE IF IsDataCode(f.code) THEN Frame(x, n + 2)
           ELSE Frame(y, n + 2)
    <3> DEFINE x == DataFrame(b[1] - (b[1] % 16), f.code, SubSeq(b, 2 + 1, 2 + n), <<>>)
               y == ControlFrame(b[1] - (b[1] % 16), f.code, SubSeq(b, 2 + 1, 2 + 2),
                                 SubSeq(b, 2 + 3, n + 2), <<>>)
    <3>1. bytes_to_frame(b) =
             IF Len(b) < 2 THEN Incomplete
             ELSE IF f.code \notin Opcodes THEN Refused
             ELSE IF Len(b) < 2 \/ overflows(b, n) THEN OutOfBounds
             ELSE IF n + 2 > Len(b) THEN Incomplete
             ELSE IF IsDataCode(f.code) THEN Frame(x, 2 + n)
             ELSE IF n < 2 THEN OutOfBounds
             ELSE Frame(y, 2 + n)
      <4> DEFINE flag  == b[1] - (b[1] % 16)
                 code  == b[1] % 32
                 short == b[2] % 128
                 i     == payload_at(short)
                 len   == payload_len(b, short)
      <4>1. bytes_to_frame(b) =
               IF Len(b) < 2 THEN Incomplete
               ELSE IF code \notin Opcodes THEN Refused
               ELSE IF Len(b) < i \/ overflows(b, short) THEN OutOfBounds
               ELSE IF len + i > Len(b) THEN Incomplete
               ELSE IF IsDataCode(code)
                    THEN Frame(DataFrame(flag, code, SubSeq(b, i + 1, i + len), <<>>), i + len)
               ELSE IF len < i THEN OutOfBounds
               ELSE Frame(ControlFrame(flag, code, SubSeq(b, i + 1, i + 2),
                                       SubSeq(b, i + 3, len + 2), <<>>), i + len)
        BY DEF bytes_to_frame
      <4>2. code = f.code /\ short = n
        BY <2>1, <2>2, Zenon
      <4>3. i = 2 /\ len = n
        BY <2>3, <4>2, Zenon
      <4> HIDE DEF i, len, short, code
      <4> QED BY <4>1, <4>2, <4>3, Zenon
    <3>2. 2 + n = n + 2
      BY <1>1
    <3> HIDE DEF x, y
    <3>4. ~overflows(b, n)
      BY <2>2 DEF overflows
    <3>3. bytes_to_frame(b) =
           IF n + 2 > Len(b) THEN Incomplete
           ELSE IF IsDataCode(f.code) THEN Frame(x, n + 2)
           ELSE Frame(y, n + 2)
      BY <2>4, <3>1, <3>2, <3>4, Zenon
    <3> QED BY <3>3, Zenon
  <2>6. PICK x, y : bytes_to_frame(b) =
           IF n + 2 > Len(b) THEN Incomplete
           ELSE IF IsDataCode(f.code) THEN Frame(x, n + 2)
           ELSE Frame(y, n + 2)
    BY <2>5
  <2>7. Len(b) >= Len(Framed(f)) => ~(n + 2 > Len(b))
    BY <1>1, <1>2
  <2>8. /\ bytes_to_frame(b).kind \in {"none", "frame"}
        /\ ~(n + 2 > Len(b)) => bytes_to_frame(b).kind = "frame"
    BY <1>3, <2>6, Zenon
  <2> QED BY <2>7, <2>8
<1> QED BY <1>4, <1>5

\* Talking and Ending, of values of the variables.
TalkingAs(j, status, wrote, outs) ==
    /\ status = "OPEN"
    /\ \A i \in 1 .. j : case.frames[i].code # CLOSE
    /\ TextFrames(wrote) \o TextFrames(outs) = frames
    /\ \A i \in DOMAIN outs :
          ~IsDataCode(outs[i].header.code) => i = 1 /\ j > 0 /\ case.frames[j].code = PING

\* Ending, of the state it is given.
EndingAs(j, status, wrote, outs, evs) ==
    /\ ServerCloses /\ j = Len(case.frames)
    /\ \/ /\ status = "SERVER_WANTS_TO_CLOSE"
          /\ Len(outs) = 1 /\ outs[1].header.code = CLOSE
       \/ /\ status = "CLOSE"
          /\ is_websocket_data(Last(wrote)) /\ Last(wrote).header.code = CLOSE
          /\ Last(evs) = Event("SERVER_CLOSE", SubSeq(Last(wrote).data, 1, 2))

\* The conversation is one of which Course says how it goes.
Ruled == Ordinary /\ CaseIsTrue

\* Course, without its definitions.
LEMMA CourseIs ==
    Course <=>
        (Ruled =>
            /\ result = "Ok" /\ recv_data = <<>>
            /\ pc = "panicked" => connection_status = "START_INIT"
            /\ connection_status \notin Early =>
                  \E j \in 0 .. Len(case.frames) :
                      /\ At(j, srv_in, recv_storage \o to_client, HeardIn(events), recv_data, result)
                      /\ \/ TalkingAs(j, connection_status, written, output_events)
                         \/ EndingAs(j, connection_status, written, output_events, events))
<1>1. \A j : /\ InStepAt(j) <=> At(j, srv_in, recv_storage \o to_client, HeardIn(events), recv_data, result)
             /\ Talking(j) <=> TalkingAs(j, connection_status, written, output_events)
             /\ Ending(j) <=> EndingAs(j, connection_status, written, output_events, events)
  BY Zenon DEF InStepAt, At, FramesAfter, FramesBefore, Heard, HeardIn, Talking, TalkingAs, Ending, EndingAs
<1> QED BY <1>1, Zenon DEF Course, Ruled, IsOpen, Early

\* The same after a step.
LEMMA CourseNext ==
    ASSUME case' = case, frames' = frames
    PROVE  Course' <=>
        (Ruled =>
            /\ result' = "Ok" /\ recv_data' = <<>>
            /\ pc' = "panicked" => connection_status' = "START_INIT"
            /\ connection_status' \notin Early =>
                  \E j \in 0 .. Len(case.frames) :
                      /\ At(j, srv_in', recv_storage' \o to_client', HeardIn(events'), recv_data', result')
                      /\ \/ TalkingAs(j, connection_status', written', output_events')
                         \/ EndingAs(j, connection_status', written', output_events', events'))
<1>1. Ruled' <=> Ruled
  BY DEF Ruled, Ordinary, CaseIsTrue, HasBody, CodeIsChecked, header, verify_key
<1>2. \A j : InStepAt(j)' <=> At(j, srv_in', recv_storage' \o to_client', HeardIn(events'), recv_data', result')
  <2>1. (WholeTexts' <=> WholeTexts) /\ Heard' = HeardIn(events')
    BY DEF WholeTexts, TextsSent, Heard, HeardIn
  <2> QED BY <2>1, Zenon DEF InStepAt, At, FramesAfter, FramesBefore
<1>3. \A j : Talking(j)' <=> TalkingAs(j, connection_status', written', output_events')
  <2>1. /\ TextFrames(written)' = TextFrames(written')
        /\ TextFrames(output_events)' = TextFrames(output_events')
    BY DEF TextFrames, is_websocket_data
  <2> QED BY <2>1, Zenon DEF Talking, TalkingAs
<1>4. \A j : Ending(j)' <=> EndingAs(j, connection_status', written', output_events', events')
  <2>1. ServerCloses' <=> ServerCloses
    BY DEF ServerCloses
  <2> QED BY <2>1, Zenon DEF Ending, EndingAs, is_websocket_data
<1>5. Course' <=>
        (Ruled' =>
            /\ result' = "Ok" /\ recv_data' = <<>>
            /\ pc' = "panicked" => connection_status' = "START_INIT"
            /\ IsOpen' => \E j \in 0 .. Len(case'.frames) : InStepAt(j)' /\ (Talking(j)' \/ Ending(j)'))
  BY Zenon DEF Course, Ruled
<1> QED BY <1>1, <1>2, <1>3, <1>4, <1>5, Zenon DEF IsOpen, Early

\* The frames of an ordinary conversation.
LEMMA OrdinaryFrames ==
    ASSUME Ordinary, case \in Cases, NEW i \in DOMAIN case.frames
    PROVE  /\ case.frames[i] \in ServerFrames /\ OrdinaryFrame(case.frames[i])
           /\ case.frames[i].code = CLOSE =>
                 i = Len(case.frames) /\ (i > 1 => case.frames[i - 1].code # PING)
<1>1. case.frames[i] \in ServerFrames
  <2>1. case.frames \in Seq(ServerFrames)
    BY CaseFrames
  <2> QED BY <2>1
<1>2. LET frame == case.frames[i]
      IN  IF IsDataCode(frame.code)
          THEN frame.flag \in {FIN, NOFLAG} /\ Len(frame.data) < 126 /\ from_utf8(frame.data)
          ELSE /\ frame.code \in {PING, CLOSE} /\ frame.flag = FIN
               /\ Len(frame.data) \in 2 .. 125
               /\ frame.code = CLOSE =>
                     i = Len(case.frames) /\ (i > 1 => case.frames[i - 1].code # PING)
  BY Zenon DEF Ordinary
<1>3. OrdinaryFrame(case.frames[i])
  BY <1>2, Zenon DEF OrdinaryFrame
<1>4. ~IsDataCode(CLOSE)
  BY DEF IsDataCode, CLOSE, CONTINUATION, TEXT, BINARY
<1> QED BY <1>1, <1>2, <1>3, <1>4, Zenon

\* In an ordinary case the response opens the session, and has no body.
LEMMA RuledOpens ==
    ASSUME Ruled
    PROVE  Opening(AtOnce) /\ AtOnce.kind = "response" /\ ~HasBody /\ case.protocols # <<<<>>>>
<1>1. case.accepts /\ CaseIsTrue /\ ~HasBody /\ case.protocols # <<<<>>>>
  BY Zenon DEF Ruled, Ordinary
<1> QED BY <1>1, Zenon DEF CaseIsTrue, Opening, AtOnce

\* A piece of the response of an ordinary conversation is awaited or opens the
\* connection.
LEMMA PieceOpens ==
    ASSUME Base, Ruled, result = "Ok", connection_status = "HANDSHAKE",
           NEW n \in 0 .. Len(to_client), Arrived(n) # <<>>
    PROVE  LET response == parse(Arrived(n))
           IN  response.kind = "none" \/ Opening(response)
<1> DEFINE b == Arrived(n)
           response == parse(b)
<1>1. PICK z \in Seq(Byte) : b \in Seq(Byte) /\ case.response = b \o z
  BY ResponsePieces
<1>2. Opening(AtOnce) /\ AtOnce.kind = "response" /\ AtOnce = parse(b \o z)
  BY <1>1, RuledOpens DEF AtOnce
<1> HIDE DEF b
<1>3. CASE Finds(lossy(b), HeadEnd) = {}
  <2>1. response = ParseError
    BY <1>3, ParseIs, Zenon
  <2> QED BY <2>1 DEF ParseError, b
<1>4. CASE Finds(lossy(b), HeadEnd) # {}
  <2>1. SameHead(response, AtOnce)
    BY <1>1, <1>2, <1>4, PieceDecides, Zenon
  <2>2. response.kind = "response"
    BY <1>2, <2>1 DEF SameHead
  <2> HIDE DEF response
  <2>3. Opening(response)
    BY <1>2, <2>1, <2>2, SameHeadOpens
  <2> QED BY <2>3 DEF response, b
<1> QED BY <1>3, <1>4

\* What arrives of the frames of an ordinary conversation is a frame, or will be.
LEMMA OrdinaryKinds ==
    ASSUME Base, Ordinary, result = "Ok", connection_status \in Active, connection_status \notin Early,
           NEW n \in 0 .. Len(to_client), NEW j \in 0 .. Len(case.frames),
           At(j, srv_in, recv_storage \o to_client, HeardIn(events), recv_data, result)
    PROVE  /\ Found(Arrived(n)).kind \in {"none", "frame"}
           /\ j = Len(case.frames) => Arrived(n) = <<>>
           /\ srv_in # <<>> /\ n = Len(to_client) /\ Found(Arrived(n)).kind = "none" => j = Len(case.frames)
<1> DEFINE b == Arrived(n)
           z == SubSeq(to_client, n + 1, Len(to_client))
<1>1. recv_storage \in Seq(Byte) /\ to_client \in Seq(Byte) /\ case \in Cases
  BY DEF Base, WireTypes
<1>2. b \in Seq(Byte) /\ z \in Seq(Byte) /\ b \o z = recv_storage \o to_client
  BY <1>1, ReadPieces
<1>3. n = Len(to_client) => z = <<>>
  BY <1>1
<1>4. connection_status # "HANDSHAKE" /\ Len(case.frames) \in Nat /\ case.frames \in Seq(ServerFrames)
  BY <1>1, CaseFrames DEF Early
<1>5. Found(b) = IF b = <<>> THEN Incomplete ELSE bytes_to_frame(b)
  BY <1>4, Zenon DEF Found
<1>6. Incomplete.kind = "none"
  BY DEF Incomplete
<1> HIDE DEF b, z
<1>7. b \o z = <<>> => b = <<>>
  <2>1. Len(b \o z) = Len(b) + Len(z)
    BY <1>2, OneAfterAnother, Zenon
  <2>2. Len(b) \in Nat /\ Len(z) \in Nat /\ (b # <<>> => Len(b) # 0)
    BY <1>2, EmptySeq
  <2>3. Len(<<>>) = 0
    OBVIOUS
  <2> QED BY <2>1, <2>2, <2>3
<1>8. CASE j = Len(case.frames)
  <2>1. Stream(FramesAfter(j)) = <<>>
    <3>1. FramesAfter(j) = <<>>
      BY <1>4, <1>8 DEF FramesAfter
    <3> QED BY <3>1, FlattenNone DEF Stream
  <2>2. b = <<>>
    BY <1>2, <1>7, <2>1, Zenon DEF At
  <2> QED BY <1>5, <1>6, <1>8, <2>2 DEF b
<1>9. CASE srv_in = <<>>
  <2>1. b = <<>>
    BY <1>2, <1>7, <1>9, Zenon DEF At
  <2> QED BY <1>5, <1>6, <1>9, <2>1 DEF b
<1>10. CASE j # Len(case.frames) /\ srv_in # <<>>
  <2> DEFINE f == case.frames[j + 1]
             rest == Stream(FramesAfter(j + 1))
  <2>1. j \in Nat /\ j < Len(case.frames) /\ j + 1 \in DOMAIN case.frames
    BY <1>4, <1>10
  <2>2. f \in ServerFrames /\ OrdinaryFrame(f)
    BY <1>1, <2>1, OrdinaryFrames
  <2>3. Stream(FramesAfter(j)) = Framed(f) \o rest /\ rest \in Seq(Byte) /\ Framed(f) \in Seq(Byte)
    BY <1>1, <2>1, NextFrameIs
  <2> HIDE DEF f, rest
  <2>4. b \o z = Framed(f) \o rest
    BY <1>2, <1>10, <2>3, Zenon DEF At
  <2>5. /\ bytes_to_frame(b).kind \in {"none", "frame"}
        /\ Len(b) >= Len(Framed(f)) => bytes_to_frame(b).kind = "frame"
    BY <1>2, <2>2, <2>3, <2>4, OrdinaryFound
  <2>6. n = Len(to_client) => b # <<>> /\ bytes_to_frame(b).kind = "frame"
    <3> SUFFICES ASSUME z = <<>> PROVE b # <<>> /\ bytes_to_frame(b).kind = "frame"
      BY <1>3
    <3>1. b = Framed(f) \o rest
      <4>1. b \o <<>> = b
        BY <1>2, ConcatEmptySeq
      <4> QED BY <2>4, <4>1
    <3>2. Len(Framed(f) \o rest) = Len(Framed(f)) + Len(rest)
      BY <2>3, OneAfterAnother, Zenon
    <3>3. Len(Framed(f)) \in Nat /\ Len(rest) \in Nat /\ Len(Framed(f)) >= 2
      <4>1. Len(Framed(f)) >= 2
        BY <2>2, FramedBytes, Zenon
      <4> QED BY <2>3, <4>1
    <3>4. Len(b) >= Len(Framed(f)) /\ Len(b) # 0
      BY <3>1, <3>2, <3>3
    <3>5. Len(<<>>) = 0
      OBVIOUS
    <3> QED BY <2>5, <3>4, <3>5
  <2>7. Found(b).kind \in {"none", "frame"}
    BY <1>5, <1>6, <2>5
  <2>8. n = Len(to_client) => Found(b).kind = "frame"
    BY <1>5, <2>6
  <2> QED BY <1>10, <2>7, <2>8 DEF b
<1> QED BY <1>8, <1>9, <1>10

\* The request has no text.
LEMMA OnlyRequest ==
    ASSUME Base, connection_status # "START_INIT", Len(written) = 1
    PROVE  TextFrames(written) = <<>>
<1> DEFINE r == written[1]
<1>1. written = <<r>> /\ r \in OutEvents /\ 1 \in DOMAIN (written \o output_events)
      /\ (written \o output_events)[1] = r
  <2>1. \A s, t \in Seq(OutEvents) : Len(s) = 1 =>
           /\ s = <<s[1]>> /\ s[1] \in OutEvents
           /\ 1 \in DOMAIN (s \o t) /\ (s \o t)[1] = s[1]
    OBVIOUS
  <2>2. written \in Seq(OutEvents) /\ output_events \in Seq(OutEvents)
    BY DEF Base, WireTypes
  <2> QED BY <2>1, <2>2, Zenon
<1>2. ~is_websocket_data(r)
  <2>1. RequestFirst(written \o output_events)
    BY EarlyPhases
  <2> QED BY <1>1, <2>1 DEF RequestFirst
<1> HIDE DEF r
<1>3. TextFrames(<<r>>) = TextFrame(r)
  BY <1>1, FramesOne
<1> QED BY <1>1, <1>2, <1>3 DEF TextFrame

\* The response of an ordinary conversation opens it, at the first frame.
LEMMA CourseOpens ==
    ASSUME Base, Ruled, Course, event_loop, connection_status = "HANDSHAKE"
    PROVE  Course'
<1>1. /\ connection_status \in Active /\ result = "Ok" /\ pc = "sent" /\ recv_data = <<>>
      /\ UNCHANGED <<frames, case, srv_in>>
  BY LoopCases, CourseIs DEF Base
<1>2. PICK n \in 0 .. Len(to_client) :
              /\ to_client' = SubSeq(to_client, n + 1, Len(to_client))
              /\ \/ /\ Found(Arrived(n)).kind = "none"
                    /\ recv_storage' = Arrived(n) /\ UNCHANGED <<recv_data, protocol>>
                    /\ Output(connection_status, Left, events)
                 \/ Found(Arrived(n)).kind \in {"panic", "InvalidFrame"} /\ Unread(Arrived(n))
                 \/ Opens(Arrived(n))
                 \/ Takes(Arrived(n))
  BY LoopKinds DEF Base
<1>3. ~Takes(Arrived(n)) /\ Found(Arrived(n)).kind \notin {"panic", "InvalidFrame"}
  <2>1. ~Takes(Arrived(n))
    BY DEF Takes
  <2>2. CASE Arrived(n) = <<>>
    BY <2>1, <2>2 DEF Found, Incomplete
  <2>3. CASE Arrived(n) # <<>>
    <3>1. Found(Arrived(n)) = parse(Arrived(n))
      BY <2>3, Zenon DEF Found
    <3>2. parse(Arrived(n)).kind = "none" \/ Opening(parse(Arrived(n)))
      BY <1>1, <2>3, PieceOpens
    <3>3. parse(Arrived(n)).kind \in {"none", "response"}
      BY <3>2, Zenon DEF Opening
    <3> QED BY <2>1, <3>1, <3>3
  <2> QED BY <2>2, <2>3
<1>4. CASE /\ recv_storage' = Arrived(n) /\ UNCHANGED <<recv_data, protocol>>
           /\ Output(connection_status, Left, events)
  <2>1. connection_status' = "HANDSHAKE" /\ result' = "Ok" /\ pc' = pc
    BY <1>4 DEF Output, Closing
  <2> QED BY <1>1, <1>4, <2>1, CourseNext DEF Early
<1>5. CASE Opens(Arrived(n))
  <2> DEFINE response == parse(Arrived(n))
  <2>1. Arrived(n) # <<>> /\ response.kind = "response" /\ handle_recv_http_response(response)
    BY <1>5 DEF Opens
  <2>2. Opening(response)
    <3>1. response.kind = "none" \/ Opening(response)
      BY <1>1, <2>1, PieceOpens
    <3> QED BY <2>1, <3>1
  <2> HIDE DEF response
  <2>3. Output("OPEN", Left, Append(events, Event("ON_CONNECT", response.body))) /\ recv_data' = recv_data
    BY <2>1, <2>2, Zenon DEF handle_recv_http_response, Opening
  <2>4. /\ connection_status' = "OPEN" /\ result' = "Ok" /\ pc' = pc
        /\ written' = written \o Popped /\ output_events' = Left
    BY <2>3 DEF Output, Closing
  <2>5. Popped = <<>> /\ Left = frames /\ Len(written) = 1 /\ written # <<>>
    <3>1. written # <<>>
      <4> SUFFICES ASSUME written = <<>> PROVE FALSE
        OBVIOUS
      <4>1. recv_storage = <<>> /\ to_client = <<>>
        BY PoppedEarly
      <4>2. Arrived(n) = <<>>
        BY <4>1 DEF Arrived
      <4> QED BY <2>1, <4>2
    <3> QED BY <3>1, PoppedEarly
  <2>6. /\ written \in Seq(OutEvents) /\ frames \in Seq(OutEvents)
        /\ TextFrames(frames) = frames
        /\ \A i \in DOMAIN frames : IsDataCode(frames[i].header.code)
        /\ frames \in Seq(ClientFrames)
    BY FramesOfSend DEF Base, WireTypes
  <2>7. TextFrames(written) = <<>>
    BY <2>5, OnlyRequest
  <2>8. written' = written /\ output_events' = frames
    <3>1. written \o <<>> = written
      BY <2>6, ConcatEmptySeq
    <3> QED BY <2>4, <2>5, <3>1
  <2>9. TalkingAs(0, connection_status', written', output_events')
    <3>1. TextFrames(written') \o TextFrames(output_events') = frames
      <4>1. <<>> \o frames = frames
        BY <2>6, ConcatEmptySeq
      <4> QED BY <2>6, <2>7, <2>8, <4>1, Zenon
    <3>2. \A i \in DOMAIN output_events' : IsDataCode(output_events'[i].header.code)
      BY <2>6, <2>8
    <3>3. \A i \in 1 .. 0 : FALSE
      OBVIOUS
    <3> QED BY <2>4, <3>1, <3>2, <3>3, Zenon DEF TalkingAs
  <2>10. At(0, srv_in', recv_storage' \o to_client', HeardIn(events'), recv_data', result')
    <3>1. Opened
      <4>1. Arrived(n) \in Seq(Byte)
        BY ReadPieces DEF Base, WireTypes
      <4> QED BY <1>5, <4>1, ResponseTaken DEF Base
    <3>2. InStep'
      BY <1>1, <1>2, <1>5, <3>1, InStepOpens
    <3>3. ~HasBody /\ connection_status' \notin Early
      BY <2>4, RuledOpens DEF Early
    <3>4. PICK j \in 0 .. Len(case.frames) :
             At(j, srv_in', recv_storage' \o to_client', HeardIn(events'), recv_data', result')
      BY <1>1, <3>2, <3>3, InStepNext, Zenon
    <3>5. srv_in' = <<>>
      BY <1>1 DEF Base, Phases
    <3>6. j = 0
      BY <3>4, <3>5, Zenon DEF At
    <3> QED BY <3>4, <3>6
  <2>11. 0 \in 0 .. Len(case.frames)
    BY CaseFrames DEF Base, WireTypes
  <2> QED BY <1>1, <2>3, <2>4, <2>9, <2>10, <2>11, CourseNext, Zenon
<1> QED BY <1>2, <1>3, <1>4, <1>5

\* What is popped, and what is left, while the text is sent.
LEMMA TalkingLeft ==
    ASSUME Base, NEW j, TalkingAs(j, connection_status, written, output_events)
    PROVE  /\ Popped \in Seq(OutEvents) /\ Left \in Seq(OutEvents) /\ written \in Seq(OutEvents)
           /\ TextFrames(written \o Popped) \o TextFrames(Left) = frames
           /\ \A i \in DOMAIN Left : IsDataCode(Left[i].header.code)
           /\ Popped # <<>> /\ ~IsDataCode(Popped[1].header.code) =>
                 j > 0 /\ case.frames[j].code = PING
<1>1. /\ Popped \in Seq(OutEvents) /\ Left \in Seq(OutEvents) /\ written \in Seq(OutEvents)
      /\ output_events \in Seq(OutEvents) /\ Popped \o Left = output_events
      /\ Popped = <<>> => Left = output_events
      /\ Popped # <<>> => output_events # <<>> /\ Popped = <<output_events[1]>> /\ Left = Tail(output_events)
  BY PoppedParts DEF Base, WireTypes
<1>2. /\ connection_status = "OPEN"
      /\ TextFrames(written) \o TextFrames(output_events) = frames
      /\ \A i \in DOMAIN output_events :
            ~IsDataCode(output_events[i].header.code) => i = 1 /\ j > 0 /\ case.frames[j].code = PING
  BY Zenon DEF TalkingAs
<1>3. TextFrames(written \o Popped) \o TextFrames(Left) = frames
  <2>1. /\ TextFrames(written \o Popped) = TextFrames(written) \o TextFrames(Popped)
        /\ TextFrames(Popped \o Left) = TextFrames(Popped) \o TextFrames(Left)
    BY <1>1, FramesMore
  <2>2. /\ TextFrames(written) \in Seq(ClientFrames) /\ TextFrames(Popped) \in Seq(ClientFrames)
        /\ TextFrames(Left) \in Seq(ClientFrames)
    BY <1>1, FramesMore
  <2>3. \A x, y, w \in Seq(ClientFrames) : (x \o y) \o w = x \o (y \o w)
    BY ConcatAssociative
  <2>4. TextFrames(written) \o TextFrames(Popped \o Left) = frames
    BY <1>1, <1>2, Zenon
  <2> DEFINE x == TextFrames(written)
             y == TextFrames(Popped)
             w == TextFrames(Left)
  <2> HIDE DEF x, y, w
  <2>5. x \o (y \o w) = frames /\ (x \o y) \o w = x \o (y \o w)
    BY <2>1, <2>2, <2>3, <2>4, Zenon DEF x, y, w
  <2> QED BY <2>1, <2>5, Zenon DEF x, y, w
<1>4. Popped = <<>> => output_events = <<>>
  BY <1>2, Zenon DEF Popped
<1>5. \A i \in DOMAIN Left : IsDataCode(Left[i].header.code)
  <2>1. CASE Popped = <<>>
    <3>1. Left = <<>>
      BY <1>1, <1>4, <2>1
    <3> QED BY <3>1
  <2>2. CASE Popped # <<>>
    <3> TAKE i \in DOMAIN Left
    <3>1. i + 1 \in DOMAIN output_events /\ Left[i] = output_events[i + 1] /\ i + 1 # 1
      BY <1>1, <2>2
    <3> QED BY <1>2, <3>1, Zenon
  <2> QED BY <2>1, <2>2
<1>6. Popped # <<>> /\ ~IsDataCode(Popped[1].header.code) => j > 0 /\ case.frames[j].code = PING
  <2> SUFFICES ASSUME Popped # <<>>, ~IsDataCode(Popped[1].header.code)
               PROVE  j > 0 /\ case.frames[j].code = PING
    OBVIOUS
  <2>1. 1 \in DOMAIN output_events /\ Popped[1] = output_events[1]
    BY <1>1
  <2> QED BY <1>2, <2>1, Zenon
<1> QED BY <1>1, <1>3, <1>5, <1>6

\* The text goes on, behind a PONG perhaps.
LEMMA TalkingGoesOn ==
    ASSUME Base, NEW j, TalkingAs(j, connection_status, written, output_events),
           NEW k, \A i \in 1 .. k : case.frames[i].code # CLOSE,
           connection_status' = "OPEN", written' = written \o Popped,
           \/ output_events' = Left
           \/ /\ k > 0 /\ case.frames[k].code = PING
              /\ \E c \in ClientFrames : ~IsDataCode(c.header.code) /\ output_events' = <<c>> \o Left
    PROVE  TalkingAs(k, connection_status', written', output_events')
<1>1. /\ Left \in Seq(OutEvents)
      /\ TextFrames(written \o Popped) \o TextFrames(Left) = frames
      /\ \A i \in DOMAIN Left : IsDataCode(Left[i].header.code)
  BY TalkingLeft, Zenon
<1>2. CASE output_events' = Left
  BY <1>1, <1>2, Zenon DEF TalkingAs
<1>3. CASE /\ k > 0 /\ case.frames[k].code = PING
           /\ \E c \in ClientFrames : ~IsDataCode(c.header.code) /\ output_events' = <<c>> \o Left
  <2>1. PICK c \in ClientFrames : ~IsDataCode(c.header.code) /\ output_events' = <<c>> \o Left
    BY <1>3
  <2> DEFINE v == <<c>>
  <2>2. v \in Seq(OutEvents) /\ v[1] = c /\ Len(v) = 1 /\ c \in OutEvents
    BY DEF OutEvents
  <2>3. TextFrames(v) = <<>>
    <3>1. TextFrames(v) = TextFrame(c)
      BY <2>2, FramesOne
    <3> QED BY <2>1, <3>1 DEF TextFrame
  <2> HIDE DEF v
  <2>4. TextFrames(v \o Left) = TextFrames(Left)
    <3>1. TextFrames(v \o Left) = TextFrames(v) \o TextFrames(Left) /\ TextFrames(Left) \in Seq(ClientFrames)
      BY <1>1, <2>2, FramesMore
    <3>2. <<>> \o TextFrames(Left) = TextFrames(Left)
      BY <3>1, ConcatEmptySeq
    <3> QED BY <2>3, <3>1, <3>2
  <2>5. \A i \in DOMAIN (v \o Left) : i # 1 => IsDataCode((v \o Left)[i].header.code)
    <3> TAKE i \in DOMAIN (v \o Left)
    <3> HAVE i # 1
    <3>1. i - 1 \in DOMAIN Left /\ (v \o Left)[i] = Left[i - 1]
      <4>1. /\ v \o Left \in Seq(OutEvents) /\ Len(v \o Left) = Len(v) + Len(Left)
            /\ \A m \in 1 .. Len(v) + Len(Left) :
                  (v \o Left)[m] = IF m <= Len(v) THEN v[m] ELSE Left[m - Len(v)]
        BY <1>1, <2>2, ConcatProperties
      <4>2. /\ i \in 1 .. Len(v) + Len(Left) /\ ~(i <= Len(v)) /\ i - Len(v) = i - 1
            /\ i - 1 \in DOMAIN Left
        BY <1>1, <2>2, <4>1
      <4> QED BY <4>1, <4>2
    <3> QED BY <1>1, <3>1, Zenon
  <2>6. output_events' = v \o Left
    BY <2>1 DEF v
  <2> QED BY <1>1, <1>3, <2>4, <2>5, <2>6, Zenon DEF TalkingAs
<1> QED BY <1>2, <1>3

\* An ordinary frame is handled while the text is sent.
LEMMA TalkingTakes ==
    ASSUME Base, Ordinary, result = "Ok", recv_data = <<>>, frames' = frames,
           NEW j \in 0 .. Len(case.frames), TalkingAs(j, connection_status, written, output_events),
           NEW n \in 0 .. Len(to_client), Takes(Arrived(n)),
           j + 1 \in DOMAIN case.frames, FindsFrame(bytes_to_frame(Arrived(n)), case.frames[j + 1])
    PROVE  /\ result' = "Ok" /\ recv_data' = <<>> /\ pc' = pc
           /\ \/ TalkingAs(j + 1, connection_status', written', output_events')
              \/ EndingAs(j + 1, connection_status', written', output_events', events')
<1> DEFINE f == case.frames[j + 1]
           frame == bytes_to_frame(Arrived(n)).frame
<1>1. /\ OrdinaryFrame(f) /\ f \in ServerFrames
      /\ f.code = CLOSE => j + 1 = Len(case.frames) /\ (j + 1 > 1 => case.frames[(j + 1) - 1].code # PING)
  BY OrdinaryFrames DEF Base, WireTypes
<1>2. /\ frame.header.code = f.code /\ frame.header.flag = f.flag
      /\ IsDataCode(f.code) => frame.data = f.data
  BY Zenon DEF FindsFrame
<1>3. handle_recv_frame(frame)
  BY DEF Takes
<1>4. connection_status = "OPEN" /\ \A i \in 1 .. j : case.frames[i].code # CLOSE
  BY Zenon DEF TalkingAs
<1>5. j \in Nat /\ (j + 1) - 1 = j /\ (j > 0 => j + 1 > 1)
  BY CaseFrames DEF Base, WireTypes
<1>6. Popped # <<>> /\ ~IsDataCode(Popped[1].header.code) => j > 0 /\ case.frames[j].code = PING
  BY TalkingLeft, Zenon
<1> HIDE DEF frame
<1>7. f.data \in Seq(Byte)
  BY <1>1, ServerFrameParts
<1>8. f.code # CLOSE => \A i \in 1 .. j + 1 : case.frames[i].code # CLOSE
  <2>1. \A i \in 1 .. j + 1 : i \in 1 .. j \/ i = j + 1
    BY <1>5
  <2> QED BY <1>4, <2>1, Zenon
<1>9. CASE IsDataCode(f.code)
  <2>1. handle_data(frame)
    <3>1. ~IsControlCode(f.code)
      BY <1>9 DEF IsDataCode, IsControlCode, CONTINUATION, TEXT, BINARY, PING, PONG, CLOSE
    <3> QED BY <1>2, <1>3, <1>9, <3>1 DEF handle_recv_frame
  <2>2. f.code # CLOSE
    BY <1>9 DEF IsDataCode, CONTINUATION, TEXT, BINARY, CLOSE
  <2>3. from_utf8(f.data)
    BY <1>1, <1>9, Zenon DEF OrdinaryFrame
  <2>4. Kept(frame) \in {f.data, <<>>}
    <3>1. <<>> \o f.data = f.data
      BY <1>7, ConcatEmptySeq
    <3> QED BY <1>2, <1>9, <3>1 DEF Kept
  <2>5. from_utf8(<<>>)
    BY DEF from_utf8
  <2>6. from_utf8(frame.data) /\ from_utf8(Kept(frame))
    BY <1>2, <1>9, <2>3, <2>4, <2>5
  <2>7. /\ recv_data' = <<>>
        /\ Output(connection_status, Left, Append(events, Event("ON_TEXT", Kept(frame) \o frame.data)))
    BY <2>1, <2>6, Zenon DEF handle_data
  <2>8. /\ connection_status' = "OPEN" /\ result' = "Ok" /\ pc' = pc
        /\ written' = written \o Popped /\ output_events' = Left
    BY <1>4, <2>7 DEF Output, Closing
  <2>9. TalkingAs(j + 1, connection_status', written', output_events')
    BY <1>8, <2>2, <2>8, TalkingGoesOn
  <2> QED BY <2>7, <2>8, <2>9
<1>10. CASE ~IsDataCode(f.code)
  <2>1. f.code \in {PING, CLOSE}
    BY <1>1, <1>10, Zenon DEF OrdinaryFrame
  <2>2. handle_control_frame(frame)
    <3>1. IsControlCode(f.code)
      BY <2>1 DEF IsControlCode
    <3> QED BY <1>2, <1>3, <1>10, <3>1 DEF handle_recv_frame
  <2>3. recv_data' = <<>>
    BY <2>2 DEF handle_control_frame, NotReceived
  <2>4. PING # CLOSE /\ PONG # CLOSE /\ PING # PONG /\ ~IsDataCode(PONG) /\ ~IsDataCode(CLOSE)
        /\ ~IsDataCode(PING)
    BY DEF IsDataCode, CONTINUATION, TEXT, BINARY, PING, PONG, CLOSE
  <2>5. CASE f.code = PING
    <3>1. PICK mask \in MaskKeys :
             Output(connection_status, <<ControlFrame(FIN, PONG, <<>>, frame.data, mask)>> \o Left, events)
      BY <1>2, <2>2, <2>4, <2>5, Zenon DEF handle_control_frame
    <3> DEFINE c == ControlFrame(FIN, PONG, <<>>, frame.data, mask)
    <3>2. c \in ClientFrames /\ ~IsDataCode(c.header.code)
      <4>1. frame.data \in Seq(Byte) /\ Len(frame.data) \in 2 .. 125
        <5>1. Arrived(n) \in Seq(Byte)
          BY ReadPieces DEF Base, WireTypes
        <5>2. /\ frame.data \in Seq(Byte)
              /\ ~IsDataCode(frame.header.code) => Len(frame.data) \in 2 .. 125
          BY <5>1, FoundFrame DEF Takes, frame
        <5> QED BY <1>2, <1>10, <5>2
      <4>2. mask \in Masks
        BY <3>1, SendAssumption DEF Masks
      <4>3. <<>> \in Seq(Byte) /\ Len(<<>>) + Len(frame.data) <= 125
        <5>1. \A k \in 2 .. 125 : 0 + k <= 125
          BY SMT
        <5>2. <<>> \in Seq(Byte) /\ Len(<<>>) = 0
          OBVIOUS
        <5> QED BY <4>1, <5>1, <5>2, Zenon
      <4> QED BY <2>4, <4>1, <4>2, <4>3, FittingControl
    <3>3. /\ connection_status' = "OPEN" /\ result' = "Ok" /\ pc' = pc
          /\ written' = written \o Popped /\ output_events' = <<c>> \o Left
      BY <1>4, <3>1 DEF Output, Closing
    <3> HIDE DEF c
    <3>4. j + 1 > 0
      BY <1>5
    <3>5. TalkingAs(j + 1, connection_status', written', output_events')
      BY <1>8, <2>4, <2>5, <3>2, <3>3, <3>4, TalkingGoesOn
    <3> QED BY <2>3, <3>3, <3>5
  <2>6. CASE f.code = CLOSE
    <3>1. \E mask \in MaskKeys :
             Output("SERVER_WANTS_TO_CLOSE",
                    <<ControlFrame(FIN, CLOSE, be16(Status!ReplyStatus(bytes_to_u16(frame.data))),
                                   Reason(frame), mask)>>, events)
      BY <1>2, <1>4, <2>2, <2>4, <2>6, Zenon DEF handle_control_frame
    <3>2. PICK c : Output("SERVER_WANTS_TO_CLOSE", <<c>>, events) /\ c.header.code = CLOSE
      <4> DEFINE reply(mask) == ControlFrame(FIN, CLOSE, be16(Status!ReplyStatus(bytes_to_u16(frame.data))),
                                             Reason(frame), mask)
      <4>1. PICK mask \in MaskKeys : Output("SERVER_WANTS_TO_CLOSE", <<reply(mask)>>, events)
        BY <3>1
      <4>2. reply(mask).header.code = CLOSE
        BY DEF ControlFrame, Header
      <4> HIDE DEF reply
      <4> QED BY <4>1, <4>2
    <3>3. ~Closing("SERVER_WANTS_TO_CLOSE")
      <4> SUFFICES ASSUME Popped # <<>>, IsControlCode(Popped[1].header.code) PROVE FALSE
        BY Zenon DEF Closing
      <4>1. ~IsDataCode(Popped[1].header.code)
        BY DEF IsDataCode, IsControlCode, CONTINUATION, TEXT, BINARY, PING, PONG, CLOSE
      <4> QED BY <1>1, <1>5, <1>6, <2>6, <4>1
    <3>4. /\ connection_status' = "SERVER_WANTS_TO_CLOSE" /\ result' = "Ok" /\ pc' = pc
          /\ output_events' = <<c>>
      BY <3>2, <3>3 DEF Output
    <3>5. Len(output_events') = 1 /\ output_events'[1].header.code = CLOSE
      BY <3>2, <3>4
    <3>6. ServerCloses /\ j + 1 = Len(case.frames)
      BY <1>1, <2>6 DEF ServerCloses
    <3>7. EndingAs(j + 1, connection_status', written', output_events', events')
      BY <3>4, <3>5, <3>6, Zenon DEF EndingAs
    <3> QED BY <2>3, <3>4, <3>7
  <2> QED BY <2>1, <2>5, <2>6
<1> QED BY <1>9, <1>10

\* The answer to the Close is written, and reported.
LEMMA EndingWaits ==
    ASSUME Base, NEW j, EndingAs(j, connection_status, written, output_events, events),
           connection_status \in Active, Output(connection_status, Left, events)
    PROVE  EndingAs(j, connection_status', written', output_events', events')
<1>1. /\ connection_status = "SERVER_WANTS_TO_CLOSE" /\ ServerCloses /\ j = Len(case.frames)
      /\ Len(output_events) = 1 /\ output_events[1].header.code = CLOSE
  BY Zenon DEF EndingAs, Active
<1>2. /\ written \in Seq(OutEvents) /\ output_events \in Seq(OutEvents) /\ events \in Seq(Heards)
  BY DEF Base, WireTypes
<1> DEFINE c == output_events[1]
<1>3. output_events # <<>> /\ c \in OutEvents /\ Head(output_events) = c /\ 1 \in DOMAIN output_events
  <2>1. \A s \in Seq(OutEvents) : Len(s) = 1 =>
           s # <<>> /\ s[1] \in OutEvents /\ Head(s) = s[1] /\ 1 \in DOMAIN s
    OBVIOUS
  <2> QED BY <1>1, <1>2, <2>1, Zenon
<1>4. Popped = <<c>>
  BY <1>1, <1>3 DEF Popped
<1>5. is_websocket_data(c)
  <2>1. written # <<>>
    BY <1>1 DEF Base, Phases
  <2>2. RequestFirst(written \o output_events)
    BY <1>1, EarlyPhases
  <2>3. OnlyFrames(output_events)
    BY <1>2, <2>1, <2>2, FirstAndRest
  <2> QED BY <1>3, <2>3 DEF OnlyFrames
<1> HIDE DEF c
<1>6. c.header.code = CLOSE
  BY <1>1 DEF c
<1>7. Popped # <<>> /\ Popped[1] = c
  BY <1>4
<1> DEFINE e == Event("SERVER_CLOSE", SubSeq(c.data, 1, 2))
<1>8. connection_status' = "CLOSE" /\ events' = Append(events, e) /\ written' = written \o <<c>>
  <2>1. Closing("SERVER_WANTS_TO_CLOSE")
    BY <1>5, <1>6, <1>7 DEF Closing, IsControlCode
  <2>2. Output("SERVER_WANTS_TO_CLOSE", Left, events)
    BY <1>1
  <2> QED BY <1>4, <1>6, <1>7, <2>1, <2>2, Zenon DEF Output
<1> HIDE DEF e
<1>9. Last(events') = e
  <2>1. \A s \in Seq(Heards) : \A x : Last(Append(s, x)) = x
    BY DEF Last
  <2> QED BY <1>2, <1>8, <2>1, Zenon
<1>10. Last(written') = c
  <2>1. written \o <<c>> = Append(written, c)
    BY <1>2, <1>3, AppendIsConcat
  <2>2. \A s \in Seq(OutEvents) : \A x : Last(Append(s, x)) = x
    BY DEF Last
  <2> QED BY <1>2, <1>8, <2>1, <2>2, Zenon
<1> QED BY <1>1, <1>5, <1>6, <1>8, <1>9, <1>10, Zenon DEF EndingAs, e

\* A turn of event_loop, when the connection is open.
LEMMA CourseGoesOn ==
    ASSUME Base, Ruled, Course, event_loop, connection_status # "HANDSHAKE"
    PROVE  Course'
<1>1. /\ connection_status \in Active /\ connection_status \notin Early
      /\ result = "Ok" /\ pc = "sent" /\ recv_data = <<>>
      /\ UNCHANGED <<frames, case, srv_in>> /\ ~HasBody /\ Ordinary
  <2>1. connection_status \in Active /\ pc = "sent" /\ UNCHANGED <<frames, case, srv_in>>
    BY LoopCases DEF Base
  <2>2. connection_status \notin Early
    BY <2>1 DEF Active, Early
  <2>3. result = "Ok" /\ recv_data = <<>>
    BY CourseIs, Zenon
  <2> QED BY <2>1, <2>2, <2>3, RuledOpens DEF Ruled
<1>2. PICK j \in 0 .. Len(case.frames) :
         /\ At(j, srv_in, recv_storage \o to_client, HeardIn(events), recv_data, result)
         /\ \/ TalkingAs(j, connection_status, written, output_events)
            \/ EndingAs(j, connection_status, written, output_events, events)
  BY <1>1, CourseIs, Zenon
<1>3. PICK n \in 0 .. Len(to_client) :
              /\ to_client' = SubSeq(to_client, n + 1, Len(to_client))
              /\ \/ /\ Found(Arrived(n)).kind = "none"
                    /\ recv_storage' = Arrived(n) /\ UNCHANGED <<recv_data, protocol>>
                    /\ Output(connection_status, Left, events)
                 \/ Found(Arrived(n)).kind \in {"panic", "InvalidFrame"} /\ Unread(Arrived(n))
                 \/ Opens(Arrived(n))
                 \/ Takes(Arrived(n))
  BY LoopKinds DEF Base
<1>4. /\ Found(Arrived(n)).kind \notin {"panic", "InvalidFrame"}
      /\ j = Len(case.frames) => Arrived(n) = <<>>
  <2>1. /\ Found(Arrived(n)).kind \in {"none", "frame"}
        /\ j = Len(case.frames) => Arrived(n) = <<>>
    BY <1>1, <1>2, OrdinaryKinds
  <2> QED BY <2>1
<1>5. ~Opens(Arrived(n))
  BY DEF Opens
<1>6. CASE /\ recv_storage' = Arrived(n) /\ UNCHANGED <<recv_data, protocol>>
           /\ Output(connection_status, Left, events)
  <2>1. result' = "Ok" /\ pc' = pc /\ written' = written \o Popped /\ output_events' = Left
    BY <1>6 DEF Output
  <2>2. recv_storage' \o to_client' = recv_storage \o to_client
    BY <1>3, <1>6, ReadPieces DEF Base, WireTypes
  <2>3. HeardIn(events') = HeardIn(events)
    <3>1. events \in Seq(Heards) /\ events' \in Seq(Heards)
      BY BaseLoop DEF Base, WireTypes
    <3>2. Unread(Arrived(n))
      BY <1>6, Zenon DEF Unread
    <3>3. Waited(Arrived(n))
      BY <1>1, <3>2, NothingTaken DEF Base
    <3>4. events' = events \/ \E b \in Seq(Byte) : events' = Append(events, Event("SERVER_CLOSE", b))
      BY <3>3 DEF Waited, Stays, Closed
    <3> QED BY <3>1, <3>4, HeardNothing
  <2>4. At(j, srv_in', recv_storage' \o to_client', HeardIn(events'), recv_data', result')
    BY <1>1, <1>2, <1>6, <2>2, <2>3, StaysAt
  <2>5. CASE TalkingAs(j, connection_status, written, output_events)
    <3>1. connection_status = "OPEN" /\ \A i \in 1 .. j : case.frames[i].code # CLOSE
      BY <2>5, Zenon DEF TalkingAs
    <3>2. connection_status' = "OPEN"
      BY <1>6, <3>1 DEF Output, Closing
    <3>3. TalkingAs(j, connection_status', written', output_events')
      BY <2>1, <2>5, <3>1, <3>2, TalkingGoesOn
    <3> QED BY <1>1, <1>6, <2>1, <2>4, <3>3, CourseNext, Zenon
  <2>6. CASE EndingAs(j, connection_status, written, output_events, events)
    <3>1. EndingAs(j, connection_status', written', output_events', events')
      BY <1>1, <1>6, <2>6, EndingWaits
    <3> QED BY <1>1, <1>6, <2>1, <2>4, <3>1, CourseNext, Zenon
  <2> QED BY <1>2, <2>5, <2>6
<1>7. CASE Takes(Arrived(n))
  <2>1. /\ NextOfCase(j, Arrived(n))
    BY <1>1, <1>2, <1>7, TakesOfCase
  <2>2. /\ j + 1 \in DOMAIN case.frames
        /\ FindsFrame(bytes_to_frame(Arrived(n)), case.frames[j + 1])
    BY <2>1, Zenon DEF NextOfCase
  <2>3. TalkingAs(j, connection_status, written, output_events)
    <3> SUFFICES ASSUME EndingAs(j, connection_status, written, output_events, events) PROVE FALSE
      BY <1>2
    <3>1. j = Len(case.frames)
      BY Zenon DEF EndingAs
    <3> QED BY <1>4, <1>7, <3>1 DEF Takes
  <2>4. /\ result' = "Ok" /\ recv_data' = <<>> /\ pc' = pc
        /\ \/ TalkingAs(j + 1, connection_status', written', output_events')
           \/ EndingAs(j + 1, connection_status', written', output_events', events')
    BY <1>1, <1>7, <2>2, <2>3, TalkingTakes
  <2>5. /\ recv_storage' = SubSeq(Arrived(n), bytes_to_frame(Arrived(n)).offset + 1, Len(Arrived(n)))
        /\ Handled(bytes_to_frame(Arrived(n)))
    <3>1. Arrived(n) \in Seq(Byte)
      BY ReadPieces DEF Base, WireTypes
    <3>2. connection_status \in Active \ {"HANDSHAKE"}
      BY <1>1
    <3> QED BY <1>1, <1>7, <3>1, <3>2, FrameTaken DEF Base, Handled
  <2>6. /\ j + 1 \in 0 .. Len(case.frames)
        /\ At(j + 1, srv_in', recv_storage' \o to_client', HeardIn(events'), recv_data', result')
    BY <1>1, <1>2, <1>3, <1>7, <2>5, TakesOneMore
  <2> QED BY <1>1, <2>4, <2>6, CourseNext, Zenon
<1> QED BY <1>3, <1>4, <1>5, <1>6, <1>7

\* Every step keeps Course.
LEMMA CourseStep == Base /\ Course /\ [Next]_vars => Course'
<1> SUFFICES ASSUME Base, Course, [Next]_vars PROVE Course'
  OBVIOUS
<1>1. (case' = case /\ frames' = frames) \/ send
  BY DEF Next, start_init, event_loop, ServerReadsRequest, ServerReadsFrame, vars, sendVars
<1>2. CASE send
  <2>1. pc = "send" /\ UNCHANGED <<connection_status, case, result, recv_data>>
    BY <1>2 DEF send, SendNext, push, slice_panics, send_returns
  <2>2. connection_status = "START_INIT"
    BY <2>1 DEF Base, Phases
  <2>3. Ruled' <=> Ruled
    BY <2>1 DEF Ruled, Ordinary, CaseIsTrue, HasBody, CodeIsChecked, header, verify_key
  <2>4. Ruled => result = "Ok" /\ recv_data = <<>>
    BY CourseIs, Zenon
  <2> QED BY <2>1, <2>2, <2>3, <2>4, Zenon DEF Course, Ruled, IsOpen
<1> SUFFICES ASSUME Ruled, ~send PROVE Course'
  BY <1>1, <1>2, CourseNext, Zenon
<1>3. CASE start_init
  <2>1. case.protocols # <<<<>>>>
    BY RuledOpens
  <2>2. /\ connection_status' = "HANDSHAKE" /\ UNCHANGED <<pc, result, recv_data>> /\ pc = "sent"
    BY <1>3, <2>1 DEF start_init
  <2>3. result = "Ok" /\ recv_data = <<>>
    BY CourseIs, Zenon
  <2> QED BY <1>1, <2>2, <2>3, CourseNext DEF Early
<1>4. CASE event_loop
  BY <1>4, CourseOpens, CourseGoesOn
<1>5. CASE ServerReadsRequest
  <2>1. UNCHANGED <<connection_status, pc, result, recv_data>> /\ offered = <<>>
    BY <1>5 DEF ServerReadsRequest, sendVars
  <2>2. connection_status \in Early
    BY <2>1 DEF Base, Phases, Early
  <2>3. /\ result = "Ok" /\ recv_data = <<>>
        /\ pc = "panicked" => connection_status = "START_INIT"
    BY CourseIs, Zenon
  <2> QED BY <1>1, <2>1, <2>2, <2>3, CourseNext, Zenon
<1>6. CASE ServerReadsFrame
  <2>1. UNCHANGED <<connection_status, pc, result, recv_data, written, output_events, events>>
    BY <1>6 DEF ServerReadsFrame, sendVars
  <2>2. ASSUME NEW j \in 0 .. Len(case.frames),
               At(j, srv_in, recv_storage \o to_client, HeardIn(events), recv_data, result)
        PROVE  At(j, srv_in', recv_storage' \o to_client', HeardIn(events'), recv_data', result')
    BY <1>6, <2>2, SpeaksInStep
  <2>3. /\ result' = "Ok" /\ recv_data' = <<>>
        /\ pc' = "panicked" => connection_status' = "START_INIT"
        /\ connection_status' \notin Early =>
                  \E j \in 0 .. Len(case.frames) :
                      /\ At(j, srv_in, recv_storage \o to_client, HeardIn(events), recv_data, result)
                      /\ \/ TalkingAs(j, connection_status', written', output_events')
                         \/ EndingAs(j, connection_status', written', output_events', events')
    BY <2>1, CourseIs, Zenon
  <2> QED BY <1>1, <2>2, <2>3, CourseNext, Zenon
<1>7. CASE UNCHANGED vars
  <2>1. UNCHANGED <<connection_status, pc, result, recv_data, written, output_events, events, srv_in,
                    recv_storage, to_client, case, frames>>
    BY <1>7 DEF vars, sendVars
  <2> QED BY <2>1, CourseIs, CourseNext, Zenon
<1> QED BY <1>3, <1>4, <1>5, <1>6, <1>7 DEF Next

\* The bytes in flight, the order of the text, the answers to control frames, what
\* was heard, and the course of an ordinary conversation are right at once, in
\* every state: WireInv is an invariant.
THEOREM WireAlways == Spec => []WireInv
<1>1. Init => TextInOrder /\ Course
  <2>1. Init => TextInOrder
    <3>1. Init => connection_status = "START_INIT"
      BY DEF Init
    <3> QED BY <3>1, BaseStarts, OrderEmpty
  <2>2. Init => Course
    <3>1. Init => /\ connection_status = "START_INIT" /\ result = "Ok" /\ recv_data = <<>>
      BY DEF Init
    <3> QED BY <3>1, Zenon DEF Course, IsOpen
  <2> QED BY <2>1, <2>2
<1>2. Base /\ TextInOrder /\ [Next]_vars => TextInOrder'
  BY OrderStep
<1>3. Base /\ Course /\ [Next]_vars => Course'
  BY CourseStep
<1>4. Base /\ InStep /\ ControlsAnswer /\ TextInOrder /\ Course => WireInv
  BY DEF WireInv, Base
<1> QED BY <1>1, <1>2, <1>3, <1>4, AllControlsAnswer, PTL DEF Spec

\* Ordinary traffic neither panics nor is refused, however it is cut into reads
\* (frame.rs 148-153, 187).
THEOREM OrdinaryTraffic == Spec => [](CaseIsTrue => OrdinaryIsUnderstood)
<1>1. WireInv => (CaseIsTrue => OrdinaryIsUnderstood)
  BY Zenon DEF WireInv, Course, OrdinaryIsUnderstood
<1> QED BY <1>1, WireAlways, PTL

-----------------------------------------------------------------------------
(* At rest *)

\* A frame of the client is on the wire.
LEMMA SomethingSent ==
    ASSUME NEW s \in Seq(OutEvents), Sent(s) = <<>>
    PROVE  s = <<>>
<1> SUFFICES ASSUME s # <<>> PROVE FALSE
  OBVIOUS
<1> DEFINE e == s[1]
           v == <<e>>
           z == SubSeq(s, 2, Len(s))
<1>1. e \in OutEvents /\ v \in Seq(OutEvents) /\ z \in Seq(OutEvents) /\ s = v \o z
  <2>1. 0 \in Nat /\ 0 < Len(s) /\ 0 + 1 = 1 /\ 0 + 2 = 2 /\ SubSeq(s, 1, Len(s)) = s
    <3>1. Len(s) \in Nat /\ Len(s) # 0
      BY EmptySeq
    <3> QED BY <3>1
  <2>2. /\ SubSeq(s, 0 + 1, Len(s)) = <<s[0 + 1]>> \o SubSeq(s, 0 + 2, Len(s))
        /\ s[0 + 1] \in OutEvents /\ SubSeq(s, 0 + 2, Len(s)) \in Seq(OutEvents)
        /\ <<s[0 + 1]>> \in Seq(OutEvents)
    BY <2>1, NextOf, Zenon
  <2> QED BY <2>1, <2>2, Zenon
<1>2. Sent(v) = BytesOf(e)
  BY <1>1, SentOne
<1> HIDE DEF v, z
<1>3. Sent(v \o z) = Sent(v) \o Sent(z) /\ Sent(v) \in Seq(Byte) /\ Sent(z) \in Seq(Byte)
  BY <1>1, SentMore
<1>4. Len(BytesOf(e)) >= 2 /\ BytesOf(e) \in Seq(Byte)
  <2>1. CASE is_websocket_data(e)
    <3>1. e \in ClientFrames /\ BytesOf(e) = serialize(e)
      BY <1>1, <2>1, OutEventKind
    <3> QED BY <3>1, FrameWritten
  <2>2. CASE ~is_websocket_data(e)
    <3>1. e \in [request : Requests] /\ BytesOf(e) = e.request
      BY <1>1, <2>2, OutEventKind
    <3>2. e.request \in Seq(Byte) /\ Finds(e.request, HeadEnd) # {} /\ Min(Finds(e.request, HeadEnd)) + 3 = Len(e.request)
      BY <3>1 DEF Requests
    <3>3. Min(Finds(e.request, HeadEnd)) \in Nat \ {0}
      <4>1. Len(HeadEnd) \in Nat
        BY DEF HeadEnd, END_LINE
      <4> QED BY <3>2, <4>1, FirstFound
    <3> QED BY <3>1, <3>2, <3>3
  <2> QED BY <2>1, <2>2
<1>5. Len(Sent(v) \o Sent(z)) = Len(Sent(v)) + Len(Sent(z))
  BY <1>3, OneAfterAnother, Zenon
<1>6. Len(Sent(v)) >= 2 /\ Len(Sent(v)) \in Nat /\ Len(Sent(z)) \in Nat /\ Len(<<>>) = 0
  BY <1>2, <1>3, <1>4
<1>7. Sent(v) \o Sent(z) = <<>>
  BY <1>1, <1>3, Zenon
<1> QED BY <1>5, <1>6, <1>7

\* The frames of the text among events are events.
LEMMA TextFrameIsEvent ==
    ASSUME NEW s \in Seq(OutEvents), NEW k \in DOMAIN TextFrames(s)
    PROVE  \E i \in DOMAIN s : s[i] = TextFrames(s)[k]
<1> DEFINE In(u) == \A m \in DOMAIN TextFrames(u) : \E i \in DOMAIN u : u[i] = TextFrames(u)[m]
           P     == {u \in Seq(OutEvents) : In(u)}
<1>1. <<>> \in P
  <2>1. TextFrames(<<>>) = <<>>
    BY NoTextFrames
  <2>2. DOMAIN TextFrames(<<>>) = {}
    BY <2>1
  <2>3. <<>> \in Seq(OutEvents)
    OBVIOUS
  <2> QED BY <2>2, <2>3, Zenon
<1>2. ASSUME NEW u \in Seq(OutEvents), NEW x \in OutEvents, u \in P
      PROVE  Append(u, x) \in P
  <2> DEFINE v == <<x>>
  <2>1. v \in Seq(OutEvents) /\ Append(u, x) = u \o v /\ Append(u, x) \in Seq(OutEvents)
        /\ Len(v) = 1 /\ v[1] = x
    BY AppendIsConcat
  <2>2. TextFrames(v) \in {<<>>, v}
    BY FramesOne DEF TextFrame
  <2> HIDE DEF v
  <2>3. TextFrames(u \o v) = TextFrames(u) \o TextFrames(v) /\ TextFrames(u) \in Seq(ClientFrames)
        /\ TextFrames(v) \in Seq(ClientFrames)
    BY <2>1, FramesMore
  <2>4. HasBoth(u \o v, u, v)
    BY <2>1, ElementsOfBoth
  <2>5. HasBoth(TextFrames(u) \o TextFrames(v), TextFrames(u), TextFrames(v))
    BY <2>3, ElementsOfBoth
  <2>6. In(u)
    BY <1>2
  <2>7. In(u \o v)
    <3> SUFFICES ASSUME NEW m \in DOMAIN (TextFrames(u) \o TextFrames(v))
                 PROVE  \E i \in DOMAIN (u \o v) : (u \o v)[i] = (TextFrames(u) \o TextFrames(v))[m]
      BY <2>3, Zenon
    <3> DEFINE y == (TextFrames(u) \o TextFrames(v))[m]
    <3>1. \/ \E q \in DOMAIN TextFrames(u) : y = TextFrames(u)[q]
          \/ \E q \in DOMAIN TextFrames(v) : y = TextFrames(v)[q]
      BY <2>5, Zenon DEF HasBoth
    <3> HIDE DEF y
    <3>2. (\E i \in DOMAIN u : u[i] = y) \/ (\E i \in DOMAIN v : v[i] = y)
      <4>1. (\E q \in DOMAIN TextFrames(v) : y = TextFrames(v)[q]) => \E i \in DOMAIN v : v[i] = y
        <5>1. DOMAIN <<>> = {}
          OBVIOUS
        <5> QED BY <2>2, <5>1, Zenon
      <4>2. (\E q \in DOMAIN TextFrames(u) : y = TextFrames(u)[q]) => \E i \in DOMAIN u : u[i] = y
        BY <2>6, Zenon
      <4> QED BY <3>1, <4>1, <4>2
    <3>3. \E i \in DOMAIN (u \o v) : (u \o v)[i] = y
      BY <2>4, <3>2, Zenon DEF HasBoth
    <3> QED BY <3>3 DEF y
  <2> QED BY <2>1, <2>7, Zenon
<1> HIDE DEF P
<1>3. Seq(OutEvents) \subseteq P
  BY <1>1, <1>2, SeqInduction, Zenon
<1>4. s \in P
  BY <1>3
<1> QED BY <1>4, Zenon DEF P

\* The text has frames, of which the last is final.
LEMMA LastFrame ==
    ASSUME Base, connection_status # "START_INIT", payload # <<>>
    PROVE  /\ Len(frames) \in DOMAIN frames /\ frames # <<>>
           /\ frames[Len(frames)].header.flag = FIN
<1>1. /\ size \in Nat /\ Len(payload) \in Nat /\ payload \in Seq(Byte) /\ Len(frames) \in Nat
      /\ frames \in Seq(ClientFrames)
      /\ \A k \in 1 .. Len(frames) :
            frames[k].header.flag = IF k * size >= Len(payload) THEN FIN ELSE NOFLAG
  BY FramesOfText, Zenon
<1>2. Len(payload) # 0
  BY <1>1, EmptySeq
<1>3. Len(frames) * size >= Len(payload)
  BY DEF Base, Phases, size
<1> HIDE DEF size
<1>4. Len(frames) # 0
  <2>1. \A k \in Nat : 0 * k = 0
    BY SMT
  <2>2. \A k \in Nat : 0 >= k => k = 0
    BY SMT
  <2> SUFFICES ASSUME Len(frames) = 0 PROVE FALSE
    OBVIOUS
  <2>3. 0 >= Len(payload)
    BY <1>1, <1>3, <2>1, Zenon
  <2> QED BY <1>1, <1>2, <2>2, <2>3, Zenon
<1>5. Len(frames) \in 1 .. Len(frames) /\ DOMAIN frames = 1 .. Len(frames) /\ frames # <<>>
  BY <1>1, <1>4
<1> QED BY <1>1, <1>3, <1>5, Zenon

\* When nothing is in flight, all that was written was read.
LEMMA AllTaken ==
    ASSUME Base, to_server = <<>>
    PROVE  Taken = Len(written)
<1>1. /\ Taken <= Len(written) /\ to_server = Sent(SubSeq(written, Taken + 1, Len(written)))
      /\ written \in Seq(OutEvents) /\ Taken \in Nat
  BY EarlyPhases DEF Base, InTransit, WireTypes
<1> HIDE DEF Taken
<1>2. Len(written) \in Nat
  BY <1>1
<1>3. SubSeq(written, Taken + 1, Len(written)) = <<>>
  <2>1. SubSeq(written, Taken + 1, Len(written)) \in Seq(OutEvents)
    BY <1>1
  <2> QED BY <1>1, <2>1, SomethingSent
<1> SUFFICES ASSUME Taken # Len(written) PROVE FALSE
  OBVIOUS
<1>4. Taken < Len(written)
  BY <1>1, <1>2
<1>5. \A s \in Seq(OutEvents) : \A k \in Nat : k < Len(s) => Len(SubSeq(s, k + 1, Len(s))) # 0
  OBVIOUS
<1>6. Len(SubSeq(written, Taken + 1, Len(written))) # 0
  BY <1>1, <1>4, <1>5, Zenon
<1>7. Len(<<>>) = 0
  OBVIOUS
<1> QED BY <1>3, <1>6, <1>7, Zenon

\* How an ordinary conversation rests.
LEMMA RestsAt ==
    ASSUME Base, Ruled, Course, Quiet, payload # <<>>
    PROVE  LET j == Len(case.frames)
           IN  /\ At(j, srv_in, recv_storage \o to_client, HeardIn(events), recv_data, result)
               /\ \/ TalkingAs(j, connection_status, written, output_events) /\ output_events = <<>>
                  \/ /\ EndingAs(j, connection_status, written, output_events, events)
                     /\ connection_status = "CLOSE"
               /\ result = "Ok" /\ srv_in # <<>> /\ Len(written) = 1 + Len(srv_in)
               /\ written \in Seq(OutEvents) /\ srv_in \in Seq(Readings)
               /\ \A i \in DOMAIN srv_in : srv_in[i] = Reading(written[i + 1])
<1>1. /\ pc = "sent" /\ connection_status # "START_INIT" /\ to_server = <<>> /\ to_client = <<>>
      /\ connection_status = "CLOSE" \/
            (output_events = <<>> /\ Found(recv_storage).kind = "none")
  BY Zenon DEF Quiet
<1>2. /\ written \in Seq(OutEvents) /\ srv_in \in Seq(Readings) /\ frames # <<>> /\ Ordinary
      /\ recv_storage \in Seq(Byte) /\ case.frames \in Seq(ServerFrames)
      /\ connection_status \in Active \cup {"START_INIT", "CLOSE"}
  BY <1>1, LastFrame, CaseFrames DEF Base, WireTypes, Ruled
<1>3. Len(written) = Len(offered) + Len(srv_in)
  BY <1>1, AllTaken, EarlyPhases
<1>4. connection_status \notin Early
  <2> SUFFICES ASSUME connection_status = "HANDSHAKE" PROVE FALSE
    BY <1>1 DEF Early
  <2>1. output_events = <<>>
    BY <1>1
  <2> QED BY <1>2, <2>1 DEF Base, Phases
<1>5. PICK j \in 0 .. Len(case.frames) :
         /\ At(j, srv_in, recv_storage \o to_client, HeardIn(events), recv_data, result)
         /\ \/ TalkingAs(j, connection_status, written, output_events)
            \/ EndingAs(j, connection_status, written, output_events, events)
  BY <1>4, CourseIs, Zenon
<1>6. result = "Ok"
  BY CourseIs, Zenon
<1>7. written # <<>> /\ Len(offered) \in {0, 1} /\ Len(srv_in) \in Nat /\ (offered = <<>> => srv_in = <<>>)
      /\ Len(written) \in Nat /\ Len(written) # 0
  <2>1. written # <<>>
    BY <1>4 DEF Base, Phases, Early
  <2>2. Len(written) \in Nat /\ Len(written) # 0
    BY <1>2, <2>1, EmptySeq
  <2> QED BY <2>1, <2>2, EarlyPhases
<1>8. srv_in # <<>>
  <2> SUFFICES ASSUME srv_in = <<>> PROVE FALSE
    OBVIOUS
  <2>1. j = 0 /\ Len(srv_in) = 0
    BY <1>5, Zenon DEF At
  <2>2. Len(written) = 1
    BY <1>3, <1>7, <2>1
  <2>3. CASE TalkingAs(j, connection_status, written, output_events)
    <3>1. connection_status = "OPEN" /\ TextFrames(written) \o TextFrames(output_events) = frames
      BY <2>3, Zenon DEF TalkingAs
    <3>2. output_events = <<>>
      BY <1>1, <3>1
    <3>3. TextFrames(written) = <<>>
      BY <1>1, <2>2, OnlyRequest
    <3>4. TextFrames(output_events) = <<>>
      BY <3>2, NoTextFrames
    <3>5. frames = <<>>
      <4>1. <<>> \o <<>> = <<>>
        OBVIOUS
      <4> QED BY <3>1, <3>3, <3>4, <4>1, Zenon
    <3> QED BY <1>2, <3>5
  <2>4. CASE EndingAs(j, connection_status, written, output_events, events)
    <3>1. ServerCloses /\ Len(case.frames) = 0
      BY <2>1, <2>4, Zenon DEF EndingAs
    <3>2. DOMAIN case.frames = {}
      BY <1>2, <3>1
    <3> QED BY <3>1, <3>2, Zenon DEF ServerCloses
  <2> QED BY <1>5, <2>3, <2>4
<1>9. Len(written) = 1 + Len(srv_in) /\ Len(offered) = 1
  <2>1. offered # <<>>
    BY <1>7, <1>8
  <2>2. Len(offered) = 1
    BY <2>1 DEF Base, WireTypes
  <2> QED BY <1>3, <2>2
<1>10. j = Len(case.frames) /\
          \/ TalkingAs(j, connection_status, written, output_events) /\ output_events = <<>>
          \/ EndingAs(j, connection_status, written, output_events, events) /\ connection_status = "CLOSE"
  <2>1. CASE TalkingAs(j, connection_status, written, output_events)
    <3>1. connection_status = "OPEN"
      BY <2>1, Zenon DEF TalkingAs
    <3>2. output_events = <<>> /\ Found(recv_storage).kind = "none"
      BY <1>1, <3>1
    <3>3. Arrived(0) = recv_storage /\ 0 = Len(to_client) /\ 0 \in 0 .. Len(to_client)
      BY <1>1, <1>2 DEF Arrived
    <3>4. connection_status \in Active
      BY <3>1 DEF Active
    <3>5. srv_in # <<>> /\ 0 = Len(to_client) /\ Found(Arrived(0)).kind = "none" => j = Len(case.frames)
      BY <1>2, <1>4, <1>5, <1>6, <3>3, <3>4, OrdinaryKinds
    <3> QED BY <1>8, <2>1, <3>2, <3>3, <3>5
  <2>2. CASE EndingAs(j, connection_status, written, output_events, events)
    <3>1. connection_status = "CLOSE"
      <4>1. Len(output_events) = 1 => output_events # <<>>
        <5>1. Len(<<>>) = 0 /\ 0 # 1
          OBVIOUS
        <5> QED BY <5>1, Zenon
      <4> QED BY <1>1, <2>2, <4>1, Zenon DEF EndingAs
    <3>2. j = Len(case.frames)
      BY <2>2, Zenon DEF EndingAs
    <3> QED BY <2>2, <3>1, <3>2
  <2> QED BY <1>5, <2>1, <2>2
<1>11. \A i \in DOMAIN srv_in : srv_in[i] = Reading(written[i + 1])
  BY DEF Base, InTransit
<1> QED BY <1>2, <1>5, <1>6, <1>8, <1>9, <1>10, <1>11

\* Where the last frame of the text is read.
LEMMA TextIsRead ==
    ASSUME Base, connection_status # "START_INIT", payload # <<>>, TextFrames(written) = frames,
           Len(written) = 1 + Len(srv_in),
           \A i \in DOMAIN srv_in : srv_in[i] = Reading(written[i + 1])
    PROVE  \E i \in DOMAIN srv_in : srv_in[i].flag = FIN /\ IsDataCode(srv_in[i].code)
<1>1. /\ written \in Seq(OutEvents) /\ output_events \in Seq(OutEvents) /\ srv_in \in Seq(Readings)
      /\ Len(frames) \in DOMAIN frames /\ frames[Len(frames)].header.flag = FIN
      /\ \A i \in DOMAIN frames : is_websocket_data(frames[i]) /\ IsDataCode(frames[i].header.code)
      /\ frames \in Seq(ClientFrames)
  BY LastFrame, FramesOfSend DEF Base, WireTypes
<1> DEFINE last == frames[Len(frames)]
<1>2. PICK i \in DOMAIN written : written[i] = last
  BY <1>1, TextFrameIsEvent, Zenon
<1>3. is_websocket_data(last) /\ IsDataCode(last.header.code) /\ last.header.flag = FIN
      /\ last \in ClientFrames
  BY <1>1
<1> HIDE DEF last
<1>4. i > 1
  <2>1. RequestFirst(written \o output_events)
    BY EarlyPhases
  <2>2. i \in DOMAIN (written \o output_events) /\ (written \o output_events)[i] = written[i]
    BY <1>1, <1>2
  <2> QED BY <1>2, <1>3, <2>1, <2>2, Zenon DEF RequestFirst
<1>5. i - 1 \in DOMAIN srv_in /\ (i - 1) + 1 = i
  BY <1>1, <1>2, <1>4
<1>6. srv_in[i - 1] = Reading(last)
  BY <1>2, <1>5, Zenon
<1>7. Reading(last).flag = FIN /\ IsDataCode(Reading(last).code)
  BY <1>3 DEF Reading
<1> QED BY <1>5, <1>6, <1>7, Zenon

\* An ordinary conversation rests at its end and nowhere else (client.rs 209-226,
\* 489).
THEOREM RestsAtItsEnd == Spec => [](CaseIsTrue => NothingIsLeft)
<1>1. Base /\ Course => (CaseIsTrue => NothingIsLeft)
  <2> SUFFICES ASSUME Base, Course, Ruled, Quiet, payload # <<>>
               PROVE  /\ WholeTexts => Len(Heard) = Len(TextsSent)
                      /\ IF ServerCloses
                         THEN /\ Last(srv_in).code = CLOSE
                              /\ Last(events) = Event("SERVER_CLOSE", SubSeq(Last(srv_in).data, 1, 2))
                         ELSE \E i \in DOMAIN srv_in : srv_in[i].flag = FIN /\ IsDataCode(srv_in[i].code)
    BY Zenon DEF NothingIsLeft, Ruled
  <2> DEFINE j == Len(case.frames)
  <2>1. /\ At(j, srv_in, recv_storage \o to_client, HeardIn(events), recv_data, result)
        /\ \/ TalkingAs(j, connection_status, written, output_events) /\ output_events = <<>>
           \/ /\ EndingAs(j, connection_status, written, output_events, events)
              /\ connection_status = "CLOSE"
        /\ result = "Ok" /\ srv_in # <<>> /\ Len(written) = 1 + Len(srv_in)
        /\ written \in Seq(OutEvents) /\ srv_in \in Seq(Readings)
        /\ \A i \in DOMAIN srv_in : srv_in[i] = Reading(written[i + 1])
    BY RestsAt
  <2>2. case.frames \in Seq(ServerFrames) /\ j \in Nat /\ FramesBefore(j) = case.frames
    <3>1. case.frames \in Seq(ServerFrames)
      BY CaseFrames DEF Base, WireTypes
    <3> QED BY <3>1 DEF FramesBefore
  <2>3. WholeTexts => Len(Heard) = Len(TextsSent)
    <3> HAVE WholeTexts
    <3>1. Heard = PayloadsOf(TextsSent)
      BY <2>1, <2>2, Zenon DEF At, Heard, HeardIn, TextsSent
    <3>2. TextsSent \in Seq(ServerFrames)
      BY <2>2, DataMore DEF TextsSent
    <3>3. Len(PayloadsOf(TextsSent)) = Len(TextsSent)
      BY <3>2 DEF PayloadsOf
    <3> QED BY <3>1, <3>3
  <2> HIDE DEF j
  <2>4. CASE TalkingAs(j, connection_status, written, output_events) /\ output_events = <<>>
    <3>1. /\ connection_status = "OPEN" /\ \A i \in 1 .. j : case.frames[i].code # CLOSE
          /\ TextFrames(written) \o TextFrames(output_events) = frames
      BY <2>4, Zenon DEF TalkingAs
    <3>2. ~ServerCloses
      <4>1. DOMAIN case.frames = 1 .. j
        BY <2>2 DEF j
      <4> QED BY <3>1, <4>1, Zenon DEF ServerCloses
    <3>3. TextFrames(written) = frames
      <4>1. TextFrames(written) \in Seq(ClientFrames)
        BY <2>1, FramesMore
      <4>2. TextFrames(written) \o <<>> = TextFrames(written)
        BY <4>1, ConcatEmptySeq
      <4> QED BY <2>4, <3>1, <4>2, NoTextFrames
    <3>4. \E i \in DOMAIN srv_in : srv_in[i].flag = FIN /\ IsDataCode(srv_in[i].code)
      BY <2>1, <3>1, <3>3, TextIsRead
    <3> QED BY <2>3, <3>2, <3>4
  <2>5. CASE /\ EndingAs(j, connection_status, written, output_events, events)
             /\ connection_status = "CLOSE"
    <3>1. /\ ServerCloses /\ is_websocket_data(Last(written)) /\ Last(written).header.code = CLOSE
          /\ Last(events) = Event("SERVER_CLOSE", SubSeq(Last(written).data, 1, 2))
      BY <2>5, Zenon DEF EndingAs
    <3>2. Last(srv_in) = Reading(Last(written))
      <4>1. Len(srv_in) \in DOMAIN srv_in /\ Len(srv_in) + 1 = Len(written)
        <5>1. Len(srv_in) \in Nat /\ Len(srv_in) # 0
          BY <2>1, EmptySeq
        <5> QED BY <2>1, <5>1
      <4>2. Last(srv_in) = srv_in[Len(srv_in)] /\ Last(written) = written[Len(written)]
        BY DEF Last
      <4> QED BY <2>1, <4>1, <4>2, Zenon
    <3>3. Reading(Last(written)).code = Last(written).header.code /\ Reading(Last(written)).data = Last(written).data
      BY DEF Reading
    <3> QED BY <2>3, <3>1, <3>2, <3>3
  <2> QED BY <2>1, <2>3, <2>4, <2>5 DEF j
<1>2. WireInv => Course
  BY DEF WireInv
<1> QED BY <1>1, <1>2, WireAlways, BaseAlways, PTL

-----------------------------------------------------------------------------
(* The request, read again *)

\* The lines of a request are read as they were written.
LEMMA LinesAgain ==
    ASSUME NEW lines \in Seq(Words), lines # <<>>,
           NEW r \in Requests, r = Ended(lines, 13, 10) \o END_LINE
    PROVE  Split(SubSeq(r, 1, Min(Finds(r, HeadEnd)) - 1), END_LINE) = lines
<1> DEFINE x == Ended(lines, 13, 10)
           end == Min(Finds(r, HeadEnd))
<1>1. /\ x \in Seq(Byte) /\ Len(x) >= 2
      /\ Split(SubSeq(x, 1, Len(x) - 2), END_LINE) = lines
  <2> DEFINE a == 13
             b == 10
  <2>1. a \in Byte /\ b \in Byte /\ a # b
    BY DEF Byte
  <2>2. lines \in Seq(Free(a)) /\ lines # <<>>
    BY DEF Free, Words
  <2>3. END_LINE = <<a, b>> /\ x = Ended(lines, a, b)
    BY DEF END_LINE
  <2> HIDE DEF a, b, x
  <2>4. LET v == Ended(lines, a, b)
        IN  /\ v \in Seq(Byte) /\ Len(v) >= 2
            /\ Split(SubSeq(v, 1, Len(v) - 2), <<a, b>>) = lines
    BY ONLY <2>1, <2>2, SplitsAgain, ZenonT(60)
  <2> QED BY <2>3, <2>4, Zenon
<1>2. /\ r = x \o END_LINE /\ r \in Seq(Byte) /\ end + 3 = Len(r)
      /\ Finds(r, HeadEnd) # {}
  BY DEF Requests
<1>3. END_LINE \in Seq(Byte) /\ Len(END_LINE) = 2
  BY DEF END_LINE, Byte
<1> HIDE DEF x
<1>4. Len(r) = Len(x) + 2 /\ \A i \in 1 .. Len(x) : r[i] = x[i]
  <2>1. /\ Len(x \o END_LINE) = Len(x) + Len(END_LINE)
        /\ \A i \in 1 .. Len(x) : (x \o END_LINE)[i] = x[i]
    BY <1>1, <1>3, OneAfterAnother, Zenon
  <2> QED BY <1>2, <1>3, <2>1, Zenon
<1>5. end \in Nat
  <2>1. Len(HeadEnd) \in Nat
    BY DEF HeadEnd, END_LINE
  <2> QED BY <1>2, <2>1, FirstFound
<1> HIDE DEF end
<1> DEFINE hi == Len(x) - 2
           from == 1
<1>6. hi \in Nat /\ end - 1 = hi /\ hi <= Len(x) /\ hi <= Len(r) /\ \A i \in from .. hi : i \in 1 .. Len(x)
  <2>1. Len(x) \in Nat
    BY <1>1
  <2> QED BY <1>1, <1>2, <1>4, <1>5, <2>1
<1>7. from \in Nat \ {0} /\ x \in Seq(Byte) /\ r \in Seq(Byte)
  BY <1>1, <1>2
<1>8. \A i \in from .. hi : r[i] = x[i]
  BY <1>4, <1>6, Zenon
<1> HIDE DEF hi, from
<1>9. SubSeq(r, from, hi) = SubSeq(x, from, hi)
  BY ONLY <1>6, <1>7, <1>8, SamePiece
<1> QED BY <1>1, <1>6, <1>9, Zenon DEF hi, from, end

\* A word, ended, is bytes.
LEMMA EndedWord ==
    ASSUME NEW w \in Words
    PROVE  w \o END_LINE \in Seq(Byte)
<1>1. w \in Seq(Byte) /\ END_LINE \in Seq(Byte)
  BY WordParts DEF END_LINE, Byte
<1> QED BY <1>1, OneAfterAnother, Zenon

\* Words as lines, one after the other.
TwoLines(w, g) == Ended(<<w, g>>, 13, 10) = (w \o END_LINE) \o (g \o END_LINE)
\* And three of them.
ThreeLines(w, g, h) ==
    Ended(<<w, g, h>>, 13, 10) = ((w \o END_LINE) \o (g \o END_LINE)) \o (h \o END_LINE)

\* Two lines, and three.
LEMMA LinesOfTwo ==
    ASSUME NEW w \in Words, NEW g \in Words, NEW h \in Words
    PROVE  TwoLines(w, g) /\ ThreeLines(w, g, h)
<1> DEFINE a == 13
           b == 10
           x == w \o END_LINE
           y == g \o END_LINE
           z == h \o END_LINE
<1>1. a \in Byte /\ b \in Byte
  BY DEF Byte
<1>2. w \in Free(a) /\ g \in Free(a) /\ h \in Free(a)
  BY DEF Free, Words
<1>3. END_LINE = <<a, b>>
  BY DEF END_LINE
<1> HIDE DEF a, b
<1>4. \A s \in Seq(Free(a)) : \A v \in Free(a) :
         /\ Ended(<<>>, a, b) = <<>>
         /\ Ended(Append(s, v), a, b) = Ended(s, a, b) \o (v \o END_LINE)
         /\ v \o END_LINE \in Seq(Byte)
  BY <1>1, <1>3, EndedMore, Zenon
<1>5. /\ <<>> \in Seq(Free(a)) /\ <<w>> \in Seq(Free(a)) /\ <<w, g>> \in Seq(Free(a))
      /\ <<w>> = Append(<<>>, w) /\ <<w, g>> = Append(<<w>>, g) /\ <<w, g, h>> = Append(<<w, g>>, h)
  <2> HIDE DEF Free
  <2> QED BY <1>2
<1>6. Ended(<<w>>, a, b) = x
  <2>1. Ended(<<w>>, a, b) = <<>> \o (w \o END_LINE) /\ w \o END_LINE \in Seq(Byte)
    BY <1>2, <1>4, <1>5, Zenon
  <2>2. \A s \in Seq(Byte) : <<>> \o s = s
    OBVIOUS
  <2> QED BY <2>1, <2>2, Zenon
<1>7. Ended(<<w, g>>, a, b) = x \o y
  BY <1>2, <1>4, <1>5, <1>6, Zenon
<1>8. Ended(<<w, g, h>>, a, b) = (x \o y) \o z
  BY <1>2, <1>4, <1>5, <1>7, Zenon
<1> QED BY <1>7, <1>8, Zenon DEF a, b, TwoLines, ThreeLines

\* A header, as it stands in its line.
Field(name, value) == (name \o <<COLON, SP>>) \o value

\* A header of words is a word.
LEMMA FieldWord ==
    ASSUME NEW name \in Words, NEW value \in Words
    PROVE  /\ Field(name, value) \in Words
           /\ HeaderLine(name, value) = Field(name, value) \o END_LINE
<1>1. <<COLON, SP>> \in Words
  BY DEF Words, COLON, SP, Byte
<1>2. name \o <<COLON, SP>> \in Words
  BY <1>1, WordsJoin
<1>3. (name \o <<COLON, SP>>) \o value \in Words
  BY <1>2, WordsJoin
<1> QED BY <1>3 DEF Field, HeaderLine

\* The first line of the request.
Asking == (((GET \o <<SP>>) \o <<47>>) \o <<SP>>) \o HTTP

\* The first line is a word.
LEMMA AskingWord == Asking \in Words
<1>1. GET \in Words /\ <<SP>> \in Words /\ <<47>> \in Words /\ HTTP \in Words
  BY DEF GET, SP, HTTP, Words, Byte
<1>2. GET \o <<SP>> \in Words
  BY <1>1, WordsJoin
<1>3. (GET \o <<SP>>) \o <<47>> \in Words
  BY <1>1, <1>2, WordsJoin
<1>4. ((GET \o <<SP>>) \o <<47>>) \o <<SP>> \in Words
  BY <1>1, <1>3, WordsJoin
<1>5. (((GET \o <<SP>>) \o <<47>>) \o <<SP>>) \o HTTP \in Words
  BY <1>1, <1>4, WordsJoin
<1> QED BY <1>5 DEF Asking

\* The request of one header is two lines.
LEMMA OneHeader ==
    ASSUME NEW n1 \in Words, NEW v1 \in Words
    PROVE  RequestBytes(<<47>>, <<<<n1, v1>>>>) = Ended(<<Asking, Field(n1, v1)>>, 13, 10) \o END_LINE
<1> DEFINE headers == <<<<n1, v1>>>>
           w == Asking
           f == Field(n1, v1)
           l1 == HeaderLine(n1, v1)
<1>1. RequestBytes(<<47>>, headers) =
         ((w \o END_LINE) \o FlattenSeq([i \in DOMAIN headers |-> HeaderLine(headers[i][1], headers[i][2])])) \o END_LINE
  BY Zenon DEF RequestBytes, Asking
<1>2. [i \in DOMAIN headers |-> HeaderLine(headers[i][1], headers[i][2])] = <<l1>>
  <2>1. DOMAIN headers = 1 .. 1 /\ headers[1][1] = n1 /\ headers[1][2] = v1
    OBVIOUS
  <2> HIDE DEF headers
  <2>2. [i \in 1 .. 1 |-> HeaderLine(headers[i][1], headers[i][2])] = [i \in 1 .. 1 |-> l1]
    <3>1. \A i \in 1 .. 1 : i = 1
      OBVIOUS
    <3> QED BY <2>1, <3>1
  <2> HIDE DEF l1
  <2>3. [i \in 1 .. 1 |-> l1] = <<l1>>
    OBVIOUS
  <2> QED BY <2>1, <2>2, <2>3
<1> HIDE DEF headers
<1>3. w \in Words /\ f \in Words /\ l1 = f \o END_LINE
  BY AskingWord, FieldWord
<1> HIDE DEF w, f, l1
<1> DEFINE l0 == w \o END_LINE
<1>4. Ended(<<w, f>>, 13, 10) = l0 \o l1 /\ l0 \in Seq(Byte) /\ l1 \in Seq(Byte)
  <2>1. w \in Words /\ f \in Words /\ l0 = w \o END_LINE /\ l1 = f \o END_LINE
    BY <1>3
  <2>2. TwoLines(w, f)
    BY <2>1, LinesOfTwo, Zenon
  <2> QED BY <2>1, <2>2, EndedWord, Zenon DEF TwoLines
<1>5. FlattenSeq(<<l1>>) = l1
  BY <1>3, <1>4, FlattenOne
<1>6. RequestBytes(<<47>>, headers) = Ended(<<w, f>>, 13, 10) \o END_LINE
  BY <1>1, <1>2, <1>3, <1>4, <1>5, Zenon
<1> QED BY <1>6 DEF headers, w, f

\* The request of two headers is three lines.
LEMMA TwoHeaders ==
    ASSUME NEW n1 \in Words, NEW v1 \in Words, NEW n2 \in Words, NEW v2 \in Words
    PROVE  RequestBytes(<<47>>, <<<<n1, v1>>, <<n2, v2>>>>) =
              Ended(<<Asking, Field(n1, v1), Field(n2, v2)>>, 13, 10) \o END_LINE
<1> DEFINE headers == <<<<n1, v1>>, <<n2, v2>>>>
           w == Asking
           f == Field(n1, v1)
           g == Field(n2, v2)
           l1 == HeaderLine(n1, v1)
           l2 == HeaderLine(n2, v2)
<1>1. RequestBytes(<<47>>, headers) =
         ((w \o END_LINE) \o FlattenSeq([i \in DOMAIN headers |-> HeaderLine(headers[i][1], headers[i][2])])) \o END_LINE
  BY Zenon DEF RequestBytes, Asking
<1>2. [i \in DOMAIN headers |-> HeaderLine(headers[i][1], headers[i][2])] = <<l1, l2>>
  <2>1. /\ DOMAIN headers = 1 .. 2 /\ headers[1][1] = n1 /\ headers[1][2] = v1
        /\ headers[2][1] = n2 /\ headers[2][2] = v2
    OBVIOUS
  <2> HIDE DEF headers
  <2>2. [i \in 1 .. 2 |-> HeaderLine(headers[i][1], headers[i][2])] = [i \in 1 .. 2 |-> IF i = 1 THEN l1 ELSE l2]
    <3>1. \A i \in 1 .. 2 : i = 1 \/ i = 2
      OBVIOUS
    <3>2. 1 # 2
      OBVIOUS
    <3>3. \A i \in 1 .. 2 : HeaderLine(headers[i][1], headers[i][2]) = IF i = 1 THEN l1 ELSE l2
      BY <2>1, <3>1, <3>2, Zenon
    <3> HIDE DEF l1, l2
    <3> QED BY <3>3, Zenon
  <2> HIDE DEF l1, l2
  <2>3. [i \in 1 .. 2 |-> IF i = 1 THEN l1 ELSE l2] = <<l1, l2>>
    OBVIOUS
  <2> QED BY <2>1, <2>2, <2>3
<1> HIDE DEF headers
<1>3. w \in Words /\ f \in Words /\ l1 = f \o END_LINE /\ g \in Words /\ l2 = g \o END_LINE
  BY AskingWord, FieldWord
<1> HIDE DEF w, f, l1, g, l2
<1> DEFINE l0 == w \o END_LINE
<1>4. /\ Ended(<<w, f, g>>, 13, 10) = (l0 \o l1) \o l2
      /\ l0 \in Seq(Byte) /\ l1 \in Seq(Byte) /\ l2 \in Seq(Byte)
  <2>1. /\ w \in Words /\ f \in Words /\ g \in Words
        /\ l0 = w \o END_LINE /\ l1 = f \o END_LINE /\ l2 = g \o END_LINE
    BY <1>3
  <2>2. ThreeLines(w, f, g)
    BY <2>1, LinesOfTwo, Zenon
  <2> QED BY <2>1, <2>2, EndedWord, Zenon DEF ThreeLines
<1>5. FlattenSeq(<<l1, l2>>) = l1 \o l2
  <2>1. l1 \in Seq(Byte) /\ l2 \in Seq(Byte)
    BY <1>3, <1>4, Zenon
  <2>2. FlattenSeq(<<l1>>) = l1
    BY <2>1, FlattenOne
  <2>3. <<l1, l2>> = Append(<<l1>>, l2) /\ <<l1>> \in Seq(Seq(Byte))
    BY <2>1
  <2>4. FlattenSeq(Append(<<l1>>, l2)) = FlattenSeq(<<l1>>) \o l2
    BY <2>1, <2>3, FlattenAppend
  <2> QED BY <2>2, <2>3, <2>4
<1>6. l0 \o (l1 \o l2) = (l0 \o l1) \o l2
  <2>1. \A x, y, z \in Seq(Byte) : x \o (y \o z) = (x \o y) \o z
    BY ConcatAssociative
  <2> QED BY <1>3, <1>4, <2>1, Zenon
<1>7. RequestBytes(<<47>>, headers) = Ended(<<w, f, g>>, 13, 10) \o END_LINE
  BY <1>1, <1>2, <1>3, <1>4, <1>5, <1>6, Zenon
<1> QED BY <1>7 DEF headers, w, f, g

\* What the server makes of the lines of a request.
OfferIn(lines) ==
    LET named == {k \in 2 .. Len(lines) : SubSeq(lines[k], 1, 1) = PROTOCOL}
    IN  IF named = {} THEN <<>> ELSE Split(ValueOf(lines[Min(named)]), <<COMMA, SP>>)

\* No line of the protocols.
LEMMA NoOffer ==
    ASSUME NEW w, NEW f, SubSeq(f, 1, 1) # PROTOCOL
    PROVE  OfferIn(<<w, f>>) = <<>>
<1> DEFINE lines == <<w, f>>
<1>1. Len(lines) = 2 /\ lines[2] = f /\ \A k \in 2 .. 2 : k = 2
  OBVIOUS
<1> HIDE DEF lines
<1>2. {k \in 2 .. Len(lines) : SubSeq(lines[k], 1, 1) = PROTOCOL} = {}
  BY <1>1, Zenon
<1> QED BY <1>2, Zenon DEF OfferIn, lines

\* Where the line of the protocols is.
LEMMA OfferAt ==
    ASSUME NEW w, NEW f, NEW g, SubSeq(f, 1, 1) # PROTOCOL, SubSeq(g, 1, 1) = PROTOCOL
    PROVE  /\ OfferIn(<<w, f, g>>) = Split(ValueOf(g), <<COMMA, SP>>)
           /\ OfferIn(<<w, g, f>>) = Split(ValueOf(g), <<COMMA, SP>>)
<1> DEFINE Named(lines) == {k \in 2 .. Len(lines) : SubSeq(lines[k], 1, 1) = PROTOCOL}
<1>1. \A lines : OfferIn(lines) = IF Named(lines) = {} THEN <<>>
                                  ELSE Split(ValueOf(lines[Min(Named(lines))]), <<COMMA, SP>>)
  BY Zenon DEF OfferIn
<1>2. Min({2}) = 2 /\ Min({3}) = 3
  BY DEF Min
<1>3. Named(<<w, f, g>>) = {3}
  <2> DEFINE lines == <<w, f, g>>
  <2>1. Len(lines) = 3 /\ lines[2] = f /\ lines[3] = g /\ (\A k \in 2 .. 3 : k = 2 \/ k = 3) /\ 3 \in 2 .. 3
    OBVIOUS
  <2> HIDE DEF lines
  <2>2. \A k : k \in Named(lines) <=> k = 3
    BY <2>1, Zenon
  <2> DEFINE S == Named(lines)
  <2>3. \A k : k \in S <=> k = 3
    BY <2>2, Zenon
  <2> HIDE DEF S
  <2>4. S = {3}
    BY <2>3
  <2> QED BY <2>4 DEF lines, S
<1>4. Named(<<w, g, f>>) = {2}
  <2> DEFINE lines == <<w, g, f>>
  <2>1. Len(lines) = 3 /\ lines[2] = g /\ lines[3] = f /\ (\A k \in 2 .. 3 : k = 2 \/ k = 3) /\ 2 \in 2 .. 3
    OBVIOUS
  <2> HIDE DEF lines
  <2>2. \A k : k \in Named(lines) <=> k = 2
    BY <2>1, Zenon
  <2> DEFINE S == Named(lines)
  <2>3. \A k : k \in S <=> k = 2
    BY <2>2, Zenon
  <2> HIDE DEF S
  <2>4. S = {2}
    BY <2>3
  <2> QED BY <2>4 DEF lines, S
<1>5. <<w, f, g>>[3] = g /\ <<w, g, f>>[2] = g
  OBVIOUS
<1>6. {2} # {} /\ {3} # {}
  OBVIOUS
<1> HIDE DEF Named
<1> QED BY <1>1, <1>2, <1>3, <1>4, <1>5, <1>6, Zenon

\* The protocols of the program.
Protocols == IF case.protocols = <<>> THEN <<>> ELSE case.protocols[1]

\* What the program gives is none or one list of tokens.
LEMMA ItsProtocols ==
    ASSUME case \in Cases, case.protocols # <<<<>>>>, Tokens
    PROVE  case.protocols = <<>> \/ case.protocols[1] \in Offerings
<1> SUFFICES ASSUME case.protocols # <<>> PROVE case.protocols[1] \in Offerings
  OBVIOUS
<1> DEFINE all == case.protocols
<1>1. all \in Seq(Seq(Seq(Byte \ {13, 10}))) /\ Len(all) <= 1
  <2>1. case \in Case /\ Len(all) <= 1
    BY WireAssumption
  <2>2. all \in Seq(Seq(Seq(Byte \ {13, 10})))
    BY <2>1 DEF Case
  <2> QED BY <2>1, <2>2
<1>2. \A p \in DOMAIN all : \A i \in DOMAIN all[p] :
         all[p][i] # <<>> /\ \A k \in DOMAIN all[p][i] : all[p][i][k] \notin White \cup {COMMA}
  BY Zenon DEF Tokens
<1>3. all # <<>> /\ all # <<<<>>>>
  OBVIOUS
<1> HIDE DEF all
<1> DEFINE names == all[1]
<1>4. 1 \in DOMAIN all /\ all = <<names>> /\ names \in Seq(Seq(Byte \ {13, 10}))
  <2> DEFINE T == Seq(Seq(Byte \ {13, 10}))
  <2>1. all \in Seq(T)
    BY <1>1
  <2> HIDE DEF T
  <2>2. Len(all) \in Nat /\ Len(all) # 0 /\ Len(all) <= 1
    BY <1>1, <1>3, <2>1, EmptySeq
  <2>3. \A n \in Nat : n # 0 /\ n <= 1 => n = 1
    OBVIOUS
  <2>4. Len(all) = 1
    BY <2>2, <2>3, Zenon
  <2> QED BY <2>1, <2>4 DEF T
<1>5. names # <<>>
  BY <1>3, <1>4
<1>6. \A i \in DOMAIN names :
         names[i] # <<>> /\ \A k \in DOMAIN names[i] : names[i][k] \notin White \cup {COMMA}
  BY <1>2, <1>4, Zenon
<1> HIDE DEF names
<1>7. \A i \in 1 .. Len(names) :
         names[i] # <<>> /\ \A k \in 1 .. Len(names[i]) : names[i][k] \notin White \cup {COMMA}
  <2>1. DOMAIN names = 1 .. Len(names) /\ \A i \in 1 .. Len(names) : DOMAIN names[i] = 1 .. Len(names[i])
    <3> DEFINE T == Byte \ {13, 10}
    <3>1. names \in Seq(Seq(T))
      BY <1>4
    <3> HIDE DEF T
    <3> QED BY <3>1
  <2> QED BY <1>6, <2>1, Zenon
<1>8. names \in Offerings
  BY <1>4, <1>5, <1>7, Zenon DEF Offerings
<1> QED BY <1>8 DEF names, all

\* The path of every request.
Root == <<47>>

\* The server reads the protocols out of the request that start_init writes.
LEMMA RequestAgain ==
    ASSUME case \in Cases, case.protocols # <<<<>>>>, Tokens,
           NEW headers \in {Headers, Reverse(Headers)},
           NEW r, r = RequestBytes(Root, headers)
    PROVE  OfferIn(Split(SubSeq(r, 1, Min(Finds(r, HeadEnd)) - 1), END_LINE)) = Protocols
<1> DEFINE w     == Asking
           f     == Field(KEY, key)
           names == case.protocols[1]
           g     == Field(PROTOCOL, Joined(names))
           kh    == <<KEY, key>>
           ph    == <<PROTOCOL, Joined(names)>>
           lines == Split(SubSeq(r, 1, Min(Finds(r, HeadEnd)) - 1), END_LINE)
<1>0. r = RequestBytes(<<47>>, headers)
  BY DEF Root
<1>1. r \in Requests
  <2>1. [request |-> r] \in [request : Requests]
    BY <1>0, StartRequest
  <2>2. [request |-> r].request = r
    OBVIOUS
  <2> QED BY <2>1, <2>2
<1>2. KEY \in Words /\ key \in Words /\ PROTOCOL \in Words /\ w \in Words
  <2>1. KEY \in Words /\ key \in Words /\ PROTOCOL \in Words
    BY DEF KEY, key, PROTOCOL, Words, Byte
  <2> QED BY <2>1, AskingWord
<1>3. f \in Words /\ SubSeq(f, 1, 1) # PROTOCOL
  <2> DEFINE p == 75
             j == key
  <2>1. p \in Byte \ {COLON}
    BY DEF Byte, COLON
  <2>2. j \in Seq(Byte) /\ j # <<>> /\ j[1] \notin White /\ j[Len(j)] \notin White
    BY DEF key, Byte, SP, White
  <2>3. KEY = <<p>> /\ <<p>> # PROTOCOL
    BY DEF KEY, PROTOCOL
  <2> HIDE DEF p, j
  <2>4. SubSeq((<<p>> \o <<COLON, SP>>) \o j, 1, 1) = <<p>>
    BY <2>1, <2>2, ValueAgain, Zenon
  <2>5. SubSeq(f, 1, 1) # PROTOCOL
    BY <2>3, <2>4, Zenon DEF Field, j
  <2>6. f \in Words
    BY <1>2, FieldWord, Zenon
  <2> QED BY <2>5, <2>6
<1>4. case.protocols = <<>> \/ names \in Offerings
  BY ItsProtocols
<1>5. ASSUME names \in Offerings
      PROVE  /\ Joined(names) \in Words /\ g \in Words
             /\ SubSeq(g, 1, 1) = PROTOCOL /\ Split(ValueOf(g), <<COMMA, SP>>) = names
  <2> HIDE DEF names
  <2>1. names \in Seq(Words)
    <3>1. names \in Seq(Seq(Byte \ {13, 10}))
      BY <1>5 DEF Offerings
    <3>2. \A i \in 1 .. Len(names) : names[i] \in Seq(Byte \ {13, 10})
      <4> DEFINE T == Seq(Byte \ {13, 10})
      <4>1. names \in Seq(T)
        BY <3>1
      <4> HIDE DEF T
      <4>2. \A i \in 1 .. Len(names) : names[i] \in T
        BY <4>1
      <4> QED BY <4>2 DEF T
    <3>3. \A x \in Seq(Byte \ {13, 10}) : x \in Words
      BY DEF Words
    <3>4. Len(names) \in Nat /\ names = [i \in 1 .. Len(names) |-> names[i]]
      BY <3>1
    <3>5. \A i \in 1 .. Len(names) : names[i] \in Words
      BY <3>2, <3>3, Zenon
    <3> QED BY <3>4, <3>5
  <2>2. Joined(names) \in Words
    BY <2>1, JoinedWord
  <2>3. g \in Words
    BY <1>2, <2>2, FieldWord, Zenon
  <2>4. SubSeq(g, 1, 1) = PROTOCOL /\ Split(ValueOf(g), <<COMMA, SP>>) = names
    BY <1>5, ProtocolsAgain, Zenon DEF Field
  <2> QED BY <2>2, <2>3, <2>4
<1>6. \A all \in Seq(Words) : all # <<>> /\ r = Ended(all, 13, 10) \o END_LINE => lines = all
  BY <1>1, LinesAgain, Zenon
<1>7. CASE case.protocols = <<>>
  <2>1. headers = <<kh>>
    <3>1. Headers = <<kh>>
      <4>1. Headers = <<kh>> \o <<>>
        BY <1>7 DEF Headers
      <4> QED BY <4>1
    <3>2. Reverse(<<kh>>) = <<kh>>
      BY DEF Reverse
    <3> QED BY <3>1, <3>2
  <2>2. r = Ended(<<w, f>>, 13, 10) \o END_LINE
    BY <1>0, <1>2, <2>1, OneHeader, Zenon
  <2>3. <<w, f>> \in Seq(Words) /\ <<w, f>> # <<>>
    <3> HIDE DEF w, f
    <3> QED BY <1>2, <1>3
  <2> HIDE DEF lines, w, f
  <2>4. lines = <<w, f>>
    BY <1>6, <2>2, <2>3, Zenon
  <2>5. OfferIn(<<w, f>>) = <<>>
    BY <1>3, NoOffer, Zenon
  <2> QED BY <1>7, <2>4, <2>5, Zenon DEF Protocols, lines
<1>8. CASE case.protocols # <<>>
  <2>0. /\ Joined(names) \in Words /\ g \in Words
        /\ SubSeq(g, 1, 1) = PROTOCOL /\ Split(ValueOf(g), <<COMMA, SP>>) = names
    BY <1>4, <1>5, <1>8
  <2>1. headers = <<kh, ph>> \/ headers = <<ph, kh>>
    <3>1. Headers = <<kh, ph>>
      <4>1. Headers = <<kh>> \o <<ph>>
        BY <1>8 DEF Headers
      <4> HIDE DEF kh, ph
      <4>2. <<kh>> \o <<ph>> = <<kh, ph>>
        BY TwoInOrder
      <4> QED BY <4>1, <4>2, Zenon
    <3> HIDE DEF kh, ph
    <3>2. Reverse(<<kh, ph>>) = <<ph, kh>>
      BY DEF Reverse
    <3> QED BY <3>1, <3>2
  <2>2. \/ r = Ended(<<w, f, g>>, 13, 10) \o END_LINE
        \/ r = Ended(<<w, g, f>>, 13, 10) \o END_LINE
    <3> DEFINE j == Joined(names)
    <3>1. j \in Words
      BY <2>0
    <3>2. headers = <<<<KEY, key>>, <<PROTOCOL, j>>>> \/ headers = <<<<PROTOCOL, j>>, <<KEY, key>>>>
      BY <2>1
    <3>3. g = Field(PROTOCOL, j)
      OBVIOUS
    <3> HIDE DEF j, g
    <3>4. /\ RequestBytes(<<47>>, <<<<KEY, key>>, <<PROTOCOL, j>>>>)
               = Ended(<<Asking, Field(KEY, key), Field(PROTOCOL, j)>>, 13, 10) \o END_LINE
          /\ RequestBytes(<<47>>, <<<<PROTOCOL, j>>, <<KEY, key>>>>)
               = Ended(<<Asking, Field(PROTOCOL, j), Field(KEY, key)>>, 13, 10) \o END_LINE
      <4> DEFINE k == KEY
                 y == key
                 p == PROTOCOL
      <4>1. k \in Words /\ y \in Words /\ p \in Words /\ j \in Words
        BY <1>2, <3>1
      <4> HIDE DEF k, y, p
      <4>2. RequestBytes(<<47>>, <<<<k, y>>, <<p, j>>>>) = Ended(<<Asking, Field(k, y), Field(p, j)>>, 13, 10) \o END_LINE
        BY ONLY <4>1, TwoHeaders, ZenonT(60)
      <4>3. RequestBytes(<<47>>, <<<<p, j>>, <<k, y>>>>) = Ended(<<Asking, Field(p, j), Field(k, y)>>, 13, 10) \o END_LINE
        BY ONLY <4>1, TwoHeaders, ZenonT(60)
      <4> QED BY <4>2, <4>3, Zenon DEF k, y, p
    <3> QED BY <1>0, <3>2, <3>3, <3>4, Zenon
  <2>3. /\ <<w, f, g>> \in Seq(Words) /\ <<w, f, g>> # <<>>
        /\ <<w, g, f>> \in Seq(Words) /\ <<w, g, f>> # <<>>
    <3> HIDE DEF w, f, g
    <3> QED BY <1>2, <1>3, <2>0
  <2> HIDE DEF lines, w, f, g, names
  <2>4. lines = <<w, f, g>> \/ lines = <<w, g, f>>
    BY <1>6, <2>2, <2>3, Zenon
  <2>5. OfferIn(<<w, f, g>>) = names /\ OfferIn(<<w, g, f>>) = names
    <3>1. /\ OfferIn(<<w, f, g>>) = Split(ValueOf(g), <<COMMA, SP>>)
          /\ OfferIn(<<w, g, f>>) = Split(ValueOf(g), <<COMMA, SP>>)
      <4>1. SubSeq(f, 1, 1) # PROTOCOL /\ SubSeq(g, 1, 1) = PROTOCOL
        BY <1>3, <2>0
      <4> QED BY ONLY <4>1, OfferAt, ZenonT(60)
    <3> QED BY <2>0, <3>1, Zenon
  <2>6. OfferIn(lines) = names
    BY <2>4, <2>5, Zenon
  <2> QED BY <1>8, <2>6, Zenon DEF Protocols, lines, names
<1> QED BY <1>7, <1>8

\* A request that start_init writes.
IsRequest(e) ==
    \E headers \in {Headers, Reverse(Headers)} : e = [request |-> RequestBytes(<<47>>, headers)]

\* Until the server reads the request it is the one of start_init, waiting or
\* written.
Offering ==
    /\ connection_status # "START_INIT" => case.protocols # <<<<>>>>
    /\ written # <<>> => IsRequest(written[1])
    /\ connection_status = "HANDSHAKE" /\ written = <<>> => IsRequest(output_events[1])
    /\ ProtocolsOffered

\* What is a request stays one.
LEMMA StaysRequest ==
    ASSUME case' = case
    PROVE  \A e : IsRequest(e) <=> IsRequest(e)'
BY DEF IsRequest, Headers

\* What was offered stays so.
LEMMA StaysOffered ==
    ASSUME ProtocolsOffered, case' = case, offered' = offered
    PROVE  ProtocolsOffered'
BY DEF ProtocolsOffered, Tokens

\* The start of the handshake keeps Offering.
LEMMA OfferingStart ==
    ASSUME Base, Offering, start_init
    PROVE  Offering'
<1>1. /\ connection_status = "START_INIT"
      /\ UNCHANGED <<case, written, offered>>
  BY DEF start_init
<1>2. written = <<>>
  BY <1>1 DEF Base, Phases
<1>3. ProtocolsOffered'
  BY <1>1, StaysOffered DEF Offering
<1>4. CASE UNCHANGED connection_status
  BY <1>1, <1>2, <1>3, <1>4 DEF Offering
<1>5. CASE /\ case.protocols # <<<<>>>>
           /\ \E headers \in {Headers, Reverse(Headers)} :
                 output_events' = <<[request |-> RequestBytes(<<47>>, headers)]>> \o frames
  <2>1. PICK headers \in {Headers, Reverse(Headers)} :
           output_events' = <<[request |-> RequestBytes(<<47>>, headers)]>> \o frames
    BY <1>5
  <2> DEFINE r == [request |-> RequestBytes(<<47>>, headers)]
  <2>2. IsRequest(r)
    BY DEF IsRequest
  <2>3. r \in OutEvents /\ frames \in Seq(OutEvents)
    <3>1. r \in [request : Requests]
      BY StartRequest DEF Base, WireTypes
    <3>2. frames \in Seq(OutEvents)
      BY FramesOfSend DEF Base, WireTypes
    <3> HIDE DEF r
    <3> QED BY <3>1, <3>2 DEF OutEvents
  <2>4. output_events' = <<r>> \o frames
    BY <2>1
  <2> HIDE DEF r
  <2>5. output_events'[1] = r
    <3> HIDE DEF OutEvents
    <3>1. <<r>> \in Seq(OutEvents) /\ Len(<<r>>) = 1 /\ <<r>>[1] = r
      BY <2>3
    <3>2. (<<r>> \o frames)[1] = r
      BY <2>3, <3>1
    <3> QED BY <2>4, <3>2
  <2>6. \A e : IsRequest(e) <=> IsRequest(e)'
    BY <1>1, StaysRequest
  <2>7. IsRequest(output_events[1])'
    BY <2>2, <2>5, <2>6
  <2>8. (case.protocols # <<<<>>>>)'
    BY <1>1, <1>5
  <2>9. written' = <<>>
    BY <1>1, <1>2
  <2> QED BY <1>3, <2>7, <2>8, <2>9 DEF Offering
<1> QED BY <1>4, <1>5 DEF start_init

\* A turn of event_loop keeps Offering.
LEMMA OfferingLoop ==
    ASSUME Base, Offering, event_loop
    PROVE  Offering'
<1>1. /\ connection_status \in Active
      /\ UNCHANGED <<frames, case, offered>>
      /\ Moves \/ Stays
  BY LoopTurn DEF Base
<1>2. /\ connection_status # "START_INIT" /\ case.protocols # <<<<>>>>
      /\ written # <<>> => IsRequest(written[1])
      /\ written = <<>> => connection_status = "HANDSHAKE" /\ IsRequest(output_events[1])
  <2>1. connection_status # "START_INIT"
    BY <1>1 DEF Active
  <2>2. written = <<>> => connection_status = "HANDSHAKE"
    BY <2>1 DEF Base, Phases
  <2> QED BY <2>1, <2>2 DEF Offering
<1>3. ProtocolsOffered'
  BY <1>1, StaysOffered DEF Offering
<1>4. \A e : IsRequest(e) <=> IsRequest(e)'
  BY <1>1, StaysRequest
<1>5. /\ written \in Seq(OutEvents) /\ output_events \in Seq(OutEvents)
      /\ Popped \in Seq(OutEvents)
      /\ Popped = <<>> => Left = output_events
      /\ Popped # <<>> => /\ output_events # <<>> /\ Popped = <<output_events[1]>>
                          /\ Left = Tail(output_events)
  BY PoppedParts DEF Base, WireTypes
<1>6. IsRequest(written'[1]) \/ written' = <<>>
  <2>1. CASE written' = written
    BY <1>2, <2>1
  <2>2. CASE written' = written \o Popped
    <3>1. CASE written = <<>>
      <4>1. written' = Popped
        BY <1>5, <2>2, <3>1, ConcatEmptySeq
      <4>2. <<output_events[1]>>[1] = output_events[1]
        OBVIOUS
      <4> QED BY <1>2, <1>5, <3>1, <4>1, <4>2, Zenon
    <3>2. CASE written # <<>>
      <4> HIDE DEF OutEvents
      <4>1. Len(written) \in Nat /\ Len(written) # 0
        BY <1>5, <3>2, EmptySeq
      <4>2. (written \o Popped)[1] = written[1]
        BY <1>5, <4>1
      <4> QED BY <1>2, <2>2, <3>2, <4>2, Zenon
    <3> QED BY <3>1, <3>2
  <2> QED BY <1>1, <2>1, <2>2 DEF Moves, Stays
<1>7. ASSUME connection_status' = "HANDSHAKE", written' = <<>>
      PROVE  IsRequest(output_events'[1])
  <2>1. written = <<>>
    <3>1. CASE written' = written
      BY <1>7, <3>1
    <3>2. CASE written' = written \o Popped
      <4> HIDE DEF OutEvents
      <4>1. Len(written) + Len(Popped) = 0
        <5>1. Len(written \o Popped) = Len(written) + Len(Popped) /\ Len(<<>>) = 0
          BY <1>5
        <5> QED BY <1>7, <3>2, <5>1
      <4>2. Len(written) = 0
        BY <1>5, <4>1
      <4> QED BY <1>5, <4>2, EmptySeq
    <3> QED BY <1>1, <3>1, <3>2 DEF Moves, Stays
  <2>2. output_events' = output_events \/ output_events' = Left
    BY <1>2, <2>1, <1>1, <1>7 DEF Moves, Stays
  <2>3. output_events' = output_events
    <3> SUFFICES ASSUME output_events' = Left, Popped # <<>> PROVE FALSE
      BY <1>5, <2>2
    <3>1. Tail(output_events) = frames
      <4>1. output_events # <<>> /\ Tail(output_events) = frames
        BY <1>2, <2>1, EmptySeq DEF Base, Phases
      <4> QED BY <4>1
    <3>2. output_events' # <<>> /\ Tail(output_events') = frames'
      <4>1. Phases'
        BY BaseLoop DEF Base
      <4>2. Len(written') # 1
        <5>1. Len(<<>>) = 0
          OBVIOUS
        <5> QED BY <1>7, <5>1
      <4> QED BY <1>7, <4>1, <4>2 DEF Phases
    <3>3. output_events' = frames /\ frames # <<>> /\ Tail(frames) = frames
      BY <1>1, <1>5, <3>1, <3>2
    <3>4. frames \in Seq(OutEvents)
      BY FramesOfSend DEF Base, WireTypes
    <3> HIDE DEF OutEvents
    <3>5. \A s \in Seq(OutEvents) : s # <<>> => Tail(s) # s
      <4> TAKE s \in Seq(OutEvents)
      <4> HAVE s # <<>>
      <4>1. Len(Tail(s)) = Len(s) - 1 /\ Len(s) \in Nat
        OBVIOUS
      <4>2. \A n \in Nat : n - 1 # n
        OBVIOUS
      <4> QED BY <4>1, <4>2
    <3> QED BY <3>3, <3>4, <3>5
  <2> QED BY <1>2, <2>1, <2>3
<1>8. (case.protocols # <<<<>>>>)'
  BY <1>1, <1>2
<1> QED BY <1>3, <1>4, <1>6, <1>7, <1>8 DEF Offering

\* The server reading the request keeps Offering.
LEMMA OfferingRead ==
    ASSUME Base, Offering, ServerReadsRequest
    PROVE  Offering'
<1> DEFINE lines == Split(SubSeq(to_server, 1, Min(Finds(to_server, HeadEnd)) - 1), END_LINE)
<1>1. /\ offered = <<>> /\ Finds(to_server, HeadEnd) # {}
      /\ offered' = <<OfferIn(lines)>>
      /\ UNCHANGED <<case, connection_status, output_events, written>>
  BY DEF ServerReadsRequest, HeadEnd, OfferIn
<1> HIDE DEF lines
<1>2. to_server # <<>>
  <2>1. \A i \in Finds(<<>>, HeadEnd) : FALSE
    <3>1. Len(HeadEnd) = 4 /\ Len(<<>>) = 0
      BY DEF HeadEnd, END_LINE
    <3> QED BY <3>1 DEF Finds
  <2> QED BY <1>1, <2>1
<1>3. written # <<>> /\ connection_status = "HANDSHAKE" /\ srv_in = <<>>
  <2>1. written # <<>>
    BY <1>2, EarlyPhases
  <2> QED BY <1>1, <2>1 DEF Base, Phases
<1>4. Len(written) = 1
  BY <1>3 DEF Base, Phases
<1> DEFINE e == written[1]
<1>5. PICK headers \in {Headers, Reverse(Headers)} : e = [request |-> RequestBytes(<<47>>, headers)]
  BY <1>3 DEF Offering, IsRequest
<1> DEFINE r == RequestBytes(<<47>>, headers)
<1>6. to_server = r
  <2>1. e \in [request : Requests]
    BY <1>5, StartRequest DEF Base, WireTypes
  <2>2. e.request = r
    BY <1>5
  <2> HIDE DEF r, e
  <2>3. BytesOf(e) = r /\ e \in OutEvents
    BY <2>1, <2>2, RequestEvent DEF OutEvents
  <2>4. written \in Seq(OutEvents)
    BY DEF Base, WireTypes
  <2>5. written = <<e>> /\ SubSeq(written, 1, Len(written)) = written
    <3> HIDE DEF OutEvents
    <3> QED BY <1>4, <2>4 DEF e
  <2>6. Taken + 1 = 1
    BY <1>1, <1>3 DEF Taken
  <2>7. to_server = Sent(SubSeq(written, Taken + 1, Len(written)))
    BY DEF Base, InTransit
  <2>8. Sent(<<e>>) = BytesOf(e)
    BY <2>3, SentOne
  <2> QED BY <2>3, <2>5, <2>6, <2>7, <2>8, Zenon
<1>7. case.protocols # <<<<>>>> /\ case \in Cases
  BY <1>3 DEF Offering, Base, WireTypes
<1> HIDE DEF r
<1>8. Tokens => OfferIn(lines) = Protocols
  <2> HAVE Tokens
  <2>1. r = RequestBytes(Root, headers)
    BY DEF r, Root
  <2>2. OfferIn(Split(SubSeq(r, 1, Min(Finds(r, HeadEnd)) - 1), END_LINE)) = Protocols
    BY <1>5, <1>7, <2>1, RequestAgain
  <2> QED BY <1>6, <2>2, Zenon DEF lines
<1>9. ProtocolsOffered'
  <2>1. Tokens' <=> Tokens
    BY <1>1 DEF Tokens
  <2>2. <<OfferIn(lines)>>[1] = OfferIn(lines)
    OBVIOUS
  <2>3. offered'[1] = OfferIn(lines) /\ case' = case
    BY <1>1, <2>2, Zenon
  <2> QED BY <1>8, <2>1, <2>3 DEF ProtocolsOffered, Protocols
<1>10. \A x : IsRequest(x) <=> IsRequest(x)'
  BY <1>1, StaysRequest
<1> QED BY <1>1, <1>9, <1>10 DEF Offering

\* Every step keeps Offering.
LEMMA OfferingStep == Base /\ Offering /\ [Next]_vars => Offering'
<1> SUFFICES ASSUME Base, Offering, [Next]_vars PROVE Offering'
  OBVIOUS
<1>1. CASE UNCHANGED <<case, connection_status, output_events, written, offered>>
  <2>1. \A x : IsRequest(x) <=> IsRequest(x)'
    BY <1>1, StaysRequest
  <2>2. ProtocolsOffered'
    BY <1>1, StaysOffered DEF Offering
  <2> QED BY <1>1, <2>1, <2>2 DEF Offering
<1>2. CASE send \/ ServerReadsFrame \/ UNCHANGED vars
  BY <1>1, <1>2 DEF send, ServerReadsFrame, vars
<1>3. CASE start_init
  BY <1>3, OfferingStart
<1>4. CASE event_loop
  BY <1>4, OfferingLoop
<1>5. CASE ServerReadsRequest
  BY <1>5, OfferingRead
<1> QED BY <1>2, <1>3, <1>4, <1>5 DEF Next

\* The server reads the protocols that the program gave, in whatever order the
\* headers stand: start_init joins them with ", ", serialize puts them into a
\* line, and they are no other when the server has split them again (client.rs
\* 155-163, request.rs 38-60).
THEOREM OffersItsProtocols == Spec => []ProtocolsOffered
<1>1. Init => Offering
  <2> SUFFICES ASSUME Init PROVE Offering
    OBVIOUS
  <2>1. connection_status = "START_INIT" /\ written = <<>> /\ offered = <<>>
    BY DEF Init
  <2> QED BY <2>1 DEF Offering, ProtocolsOffered
<1>2. Base /\ Offering /\ [Next]_vars => Offering'
  BY OfferingStep
<1>3. Offering => ProtocolsOffered
  BY DEF Offering
<1> QED BY <1>1, <1>2, <1>3, BaseAlways, PTL DEF Spec
=============================================================================
