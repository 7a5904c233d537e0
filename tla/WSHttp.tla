------------------------------- MODULE WSHttp --------------------------------
(***************************************************************************)
(* The HTTP of the handshake: http/request.rs and http/response.rs, and    *)
(* what start_init of client.rs puts into a request.                       *)
(*                                                                         *)
(* A text is a sequence of bytes in which a word (a version, a code, a     *)
(* name, a value) is one letter, and the separators are themselves.        *)
(***************************************************************************)
EXTENDS WSBytes, SequencesExt

SP    == 32
COLON == 58
COMMA == 44
END_LINE == <<13, 10>>

Finds(text, pattern) ==
    {i \in 1 .. Len(text) - Len(pattern) + 1 :
        SubSeq(text, i, i + Len(pattern) - 1) = pattern}

Split(text, pattern) ==
    LET cuts  == Finds(text, pattern)
        at(k) == CASE k = 0 -> 1 - Len(pattern)
                   [] k = Cardinality(cuts) + 1 -> Len(text) + 1
                   [] OTHER -> CHOOSE i \in cuts : Cardinality({j \in cuts : j < i}) = k - 1
    IN  [k \in 1 .. Cardinality(cuts) + 1 |->
            SubSeq(text, at(k - 1) + Len(pattern), at(k) - 1)]

\* What trim cuts off, in ASCII.
White == {SP} \cup 9 .. 13

trim(text) ==
    LET kept == {i \in DOMAIN text : text[i] \notin White}
    IN  IF kept = {} THEN <<>> ELSE SubSeq(text, Min(kept), Max(kept))

to_lowercase_Not(text) == text          \* faulty: names are told apart by case

to_lowercase(text) ==
    [i \in DOMAIN text |-> IF text[i] \in 65 .. 90 THEN text[i] + 32 ELSE text[i]]

-----------------------------------------------------------------------------
(* Words *)

GET           == <<71>>     \* G
HTTP          == <<72>>     \* H, the version
SWITCHING     == <<49>>     \* 1, the code 101
OK            == <<50>>     \* 2, the code 200; no other word is a number
KEY           == <<75>>     \* K, Sec-WebSocket-Key
ACCEPT        == <<65>>     \* A, Sec-WebSocket-Accept
PROTOCOL      == <<80>>     \* P, Sec-WebSocket-Protocol

parse_u16(word) == CASE word = SWITCHING -> 101 [] word = OK -> 200 [] OTHER -> -1

-----------------------------------------------------------------------------
(* Requests *)

HeaderLine(name, value) == name \o <<COLON, SP>> \o value \o END_LINE

\* serialize, with the headers in any order, as a HashMap gives them.
RequestBytes(path, headers) ==
    GET \o <<SP>> \o path \o <<SP>> \o HTTP \o END_LINE
      \o FlattenSeq([i \in DOMAIN headers |-> HeaderLine(headers[i][1], headers[i][2])])
      \o END_LINE

Joined_Kept(protocols) ==       \* faulty: the last separator is not cut
    FlattenSeq([i \in DOMAIN protocols |-> protocols[i] \o <<COMMA, SP>>])

\* The protocols, without the separator behind the last.
Joined(protocols) ==
    LET value == FlattenSeq([i \in DOMAIN protocols |-> protocols[i] \o <<COMMA, SP>>])
    IN  SubSeq(value, 1, Len(value) - 2)

-----------------------------------------------------------------------------
(* Responses *)

ParseError == [kind |-> "none"]
BadIndex   == [kind |-> "panic"]

\* The character that begins at the i-th byte.
Char(bytes, i) == SubSeq(bytes, i, i + char_len(bytes[i]) - 1)

Replacement == <<239, 191, 189>>        \* U+FFFD

lossy_Kept(bytes) ==            \* faulty: replacement characters stay
    FlattenSeq([i \in DOMAIN bytes |->
        IF char_at(bytes, i) THEN Char(bytes, i)
        ELSE IF Continues(bytes[i]) THEN <<>> ELSE <<65533>>])

\* from_utf8_lossy, and the replacement characters taken out, those that came
\* as such too: the whole characters are left.
lossy(bytes) ==
    FlattenSeq([i \in DOMAIN bytes |->
        IF char_at(bytes, i) /\ Char(bytes, i) # Replacement THEN Char(bytes, i) ELSE <<>>])

NameOf(line)  == to_lowercase(trim(SubSeq(line, 1, Min(Finds(line, <<COLON>>)) - 1)))
ValueOf(line) == trim(SubSeq(line, Min(Finds(line, <<COLON>>)) + 1, Len(line)))

\* The code is parsed before it is known that a text follows it, and a header
\* without a colon makes the whole response none.
parse(bytes) ==
    LET text  == lossy(bytes)
        ends  == Finds(text, END_LINE \o END_LINE)
        lines == Split(SubSeq(text, 1, Min(ends) - 1), END_LINE)
        info  == Split(lines[1], <<SP>>)
        code  == parse_u16(trim(info[2]))
    IN  IF ends = {} THEN ParseError
        ELSE IF Len(info) < 2 THEN BadIndex
        ELSE IF code = -1 THEN ParseError
        ELSE IF Len(info) < 3 THEN BadIndex
        ELSE IF \E k \in 2 .. Len(lines) : Finds(lines[k], <<COLON>>) = {} THEN ParseError
        ELSE [kind |-> "response", status_code |-> code,
              headers |-> [k \in 1 .. Len(lines) - 1 |->
                              <<NameOf(lines[k + 1]), ValueOf(lines[k + 1])>>],
              body |-> SubSeq(text, Min(ends) + 4, Len(text))]

header_First(response, name) ==     \* faulty: the first of equal names
    LET named == {k \in DOMAIN response.headers :
                     response.headers[k][1] = to_lowercase(name)}
    IN  IF named = {} THEN <<>> ELSE <<response.headers[Min(named)][2]>>

\* header: of equal names the map keeps the last; <<>> for None.
header(response, name) ==
    LET named == {k \in DOMAIN response.headers :
                     response.headers[k][1] = to_lowercase(name)}
    IN  IF named = {} THEN <<>> ELSE <<response.headers[Max(named)][2]>>
=============================================================================
