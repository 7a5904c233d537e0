------------------------------ MODULE MCWSWire -------------------------------
(***************************************************************************)
(* Conversations for TLC.                                                  *)
(***************************************************************************)
EXTENDS WSWireProperties

Of(n)    == [i \in 1 .. n |-> 64 + (i % 26)]      \* ASCII letters
Hi       == <<72, 105>>
Wide     == <<195, 169, 195, 177>>              \* two characters of two bytes
Long     == Of(126)

Chat     == <<99>>
SuperChat == <<115, 195, 169>>      \* with a character of two bytes

\* A response: status line, headers as pairs, the rest.
Answer(line, headers, body) ==
    line \o END_LINE
      \o FlattenSeq([i \in DOMAIN headers |-> HeaderLine(headers[i][1], headers[i][2])])
      \o END_LINE \o body

SwitchingLine == HTTP \o <<SP>> \o SWITCHING \o <<SP, 115>>
OkLine        == HTTP \o <<SP>> \o OK \o <<SP, 111>>
Accepted      == <<ACCEPT, accept>>
Accepting     == Answer(SwitchingLine, <<Accepted>>, <<>>)

Server(flag, code, data) == [flag |-> flag, code |-> code, data |-> data]
Text(data)    == Server(FIN, TEXT, data)
Ping(data)    == Server(FIN, PING, data)
Close(status, reason) == Server(FIN, CLOSE, be16(status) \o reason)

Plain ==
    [payload |-> <<120>>, size |-> 1024, protocols |-> <<>>, response |-> Accepting,
     accepts |-> TRUE, protocol |-> <<>>, frames |-> <<>>]

Sending(text, size) == [Plain EXCEPT !.payload = text, !.size = size]
Hearing(all)        == [Plain EXCEPT !.frames = all]
Refusing(response)  == [Plain EXCEPT !.response = response, !.accepts = FALSE]

\* Texts cut in every way: sizes that divide the text and do not, that cut a
\* character, that are 0 or larger than usize; lengths next to 125 and 126.
SendCases ==
    {Sending(text, size) : text \in {Hi, Wide}, size \in {0, 1, 2, 3, 4, 1048575, 1048576, 1048578}}
    \cup {Sending(Of(n), 1048575) : n \in (124 .. 127) \cup {65535, 65536}}

\* Frames in the order a server may send them.
ReceiveCases ==
    {Hearing(all) : all \in
       {<<Text(Hi), Ping(<<1, 2>>), Text(Wide), Close(1000, Hi)>>,
        <<Ping(<<1, 2, 3>>), Close(3000, <<>>)>>,
        <<Text(Of(125)), Text(<<>>), Close(1001, <<>>)>>,
        <<Ping(Of(125)), Text(Hi)>>,
        <<Text(Of(126)), Text(Hi)>>,
        <<Server(NOFLAG, TEXT, SubSeq(Wide, 1, 2)), Server(FIN, CONTINUATION, SubSeq(Wide, 3, 4))>>,
        <<Server(NOFLAG, TEXT, SubSeq(Wide, 1, 1)), Server(FIN, CONTINUATION, SubSeq(Wide, 2, 4))>>,
        <<Ping(<<>>), Text(Hi)>>,
        <<Server(FIN, PONG, Hi)>>,
        <<Text(Hi), Server(FIN, 3, Hi), Text(Hi)>>,
        <<Text(Hi), Server(FIN, 4, Hi), Text(Hi)>>,
        <<Server(FIN + 16, TEXT, Hi)>>}}

\* A PING that no server should send, in the middle of a text.
OverlongCases ==
    {[Sending(Hi, 1) EXCEPT !.frames = <<Ping(Of(n))>>] : n \in 124 .. 130}

\* A text in two frames, which the server's Close may cut short.
CutCases == {[Sending(Hi, 1) EXCEPT !.frames = <<Text(Hi), Close(1000, Hi)>>]}

ResponseCases ==
    {Refusing(response) : response \in
       {Answer(SwitchingLine, <<<<ACCEPT, <<120>>>>>>, <<>>),
        Answer(SwitchingLine, <<Accepted, <<ACCEPT, <<120>>>>>>, <<>>),
        Answer(SwitchingLine, <<<<KEY, key>>>>, <<>>),
        Answer(SwitchingLine, <<>>, <<>>),
        Answer(OkLine, <<Accepted>>, <<>>),
        Answer(HTTP \o <<SP, 120, SP, 115>>, <<Accepted>>, <<>>),
        Answer(HTTP, <<Accepted>>, <<>>),
        Answer(HTTP \o <<SP>> \o SWITCHING, <<Accepted>>, <<>>),
        SwitchingLine \o END_LINE \o <<120>> \o END_LINE \o END_LINE}}
    \cup
    {[Plain EXCEPT !.response = response, !.frames = <<Text(Hi)>>] : response \in
       {Answer(SwitchingLine, <<<<<<97>>, accept>>>>, <<>>),
        Answer(SwitchingLine, <<<<ACCEPT, <<120>>>>, Accepted>>, <<>>),
        Answer(SwitchingLine \o <<255>>, <<Accepted>>, <<>>),
        Answer(SwitchingLine \o <<237, 160, 128>> \o Replacement, <<Accepted>>, <<>>),
        Answer(SwitchingLine, <<Accepted>>, Hi)}}
    \cup
    {[Plain EXCEPT !.protocols = <<<<Chat, SuperChat>>>>, !.protocol = <<SuperChat>>,
                   !.response = Answer(SwitchingLine, <<<<PROTOCOL, SuperChat \o <<255>>>>, Accepted>>, <<>>)],
     [Plain EXCEPT !.protocols = <<<<Chat>>>>],
     [Plain EXCEPT !.protocols = <<<<>>>>]}

AllCases    == SendCases \cup ReceiveCases \cup OverlongCases \cup CutCases \cup ResponseCases
LongFrames  == {Hearing(<<Text(Of(126)), Text(Hi)>>)}
Keys        == {<<0, 85, 170, 255>>, <<255, 1, 2, 3>>}
CasePayloads == {c.payload : c \in AllCases}
CaseSizes   == {c.size : c \in AllCases}
=============================================================================
