----------------------------- MODULE MCWSClient -----------------------------
(***************************************************************************)
(* Values for TLC.  The cfg of each run picks from these.                  *)
(***************************************************************************)
EXTENDS WSProperties

Frame(op, fin, cut) == [op |-> op, fin |-> fin, val |-> 1, cut |-> cut]

Text        == Frame("TEXT", TRUE, "whole")
Ping        == Frame("PING", TRUE, "whole")
EmptyPing   == [Ping EXCEPT !.val = 0]
PongFrame   == Frame("PONG", TRUE, "whole")
Undefined   == Frame("UNDEFINED", TRUE, "whole")
Reserved    == Frame("RESERVED", TRUE, "whole")
Fragments   == {Frame("TEXT", FALSE, "whole"), Frame("CONTINUATION", TRUE, "whole")}
SplitText   == {Frame("TEXT", FALSE, "head"), Frame("CONTINUATION", TRUE, "tail")}

TextFrames  == {Text}
PingFrames  == {Ping}
TextAndPing == {Text, Ping}
ManyFrames  == {Text, Ping} \cup Fragments
BadFrames   == {Text, EmptyPing, PongFrame, Undefined, Reserved} \cup SplitText

Ascii(len)  == [len |-> len, wide |-> FALSE]
Wide(len)   == [len |-> len, wide |-> TRUE]
OneByte     == {Ascii(1)}
ShortTexts  == {Ascii(1), Ascii(3)}
WideTexts   == {Ascii(1), Wide(4)}
=============================================================================
