------------------------------ MODULE WSEvents ------------------------------
(***************************************************************************)
(* The things the client queues, writes and reads (client.rs, enum Event;  *)
(* frame.rs and header.rs for what a frame carries).  Every one of them is *)
(* an item: a frame, an HTTP message, or the absence of an event.          *)
(*                                                                         *)
(*   op   what the item is; TEXT stands for BINARY too, which the client   *)
(*        treats alike; UNDEFINED is a frame with opcode 0x3 or 0xB,       *)
(*        RESERVED one whose first byte bytes_to_frame refuses, TORN the   *)
(*        leading bytes of a frame whose write stopped half way            *)
(*   fin  the flag is exactly FLAG::FIN                                    *)
(*   val  which item it is: the key of a request or an accepting response  *)
(*        (0: the response does not accept), the number of a data frame or *)
(*        a ping, the status of a Close; 0 for a control frame stands for  *)
(*        a payload of fewer than two bytes                                *)
(*   cut  where the payload splits a UTF-8 character: "whole" nowhere,     *)
(*        "head" it ends inside one, "tail" it begins inside one; a        *)
(*        response that is cut is the rest of one                          *)
(***************************************************************************)
EXTENDS Naturals, Sequences

DataOps    == {"TEXT", "CONTINUATION"}
ControlOps == {"PING", "PONG", "CLOSE", "UNDEFINED"}
HttpOps    == {"REQUEST", "RESPONSE"}
Ops        == DataOps \cup ControlOps \cup HttpOps
                 \cup {"RESERVED", "TORN", "NO_DATA"}

Item == [op : Ops, fin : BOOLEAN, val : Nat, cut : {"whole", "head", "tail"}]

Make(op, val) == [op |-> op, fin |-> TRUE, val |-> val, cut |-> "whole"]
NoData        == Make("NO_DATA", 0)

IsData(item)         == item.op \in DataOps
IsControl(item)      == item.op \in ControlOps
is_websocket_data(item) == IsData(item) \/ IsControl(item)

Numbers(items)  == [i \in DOMAIN items |-> items[i].val]
DataIn(items)   == SelectSeq(items, IsData)

(***************************************************************************)
(* String::from_utf8 on the concatenation of payloads: no character is     *)
(* left open, closed without being open, or interrupted.                   *)
(***************************************************************************)
from_utf8(pieces) ==
    \A i \in DOMAIN pieces :
        /\ pieces[i].cut = "head" => i < Len(pieces) /\ pieces[i + 1].cut = "tail"
        /\ pieces[i].cut = "tail" => i > 1 /\ pieces[i - 1].cut = "head"

(***************************************************************************)
(* The status the client answers a Close with.  The constants of WSStatus  *)
(* cover every bit below 1024, so from_bits refuses only what is larger;   *)
(* evaulate_status_code then keeps three statuses and turns the rest into  *)
(* PROTOCOL_ERROR.                                                         *)
(***************************************************************************)
PROTOCOL_ERROR         == 1002
from_bits(code)        == IF code < 1024 THEN code ELSE PROTOCOL_ERROR
evaulate_status_code(code) == code \notin {1000, 1001, 1004}
ReplyStatus(code) ==
    IF evaulate_status_code(from_bits(code)) THEN PROTOCOL_ERROR ELSE code

(***************************************************************************)
(* The bytes "HTTP/1.1 101 ..." read as a frame: 'H' carries the opcode of *)
(* Close, 'T' a length of 84, and the status is "TP".  The rest of the     *)
(* response, behind those 86 bytes, stays in recv_storage: it accepts no   *)
(* key that is generated later.                                            *)
(***************************************************************************)
ResponseAsFrame == Make("CLOSE", 21584)
RestOfResponse  == [Make("RESPONSE", 0) EXCEPT !.cut = "tail"]
=============================================================================
