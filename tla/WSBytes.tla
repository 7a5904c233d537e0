------------------------------- MODULE WSBytes -------------------------------
(***************************************************************************)
(* Frames as bytes: ws_basic/frame.rs, header.rs, mask.rs, core/binary.rs. *)
(*                                                                         *)
(* be64 writes a payload_len below 2^31, TLC's integers, so that the first *)
(* four of its eight bytes are 0; what is read may be any u64.             *)
(***************************************************************************)
EXTENDS Integers, Sequences

Byte == 0 .. 255

\* Exclusive or, bit by bit.
xor(a, b) ==
    LET at(w) == ((a \div w + b \div w) % 2) * w
    IN  at(1) + at(2) + at(4) + at(8) + at(16) + at(32) + at(64) + at(128)

\* to_be_bytes and bytes_to_u16, bytes_to_u64.
be16(n) == <<(n \div 256) % 256, n % 256>>
be64(n) == <<0, 0, 0, 0, n \div 16777216, (n \div 65536) % 256,
                         (n \div 256) % 256, n % 256>>
bytes_to_u16(b) == 256 * b[1] + b[2]
bytes_to_u64(b) ==
    LET word(i) == 256 * b[i] + b[i + 1]
    IN  65536 * (65536 * (65536 * word(1) + word(3)) + word(5)) + word(7)

-----------------------------------------------------------------------------
(* Headers *)

FIN    == 128
NOFLAG == 0

CONTINUATION == 0
TEXT         == 1
BINARY       == 2
CLOSE        == 8
PING         == 9
PONG         == 10

\* OPCODE::from_bits accepts every union of the declared bits.
Opcodes == {0, 1, 2, 3, 8, 9, 10, 11}

Masks == [1 .. 4 -> Byte]

\* mask_key is the mask, or <<>> for None.
Header(flag, code, mask_key, payload_len) ==
    [flag |-> flag, code |-> code, mask_key |-> mask_key, payload_len |-> payload_len]

\* 125 already takes the longer form.
length(n) ==
    IF n < 125 THEN <<n>> ELSE IF n <= 65535 THEN <<126>> \o be16(n) ELSE <<127>> \o be64(n)

\* The mask bit is that of the second byte.
header_bytes(h) ==
    LET bytes == length(h.payload_len)
    IN  <<h.flag + h.code>>
          \o [bytes EXCEPT ![1] = @ + (IF h.mask_key = <<>> THEN 0 ELSE 128)]
          \o h.mask_key

-----------------------------------------------------------------------------
(* Frames *)

DataFrame(flag, code, data, mask) ==
    [header |-> Header(flag, code, mask, Len(data)), data |-> data]

\* status holds the two bytes of a status code, or nothing.  What does not fit
\* in 125 bytes is announced as 125 and cut to 124.
ControlFrame(flag, code, status, data, mask) ==
    LET fits == Len(status) + Len(data) <= 125
    IN  [header |-> Header(flag, code, mask,
                           IF fits THEN Len(status) + Len(data) ELSE 125),
         data   |-> status \o (IF fits THEN data ELSE SubSeq(data, 1, 124 - Len(status)))]

IsDataCode(code)    == code \in {CONTINUATION, TEXT, BINARY}
IsControlCode(code) == code \in {CLOSE, PING, PONG}

masked_Restarts(data, mask) ==      \* faulty: the index is reset one byte late
    [i \in DOMAIN data |-> xor(data[i], mask[IF i = 5 THEN 4 ELSE 1 + ((i - 1) % 4)])]

masked(data, mask) ==
    [i \in DOMAIN data |-> xor(data[i], mask[1 + ((i - 1) % 4)])]

serialize(frame) ==
    header_bytes(frame.header)
      \o (IF frame.header.mask_key = <<>> THEN frame.data
          ELSE masked(frame.data, frame.header.mask_key))

-----------------------------------------------------------------------------
(* bytes_to_frame: what the first bytes of recv_storage are. *)

Incomplete   == [kind |-> "none"]
Refused      == [kind |-> "InvalidFrame"]
OutOfBounds  == [kind |-> "panic"]
Frame(f, offset) == [kind |-> "frame", frame |-> f, offset |-> offset]

\* Where the payload starts and how long it is, by the seven bits of its length.
payload_at(short) == CASE short = 126 -> 4 [] short = 127 -> 10 [] OTHER -> 2
payload_len(bytes, short) ==
    CASE short = 126 -> bytes_to_u16(SubSeq(bytes, 3, 4))
      [] short = 127 -> bytes_to_u64(SubSeq(bytes, 3, 10))
      [] OTHER -> short

\* payload_len + i is more than a u64 holds: an overflow, or a slice that ends
\* before it begins.
overflows(bytes, short) ==
    short = 127 /\ (\A k \in 3 .. 9 : bytes[k] = 255) /\ bytes[10] >= 246

\* The code is taken from five bits.  The mask bit is never found set (172).
\* A control frame is cut into a status and the rest before it is known to have
\* either, where the rest ends as if its length had one byte, and an extended
\* length is read before it has arrived.
bytes_to_frame(bytes) ==
    LET flag  == bytes[1] - (bytes[1] % 16)
        code  == bytes[1] % 32
        short == bytes[2] % 128
        i     == payload_at(short)
        len   == payload_len(bytes, short)
    IN  IF Len(bytes) < 2 THEN Incomplete
        ELSE IF code \notin Opcodes THEN Refused
        ELSE IF Len(bytes) < i \/ overflows(bytes, short) THEN OutOfBounds
        ELSE IF len + i > Len(bytes) THEN Incomplete
        ELSE IF IsDataCode(code)
             THEN Frame(DataFrame(flag, code, SubSeq(bytes, i + 1, i + len), <<>>), i + len)
        ELSE IF len < i THEN OutOfBounds
        ELSE Frame(ControlFrame(flag, code, SubSeq(bytes, i + 1, i + 2),
                                SubSeq(bytes, i + 3, len + 2), <<>>), i + len)

-----------------------------------------------------------------------------
(***************************************************************************)
(* Rust strings.  char_len is the length a leading byte announces, 0 if it *)
(* does not lead; second is what may follow it in a well-formed character. *)
(***************************************************************************)
char_len(b) ==
    CASE b < 128 -> 1
      [] b \in 194 .. 223 -> 2
      [] b \in 224 .. 239 -> 3
      [] b \in 240 .. 244 -> 4
      [] OTHER -> 0

Continues(b) == b \in 128 .. 191

second(b) ==
    CASE b = 224 -> 160 .. 191
      [] b = 237 -> 128 .. 159
      [] b = 240 -> 144 .. 191
      [] b = 244 -> 128 .. 143
      [] OTHER -> 128 .. 191

\* A whole character begins at the i-th byte.
char_at(bytes, i) ==
    LET n == char_len(bytes[i])
    IN  /\ n > 0 /\ i + n - 1 <= Len(bytes)
        /\ n > 1 => bytes[i + 1] \in second(bytes[i])
        /\ \A j \in i + 2 .. i + n - 1 : Continues(bytes[j])

\* Every byte is one of a whole character.
from_utf8(bytes) ==
    \A i \in DOMAIN bytes :
        \E back \in 0 .. 3 :
            /\ back < i /\ char_at(bytes, i - back)
            /\ back < char_len(bytes[i - back])

\* Where a &str may be sliced.
is_char_boundary(bytes, at) == at < Len(bytes) => ~Continues(bytes[at + 1])
=============================================================================
