------------------------------- MODULE WSSend --------------------------------
(***************************************************************************)
(* WSClient::send, client.rs 191-207, one step per turn of its loop, on    *)
(* the bytes of one text.  usize arithmetic wraps, as in a release build.  *)
(***************************************************************************)
EXTENDS WSBytes

CONSTANTS
    Payloads,       \* the texts, as bytes
    MessageSizes,   \* what set_message_size may have stored, a u64
    Usize,          \* 2^32 or 2^64 in a build
    MaskKeys,       \* what gen_mask may return
    MaxFrames       \* bound: the frames of one text

ASSUME SendAssumption ==
    /\ Usize \in Nat \ {0}
    \* no Rust object is larger than isize::MAX
    /\ \A payload \in Payloads : payload \in Seq(Byte) /\ 2 * Len(payload) < Usize
    /\ MessageSizes \subseteq Nat
    /\ MaskKeys \subseteq Masks
    /\ MaxFrames \in Nat

VARIABLES
    pc,             \* "send" in the loop, "sent" after it, "panicked"
    payload,
    message_size,
    data_sent,
    frames          \* the frames that this send has pushed, in order

sendVars == <<pc, payload, message_size, data_sent, frames>>

SendInit ==
    /\ pc = "send" /\ data_sent = 0 /\ frames = <<>>
    /\ payload \in Payloads /\ message_size \in MessageSizes

as_usize_Whole(n) == n          \* faulty: nothing is cut off

as_usize(n) == n % Usize

\* data_sent + message_size as usize
Unwrapped == data_sent + as_usize(message_size)
advanced  == Unwrapped % Usize
chunk_end == IF advanced >= Len(payload) THEN Len(payload) ELSE advanced

Flag_Strict == IF advanced > Len(payload) THEN FIN ELSE NOFLAG     \* faulty

Flag == IF advanced >= Len(payload) THEN FIN ELSE NOFLAG
Code == IF data_sent = 0 THEN TEXT ELSE CONTINUATION

Slices == data_sent <= chunk_end /\ is_char_boundary(payload, data_sent)
                          /\ is_char_boundary(payload, chunk_end)

push ==
    /\ pc = "send" /\ data_sent < Len(payload) /\ Slices
    /\ Len(frames) < MaxFrames
    /\ \E mask \in MaskKeys :
          frames' = Append(frames,
              DataFrame(Flag, Code, SubSeq(payload, data_sent + 1, chunk_end), mask))
    /\ data_sent' = advanced
    /\ UNCHANGED <<pc, payload, message_size>>

slice_panics ==
    /\ pc = "send" /\ data_sent < Len(payload) /\ ~Slices
    /\ pc' = "panicked"
    /\ UNCHANGED <<payload, message_size, data_sent, frames>>

send_returns ==
    /\ pc = "send" /\ data_sent >= Len(payload)
    /\ pc' = "sent"
    /\ UNCHANGED <<payload, message_size, data_sent, frames>>

SendNext == push \/ slice_panics \/ send_returns

SendSpec == SendInit /\ [][SendNext]_sendVars

-----------------------------------------------------------------------------
SendTypeOK ==
    /\ pc \in {"send", "sent", "panicked"}
    /\ payload \in Payloads
    /\ message_size \in MessageSizes
    /\ data_sent \in Nat
    /\ frames \in Seq([header : [flag : {FIN, NOFLAG}, code : {TEXT, CONTINUATION},
                                 mask_key : Masks, payload_len : Nat],
                       data : Seq(Byte)])

\* The sums of the loop never pass the width of usize, whatever the size set:
\* a size that is cut to usize never wraps (client.rs 197, 201, 205).
NeverWraps == pc = "send" /\ data_sent < Len(payload) => Unwrapped < Usize

Least(a, b) == IF a < b THEN a ELSE b

(***************************************************************************)
(* The frames are the text: the k-th holds its k-th message_size bytes,    *)
(* the first is TEXT and the others CONTINUATION, the flag FIN is on the   *)
(* frame that holds the last byte and on no other, and after the loop that *)
(* frame is there and is the last (client.rs 191-207).                     *)
(***************************************************************************)
TextIsCut ==
    LET size   == as_usize(message_size)
        End(k) == Least(k * size, Len(payload))
    IN  /\ \A k \in DOMAIN frames :
              /\ frames[k].data = SubSeq(payload, (k - 1) * size + 1, End(k))
              /\ frames[k].header.payload_len = Len(frames[k].data)
              /\ frames[k].header.code = IF k = 1 \/ size = 0 THEN TEXT ELSE CONTINUATION
              /\ frames[k].header.flag = IF k * size >= Len(payload) THEN FIN ELSE NOFLAG
              /\ (k - 1) * size < Len(payload)
        /\ pc = "sent" => Len(frames) * size >= Len(payload)
=============================================================================
