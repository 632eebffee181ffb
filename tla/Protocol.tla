------------------------------ MODULE Protocol ------------------------------
(***************************************************************************)
(* Framing (src/src/common/protocol.cpp): a frame is the length of its     *)
(* body as four bytes, the highest first, and the body.  A body is known   *)
(* by its length here.                                                     *)
(***************************************************************************)
EXTENDS Integers, Sequences

kMaxBodyLength == 8192

encode_header(n) ==
  <<(n \div 16777216) % 256, (n \div 65536) % 256, (n \div 256) % 256, n % 256>>

(* decode_header(): the length it computes, and whether it accepts it.     *)
body_length(h) == h[1] * 16777216 + h[2] * 65536 + h[3] * 256 + h[4]
Accepted(h) == body_length(h) <= kMaxBodyLength

(* make_frame() of a body that fits; one that does not becomes an empty    *)
(* frame, of which nothing is written.                                     *)
Fits(length) == length <= kMaxBodyLength
=============================================================================
