------------------------------- MODULE WsFrame -------------------------------
(***************************************************************************)
(* WebSocket frames: src/src/websockets/ws_frame.c and the checks on       *)
(* payloads of ws_conn.c.  A byte is a record: its value, its role in      *)
(* UTF-8, and the key bytes that are XORed into it; XOR with a key byte    *)
(* twice takes it out again.                                               *)
(***************************************************************************)
EXTENDS Integers, Sequences

Byte(v, role) == [v |-> v, c |-> role, k |-> {}]

CONT == 0
TEXT == 1
BINARY == 2
CLOSE == 8
PING == 9
PONG == 10

IsControl(opcode) == (opcode \div 8) % 2 = 1

FIN_BIT == 128
RSV1_BIT == 64
MASK_BIT == 128
LEN16_CODE == 126
LEN64_CODE == 127

\* The n bytes of a number, big-endian.
BigEndian(len, n) ==
  LET shifted[i \in 0 .. n] == IF i = 0 THEN len ELSE shifted[i - 1] \div 256
  IN [i \in 1 .. n |-> shifted[n - i] % 256]

Bit(set, bit) == IF set THEN bit ELSE 0

\* key is the empty sequence for a frame that is not masked.
ws_frame_build_header(fin, rsv1, opcode, key, len) ==
  LET mask == Bit(key # <<>>, MASK_BIT)
      head == <<Bit(fin, FIN_BIT) + Bit(rsv1, RSV1_BIT) + opcode>>
              \o (IF len < LEN16_CODE THEN <<mask + len>>
                  ELSE IF len <= 65535 THEN <<mask + LEN16_CODE>> \o BigEndian(len, 2)
                  ELSE <<mask + LEN64_CODE>> \o BigEndian(len, 8))
  IN [i \in DOMAIN head |-> Byte(head[i], "one")] \o key

Number(bytes) ==
  LET f[i \in 0 .. Len(bytes)] == IF i = 0 THEN 0 ELSE f[i - 1] * 256 + bytes[i].v
  IN f[Len(bytes)]

\* n is the length of the header; 0: it is not complete; -1: it is malformed.
ws_frame_parse_header(buf) ==
  LET len7 == buf[2].v % 128
      mask == buf[2].v >= MASK_BIT
      ext  == IF len7 < LEN16_CODE THEN 0 ELSE IF len7 = LEN16_CODE THEN 2 ELSE 8
      n    == 2 + ext + (IF mask THEN 4 ELSE 0)
  IN IF Len(buf) < 2 THEN [n |-> 0]
     ELSE IF Len(buf) < 2 + ext THEN [n |-> 0]
     ELSE IF ext = 8 /\ buf[3].v >= 128 THEN [n |-> -1]
     ELSE IF Len(buf) < n THEN [n |-> 0]
     ELSE [n |-> n,
           fin |-> buf[1].v >= FIN_BIT, rsv1 |-> (buf[1].v \div 64) % 2 = 1,
           rsv2 |-> (buf[1].v \div 32) % 2 = 1, rsv3 |-> (buf[1].v \div 16) % 2 = 1,
           opcode |-> buf[1].v % 16, mask |-> mask,
           payload_len |-> IF ext = 0 THEN len7 ELSE Number(SubSeq(buf, 3, 2 + ext)),
           mask_key |-> SubSeq(buf, 3 + ext, n)]

Xor(byte, key) == [byte EXCEPT !.k = IF key.v \in @ THEN @ \ {key.v} ELSE @ \cup {key.v}]

\* offset is the place of the first byte in the payload of its frame.
ws_frame_apply_mask_offset(payload, key, offset) ==
  [i \in DOMAIN payload |-> Xor(payload[i], key[((offset + i - 1) % 4) + 1])]

ws_frame_apply_mask(payload, key) == ws_frame_apply_mask_offset(payload, key, 0)

-----------------------------------------------------------------------------
(* Checks on payloads. *)

\* Roles: "one" (a code point of one byte), "lead" and "trail" (of two; longer code
\* points are alike) and "bad" (no UTF-8 at all).
ws_utf8_validate(bytes) ==
  \A i \in DOMAIN bytes :
    /\ bytes[i].c # "bad"
    /\ bytes[i].c = "lead" => i < Len(bytes) /\ bytes[i + 1].c = "trail"
    /\ bytes[i].c = "trail" => i > 1 /\ bytes[i - 1].c = "lead"

ws_close_code_valid(code) ==
  /\ code >= 1000 /\ code <= 4999
  /\ code \notin {1004, 1005, 1006, 1015}
  /\ ~(1016 <= code /\ code <= 2999)
=============================================================================
