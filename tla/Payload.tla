------------------------------- MODULE Payload -------------------------------
(***************************************************************************)
(* What the four request protocols of kivaloo have in common: big-endian   *)
(* integers of a fixed number of bytes, and keys with a length byte.       *)
(* Byte is the number of values of a byte, 256 in the code: lengths and    *)
(* field widths are those of the code, ranges are scaled with Byte.        *)
(***************************************************************************)
EXTENDS Integers, Sequences, SequencesExt

CONSTANT Byte

U8Max == Byte - 1
U32Max == Byte^4 - 1

(***************************************************************************)
(* sysendian.h.                                                            *)
(***************************************************************************)
Enc(n, x) == [i \in 1 .. n |-> (x \div Byte^(n - i)) % Byte]

Dec(p) == FoldLeft(LAMBDA x, b : x * Byte + b, 0, p)

be32enc(x) == Enc(4, x)

be64enc(x) == Enc(8, x)

be32dec(buf, pos) == Dec(SubSeq(buf, pos + 1, pos + 4))

be64dec(buf, pos) == Dec(SubSeq(buf, pos + 1, pos + 8))

\* The buffer from &buf[pos] on.
From(buf, pos) == SubSeq(buf, pos + 1, Len(buf))

(***************************************************************************)
(* kvldskey.h and kvldskey.c: a key or a value is up to 255 bytes.  A      *)
(* serialization that does not fit in the buffer has length 0.             *)
(***************************************************************************)
kvldskey_serial_size(K) == Len(K) + 1

kvldskey_serialize(K) == <<Len(K)>> \o K

kvldskey_unserialize(buf) ==
  IF buf = <<>> THEN [len |-> 0, K |-> <<>>]
  ELSE IF Len(buf) < buf[1] + 1 THEN [len |-> 0, K |-> <<>>]
  ELSE [len |-> buf[1] + 1, K |-> SubSeq(buf, 2, buf[1] + 1)]

\* The bytes of a C string that is sent with a length byte.
mkstring(s) == <<Len(s) % Byte>> \o s
=============================================================================
