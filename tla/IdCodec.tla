------------------------------- MODULE IdCodec -------------------------------
(***************************************************************************)
(* The plugin ID codec (pkg/plugin/id.go): ParsePluginID and               *)
(* CompactPluginID, over the numeric IDs 0..MaxN.                          *)
(*                                                                         *)
(* A string is a sequence of characters; a character of the base-32       *)
(* alphabet "abcdefghijklmnopqrstuvwxyz234567" is its index 0..31 there,   *)
(* so that the indexes 26..31 are the decimal digits '2'..'7'.  Byte       *)
(* values are naturals 0..255.  Each call of the host is one step: it     *)
(* compacts an ID and parses the result back.                              *)
(***************************************************************************)
EXTENDS Naturals, Sequences

CONSTANT MaxN    \* largest numeric ID enumerated (TLC integers are 32 bit)

ASSUME MaxN \in Nat /\ MaxN < 2^24

VARIABLES id, enc, parsed

vars == <<id, enc, parsed>>

Pow(b, e) == b^e

(* The big-endian value of a sequence of symbols of base `base`.           *)
RECURSIVE ValueOf(_, _)
ValueOf(s, base) ==
  IF s = <<>> THEN 0
  ELSE ValueOf(SubSeq(s, 1, Len(s) - 1), base) * base + s[Len(s)]

(* binary.BigEndian.PutUint64 and the loop stripping leading zero bytes,   *)
(* keeping at least one byte.                                              *)
RECURSIVE StrippedBytes(_)
StrippedBytes(n) ==
  IF n < 256 THEN <<n>> ELSE StrippedBytes(n \div 256) \o <<n % 256>>

(* IDEncoding.EncodeToString, no padding: the bits of the bytes cut into   *)
(* 5-bit groups, the last one filled up with zero bits.                    *)
Base32Encode(bs) ==
  LET L == 8 * Len(bs)
      k == (L + 4) \div 5
      v == ValueOf(bs, 256) * Pow(2, 5 * k - L)
  IN  [i \in 1..k |-> (v \div Pow(2, 5 * (k - i))) % 32]

CompactPluginID(n) == Base32Encode(StrippedBytes(n))

(* IDEncoding.DecodeString, no padding: a length of 1, 3 or 6 modulo 8     *)
(* cannot end a quantum and fails; otherwise the whole bytes the 5-bit     *)
(* groups carry are decoded and the leftover low bits dropped.             *)
DecodeOK(s) == Len(s) % 8 \notin {1, 3, 6}
DecodedLen(s) == (5 * Len(s)) \div 8
DecodedValue(s) ==
  ValueOf(s, 32) \div Pow(2, 5 * Len(s) - 8 * DecodedLen(s))

(* strconv.ParseUint(s, 10, 64): a non-empty string of decimal digits.     *)
(* The alphabet's digits are '2'..'7'; a string of at most MaxN's width   *)
(* in characters never exceeds 64 bits.                                    *)
IsDecimal(s) == s # <<>> /\ \A i \in 1..Len(s) : s[i] \in 26..31
DecimalValue(s) == ValueOf([i \in 1..Len(s) |-> s[i] - 24], 10)

(* ParsePluginID: decimal first, then base 32 into at most 8 bytes, then   *)
(* the FNV-1a hash.  The hash is kept symbolic as <<"fnv", s>>: no         *)
(* compacted ID reaches it, and no property computes with it.              *)
ParsePluginID(s) ==
  IF IsDecimal(s) THEN DecimalValue(s)
  ELSE IF DecodeOK(s) /\ DecodedLen(s) <= 8 THEN DecodedValue(s)
  ELSE <<"fnv", s>>

Init ==
  /\ id = 0
  /\ enc = CompactPluginID(0)
  /\ parsed = ParsePluginID(enc)

(* A numeric ID is compacted to its string form and that string parsed    *)
(* back (the round trip of id_test.go's TestCompactPluginID_RoundTrip).    *)
CompactThenParse(n) ==
  /\ id' = n
  /\ enc' = CompactPluginID(n)
  /\ parsed' = ParsePluginID(enc')

Next == \E n \in 0..MaxN : CompactThenParse(n)

Spec == Init /\ [][Next]_vars

-----------------------------------------------------------------------------
TypeOK ==
  /\ id \in 0..MaxN
  /\ enc \in Seq(0..31) /\ enc # <<>>
  /\ parsed \in Nat

(* Spec 4.5 and 8.3: ParsePluginID(CompactPluginID(n)) = n for every ID.   *)
CompactRoundTrip == parsed = id
=============================================================================
