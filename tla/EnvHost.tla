------------------------------- MODULE EnvHost -------------------------------
(***************************************************************************)
(* The "env" host module of AssemblyScript guests (pkg/plugin/env_host.go): *)
(* abort and console.log read their string arguments out of the guest's    *)
(* linear memory with readAssemblyScriptString.                            *)
(*                                                                         *)
(* Memory is a byte array mem[0 .. MemSize-1] (a byte is 0..255).  The     *)
(* guest lays a string out as AssemblyScript does: the byte length as a    *)
(* little-endian uint32 at ptr-4, the UTF-16LE code units from ptr on.     *)
(* A guest owns its memory and may also leave any other length there.      *)
(* A decoded string is the byte sequence Go's string holds; the host's     *)
(* placeholders are kept as their text; a Go panic is a result of its own. *)
(***************************************************************************)
EXTENDS Naturals, Sequences

CONSTANTS
  MemSize,      \* bytes of guest memory (a real instance has whole 64 KiB pages)
  CodeUnits,    \* UTF-16 code units a guest string may hold
  MaxUnits,     \* longest string a guest stores
  Lengths,      \* byte lengths a guest may leave in a header other than its own
  MaxWrites     \* bound on the guest's writes

ASSUME MemSize \in Nat /\ CodeUnits \subseteq 0..65535 /\ Lengths \subseteq Nat

VARIABLES mem, hasMem, writes, reads

vars == <<mem, hasMem, writes, reads>>

Addr == 0..MemSize-1
Ptrs == 0..MemSize
MaxStringBytes == 1024 * 1024

(* mem.Read(offset, n): ok only when the whole range lies in memory.        *)
ReadOK(off, n) == off + n <= MemSize
ReadBytes(off, n) == [i \in 1..n |-> mem[off + i - 1]]

(* The little-endian uint32 of four bytes.  TLC's integers are signed 32  *)
(* bit, so a value with a non-zero top byte is never computed: it is above *)
(* the 1 MiB guard, which is all the code does with it.                    *)
LE24(bs) == bs[1] + 256 * bs[2] + 65536 * bs[3]
AboveGuard(bs) == bs[4] > 0 \/ LE24(bs) > MaxStringBytes
LEBytes(n) == <<n % 256, (n \div 256) % 256, (n \div 65536) % 256, (n \div 16777216) % 256>>

(* The UTF-8 bytes utf16LEToString appends for one code unit low+256*high. *)
UnitBytes(low, high) ==
  LET cp == low + 256 * high
  IN  IF high = 0 THEN <<low>>
      ELSE IF cp < 128 THEN <<cp>>
      ELSE IF cp < 2048 THEN <<192 + cp \div 64, 128 + (cp % 64)>>
      ELSE <<224 + cp \div 4096, 128 + ((cp \div 64) % 64), 128 + (cp % 64)>>

(* utf16LEToString: two bytes at a time.                                   *)
RECURSIVE Utf16LEToString(_)
Utf16LEToString(data) ==
  IF Len(data) < 2 THEN <<>>
  ELSE UnitBytes(data[1], data[2]) \o Utf16LEToString(SubSeq(data, 3, Len(data)))

(* A result: the bytes of a decoded Go string, a placeholder string of the *)
(* host, or a panic.                                                       *)
Str(bs) == [bytes |-> bs]
Placeholder(t) == [text |-> t]
Panic == [panic |-> TRUE]

(* ptr-4 in uint32 arithmetic is 2^32-4+ptr below 4: beyond any memory.  *)
HeaderOK(ptr) == ptr >= 4 /\ ReadOK(ptr - 4, 4)

(* readAssemblyScriptString.                                               *)
ReadAssemblyScriptString(ptr) ==
  LET hdr == ReadBytes(ptr - 4, 4)
      n   == LE24(hdr)
  IN  IF ptr = 0 THEN Str(<<>>)
      ELSE IF ~hasMem THEN Placeholder("<no memory>")
      ELSE IF ~HeaderOK(ptr) THEN Placeholder("<invalid ptr>")
      ELSE IF AboveGuard(hdr) THEN Placeholder("<string too large>")
      ELSE IF ~ReadOK(ptr, n) THEN Placeholder("<read error>")
      \* the loop reads data[i+1] past the end of an odd length
      ELSE IF n % 2 = 1 THEN Panic
      ELSE Str(Utf16LEToString(ReadBytes(ptr, n)))

Init ==
  /\ mem = [a \in Addr |-> 0]
  /\ hasMem \in BOOLEAN
  /\ writes = 0
  /\ reads = <<>>

(* The guest runtime allocates a string: its byte length at ptr-4, then    *)
(* each code unit low byte first.                                          *)
GuestStore(p, us) ==
  LET data == [i \in 1..2 * Len(us) |->
                 IF i % 2 = 1 THEN us[(i + 1) \div 2] % 256 ELSE us[i \div 2] \div 256]
      bytes == LEBytes(2 * Len(us)) \o data
  IN  /\ writes < MaxWrites /\ hasMem
      /\ p >= 4 /\ p + 2 * Len(us) <= MemSize
      /\ mem' = [a \in Addr |-> IF a \in p - 4 .. p - 5 + Len(bytes)
                                  THEN bytes[a - p + 5] ELSE mem[a]]
      /\ writes' = writes + 1
      /\ UNCHANGED <<hasMem, reads>>

(* The guest leaves some other length in a header.                         *)
GuestSetLength(p, n) ==
  /\ writes < MaxWrites /\ hasMem
  /\ p >= 4
  /\ mem' = [a \in Addr |-> IF a \in p - 4 .. p - 1 THEN LEBytes(n)[a - p + 5] ELSE mem[a]]
  /\ writes' = writes + 1
  /\ UNCHANGED <<hasMem, reads>>

Read(p) == [ptr |-> p, mem |-> mem, val |-> ReadAssemblyScriptString(p)]

(* consoleLog: one string.                                                 *)
ConsoleLog(p) ==
  /\ reads' = <<Read(p)>>
  /\ UNCHANGED <<mem, hasMem, writes>>

(* abort: the message and the file name (line and column are only logged). *)
Abort(mp, fp) ==
  /\ reads' = <<Read(mp), Read(fp)>>
  /\ UNCHANGED <<mem, hasMem, writes>>

Next ==
  \/ \E p \in Ptrs, us \in UNION {[1..k -> CodeUnits] : k \in 0..MaxUnits} : GuestStore(p, us)
  \/ \E p \in Ptrs, n \in Lengths : GuestSetLength(p, n)
  \/ \E p \in Ptrs : ConsoleLog(p)
  \/ \E mp, fp \in Ptrs : Abort(mp, fp)

Spec == Init /\ [][Next]_vars

-----------------------------------------------------------------------------
(* The reference the specification names: UTF-16 decoded as Go's          *)
(* unicode/utf16.Decode does (a surrogate pair is one code point, a lone   *)
(* surrogate U+FFFD), each code point then encoded in UTF-8.               *)
IsHighSurrogate(u) == u \in 55296..56319
IsLowSurrogate(u) == u \in 56320..57343

RECURSIVE DecodeUTF16(_)
DecodeUTF16(us) ==
  IF us = <<>> THEN <<>>
  ELSE IF Len(us) >= 2 /\ IsHighSurrogate(us[1]) /\ IsLowSurrogate(us[2])
    THEN <<65536 + (us[1] - 55296) * 1024 + (us[2] - 56320)>>
           \o DecodeUTF16(SubSeq(us, 3, Len(us)))
  ELSE <<IF IsHighSurrogate(us[1]) \/ IsLowSurrogate(us[1]) THEN 65533 ELSE us[1]>>
         \o DecodeUTF16(Tail(us))

EncodeRune(cp) ==
  IF cp < 128 THEN <<cp>>
  ELSE IF cp < 2048 THEN <<192 + cp \div 64, 128 + (cp % 64)>>
  ELSE IF cp < 65536
    THEN <<224 + cp \div 4096, 128 + ((cp \div 64) % 64), 128 + (cp % 64)>>
  ELSE <<240 + cp \div 262144, 128 + ((cp \div 4096) % 64),
         128 + ((cp \div 64) % 64), 128 + (cp % 64)>>

RECURSIVE EncodeUTF8(_)
EncodeUTF8(cps) ==
  IF cps = <<>> THEN <<>> ELSE EncodeRune(Head(cps)) \o EncodeUTF8(Tail(cps))

(* The code units of a whole UTF-16LE byte string.                         *)
UnitsOf(data) == [i \in 1..Len(data) \div 2 |-> data[2 * i - 1] + 256 * data[2 * i]]

(* The string a read should give when the header and the data lie in       *)
(* memory and the length is a whole number of code units.                  *)
Expected(r) ==
  LET hdr  == [i \in 1..4 |-> r.mem[r.ptr - 5 + i]]
      n    == LE24(hdr)
      data == [i \in 1..n |-> r.mem[r.ptr + i - 1]]
  IN  IF r.ptr >= 4 /\ hdr[4] = 0 /\ r.ptr + n <= MemSize /\ n % 2 = 0
        THEN Str(EncodeUTF8(DecodeUTF16(UnitsOf(data))))
        ELSE r.val

TypeOK ==
  /\ mem \in [Addr -> 0..255]
  /\ hasMem \in BOOLEAN
  /\ writes \in 0..MaxWrites
  /\ Len(reads) <= 2

(* Spec (module format): the host decodes a guest's UTF-16LE string to     *)
(* UTF-8, and a read that goes out of range gives a placeholder and does   *)
(* not crash the host.  readAssemblyScriptString / utf16LEToString must    *)
(* give the UTF-8 of every well-formed string and never panic.             *)
ReadsAsSpecified ==
  \A i \in DOMAIN reads :
    /\ reads[i].val # Panic
    /\ hasMem => reads[i].val = Expected(reads[i])
=============================================================================
