------------------------------ MODULE KeyCode ------------------------------
(***************************************************************************)
(* The text of an access key (src/memory/key.rs): six random bytes, the     *)
(* days as a big-endian i16, four bytes of distributor, three bytes of an   *)
(* HMAC and a checksum byte, in base32 and in groups of five.  Somebody     *)
(* types it in, with slips, in lower case or without the dashes, and        *)
(* get_key_validate_handler answers (src/bin/api/http/handlers/key.rs).     *)
(*                                                                         *)
(* A symbol of base32 is its value, 0..31.                                 *)
(***************************************************************************)
EXTENDS Integers, Sequences, SequencesExt, FiniteSetsExt

CONSTANTS
  Randoms,       \* the random bytes
  Days,          \* days of a key, i16
  Distributors,  \* four bytes each
  Sign(_),       \* the first three bytes of the HMAC
  Slips,         \* the symbols a finger may hit
  MaxSlips,      \* bound on slips
  Invalid

VARIABLES
  key,    \* the row of the key issued: its days, distributor and code
  typed,  \* what is typed in: symbols, case and dashes
  slips   \* slips so far

codeVars == <<key, typed, slips>>

-----------------------------------------------------------------------------
(* base32, alphabet of RFC 4648 without padding.                           *)

\* Bit i, from 0 at the left, of a sequence of digits of w bits; 0 past the end.
Bit(s, w, i) ==
  IF i >= w * Len(s) THEN 0 ELSE (s[i \div w + 1] \div 2 ^ (w - 1 - (i % w))) % 2

\* The digit of w bits that starts at bit i.
Digit(s, from, w, i) ==
  FoldSet(LAMBDA j, sum : sum + Bit(s, from, i + j) * 2 ^ (w - 1 - j), 0, 0..(w - 1))

Encode(bytes) ==
  [k \in 1..((8 * Len(bytes) + 4) \div 5) |-> Digit(bytes, 8, 5, 5 * (k - 1))]

Decode(symbols) ==
  [k \in 1..((5 * Len(symbols)) \div 8) |-> Digit(symbols, 5, 8, 8 * (k - 1))]

-----------------------------------------------------------------------------
(* Code.                                                                   *)

\* i16::to_be_bytes and from_be_bytes.
ToBeBytes(n) == LET u == IF n < 0 THEN n + 65536 ELSE n IN <<u \div 256, u % 256>>
FromBeBytes(b) == LET u == 256 * b[1] + b[2] IN IF u >= 32768 THEN u - 65536 ELSE u

\* Mutant: a byte short.
ChecksumShort(data) == FoldLeft(LAMBDA sum, b : (sum + b) % 256, 0, Front(data))

\* wrapping_add on u8.
Checksum(data) == FoldLeft(LAMBDA sum, b : (sum + b) % 256, 0, data)

\* Code::new.
New(random, days, distributor) ==
  LET data == random \o ToBeBytes(days) \o distributor
      signed == data \o Sign(data) IN
  Encode(Append(signed, Checksum(signed)))

\* Code::parse, which strips the dashes and upper-cases before it decodes.
Parse(symbols) ==
  LET bytes == Decode(symbols)
      data == SubSeq(bytes, 1, 12) IN
  IF \/ Len(bytes) # 16
     \/ Checksum(SubSeq(bytes, 1, 15)) # bytes[16]
     \/ Sign(data) # SubSeq(bytes, 13, 15)
    THEN Invalid
    ELSE <<FromBeBytes(SubSeq(data, 7, 8)), SubSeq(data, 9, 12)>>

\* Code::format puts a dash after each five symbols, and the row keeps that text.
Text(symbols) == [symbols |-> symbols, upper |-> TRUE, dashes |-> TRUE]

\* Mutant: the row is looked up by what parse made of the text.
ValidateNormalised(t) ==
  IF Parse(t.symbols) = Invalid THEN 400
  ELSE IF t.symbols = key.code.symbols THEN 200 ELSE 404

\* get_key_validate_handler: parse first, then the row with exactly this text.
Validate(t) ==
  IF Parse(t.symbols) = Invalid THEN 400
  ELSE IF t = key.code THEN 200 ELSE 404

\* post_activate_key_handler finds the key by the text alone.
ActivateFinds(t) == t = key.code

-----------------------------------------------------------------------------
CodeInit ==
  /\ \E r \in Randoms, d \in Days, dist \in Distributors :
       key = [days |-> d, distributor |-> dist, code |-> Text(New(r, d, dist))]
  /\ typed = key.code
  /\ slips = 0

Slip(k, v) ==
  /\ slips < MaxSlips
  /\ typed.symbols[k] # v
  /\ typed' = [typed EXCEPT !.symbols[k] = v]
  /\ slips' = slips + 1
  /\ UNCHANGED key

LowerCase ==
  /\ typed.upper
  /\ typed' = [typed EXCEPT !.upper = FALSE]
  /\ UNCHANGED <<key, slips>>

NoDashes ==
  /\ typed.dashes
  /\ typed' = [typed EXCEPT !.dashes = FALSE]
  /\ UNCHANGED <<key, slips>>

\* Start over from the code as it was printed.
Retype ==
  /\ typed' = key.code
  /\ slips' = 0
  /\ UNCHANGED key

CodeNext == \/ \E k \in 1..Len(typed.symbols), v \in Slips : Slip(k, v)
        \/ LowerCase \/ NoDashes \/ Retype

CodeSpec == CodeInit /\ [][CodeNext]_codeVars

-----------------------------------------------------------------------------
(* Properties.                                                             *)

\* The positions of the typed symbols that are wrong.
Wrong ==
  {k \in 1..Len(typed.symbols) : typed.symbols[k] # key.code.symbols[k]}

\* What Code::new packs, Code::parse unpacks, also negative days and the ends of
\* i16, in any case and with or without dashes.  The checksum alone, without the
\* HMAC, finds one wrong symbol wherever it is, though a symbol may reach into two
\* bytes and the sum wraps, with one exception: the last symbol has two bits to
\* spare, which no byte is decoded from, and so stands for the same code as the
\* three symbols that differ from it there only.  See TamperedFails.
CodeExact ==
  /\ Wrong = {} => Parse(typed.symbols) = <<key.days, key.distributor>>
  /\ Cardinality(Wrong) = 1 /\ Decode(typed.symbols) # Decode(key.code.symbols) =>
       LET bytes == Decode(typed.symbols) IN Checksum(SubSeq(bytes, 1, 15)) # bytes[16]

\* What test_code_invalid_signature asserts of Code::parse: a code with an X (23)
\* for its last symbol "must fail".  It does not when the last symbol was a U (20),
\* which differs from X in the two spare bits only: one code in eight ends in U.
TamperedFails ==
  LET last == Len(typed.symbols) IN
  Wrong = {last} /\ typed.symbols[last] = 23 => Parse(typed.symbols) = Invalid

\* The two handlers agree on every text: activation finds a key exactly when
\* validation called it valid.  An issued code in lower case or without dashes
\* is not found by either, though it is never called "not valid": parse
\* normalises the text and the lookup does not.
HandlersAgree ==
  /\ ActivateFinds(typed) <=> Validate(typed) = 200
  /\ typed.symbols = key.code.symbols => Validate(typed) # 400
=============================================================================
