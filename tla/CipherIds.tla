------------------------------- MODULE CipherIds --------------------------------
(***************************************************************************)
(* The cipher ids of services/traffic_keys.py: an ALGID and a KID leave    *)
(* the decoder as numbers, and are written and read back as text several   *)
(* times before a key matches them.  A text is [prefixed, digits]: whether *)
(* it starts with 0x, and its digits 0..15; one with a digit above 9 can   *)
(* only be hexadecimal.                                                    *)
(***************************************************************************)
EXTENDS Naturals, Sequences

CONSTANT None

\* the P25 registry (_KNOWN_ALGIDS) and the algorithms of the key form (ALGORITHMS)
Known == {128, 129, 131, 132, 133, 134, 137, 159, 170}
Stored == {129, 132, 133, 170}

Value(base, digits) ==
  LET value[i \in 0 .. Len(digits)] == IF i = 0 THEN 0 ELSE value[i - 1] * base + digits[i]
  IN  value[Len(digits)]
IsDecimal(digits) == \A i \in DOMAIN digits : digits[i] < 10

\* how Python writes a number: str(n), and the format 02X
Digits(base, n) ==
  LET digits[m \in 0 .. n] == IF m < base THEN <<m>> ELSE Append(digits[m \div base], m % base)
  IN  digits[n]
Decimal(n) == [prefixed |-> FALSE, digits |-> Digits(10, n)]
Hex(n) == [prefixed |-> FALSE, digits |-> IF n < 16 THEN <<0, n>> ELSE Digits(16, n)]
Prefixed(text) == [text EXCEPT !.prefixed = TRUE]

InRange(n) == IF n <= 65535 THEN n ELSE None

\* parse_int_id: 0x is hexadecimal, anything else decimal if it can be
ParseIntId(text) ==
  InRange(Value(IF text.prefixed \/ ~IsDecimal(text.digits) THEN 16 ELSE 10, text.digits))

\* coerce_kid
CoerceKid(text) == IF text = None THEN None ELSE ParseIntId(text)

\* Mutant: the two-digit texts of the registry are read as decimal too.
CoerceAlgidDecimal(text) == IF text = None THEN None ELSE ParseIntId(text)

\* coerce_algid: a decimal text that names no algorithm is hexadecimal when that names one
CoerceAlgid(text) ==
  IF text = None THEN None
  ELSE LET dec == Value(10, text.digits)
           hex == Value(16, text.digits)
       IN  IF text.prefixed \/ ~IsDecimal(text.digits) THEN InRange(hex)
           ELSE IF dec \notin Known /\ dec <= 255 /\ Len(text.digits) <= 2 /\ hex \in Known THEN hex
           ELSE InRange(dec)

\* resolve_encryption_ids, parse_ids_from_details: the details are used for what the fields
\* lack, and their 0x is dropped
FirstOf(a, b) == IF a = None THEN b ELSE a
NoPrefix(text) == IF text = None THEN None ELSE [text EXCEPT !.prefixed = FALSE]
Resolve(event) ==
  [algid |-> FirstOf(FirstOf(CoerceAlgid(event.alg), CoerceAlgid(event.algHex)), CoerceAlgid(NoPrefix(event.details.alg))),
   kid |-> FirstOf(CoerceKid(event.kid), CoerceKid(NoPrefix(event.details.kid)))]

\* describe_cipher: the text an algorithm is known by from here on
Describe(algid) == IF algid = None THEN None ELSE Hex(algid)

\* decrypt_state, for an encrypted call
DecryptState(ids, loaded) ==
  IF ids.algid = None /\ ids.kid = None THEN "METADATA_ONLY"
  ELSE IF loaded THEN "KEY_AVAILABLE"
  ELSE IF ids.algid # None /\ ids.algid \notin Known THEN "UNSUPPORTED"
  ELSE "KEY_NOT_AVAILABLE"

\* collect_heard_keysets and encrypted_badge: what the texts of a row are read as
Keyset(alg, kid) == [algid |-> CoerceAlgid(alg), kid |-> CoerceKid(kid)]

\* the link to the key form: a name of the form, or OTHER with the ALGID
Link(keyset) ==
  [other |-> keyset.algid \notin Stored, algorithm |-> keyset.algid,
   algid |-> Prefixed(Hex(keyset.algid)), kid |-> Decimal(keyset.kid)]

\* validate_key and add_key: the key the form stores, None when it is refused
FormKey(form) ==
  LET algid == IF form.other THEN ParseIntId(form.algid) ELSE form.algorithm
  IN  IF algid \in {None, 128} \/ ParseIntId(form.kid) = None THEN None
      ELSE [algid |-> algid, kid |-> ParseIntId(form.kid)]
================================================================================
