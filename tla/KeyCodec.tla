------------------------------ MODULE KeyCodec ------------------------------
(***************************************************************************)
(* Keys as text: base58.cpp, the encoders and the parsing constructors of  *)
(* private_key and public_key.                                             *)
(*                                                                         *)
(* A byte is a number; a character is its place in pszBase58, from 0, or   *)
(* Space, or Other.  The elliptic curve and the hashes are library code:   *)
(* hash160 and calculate_checksum are parameters.                          *)
(***************************************************************************)
EXTENDS Integers, Sequences, SequencesExt

CONSTANTS
    SecretSize,              \* bytes of a secret, 32 in the code
    HashSize,                \* bytes of a hash160, 20 in the code
    hash160(_),              \* of the curve point of a secret
    calculate_checksum(_, _) \* of a sequence of bytes and a type, 4 bytes

ASSUME SizeAssumption == SecretSize \in Nat /\ HashSize \in Nat

Byte == 0 .. 255

Space == 58
Other == 59

account_public_key == 0
smart_contract_public_key == 87
account_private_key == 128
smart_contract_private_key == 28

----------------------------------------------------------------------------
(* base58.                                                                 *)

Repeat(x, n) == [i \in 1 .. n |-> x]

\* The number of elements x that s starts with, and s without them.
Leading(s, x) == SelectInSeq(Append(s, -1), LAMBDA y : y # x) - 1
Strip(s, x) == SubSeq(s, Leading(s, x) + 1, Len(s))

\* The carries of b * scale + x from the last digit of b to the first.
Carries(digits, x, scale, base) ==
    LET n == Len(digits)
        carry[i \in 0 .. n] ==
            IF i = 0 THEN x ELSE (carry[i - 1] + scale * digits[n + 1 - i]) \div base
    IN  carry

\* b * scale + x, in as many digits as b has (digits beyond the loops' length
\* are 0 and stay 0); what is carried out of the first one must be 0, which is
\* the loops' assertion.
Scaled(b, x, scale, base) ==
    LET n == Len(b.digits)
        carry == Carries(b.digits, x, scale, base)
    IN  [digits |-> [j \in 1 .. n |-> (carry[n - j] + scale * b.digits[j]) % base],
         fits |-> b.fits /\ carry[n] = 0]

\* The number whose digits in base scale are s, in size digits of base.
Convert(s, scale, base, size) ==
    LET b[i \in 0 .. Len(s)] ==
            IF i = 0 THEN [digits |-> Repeat(0, size), fits |-> TRUE]
            ELSE Scaled(b[i - 1], s[i], scale, base)
    IN  b[Len(s)]

\* Room for n bytes in base 58.
EncodedSize(n) == (n * 138) \div 100 + 1

\* Room for n characters in base 256.
DecodedSize(n) == (n * 733) \div 1000 + 1

base58_encode(bytes) ==
    LET s == Strip(bytes, 0)
        b == Convert(s, 256, 58, EncodedSize(Len(s)))
    IN  [text |-> Repeat(0, Leading(bytes, 0)) \o Strip(b.digits, 0), fits |-> b.fits]

\* The number of characters before the first space or the end.
BeforeSpace(text) == SelectInSeq(Append(text, Space), LAMBDA c : c = Space) - 1

\* Mutant of base58_decode: leading '1's stand for nothing.
base58_decode_NoZeroes(text) ==
    LET t == Strip(text, Space)
        b == Convert(t, 58, 256, DecodedSize(Len(t)))
    IN  [ok |-> TRUE, fits |-> b.fits, bytes |-> Strip(b.digits, 0)]

\* The characters up to a space or the end; after them only spaces may come.
\* The room is computed from all that follows the '1's.
base58_decode(text) ==
    LET t == Strip(Strip(text, Space), 0)
        n == BeforeSpace(t)
        b == Convert(SubSeq(t, 1, n), 58, 256, DecodedSize(Len(t)))
        ok == /\ \A i \in 1 .. n : t[i] # Other
              /\ \A i \in n + 1 .. Len(t) : t[i] = Space
    IN  IF ok
        THEN [ok |-> TRUE, fits |-> b.fits,
              bytes |-> Repeat(0, Leading(Strip(text, Space), 0)) \o Strip(b.digits, 0)]
        ELSE [ok |-> FALSE, fits |-> TRUE, bytes |-> <<>>]

----------------------------------------------------------------------------
(* Keys.                                                                   *)

\* private_key::create_public_key of an account's secret.
create_public_key(secret) ==
    LET h == hash160(secret)
    IN  <<account_public_key>> \o h \o calculate_checksum(h, account_public_key)

\* The bytes that private_key::encoded turns into text.
PrivateBytes(secret) ==
    <<account_private_key>> \o secret \o calculate_checksum(secret, account_private_key)

\* The middle of a parsed key, without type and checksum, and the checksum.
Payload(pk) == SubSeq(pk, 2, Len(pk) - 4)
Checksum(pk) == SubSeq(pk, Len(pk) - 3, Len(pk))

\* The constructors from a text, of a key of room bytes.  The result of
\* base58_decode is not looked at: what could not be decoded is an empty
\* vector, whose first byte is undefined.  Neither are lengths.
Parsed(text, types, room) ==
    LET pk == base58_decode(text).bytes
    IN  IF pk = <<>> THEN [outcome |-> "undefined"]
        ELSE IF pk[1] \notin types THEN [outcome |-> "not such a key"]
        ELSE IF Len(pk) < 5 THEN [outcome |-> "undefined"]
        ELSE IF calculate_checksum(Payload(pk), pk[1]) # Checksum(pk)
             THEN [outcome |-> "mismatch"]
        ELSE IF Len(Payload(pk)) > room THEN [outcome |-> "undefined"]
        ELSE [outcome |-> "key", type |-> pk[1], payload |-> Payload(pk)]

private_key(text) == Parsed(text, {account_private_key, smart_contract_private_key}, SecretSize)
public_key(text) == Parsed(text, {account_public_key, smart_contract_public_key}, HashSize)

=============================================================================
