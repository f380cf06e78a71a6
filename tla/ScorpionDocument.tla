--------------------------- MODULE ScorpionDocument ---------------------------
(***************************************************************************)
(* crates/scorpion-protocol/src/document.rs: the block format of scorpion  *)
(* documents. Bytes are numbers; the two length fields are big-endian in   *)
(* base Base, which is 256 in the code.                                    *)
(***************************************************************************)
EXTENDS Lines

CONSTANT Base

\* BlockType::from_value and value: the low nibble. A heading is clamped to 1..6, of an
\* unknown type only the nibble is written.
Named == [paragraph |-> 0, link |-> 8, inputLink |-> 9, interactiveLink |-> 10,
          alternateService |-> 11, blockquote |-> 12, preformatted |-> 13, metadata |-> 15]
Clamp(n, low, high) == IF n < low THEN low ELSE IF n > high THEN high ELSE n
TypeValue(type) ==
    CASE type[1] = "heading" -> Clamp(type[2], 1, 6)
      [] type[1] = "unknown" -> type[2] % 16
      [] OTHER -> Named[type[1]]
TypeFromValue(value) ==
    CASE value \in 1..6 -> <<"heading", value>>
      [] \E n \in DOMAIN Named : Named[n] = value -> <<CHOOSE n \in DOMAIN Named : Named[n] = value, 0>>
      [] OTHER -> <<"unknown", value>>

\* Encoding::from_value and value: the high nibble.
Encodings == [tron8 |-> 0, pc |-> 1, iso2022 |-> 2, tron8Rtl |-> 8, iso2022Rtl |-> 10]
EncodingValue(encoding) ==
    IF encoding[1] = "unknown" THEN encoding[2] % 16 ELSE Encodings[encoding[1]]
EncodingFromValue(value) ==
    IF \E n \in DOMAIN Encodings : Encodings[n] = value
    THEN <<CHOOSE n \in DOMAIN Encodings : Encodings[n] = value, 0>>
    ELSE <<"unknown", value>>

Block(type, encoding, attribute, body) ==
    [type |-> type, encoding |-> encoding, attribute |-> attribute, body |-> body]
Tag(block) == 16 * EncodingValue(block.encoding) + TypeValue(block.type)

\* to_be_bytes and from_be_bytes of a field of two or three bytes.
Field2(n) == <<(n \div Base) % Base, n % Base>>
Field3(n) == <<(n \div (Base * Base)) % Base>> \o Field2(n)
Value(bytes) ==
    LET value[i \in 0..Len(bytes)] == IF i = 0 THEN 0 ELSE Base * value[i - 1] + bytes[i]
    IN value[Len(bytes)]

\* Mutant: only the body is checked against its field.
FitsBody(block) == Len(block.body) < Base * Base * Base

\* encode_to refuses what does not fit its field.
Fits(block) == Len(block.attribute) < Base * Base /\ Len(block.body) < Base * Base * Base

EncodeBlock(block) ==
    <<Tag(block)>> \o Field2(Len(block.attribute)) \o block.attribute
        \o Field3(Len(block.body)) \o block.body

\* encode: the first block that does not fit ends it with an error.
Encodable(blocks) == \A i \in DOMAIN blocks : Fits(blocks[i])
Encode(blocks) == FlattenSeq([i \in DOMAIN blocks |-> EncodeBlock(blocks[i])])

----------------------------------------------------------------------------
\* Blocks::read from offset k of bytes: where its fields lie, and whether they are there.
AttributeAt(k) == k + 3
Layout(bytes, k) ==
    LET attribute == IF k + 2 <= Len(bytes) THEN Value(SubSeq(bytes, k + 1, k + 2)) ELSE 0
        bodyAt == AttributeAt(k) + attribute + 3
        known == bodyAt - 1 <= Len(bytes)
        body == IF known THEN Value(SubSeq(bytes, bodyAt - 3, bodyAt - 1)) ELSE 0
    IN [attribute |-> attribute, bodyAt |-> bodyAt, end |-> bodyAt + body,
        whole |-> known /\ bodyAt + body - 1 <= Len(bytes)]
ReadBlock(bytes, k) ==
    LET at == Layout(bytes, k)
    IN Block(TypeFromValue(bytes[k] % 16), EncodingFromValue(bytes[k] \div 16),
             SubSeq(bytes, AttributeAt(k), AttributeAt(k) + at.attribute - 1),
             SubSeq(bytes, at.bodyAt, at.end - 1))

\* The iterator: it ends with the bytes; a block that is not whole is an error which
\* takes the rest with it.
Items(bytes) ==
    LET from[k \in 1..(Len(bytes) + 1)] ==
            IF k = Len(bytes) + 1 THEN [blocks |-> <<>>, truncated |-> FALSE]
            ELSE IF ~Layout(bytes, k).whole THEN [blocks |-> <<>>, truncated |-> TRUE]
            ELSE LET rest == from[Layout(bytes, k).end]
                 IN [rest EXCEPT !.blocks = <<ReadBlock(bytes, k)>> \o @]
    IN from[1]
=============================================================================
