------------------------------- MODULE CRC32 -------------------------------
(***************************************************************************)
(* class CRC32: the loop of calculate() over its table, beside the         *)
(* definition of the checksum by division of polynomials over GF(2).       *)
(***************************************************************************)
EXTENDS Endian

CONSTANTS
    SampleBytes,        \* the bytes that a message is made of
    MaxMessage          \* bound: bytes in a message

ASSUME MessageAssumption == SampleBytes \subseteq Word(8) /\ MaxMessage \in Nat

VARIABLES
    message,            \* data[0..i-1]
    crc                 \* the local of calculate()

crcVars == <<message, crc>>

(* 0xEDB88320 *)
Polynomial == {31, 30, 29, 27, 26, 24, 23, 21, 20, 19, 15, 9, 8, 5}

Divided(c) ==
    IF 0 \in c THEN Xor(Polynomial, ShiftRight(c, 1)) ELSE ShiftRight(c, 1)

table_SevenSteps ==
    [byte \in Word(8) |->
       Divided(Divided(Divided(Divided(Divided(Divided(Divided(byte)))))))]

(* The lookup table: eight steps of the division for each byte. *)
table ==
    [byte \in Word(8) |->
       Divided(Divided(Divided(Divided(Divided(Divided(Divided(Divided(byte))))))))]

CRCInit == message = <<>> /\ crc = 0..31

(* One turn of the loop in calculate(). *)
CRCNext ==
    \E byte \in SampleBytes :
      /\ Len(message) < MaxMessage
      /\ message' = Append(message, byte)
      /\ crc' = Xor(table[Low(Xor(crc, byte), 8)], ShiftRight(crc, 8))

CRCSpec == CRCInit /\ [][CRCNext]_crcVars

(* What calculate() returns for the message. *)
calculate == Not(crc, 32)

-----------------------------------------------------------------------------
(* IEEE 802.3: the message as a polynomial, its first bit (the lowest of   *)
(* its first byte) the highest exponent; times x^32; its 32 highest terms  *)
(* complemented; modulo G; complemented, and read with x^31 as bit 0.      *)

G == {32, 26, 23, 22, 16, 12, 11, 10, 8, 7, 5, 4, 2, 1, 0}

Dividend(data) ==
    LET bits == 8 * Len(data)
        terms == UNION {{bits + 31 - (8 * (i - 1) + b) : b \in data[i]} : i \in DOMAIN data}
    IN  Xor(terms, bits..(bits + 31))

(* The term x^d goes by subtracting x^(d-32) * G. *)
Reduced(p, d) == IF d \in p THEN Xor(p, ShiftLeft(G, d - 32)) ELSE p

Remainder(data) ==
    LET top == 8 * Len(data) + 31
        rest[d \in 31..top] == IF d = top THEN Dividend(data) ELSE Reduced(rest[d + 1], d + 1)
    IN  rest[31]

(* The table-driven loop computes the checksum of the standard.            *)
CRCIsStandard == calculate = {31 - d : d \in Not(Remainder(message), 32)}

(* What is stored with putLE is read back by getLE: the checksum; and a    *)
(* timestamp in two halves, whose bytes are those of one 64-bit integer.   *)
StoredWordsReadBack ==
    LET ts == calculate \cup ShiftLeft(crc, 32)
        stored == putLE32(timestamp_low(ts)) \o putLE32(timestamp_high(ts))
    IN  /\ getLE(putLE32(calculate)) = calculate
        /\ stored = putLE64(ts)
        /\ entryTs(getLE(SubSeq(stored, 5, 8)), getLE(SubSeq(stored, 1, 4))) = ts

=============================================================================
