------------------------------- MODULE SHA256 -------------------------------
(***************************************************************************)
(* class SHA256: the buffering of update() and the padding of digest(),    *)
(* with the code's block of 64 bytes.  transform() is taken as a function  *)
(* that nobody inverts, so m_state is the sequence of the blocks given to  *)
(* it.                                                                     *)
(***************************************************************************)
EXTENDS Integers, Sequences

CONSTANTS
    Byte(_),            \* the i-th byte of the message, beginning with 1
    Chunks,             \* the lengths of the update() calls
    MaxHashed           \* bound: bytes in a message

ASSUME HashAssumption == Chunks \subseteq Nat /\ MaxHashed \in Nat

VARIABLES
    m_state, m_buffer, m_bufLen, m_bitLen,      \* the members of SHA256
    hashed                                      \* bytes given to update() so far

members == <<m_state, m_buffer, m_bufLen, m_bitLen>>
shaVars == <<members, hashed>>

Message(n) == [i \in 1..n |-> Byte(i)]

SHAInit ==
    /\ m_state = <<>> /\ m_bufLen = 0 /\ m_bitLen = 0
    /\ m_buffer = [i \in 0..63 |-> 0]
    /\ hashed = 0

(* The body of update()'s loop. *)
Absorb(ctx, byte) ==
    LET buffer == [ctx.buffer EXCEPT ![ctx.bufLen] = byte]
    IN  IF ctx.bufLen + 1 = 64
        THEN [state |-> Append(ctx.state, buffer), buffer |-> buffer, bufLen |-> 0,
              bitLen |-> ctx.bitLen + 512]
        ELSE [ctx EXCEPT !.buffer = buffer, !.bufLen = @ + 1]

(* The loop: the members after each of len bytes that follow the first     *)
(* `from` bytes of the message.                                            *)
Absorbing(ctx, from, len) ==
    LET after[i \in 0..len] == IF i = 0 THEN ctx ELSE Absorb(after[i - 1], Byte(from + i))
    IN  after

update(len) ==
    LET ctx == [state |-> m_state, buffer |-> m_buffer, bufLen |-> m_bufLen, bitLen |-> m_bitLen]
        new == Absorbing(ctx, hashed, len)[len]
    IN  /\ hashed + len <= MaxHashed
        /\ hashed' = hashed + len
        /\ m_state' = new.state /\ m_buffer' = new.buffer
        /\ m_bufLen' = new.bufLen /\ m_bitLen' = new.bitLen

SHANext == \E len \in Chunks : update(len)

SHASpec == SHAInit /\ [][SHANext]_shaVars

(* The byte k of n, byte 0 being the lowest: uint8_t(n >> 8 * k). *)
ByteAt(n, k) ==
    LET shifted[j \in 0..k] == IF j = 0 THEN n ELSE shifted[j - 1] \div 256
    IN  shifted[k] % 256

(* digest(): the blocks that it has transformed in the end.  The length    *)
(* goes into the last eight bytes, the highest byte first.                 *)
Overflows_OffByOne(bufLen) == bufLen >= 56
Overflows(bufLen) == bufLen > 56

digest ==
    LET totalBits == m_bitLen + m_bufLen * 8
        marked == [m_buffer EXCEPT ![m_bufLen] = 128]
        zeroed(buffer, from, to) == [i \in 0..63 |-> IF i \in from..(to - 1) THEN 0 ELSE buffer[i]]
        full == zeroed(marked, m_bufLen + 1, 64)
        spills == Overflows(m_bufLen + 1)
        rest == IF spills THEN zeroed(full, 0, 56) ELSE zeroed(marked, m_bufLen + 1, 56)
        last == [i \in 0..63 |-> IF i < 56 THEN rest[i] ELSE ByteAt(totalBits, 63 - i)]
    IN  m_state \o (IF spills THEN <<full>> ELSE <<>>) \o <<last>>

-----------------------------------------------------------------------------
(* FIPS 180-4, 5.1.1: a one bit, the fewest zeros that fill up to the last *)
(* 64 bits of a block, and the length of the message in bits.              *)
Padded(n) ==
    LET zeros == CHOOSE k \in 0..63 : (n + 1 + k + 8) % 64 = 0
        length == [i \in 1..8 |-> ByteAt(8 * n, 8 - i)]
    IN  Message(n) \o <<128>> \o [i \in 1..zeros |-> 0] \o length

Blocks(bytes) == [k \in 1..(Len(bytes) \div 64) |-> [i \in 0..63 |-> bytes[64 * (k - 1) + i + 1]]]

(* However a message is cut into update() calls, and wherever its end lies *)
(* in a block, digest() hashes the message padded as the standard says.    *)
PaddingIsStandard == digest = Blocks(Padded(hashed))

=============================================================================
