------------------------------- MODULE AuxPow -------------------------------
(***************************************************************************)
(* The decoding in src/auxpow.rs that decides which bytes of a raw block   *)
(* are its proof, and which target its difficulty bits stand for.          *)
(*                                                                         *)
(* A byte has Base values (256 in the code), and the boundaries of the     *)
(* encodings are where the code has them relative to Base, so that a small *)
(* Base has all of them.                                                   *)
(***************************************************************************)
EXTENDS Integers, Sequences

CONSTANTS
    Base,            \* values of a byte
    SOLUTION_OFFSET, \* bytes of the header before the solution (140)
    SolutionLimit,   \* bytes of a solution at most (256 * 1024)
    TargetBytes      \* bytes of a target (32)

ASSUME AuxPowAssumption ==
    /\ {Base, SOLUTION_OFFSET, SolutionLimit, TargetBytes} \subseteq Nat
    /\ Base >= 4 /\ Base % 2 = 0 /\ TargetBytes >= 4
    /\ SolutionLimit > Base * Base /\ SolutionLimit < Base * Base * Base * Base

Byte == 0 .. Base - 1

Power[n \in Nat] == IF n = 0 THEN 1 ELSE Base * Power[n - 1]

\* The number that a sequence of bytes stands for, least significant first.
LittleEndian(bytes) ==
    LET value[n \in 0 .. Len(bytes)] ==
           IF n = 0 THEN 0 ELSE value[n - 1] + bytes[n] * Power[n - 1]
    IN  value[Len(bytes)]

------------------------------------------------------------------------------
(***************************************************************************)
(* The length of the solution.  Markers 0xfd, 0xfe, 0xff announce two,     *)
(* four and eight bytes, and the value must not fit a shorter form.        *)
(***************************************************************************)
Literal(marker) == marker < Base - 3

Wide(marker) ==
    CASE marker = Base - 3 -> [digits |-> 2, smallest |-> Base - 3]
      [] marker = Base - 2 -> [digits |-> 4, smallest |-> Power[2]]
      [] marker = Base - 1 -> [digits |-> 8, smallest |-> Power[4]]

Refused == [value |-> -1, used |-> 0]

\* Mutant: off by one where the two-byte form begins.
decode_compact_size_short(bytes) ==
    IF bytes = <<>> THEN Refused
    ELSE IF Literal(bytes[1]) THEN [value |-> bytes[1], used |-> 1]
    ELSE LET wide == Wide(bytes[1])
             value == LittleEndian(SubSeq(bytes, 2, wide.digits + 1))
         IN IF Len(bytes) <= wide.digits \/ value <= wide.smallest THEN Refused
            ELSE [value |-> value, used |-> wide.digits + 1]

decode_compact_size(bytes) ==
    IF bytes = <<>> THEN Refused
    ELSE IF Literal(bytes[1]) THEN [value |-> bytes[1], used |-> 1]
    ELSE LET wide == Wide(bytes[1])
             value == LittleEndian(SubSeq(bytes, 2, wide.digits + 1))
         IN IF Len(bytes) <= wide.digits \/ value < wide.smallest THEN Refused
            ELSE [value |-> value, used |-> wide.digits + 1]

\* The solutions read from a raw block: one, or none when it is refused.
solution_from_raw_block(raw) ==
    LET length == decode_compact_size(SubSeq(raw, SOLUTION_OFFSET + 1, Len(raw)))
        start == SOLUTION_OFFSET + length.used
        taken == /\ Len(raw) >= SOLUTION_OFFSET /\ length # Refused
                 /\ length.value <= SolutionLimit
                 /\ start + length.value <= Len(raw)
    IN IF taken THEN {SubSeq(raw, start + 1, start + length.value)} ELSE {}

------------------------------------------------------------------------------
(***************************************************************************)
(* The target.  bits are four bytes: the size, and a word of three whose   *)
(* highest bit is the sign.                                                *)
(***************************************************************************)
Word(bits) == bits[2] * Power[2] + bits[3] * Base + bits[4]

Negative(bits) == bits[2] >= Base \div 2

ToBytes(number, count) == [i \in 1 .. count |-> (number \div Power[i - 1]) % Base]

\* Mutant: a word whose highest byte is the highest of the target overflows.
compact_target_narrow(bits) ==
    LET size == bits[1]
        value == IF size <= 3 THEN Word(bits) \div Power[3 - size] ELSE Word(bits)
        offset == IF size <= 3 THEN 0 ELSE size - 3
    IN IF Word(bits) = 0 \/ Negative(bits) \/ offset + 3 >= TargetBytes THEN {}
       ELSE {[i \in 1 .. TargetBytes |->
                 IF i \in offset + 1 .. offset + 3 THEN ToBytes(value, 3)[i - offset] ELSE 0]}

\* The targets that bits stand for, one or none.  That Target::from_le_bytes
\* takes every such target is external.
compact_target(bits) ==
    LET size == bits[1]
        value == IF size <= 3 THEN Word(bits) \div Power[3 - size] ELSE Word(bits)
        offset == IF size <= 3 THEN 0 ELSE size - 3
    IN IF Word(bits) = 0 \/ Negative(bits) \/ offset + 3 > TargetBytes THEN {}
       ELSE {[i \in 1 .. TargetBytes |->
                 IF i \in offset + 1 .. offset + 3 THEN ToBytes(value, 3)[i - offset] ELSE 0]}

------------------------------------------------------------------------------
\* How a node writes a length: the shortest form that holds it.
CompactSize(n) ==
    IF n < Base - 3 THEN <<n>>
    ELSE IF n < Power[2] THEN <<Base - 3>> \o ToBytes(n, 2)
    ELSE IF n < Power[4] THEN <<Base - 2>> \o ToBytes(n, 4)
    ELSE <<Base - 1>> \o ToBytes(n, 8)

\* Where the solution of a raw block stands if its length is n.
Written(raw, n) ==
    LET size == CompactSize(n)
        end == SOLUTION_OFFSET + Len(size) + n
    IN IF end <= Len(raw) /\ SubSeq(raw, SOLUTION_OFFSET + 1, end - n) = size
       THEN {SubSeq(raw, end - n + 1, end)} ELSE {}

\* The solution read from these raw blocks is the one a node has written in
\* it, for every length up to the limit and at each change of the encoding;
\* a block no node writes is refused.
SolutionsExact(raws) ==
    \A raw \in raws :
        solution_from_raw_block(raw) = UNION {Written(raw, n) : n \in 0 .. SolutionLimit}

\* Difficulty bits give the whole part of word * Power[size - 3], and are
\* refused exactly if they are not positive or need more bytes than a target
\* has for the three of the word.
TargetsExact ==
    \A size, hi, mid, lo \in Byte :
        LET bits == <<size, hi, mid, lo>>
            word == lo + Base * mid + Base * Base * hi
        IN IF word = 0 \/ 2 * hi >= Base \/ size > TargetBytes
           THEN compact_target(bits) = {}
           ELSE \E target \in compact_target(bits) :
                   /\ compact_target(bits) = {target}
                   /\ Len(target) = TargetBytes
                   /\ LittleEndian(target) = (word * Power[size]) \div Power[3]
==============================================================================
