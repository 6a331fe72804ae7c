------------------------------ MODULE MCEvidence ------------------------------
(***************************************************************************)
(* The verifier that Evidence and AuxPow are two sides of, with bytes of   *)
(* six values: lengths change their encoding at 3, 36 and 1296.            *)
(***************************************************************************)
EXTENDS Evidence, AuxPow, SequencesExt

Zeros(n) == [i \in 1 .. n |-> 0]

\* Every length field of up to five bytes, and eight-byte fields of zeros and
\* ones, before bodies around the lengths where something changes.
Fields ==
    SeqOf(Byte, 5) \cup {<<Base - 1>> \o field : field \in [1 .. 8 -> {0, 1}]}

RawBlocks ==
    {<<>>} \cup {<<0>> \o field \o Zeros(n) :
        field \in Fields, n \in {0, 3, 35, 36, SolutionLimit, SolutionLimit + 1}}

SolutionsRead == SolutionsExact(RawBlocks)
TargetsRead == TargetsExact

\* A block above genesis is selected after verify has read its solution from
\* the raw block, exactly as the node has written it there.
SolutionExact == top > 0 => SolutionsRead

\* And after its difficulty bits were expanded to exactly the target they mean.
TargetExact == top > 0 => TargetsRead
==============================================================================
