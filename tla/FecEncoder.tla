------------------------------- MODULE FecEncoder -------------------------------
(***************************************************************************)
(* FecEncoder of shared/transport/fec.cpp: packets are collected into      *)
(* blocks whose size belongs to the level, and a full block yields parity  *)
(* packets.  A packet is one bit, which is enough for sums without carry.  *)
(* Headers are left out: those of parity packets are overwritten.  The     *)
(* FecDecoder of the same file keeps nothing and answers nothing.          *)
(***************************************************************************)
EXTENDS Integers, Sequences, FiniteSets

CONSTANTS
    LowSize, MediumSize, HighSize,  \* packets in a block (10, 16, 6)
    Parities,   \* parity packets of a Reed-Solomon block (4)
    Groups,     \* number of group ids (256)
    MaxBlock    \* bound: length of a block that has outgrown its level

Level == {"None", "Low", "Medium", "High"}
Bit == 0..1

ASSUME FecAssumption ==
    /\ {LowSize, MediumSize, HighSize, Parities, Groups} \subseteq Nat \ {0}
    /\ MaxBlock \in Nat
    /\ \A n \in {LowSize, MediumSize, HighSize} : n <= MaxBlock

VARIABLES
    level,      \* current_level_
    block,      \* data_block_
    group,      \* current_group_id_
    output,     \* the parity packets the last call of encode returned
    sent,       \* history: packets encoded under a level since the last parity
    covered     \* history: the packets encoded for the last parity

fecVars == <<level, block, group, output, sent, covered>>

FecTypeOK ==
    /\ level \in Level
    /\ {block, output, sent, covered} \subseteq Seq(Bit)
    /\ group \in 0..(Groups - 1)

FecInit ==
    /\ level = "None"
    /\ block = <<>>
    /\ group = 0
    /\ output = <<>>
    /\ sent = <<>>
    /\ covered = <<>>

--------------------------------------------------------------------------------
\* The size of a full block; there is none without a level.
Members(l) ==
    CASE l = "Low" -> LowSize [] l = "Medium" -> MediumSize [] l = "High" -> HighSize

\* gf_add over a block, with every coefficient 1.
Parity(s) ==
    LET sum[n \in 0..Len(s)] == IF n = 0 THEN 0 ELSE (sum[n - 1] + s[n]) % 2
    IN  sum[Len(s)]

\* encode_xor and encode_rs.  A coefficient of the latter is the integer quotient of 1 and
\* a number that is never 0, or 1 in place of 0: always 1.  So all the parity packets of a
\* block are the same.
ParityPackets(s, l) == [p \in 1..(IF l = "Low" THEN 1 ELSE Parities) |-> Parity(s)]

\* FecDecoder::decode: the packets it recovers from those it is fed, data or parity.
DecodeAnswers(received) == {}

SetLevel ==
    /\ level' \in Level \ {level}
    /\ UNCHANGED <<block, group, output, sent, covered>>

\* Mutant: without a level the block is left as it is.
Bug_EncodeUnprotectedKeeps ==
    /\ level = "None"
    /\ sent' = <<>>
    /\ output' = <<>>
    /\ UNCHANGED <<level, block, group, covered>>

\* encode without a level empties the block.
EncodeUnprotected ==
    /\ level = "None"
    /\ block' = <<>>
    /\ sent' = <<>>
    /\ output' = <<>>
    /\ UNCHANGED <<level, group, covered>>

\* encode of a packet that does not bring the block to the size of the level.
EncodeCollects ==
    /\ level # "None"
    /\ Len(block) + 1 # Members(level)
    /\ Len(block) < MaxBlock
    /\ \E packet \in Bit :
          /\ block' = Append(block, packet)
          /\ sent' = Append(sent, packet)
    /\ output' = <<>>
    /\ UNCHANGED <<level, group, covered>>

\* encode of the packet that does.
EncodeCloses ==
    /\ level # "None"
    /\ Len(block) + 1 = Members(level)
    /\ \E packet \in Bit :
          /\ output' = ParityPackets(Append(block, packet), level)
          /\ covered' = Append(sent, packet)
    /\ block' = <<>>
    /\ sent' = <<>>
    /\ group' = (group + 1) % Groups
    /\ UNCHANGED level

FecNext == SetLevel \/ EncodeUnprotected \/ EncodeCollects \/ EncodeCloses

FecSpec == FecInit /\ [][FecNext]_fecVars

--------------------------------------------------------------------------------
(* Properties *)

\* What arrives of a closed block when the packet at this place is lost.
WithoutOne(gone) == [place \in DOMAIN covered \ {gone} |-> covered[place]]

\* Any one packet lost of those a parity packet stands for is determined by the others and
\* the parity, they add up to it; changes of level between packets leave none out and add
\* none.  That is what the header says of Low, and less than it says of Medium and High;
\* nothing in the repository does the adding up.
OneLossDetermined ==
    \A p \in DOMAIN output : \A gone \in DOMAIN covered :
        Parity(Append([covered EXCEPT ![gone] = 0], output[p])) = covered[gone]

\* Promised and false, what the header says of Medium, "(Reed-Solomon 20,16)", and of High:
\* as many losses as there are parity packets are determined, no other block with the same
\* parity packets differs from the one encoded in so few places.
LossesDetermined ==
    output # <<>> =>
        \A other \in [DOMAIN covered -> Bit] :
            /\ \E l \in Level : ParityPackets(other, l) = output
            /\ Cardinality({place \in DOMAIN covered : other[place] # covered[place]})
                   <= Len(output)
            => other = covered

\* Promised and false, what it says of decode, "Returns recovered data packets if any.":
\* fed with all of a block but one, and with its parity, it answers the one.
LossRecovered ==
    output # <<>> =>
        \A gone \in DOMAIN covered :
            covered[gone] \in DecodeAnswers([data |-> WithoutOne(gone), parity |-> output])
================================================================================
