----------------------------- MODULE MCHashing -----------------------------
(* What challenges and hashes are made with, each alone in a behaviour:    *)
(* the sponge with the random oracle, the Poseidon permutation, the Keccak *)
(* transcript and the SHA-256 circuit.                                     *)
EXTENDS Sponge, Transcript

CONSTANTS P, T, HalfFull, Partial, Matrices, RoundConstants, Preimages,
          WordP, W, ShaRounds, LengthBits, ByteBits, Inputs, IV, ROUND_CONSTANTS

VARIABLES
    part,                                                       \* which of them
    m, rc, constants, stage, round, plain, native, generator, circuit,
    input, blocks, cur, w, reg, hash, i, multieq, sat, honest

Permutation == INSTANCE Poseidon
Sha == INSTANCE Sha256 WITH P <- WordP, Rounds <- ShaRounds, outs <- hash

ASSUME Permutation!PrimeAssumption /\ Permutation!RoundsAssumption
ASSUME Sha!PrimeAssumption

sponge_vars == vars
permutation_vars == <<m, rc, constants, round, plain, native, generator, circuit>>
sha_vars == <<input, blocks, cur, w, reg, hash, i, multieq, sat, honest>>

NoSponge == /\ client = "none" /\ sponges = <<>> /\ status = "none" /\ done = <<>>
            /\ absorbed = 0 /\ outs = [x \in Modes |-> <<>>] /\ oracle = outs
NoPermutation == /\ m = <<>> /\ rc = <<>> /\ constants = <<>> /\ round = 0
                 /\ plain = <<>> /\ native = <<>> /\ generator = <<>> /\ circuit = <<>>
NoSha == /\ input = <<>> /\ blocks = <<>> /\ cur = <<>> /\ w = <<>> /\ reg = <<>>
         /\ hash = <<>> /\ i = 0 /\ multieq = <<>> /\ sat = TRUE /\ honest = TRUE
NoStage == stage = "none"

MCInit ==
    /\ KeccakInit
    /\ \/ part = "sponge"      /\ Init /\ NoPermutation /\ NoSha /\ NoStage
       \/ part = "permutation" /\ NoSponge /\ Permutation!Init /\ NoSha
       \/ part = "transcript"  /\ NoSponge /\ NoPermutation /\ NoSha /\ NoStage
       \/ part = "sha256"      /\ NoSponge /\ NoPermutation /\ Sha!Init

OnSponge(A) == /\ part = "sponge" /\ A
               /\ UNCHANGED <<part, stage, permutation_vars, keccak_vars, sha_vars>>
OnPermutation(A) == /\ part = "permutation" /\ A
                    /\ UNCHANGED <<part, sponge_vars, keccak_vars, sha_vars>>
OnTranscript(A) == /\ part = "transcript" /\ A
                   /\ UNCHANGED <<part, stage, sponge_vars, permutation_vars, sha_vars>>
OnSha(A) == /\ part = "sha256" /\ A
            /\ UNCHANGED <<part, sponge_vars, permutation_vars, keccak_vars>>

MCNext ==
    \/ \E p \in IOPattern : OnSponge(Start(p))
    \/ \E n \in 0 .. MaxCount : OnSponge(Absorb(n)) \/ OnSponge(Squeeze(n))
    \/ \E op \in Ops : OnSponge(Mismatch(op))
    \/ OnSponge(Finish) \/ OnSponge(RoAbsorb) \/ OnSponge(RoSqueeze)
    \/ OnPermutation(Permutation!New) \/ OnPermutation(Permutation!Round)
    \/ OnTranscript(AbsorbData) \/ OnTranscript(DomSep) \/ OnTranscript(SqueezeChallenge)
    \/ OnSha(Sha!Begin) \/ OnSha(Sha!Extend) \/ OnSha(Sha!Compression)
    \/ OnSha(Sha!RoundE) \/ OnSha(Sha!RoundA)
    \/ OnSha(Sha!FinalSums) \/ OnSha(Sha!FinalSum) \/ OnSha(Sha!EndBlock)

MCSpec == MCInit /\ [][MCNext]_<<part, stage, sponge_vars, permutation_vars,
                                 keccak_vars, sha_vars>>
----------------------------------------------------------------------------
(* In all three implementations the optimised permutation is that of the   *)
(* paper, for symmetric matrices (see Poseidon).                           *)
PermutationAgrees == part = "permutation" => Permutation!PermutationAgrees

(* The circuit's constraints are satisfied by the hash of the message and  *)
(* by nothing else (see Sha256).                                           *)
CircuitIsSha256 == part = "sha256" => Sha!CircuitIsSha256
----------------------------------------------------------------------------
inverse == [a \in 0 .. P - 1 |->
              IF a = 0 THEN 0 ELSE CHOOSE b \in 0 .. P - 1 : (a * b) % P = 1]

\* The Cauchy matrix generate_mds makes, other symmetric ones, and one that
\* is not symmetric.
MCMatrices ==
    {[x \in 1 .. 3 |-> [y \in 1 .. 3 |-> inverse[(x - 1 + 3 + y - 1) % P]]]}
    \cup {<<<<a, b, c>>, <<b, d, e>>, <<c, e, f>>>> : a, b, c \in {1, 5}, d, e, f \in {0, 1, 5}}
    \cup {<<<<1, 2, 1>>, <<1, 1, 1>>, <<1, 3, 4>>>>}
MCRoundConstants ==
    {[k \in 1 .. 3 * (4 + Partial) |-> (s * k * k + 3 * k + 1) % P] : s \in {2, 4}}
MCPreimages == {<<0, 0, 0>>, <<1, 5, 7>>}

MCLabels == {<<byte("a")>>, <<byte("a"), byte("b")>>}
MCData == {<<byte("b")>>, <<byte("c")>>}

\* No message, and one whose length near the end of a block makes two.
MCInputs == {<<>>, [k \in 1 .. 24 |-> ((k * k) \div 3) % 2]}
MCIV == <<1, 2, 3, 0, 1, 3, 2, 0>>
MCSchedule == [k \in 1 .. ShaRounds |-> (k * k + (k \div 3)) % 4]
=============================================================================
