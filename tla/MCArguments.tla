---------------------------- MODULE MCArguments ----------------------------
(* The proofs at the end of a chain, each alone in a behaviour: the two    *)
(* SNARKs of src/spartan, the evaluation engines they are made with, and   *)
(* the commitments under those.                                            *)
EXTENDS Evaluation, TLC

CONSTANTS Shapes, SparseShapes, Assignments, SparseAssignments, Challenges,
          Taus, Rhos, Gammas, Rs,
          Vectors, SmallVectors, Blinds

VARIABLES
    part,                                                   \* which of them
    S, U, W, X, repr, vec, ch, prover,                      \* of a SNARK
    op, args, result                                        \* a commitment

Snark == INSTANCE Spartan
Spark == INSTANCE PPSnark WITH Shapes <- SparseShapes, Assignments <- SparseAssignments
Commitment == INSTANCE Commitments

ASSUME PrimeAssumption /\ KeyAssumption

argument_vars == <<dev, phase, proof, log>>
snark_vars == <<S, U, W, ch, prover>>
spark_vars == <<X, repr, vec>>
opening_vars == <<engine, poly, point, claim, oracle, sent, altered, accepted>>
commitment_vars == <<op, args, result>>

NoArgument == dev = "none" /\ phase = "none" /\ proof = <<>> /\ log = <<>>
NoSnark == S = <<>> /\ U = <<>> /\ W = <<>> /\ ch = <<>> /\ prover = <<>>
NoSpark == X = <<>> /\ repr = <<>> /\ vec = <<>>
NoOpening == /\ engine = "none" /\ poly = <<>> /\ point = <<>> /\ claim = 0
             /\ oracle = <<>> /\ sent = <<>> /\ altered = FALSE /\ accepted = FALSE

MCInit ==
    /\ Commitment!Init
    /\ \/ part = "spartan" /\ Snark!Init /\ NoSpark /\ NoOpening
       \/ part = "ppsnark" /\ Spark!Init /\ NoOpening
       \/ part = "opening" /\ Init /\ NoSnark /\ NoSpark
       \/ part = "commitment" /\ NoArgument /\ NoSnark /\ NoSpark /\ NoOpening

OnSnark(A) == part = "spartan" /\ A /\ UNCHANGED <<part, spark_vars, opening_vars, commitment_vars>>
OnSpark(A) == part = "ppsnark" /\ A /\ UNCHANGED <<part, opening_vars, commitment_vars>>
OnOpening(A) == part = "opening" /\ A /\ UNCHANGED <<part, snark_vars, spark_vars, commitment_vars>>
OnCommitment(A) == /\ part = "commitment" /\ A
                   /\ UNCHANGED <<part, argument_vars, snark_vars, spark_vars, opening_vars>>

MCNext ==
    \/ OnSnark(Snark!ProverTau) \/ OnSnark(Snark!ProverOuter)
    \/ OnSnark(Snark!ProverClaims) \/ OnSnark(Snark!ProverInner)
    \/ OnSnark(Snark!ProverBatch) \/ OnSnark(Snark!ProverBatchRound)
    \/ OnSnark(Snark!ProverDone)
    \/ OnSpark(Spark!ProverTau) \/ OnSpark(Spark!ProverOracles)
    \/ OnSpark(Spark!ProverInstances) \/ OnSpark(Spark!ProverRound)
    \/ OnSpark(Spark!ProverDone)
    \/ OnOpening(Prove) \/ OnOpening(AlterProof)
    \/ OnOpening(AlterClaim) \/ OnOpening(Verify)
    \/ OnCommitment(Commitment!Commit) \/ OnCommitment(Commitment!BatchCommit)
    \/ OnCommitment(Commitment!CommitSmall) \/ OnCommitment(Commitment!CommitSmallRange)
    \/ OnCommitment(Commitment!Derandomize) \/ OnCommitment(Commitment!Divide)
    \/ OnCommitment(Commitment!Invert)

MCSpec == MCInit /\ [][MCNext]_<<part, argument_vars, snark_vars, spark_vars,
                                 opening_vars, commitment_vars>>
----------------------------------------------------------------------------
(* Spartan's verifier accepts the honest proofs of what is true, and       *)
(* nothing else outside the degenerate challenges (see Spartan).           *)
SpartanExact == part = "spartan" => Snark!SpartanExact

(* So does the one with committed matrices (see PPSnark).                  *)
PPSnarkExact == part = "ppsnark" => Spark!PPSnarkExact

(* Every way to commit is the same sum of multiples (see Commitments).     *)
CommitmentsExact == part = "commitment" => Commitment!CommitmentsExact
----------------------------------------------------------------------------
\* The powers of Tau, which KeyAssumption says are what the setup computes.
MCKey ==
    <<1, 321, 123, 132, 1003, 92, 271, 217, 36, 457, 392, 716, 793,
      285, 675, 749, 287, 308, 995, 551, 296, 170, 84, 730, 242, 998,
      505, 665, 566, 66, 1006, 46, 640, 613, 18, 733, 196, 358, 901,
      647, 842, 879, 648, 154, 1002, 780, 148, 85, 42, 365, 121, 499,
      757, 837, 283, 33, 503, 23, 320, 811, 9, 871, 98, 179, 955>>

\* x0 * x1 = x2 and (x2 + u) * x3 = X over four variables and one value, with
\* two constraints and with two more, of which one is empty.
A1 == <<<<0, 0, 1>>, <<1, 2, 1>>, <<1, 4, 1>>>>
B1 == <<<<0, 1, 1>>, <<1, 3, 1>>>>
C1 == <<<<0, 2, 1>>, <<1, 5, 1>>>>
Shape1 == [num_cons |-> 2, num_vars |-> 4, num_io |-> 1, A |-> A1, B |-> B1, C |-> C1]
Shape2 == [num_cons |-> 4, num_vars |-> 4, num_io |-> 1,
           A |-> Append(A1, <<3, 0, 5>>), B |-> Append(B1, <<3, 1, 2>>), C |-> C1]
Wit == <<3, 5, 15, 2>>
MCShapes == {Shape1, Shape2}
MCAssignments ==
    Shape1 :> {<<[u |-> 1, X |-> <<32>>], [W |-> Wit, E |-> <<0, 0>>]>>}
    @@ Shape2 :> {<<[u |-> 1, X |-> <<x>>], [W |-> Wit, E |-> <<0, 0, 0, 150>>]>> : x \in {32, 33}}

\* The first two constraints and (5 x0 + x3) * (2 x1) = u x2 + E: ten entries,
\* so lists of 16 over a z of 8; with a right and a wrong public value, and a
\* prover that computes with the right one in place of the wrong one.
MCSparseShapes ==
    {[num_cons |-> 4, num_vars |-> 4, num_io |-> 1,
      A |-> A1 \o <<<<3, 0, 5>>, <<3, 3, 1>>>>, B |-> Append(B1, <<3, 1, 2>>),
      C |-> Append(C1, <<3, 2, 1>>)]}
MCSparseAssignments == [s \in MCSparseShapes |->
    {<<[u |-> 1, X |-> <<x[1]>>], [W |-> Wit, E |-> <<0, 0, 0, 155>>], <<x[2]>>>> :
        x \in {<<32, 32>>, <<33, 32>>, <<33, 33>>}}]
MCTaus == {<<400, 11>>}
MCRhos == {<<13, 5>>}

\* Polynomials of 0 to 4 variables, among them the zero polynomial, with
\* points of which some are Boolean.
MCClaims ==
    {<<<<5>>, <<>>>>, <<<<5, 8>>, <<3>>>>, <<<<5, 8, 0, 7>>, <<3, 500>>>>,
     <<<<0, 0, 0, 0>>, <<3, 500>>>>, <<<<0, 0, 0, 7>>, <<1, 1>>>>, <<<<4, 0, 0, 7>>, <<1, 1>>>>,
     <<<<1, 2, 3, 4, 5, 6, 7, 8>>, <<10, 20, 30>>>>,
     <<[i \in 1 .. 16 |-> (i * i * i) % P], <<10, 20, 30, 123>>>>}
MCOracles == {<<<<17, 403, 88, 650, 29, 777>>, <<18, 99, 1001, 256, 300, 44>>>>}

\* Vectors of all windows and chunks: short ones of the interesting scalars,
\* longer ones that repeat a pattern, up to the length of the key and beyond.
pattern(n, s) == Tuple([i \in 1 .. n |-> s[(i % Len(s)) + 1]])
short(scalars) == {<<>>} \cup UNION {[1 .. n -> scalars] : n \in 1 .. 2}
MCVectors ==
    short({0, 1, 2, P - 1})
    \cup {pattern(n, s) : n \in {3, 8}, s \in {<<1, 700, 0, 1008, 3>>, <<5, 6, 7>>, <<2, 1>>}}
    \cup {pattern(65, <<1, 700, 0, 1008, 3>>), pattern(66, <<1>>)}
MCSmallVectors ==
    short({0, 1, 2, 5})
    \cup {pattern(5, s) : s \in {<<0, 1>>, <<1, 40, 0, 63, 3>>, <<0>>, <<4000, 6, 1, 2050, 0>>}}
    \cup {pattern(65, <<4000, 6, 1, 2050, 0>>), pattern(66, <<1, 0>>)}
=============================================================================
