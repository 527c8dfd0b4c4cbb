---------------------------- MODULE Commitments ----------------------------
(***************************************************************************)
(* The commitment engines (src/provider/hyperkzg.rs, pedersen.rs) over     *)
(* the multi-scalar multiplications, for field elements and for small      *)
(* scalars, and the loops of the evaluation arguments that work in chunks: *)
(* one call, then the commitment without its blind.  The arguments         *)
(* are enumerated.                                                         *)
(***************************************************************************)
EXTENDS InnerProduct

CONSTANTS
    Vectors,      \* the vectors committed to
    SmallVectors, \* those of small scalars
    Blinds

VARIABLES op, args, result
vars == <<op, args, result>>

h == pow(Tau, KeySize + 1)
blinded(c, r) == (c + h * r) % P
bases(lo, hi) == SubSeq(ck, lo, hi)

\* What a call that fails leaves; no group element is negative.
Panic == -1

Commit == \E v \in Vectors, r \in Blinds :
    /\ op = "start" /\ op' = "commit" /\ args' = <<v, r>>
    /\ result' = IF Len(v) > KeySize THEN <<Panic>> ELSE <<blinded(msm(v, bases(1, Len(v))), r)>>

\* A vector and a shorter one, with blinds of their own.
BatchCommit == \E v \in Vectors, r \in Blinds :
    /\ op = "start" /\ v # <<>> /\ op' = "batch_commit" /\ args' = <<v, r>>
    /\ result' = IF Len(v) > KeySize THEN <<Panic>>
                 ELSE <<blinded(msm(v, bases(1, Len(v))), r),
                        blinded(msm(Tail(v), bases(1, Len(v) - 1)), 0)>>

\* msm_small takes the largest scalar, and there is none in an empty vector.
CommitSmall == \E v \in SmallVectors, r \in Blinds :
    /\ op = "start" /\ op' = "commit_small" /\ args' = <<v, r>>
    /\ result' = IF Len(v) \notin 1 .. KeySize THEN <<Panic>>
                 ELSE <<blinded(msm_small(v, bases(1, Len(v))), r)>>

\* The caller gives the range and the number of bits.
CommitSmallRange == \E v \in SmallVectors, r \in Blinds, lo \in {0, 1}, bits \in {0, 1, 2, 6, 12} :
    /\ op = "start" /\ lo <= Len(v)
    /\ op' = "commit_small_range" /\ args' = <<v, r, lo, bits>>
    /\ LET s == SubSeq(v, lo + 1, Len(v))
       IN  result' = IF Len(v) > KeySize \/ out_of_bounds(s, bits) THEN <<Panic>>
                     ELSE <<blinded(msm_small_with_max_num_bits(s, bases(lo + 1, Len(v)), bits), r)>>

Derandomize ==
    /\ op \in {"commit", "commit_small"} /\ result # <<Panic>>
    /\ op' = "derandomize"
    /\ result' = <<(result[1] - h * args[2]) % P>>
    /\ UNCHANGED args

Divide == \E f \in Vectors, u \in {1, 700}, k \in 1 .. 5 :
    /\ op = "start" /\ Len(f) \in 1 .. 16
    /\ op' = "div_by_monomial" /\ args' = <<f, u, k>> /\ result' = div_by_monomial(f, u, k)

Invert == \E v \in Vectors :
    /\ op = "start" /\ Len(v) \in 1 .. 16 /\ 0 \notin Range(v)
    /\ op' = "batch_invert" /\ args' = <<v>> /\ result' = batch_invert(v)

Init == op = "start" /\ args = <<>> /\ result = <<>>
Next == \/ Commit \/ BatchCommit \/ CommitSmall \/ CommitSmallRange \/ Derandomize
        \/ Divide \/ Invert
Spec == Init /\ [][Next]_vars
----------------------------------------------------------------------------
fits(s, bits) == \A x \in Range(s) : x < 2 ^ bits
sum_of(s, lo) == Sum(1, Len(s), LAMBDA i : times(s[i], pow(Tau, lo + i - 1)))

(* The windows, buckets and chunks of every multiplication give the sum of *)
(* the multiples of the powers of the secret, plus the blind, which        *)
(* derandomize takes away; a number of bits in which the scalars of a      *)
(* range fit gives that sum too.  Division in chunks is "the original      *)
(* sequential algorithm using Horner's method" for any number of chunks.   *)
CommitmentsExact ==
    LET v == args[1]
        r == args[2]
    IN  CASE op = "commit" -> result = IF Len(v) > KeySize THEN <<Panic>>
                                       ELSE <<blinded(sum_of(v, 0), r)>>
          [] op = "batch_commit" -> result = IF Len(v) > KeySize THEN <<Panic>>
                                             ELSE <<blinded(sum_of(v, 0), r), sum_of(Tail(v), 0)>>
          [] op = "commit_small" -> result = IF Len(v) \notin 1 .. KeySize THEN <<Panic>>
                                             ELSE <<blinded(sum_of(v, 0), r)>>
          [] op = "commit_small_range" ->
                 LET s == SubSeq(v, args[3] + 1, Len(v))
                 IN  Len(v) <= KeySize /\ fits(s, args[4]) => result = <<blinded(sum_of(s, args[3]), r)>>
          [] op = "derandomize" -> result = <<sum_of(v, 0)>>
          [] op = "div_by_monomial" -> result = Tail(horner(v, args[2]))
          [] op = "batch_invert" -> result = [i \in DOMAIN v |-> inv[v[i]]]
          [] OTHER -> TRUE
=============================================================================
