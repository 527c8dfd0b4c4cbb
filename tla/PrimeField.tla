----------------------------- MODULE PrimeField -----------------------------
(***************************************************************************)
(* The integers modulo an odd prime, small in every run, with the sums and *)
(* the matrices the algorithms use.  Vectors are sequences and a matrix is *)
(* a sequence of its rows.                                                 *)
(***************************************************************************)
EXTENDS Integers, Sequences, SequencesExt

CONSTANT P          \* an odd prime

F == 0 .. P - 1

inv == [a \in F |-> IF a = 0 THEN 0 ELSE CHOOSE b \in F : (a * b) % P = 1]
pow(a, n) == FoldLeft(LAMBDA v, k : (v * a) % P, 1, [k \in 1 .. n |-> k])

\* The sum and the product of f over lo .. hi.
Sum(lo, hi, f(_)) ==
    LET s[k \in lo - 1 .. hi] == IF k < lo THEN 0 ELSE (s[k - 1] + f(k)) % P IN s[hi]
Prod(lo, hi, f(_)) ==
    LET p[k \in lo - 1 .. hi] == IF k < lo THEN 1 ELSE (p[k - 1] * f(k)) % P IN p[hi]

\* A sequence given as a function, with its elements computed.
Tuple(f) == <<>> \o f

Dot(u, v) == Sum(1, Len(u), LAMBDA k : u[k] * v[k])
VecAdd(u, v) == [k \in DOMAIN u |-> (u[k] + v[k]) % P]
VecScale(c, u) == [k \in DOMAIN u |-> (c * u[k]) % P]

\* What is asked of P.  The strict decomposition into bits asserts that -1 ends in
\* zeros (src/frontend/gadgets/num.rs:229).
PrimeAssumption ==
    P \in Nat /\ P > 2 /\ \A a \in 1 .. P - 1 : \E b \in F : (a * b) % P = 1
=============================================================================
