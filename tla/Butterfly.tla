----------------------------- MODULE Butterfly -----------------------------
(***************************************************************************)
(* evals_from_points_fortran (fortran/src/ffi_interface.f90): the table of *)
(* EqTable computed in place.  Each doubling is a DO CONCURRENT loop whose *)
(* iterations run in any order and, with -fopenmp, at the same time; an    *)
(* iteration is three calls that read and write shared array elements.     *)
(* The calls compute what field_ops.f90 computes (FieldLimbs), which is    *)
(* not the arithmetic of a field.                                          *)
(***************************************************************************)
EXTENDS FieldLimbs, EqTable

CONSTANT Inputs          \* the elements r is made of, 0 .. P - 1 in limbs, or some

ASSUME EllAssumption == MaxEll \in Nat

\* Powers of two, for the proofs: no prover has a theory of exponents.
ASSUME PowerAssumption ==
    /\ 2 ^ 0 = 1
    /\ \A n \in 0 .. MaxEll : 2 ^ n \in Nat \ {0} /\ 2 ^ (n + 1) = 2 * 2 ^ n

VARIABLES
    r,                   \* the input, r_len elements
    evals, temp_arr,     \* the shared arrays
    i, size,             \* the sequential outer loop
    pc,                  \* the next call of each iteration of the inner loop
    status               \* "running", then "ok" (0) or "error" (1)

vars == <<r, evals, temp_arr, i, size, pc, status>>

r_len     == Len(r)
evals_len == 2 ^ r_len   \* what the Rust caller passes, 1 << r_len

\* The input in Montgomery form, converted ahead of the loops.
r_mont(k) == to_montgomery(r[k])

\* The iterations of the inner loop for a size n, none of them started.
Started(n) == [j \in 1 .. n |-> "mul"]

Init ==
    /\ r \in UNION {[1 .. n -> Inputs] : n \in 0 .. MaxEll}
    /\ evals = [x \in 1 .. evals_len |-> IF x = 1 THEN field_one ELSE field_zero]
    \* allocated, not initialised
    /\ temp_arr \in {[x \in 1 .. evals_len |-> c] : c \in {field_zero, field_one}}
    /\ i = r_len
    /\ size = 1
    /\ pc = Started(1)
    /\ status = "running"

\* Mutant: only a negative length is refused.
Reject_mut ==
    /\ status = "running" /\ r_len < 0
    /\ status' = "error"
    /\ UNCHANGED <<r, evals, temp_arr, i, size, pc>>
\* r_len <= 0: no computation.
Reject ==
    /\ status = "running" /\ r_len <= 0
    /\ status' = "error"
    /\ UNCHANGED <<r, evals, temp_arr, i, size, pc>>

InLoop == status = "running" /\ r_len > 0 /\ i >= 1

\* Mutant: the new values between the old ones.
upper_mut(j) == 2 * j
\* Where iteration j puts the second of its two values.
upper(j) == size + j

\* Each iteration has a temporary of its own.
temp(j) == j

Mul(j) ==
    /\ InLoop /\ pc[j] = "mul"
    /\ temp_arr' = [temp_arr EXCEPT ![temp(j)] = field_mul_mont_b(evals[j], r_mont(i))]
    /\ pc' = [pc EXCEPT ![j] = "copy"]
    /\ UNCHANGED <<r, evals, i, size, status>>

CopyUp(j) ==
    /\ InLoop /\ pc[j] = "copy"
    /\ evals' = [evals EXCEPT ![upper(j)] = temp_arr[temp(j)]]
    /\ pc' = [pc EXCEPT ![j] = "sub"]
    /\ UNCHANGED <<r, temp_arr, i, size, status>>

Sub(j) ==
    /\ InLoop /\ pc[j] = "sub"
    /\ evals' = [evals EXCEPT ![j] = field_sub(evals[j], temp_arr[temp(j)])]
    /\ pc' = [pc EXCEPT ![j] = "end"]
    /\ UNCHANGED <<r, temp_arr, i, size, status>>

Iterate(j) == j \in DOMAIN pc /\ (Mul(j) \/ CopyUp(j) \/ Sub(j))

\* Mutant: the next doubling starts when one iteration has ended.
EndLoop_mut ==
    /\ InLoop /\ \E j \in 1 .. size : pc[j] = "end"
    /\ size' = 2 * size /\ i' = i - 1
    /\ pc' = IF i' = 0 THEN <<>> ELSE Started(size')
    /\ UNCHANGED <<r, evals, temp_arr, status>>
\* The loop ends when all of its iterations have.
EndLoop ==
    /\ InLoop /\ \A j \in 1 .. size : pc[j] = "end"
    /\ size' = 2 * size /\ i' = i - 1
    /\ pc' = IF i' = 0 THEN <<>> ELSE Started(size')
    /\ UNCHANGED <<r, evals, temp_arr, status>>

Return ==
    /\ status = "running" /\ r_len > 0 /\ i = 0
    /\ status' = "ok"
    /\ UNCHANGED <<r, evals, temp_arr, i, size, pc>>

Next ==
    \/ Reject
    \/ \E j \in 1 .. 2 ^ MaxEll : Iterate(j)
    \/ EndLoop
    \/ Return

\* Every iteration is given to a thread that runs it to its end.
Fairness ==
    /\ \A j \in 1 .. 2 ^ MaxEll : WF_vars(Iterate(j))
    /\ WF_vars(Reject \/ EndLoop \/ Return)

Spec == Init /\ [][Next]_vars /\ Fairness
----------------------------------------------------------------------------
(* The arrays keep their shape and the loop its bounds. *)
TypeOK ==
    /\ evals = [x \in 1 .. evals_len |-> evals[x]]
    /\ temp_arr = [x \in 1 .. evals_len |-> temp_arr[x]]
    /\ r \in Seq(Inputs) /\ r_len <= MaxEll
    /\ i \in 0 .. r_len /\ size \in Nat \ {0} /\ size * 2 ^ i = evals_len
    /\ pc \in [1 .. (IF i = 0 /\ r_len > 0 THEN 0 ELSE size)
                  -> {"mul", "copy", "sub", "end"}]
    /\ status \in {"running", "ok", "error"}

\* What the next call of iteration j reads and writes.
Reads(j) ==
    CASE pc[j] = "mul"  -> {<<"evals", j>>}
      [] pc[j] = "copy" -> {<<"temp_arr", temp(j)>>}
      [] pc[j] = "sub"  -> {<<"evals", j>>, <<"temp_arr", temp(j)>>}
      [] pc[j] = "end"  -> {}
Writes(j) ==
    CASE pc[j] = "mul"  -> {<<"temp_arr", temp(j)>>}
      [] pc[j] = "copy" -> {<<"evals", upper(j)>>}
      [] pc[j] = "sub"  -> {<<"evals", j>>}
      [] pc[j] = "end"  -> {}

(* The README's safety proof of DO CONCURRENT: no iteration writes an      *)
(* element another one accesses at the same time, and all of them stay in  *)
(* the arrays.                                                             *)
NoRace ==
    InLoop => \A j \in DOMAIN pc :
        /\ \A a \in Writes(j) : a[2] \in 1 .. evals_len
        /\ \A k \in DOMAIN pc \ {j} : Writes(j) \cap (Reads(k) \cup Writes(k)) = {}

\* The doubling of Rust's table happens when the first iteration of a loop
\* begins: from then on the table is what the loop will leave.
Begun == InLoop /\ \E j \in DOMAIN pc : pc[j] # "mul"

\* What iteration j moves up, and the two elements it will leave.
Moved(j) == IF pc[j] = "mul" THEN field_mul(evals[j], r[i]) ELSE temp_arr[temp(j)]
Lower(j) == IF pc[j] = "end" THEN evals[j] ELSE field_sub(evals[j], Moved(j))
Upper(j) == IF pc[j] \in {"sub", "end"} THEN evals[size + j] ELSE Moved(j)

Rest    == IF Begun THEN i - 1 ELSE i
Entries ==
    IF Begun THEN [x \in 1 .. 2 * size |-> IF x <= size THEN Lower(x) ELSE Upper(x - size)]
    ELSE [x \in 1 .. size |-> evals[x]]

Table == INSTANCE EqTable WITH
    Scalar <- Inputs, ONE <- field_one, times <- field_mul, minus <- field_sub,
    point <- r, rest <- Rest, table <- Entries

(* However its iterations are interleaved, a loop doubles the table as the *)
(* Rust code does in one step, with field_mul and field_sub in place of    *)
(* the field's operations: where the two results differ, it is by the      *)
(* arithmetic alone.                                                       *)
ImplementsEqTable == Table!EqSpec

(* A call returns, with an error exactly if r is empty. *)
Returns == <>(status = IF r_len = 0 THEN "error" ELSE "ok")
============================================================================
