--------------------------- MODULE FortranProofs ---------------------------
(***************************************************************************)
(* The table of the equality polynomial, in Rust and in Fortran, and the   *)
(* arithmetic of the Fortran library.                                      *)
(*                                                                         *)
(* First the DO CONCURRENT doubling of ffi_interface.f90, for inputs of    *)
(* every length: its iterations never touch the same element, and in       *)
(* whatever order they run, they double the table as the Rust code does.   *)
(* Nothing is asked of the operations: field_mul and field_sub are those   *)
(* of FieldLimbs, of which the proof only uses that field_mul is           *)
(* field_mul_mont_b with its second operand converted.                     *)
(*                                                                         *)
(* Then the Rust table: with operations that are a field's, it is at every *)
(* index a product with one factor for each entry of r that was used,      *)
(* chosen by a bit of the index.                                           *)
(*                                                                         *)
(* Then the product and the difference of field_ops.f90, for limbs of      *)
(* every width: the product is computed without an overflow, and the       *)
(* difference by limbs is, along the limbs, the difference of the numbers  *)
(* so far and a borrow.                                                    *)
(***************************************************************************)
EXTENDS Butterfly, InductionProofs, SequenceTheorems

Call == {"mul", "copy", "sub", "end"}

LEMMA Factor ==
    ASSUME NEW a \in Nat \ {0}, NEW b \in Nat \ {0}
    PROVE  a <= a * b /\ a * b \in Nat \ {0}
OBVIOUS

\* Of the doublings a size needs to reach a length, one can be done.
LEMMA Doubled ==
    ASSUME NEW n \in Nat \ {0}, NEW k \in 1 .. MaxEll, NEW len, n * 2 ^ k = len
    PROVE  2 * n <= len /\ (2 * n) * 2 ^ (k - 1) = len /\ len \in Nat
<1> DEFINE p == 2 ^ (k - 1)
<1>1. p \in Nat \ {0} /\ 2 ^ k = 2 * p
  <2>1. k - 1 \in 0 .. MaxEll /\ (k - 1) + 1 = k  BY EllAssumption
  <2>. QED BY <2>1, PowerAssumption
<1>2. n * (2 * p) = len  BY <1>1
<1>3. (2 * n) * 2 ^ (k - 1) = (2 * n) * p  OBVIOUS
<1> HIDE DEF p
<1>4. (2 * n) * p = n * (2 * p)  BY <1>1
<1>5. 2 * n \in Nat \ {0}  OBVIOUS
<1>6. 2 * n <= (2 * n) * p /\ (2 * n) * p \in Nat \ {0}
  BY <1>1, <1>5, Factor
<1>. QED BY <1>2, <1>3, <1>4, <1>6

\* While a loop runs, the upper half it fills is inside the array, and the
\* loop is neither empty nor the one of a call without computation.
LEMMA Room ==
    ASSUME TypeOK, i >= 1
    PROVE  /\ 2 * size <= evals_len /\ (2 * size) * 2 ^ (i - 1) = evals_len
           /\ size \in Nat \ {0} /\ evals_len \in Nat
           /\ i \in 1 .. r_len /\ r_len \in Nat /\ i - 1 \in 0 .. r_len
           /\ pc \in [1 .. size -> Call]
<1>1. r_len \in Nat /\ i \in 1 .. r_len /\ i - 1 \in 0 .. r_len /\ i \in 1 .. MaxEll
  BY EllAssumption DEF TypeOK, r_len
<1>2. size \in Nat \ {0} /\ size * 2 ^ i = evals_len
  BY DEF TypeOK
<1> HIDE DEF evals_len
<1>3. 2 * size <= evals_len /\ (2 * size) * 2 ^ (i - 1) = evals_len /\ evals_len \in Nat
  BY <1>1, <1>2, Doubled
<1>4. pc \in [1 .. size -> Call]
  BY <1>1 DEF TypeOK, Call
<1>. QED BY <1>1, <1>2, <1>3, <1>4

\* An array keeps its shape when an element is assigned.
LEMMA Assigned ==
    ASSUME NEW f, NEW S, f = [x \in S |-> f[x]], NEW k \in S, NEW v
    PROVE  /\ [f EXCEPT ![k] = v] = [x \in S |-> [f EXCEPT ![k] = v][x]]
           /\ \A x \in S : [f EXCEPT ![k] = v][x] = IF x = k THEN v ELSE f[x]
OBVIOUS
----------------------------------------------------------------------------
LEMMA InitTypeOK == Init => TypeOK
<1> SUFFICES ASSUME Init  PROVE TypeOK
  OBVIOUS
<1>1. PICK n \in 0 .. MaxEll : r \in [1 .. n -> Inputs]
  BY DEF Init
<1>2. n \in Nat /\ r \in Seq(Inputs) /\ r_len = n
  BY <1>1, EllAssumption, SeqDef DEF r_len
<1>3. evals_len \in Nat \ {0}
  BY <1>1, <1>2, PowerAssumption DEF evals_len
<1> HIDE DEF evals_len
<1>4. i = n /\ size = 1 /\ pc = [j \in 1 .. 1 |-> "mul"] /\ status = "running"
  BY <1>2 DEF Init, Started
<1>5. size * 2 ^ i = evals_len
  BY <1>2, <1>3, <1>4 DEF evals_len
<1>6. evals = [x \in 1 .. evals_len |-> evals[x]]
      /\ temp_arr = [x \in 1 .. evals_len |-> temp_arr[x]]
  <2>1. evals = [x \in 1 .. evals_len |-> IF x = 1 THEN field_one ELSE field_zero]
    BY DEF Init
  <2>2. PICK c : temp_arr = [x \in 1 .. evals_len |-> c]  BY DEF Init
  <2>. QED BY <2>1, <2>2
<1>. QED BY <1>1, <1>2, <1>4, <1>5, <1>6 DEF TypeOK

\* A call of iteration j assigns to one element of one of the arrays.
LEMMA IterateStep ==
    ASSUME TypeOK, NEW j \in DOMAIN pc, Mul(j) \/ CopyUp(j) \/ Sub(j)
    PROVE  /\ InLoop /\ InLoop' /\ i >= 1
           /\ UNCHANGED <<r, i, size, status>> /\ r_len' = r_len /\ evals_len' = evals_len
           /\ j \in 1 .. size /\ j \in 1 .. evals_len /\ size + j \in 1 .. evals_len
           /\ pc' \in [1 .. size -> Call]
           /\ pc'[j] # "mul" /\ \A k \in 1 .. size \ {j} : pc'[k] = pc[k]
<1>1. /\ InLoop /\ InLoop' /\ i >= 1
      /\ UNCHANGED <<r, i, size, status>> /\ r_len' = r_len /\ evals_len' = evals_len
  BY DEF Mul, CopyUp, Sub, InLoop, r_len, evals_len
<1> HIDE DEF evals_len, r_len
<1>2. /\ 2 * size <= evals_len /\ size \in Nat \ {0} /\ evals_len \in Nat
      /\ pc \in [1 .. size -> Call]
  BY <1>1, Room
<1>3. j \in 1 .. size /\ j \in 1 .. evals_len /\ size + j \in 1 .. evals_len
  BY <1>2
<1>4. \E c \in {"copy", "sub", "end"} : pc' = [pc EXCEPT ![j] = c]
  BY DEF Mul, CopyUp, Sub
<1>. QED BY <1>1, <1>2, <1>3, <1>4 DEF Call

LEMMA IterateTypeOK ==
    ASSUME TypeOK, NEW j \in DOMAIN pc, Mul(j) \/ CopyUp(j) \/ Sub(j)
    PROVE  TypeOK'
<1>1. /\ InLoop /\ InLoop' /\ i >= 1
      /\ UNCHANGED <<r, i, size, status>> /\ r_len' = r_len /\ evals_len' = evals_len
      /\ j \in 1 .. size /\ j \in 1 .. evals_len /\ size + j \in 1 .. evals_len
      /\ pc' \in [1 .. size -> Call]
  BY IterateStep
<1> HIDE DEF evals_len, r_len
<1>2. evals = [x \in 1 .. evals_len |-> evals[x]]
      /\ temp_arr = [x \in 1 .. evals_len |-> temp_arr[x]]
  BY DEF TypeOK
<1>3. evals' = [x \in 1 .. evals_len |-> evals'[x]]
  <2>1. CASE Mul(j)     BY <1>2, <2>1 DEF Mul
  <2>2. CASE CopyUp(j)  BY <1>1, <1>2, <2>2, Assigned DEF CopyUp, upper
  <2>3. CASE Sub(j)     BY <1>1, <1>2, <2>3, Assigned DEF Sub
  <2>. QED BY <2>1, <2>2, <2>3
<1>4. temp_arr' = [x \in 1 .. evals_len |-> temp_arr'[x]]
  <2>1. CASE Mul(j)     BY <1>1, <1>2, <2>1, Assigned DEF Mul, temp
  <2>2. CASE CopyUp(j)  BY <1>2, <2>2 DEF CopyUp
  <2>3. CASE Sub(j)     BY <1>2, <2>3 DEF Sub
  <2>. QED BY <2>1, <2>2, <2>3
<1>5. i # 0  BY <1>1
<1>. QED BY <1>1, <1>3, <1>4, <1>5 DEF TypeOK, Call

LEMMA EndLoopTypeOK ==
    ASSUME TypeOK, EndLoop
    PROVE  TypeOK'
<1>0. /\ InLoop /\ i >= 1 /\ status = "running"
      /\ UNCHANGED <<r, evals, temp_arr, status>>
      /\ size' = 2 * size /\ i' = i - 1
      /\ pc' = IF i' = 0 THEN <<>> ELSE [j \in 1 .. size' |-> "mul"]
  BY DEF EndLoop, InLoop, Started
<1>1. /\ (2 * size) * 2 ^ (i - 1) = evals_len /\ size \in Nat \ {0}
      /\ r_len > 0 /\ i - 1 \in 0 .. r_len
  BY <1>0, Room
<1>2. r_len' = r_len /\ evals_len' = evals_len  BY <1>0 DEF r_len, evals_len
<1> HIDE DEF r_len, evals_len
<1>3. pc' \in [1 .. (IF i' = 0 /\ r_len' > 0 THEN 0 ELSE size') -> Call]
  <2>1. CASE i' = 0
    <3>1. pc' = <<>>  BY <1>0, <2>1
    <3>2. << >> \in [1 .. 0 -> Call]  OBVIOUS
    <3>. QED BY <1>1, <1>2, <2>1, <3>1, <3>2
  <2>2. CASE i' # 0
    BY <1>0, <2>2 DEF Call
  <2>. QED BY <2>1, <2>2
<1>4. size' * 2 ^ i' = evals_len'
  BY <1>0, <1>1, <1>2
<1>. QED BY <1>0, <1>1, <1>2, <1>3, <1>4 DEF TypeOK, Call

LEMMA NextTypeOK == TypeOK /\ [Next]_vars => TypeOK'
<1> SUFFICES ASSUME TypeOK, [Next]_vars  PROVE TypeOK'
  OBVIOUS
<1>1. CASE Reject
  <2>1. /\ UNCHANGED <<r, evals, temp_arr, i, size, pc>> /\ status' = "error"
    BY <1>1 DEF Reject
  <2>2. r_len' = r_len /\ evals_len' = evals_len  BY <2>1 DEF r_len, evals_len
  <2>. QED BY <2>1, <2>2 DEF TypeOK
<1>2. ASSUME NEW j \in 1 .. 2 ^ MaxEll, Iterate(j)  PROVE TypeOK'
  BY <1>2, IterateTypeOK DEF Iterate
<1>3. CASE EndLoop
  BY <1>3, EndLoopTypeOK
<1>4. CASE Return
  <2>1. /\ UNCHANGED <<r, evals, temp_arr, i, size, pc>> /\ status' = "ok"
    BY <1>4 DEF Return
  <2>2. r_len' = r_len /\ evals_len' = evals_len  BY <2>1 DEF r_len, evals_len
  <2>. QED BY <2>1, <2>2 DEF TypeOK
<1>5. CASE UNCHANGED vars
  <2>1. UNCHANGED <<r, evals, temp_arr, i, size, pc, status>>
    BY <1>5 DEF vars
  <2>2. r_len' = r_len /\ evals_len' = evals_len  BY <2>1 DEF r_len, evals_len
  <2>. QED BY <2>1, <2>2 DEF TypeOK
<1>. QED BY <1>1, <1>2, <1>3, <1>4, <1>5 DEF Next
----------------------------------------------------------------------------
(* The arrays keep their shape: the table never outgrows evals_len, which  *)
(* it reaches with the last doubling.                                      *)
THEOREM SpecTypeOK == Spec => []TypeOK
<1>. QED BY InitTypeOK, NextTypeOK, PTL DEF Spec

(* The iterations of a DO CONCURRENT loop touch disjoint elements, inside  *)
(* the arrays, for inputs of every length.                                 *)
THEOREM SpecNoRace == Spec => []NoRace
<1>1. TypeOK => NoRace
  <2> SUFFICES ASSUME TypeOK, InLoop, NEW j \in DOMAIN pc
               PROVE  /\ \A a \in Writes(j) : a[2] \in 1 .. evals_len
                      /\ \A k \in DOMAIN pc \ {j} :
                            Writes(j) \cap (Reads(k) \cup Writes(k)) = {}
    BY DEF NoRace
  <2>0. /\ 2 * size <= evals_len /\ size \in Nat \ {0} /\ evals_len \in Nat
        /\ pc \in [1 .. size -> Call]
    BY Room DEF InLoop
  <2> HIDE DEF evals_len
  <2>1. \A k \in DOMAIN pc : k \in 1 .. size /\ pc[k] \in Call
    BY <2>0
  <2>2. size \in Nat /\ j \in 1 .. evals_len /\ size + j \in 1 .. evals_len
    BY <2>0
  <2>3. \A a \in Writes(j) : a[2] \in 1 .. evals_len
    BY <2>1, <2>2 DEF Writes, Call, temp, upper
  <2>4. ASSUME NEW k \in DOMAIN pc \ {j}
        PROVE  Writes(j) \cap (Reads(k) \cup Writes(k)) = {}
    BY <2>1, <2>2 DEF Writes, Reads, Call, temp, upper
  <2>. QED BY <2>3, <2>4
<1>. QED BY <1>1, SpecTypeOK, PTL
----------------------------------------------------------------------------
\* The table before a loop has begun, and after.
Whole  == [x \in 1 .. size |-> evals[x]]
Both == [x \in 1 .. 2 * size |-> IF x <= size THEN Lower(x) ELSE Upper(x - size)]

\* A call leaves what its iteration and the others will leave.
LEMMA IterateKeeps ==
    ASSUME TypeOK, NEW j \in DOMAIN pc, Mul(j) \/ CopyUp(j) \/ Sub(j),
           NEW k \in 1 .. size
    PROVE  Lower(k)' = Lower(k) /\ Upper(k)' = Upper(k)
<1>1. /\ InLoop /\ i >= 1
      /\ UNCHANGED <<r, i, size>>
      /\ j \in 1 .. size /\ j \in 1 .. evals_len /\ size + j \in 1 .. evals_len
      /\ \A l \in 1 .. size \ {j} : pc'[l] = pc[l]
  BY IterateStep
<1>2. /\ size \in Nat \ {0} /\ evals_len \in Nat /\ 2 * size <= evals_len
      /\ pc \in [1 .. size -> Call]
  BY <1>1, Room
<1>3. evals = [x \in 1 .. evals_len |-> evals[x]]
      /\ temp_arr = [x \in 1 .. evals_len |-> temp_arr[x]]
  BY DEF TypeOK
<1> HIDE DEF evals_len, r_len
<1>4. k \in 1 .. evals_len /\ size + k \in 1 .. evals_len /\ k # size + j /\ size + k # j
      /\ (size + k = size + j <=> k = j)
  BY <1>1, <1>2
<1>5. CASE Mul(j)
  <2>1. /\ pc[j] = "mul" /\ pc'[j] = "copy" /\ evals' = evals
        /\ temp_arr'[k] = IF k = j THEN field_mul_mont_b(evals[j], to_montgomery(r[i]))
                          ELSE temp_arr[k]
    BY <1>1, <1>2, <1>3, <1>4, <1>5, Assigned DEF Mul, temp, r_mont
  <2>2. Moved(k)' = Moved(k)
    <3>1. CASE k = j   BY <1>1, <2>1, <3>1 DEF Moved, temp, field_mul
    <3>2. CASE k # j   BY <1>1, <2>1, <3>2 DEF Moved, temp
    <3>. QED BY <3>1, <3>2
  <2>3. (pc'[k] = "end" <=> pc[k] = "end")
        /\ (pc'[k] \in {"sub", "end"} <=> pc[k] \in {"sub", "end"})
    BY <1>1, <2>1
  <2>. QED BY <1>1, <2>1, <2>2, <2>3 DEF Lower, Upper
<1>6. CASE CopyUp(j)
  <2>1. /\ pc[j] = "copy" /\ pc'[j] = "sub" /\ temp_arr' = temp_arr
        /\ evals'[k] = evals[k]
        /\ evals'[size + k] = IF k = j THEN temp_arr[j] ELSE evals[size + k]
    BY <1>1, <1>2, <1>3, <1>4, <1>6, Assigned DEF CopyUp, temp, upper
  <2>2. Moved(k)' = Moved(k)
    BY <1>1, <2>1 DEF Moved, temp
  <2>3. CASE k = j   BY <1>1, <2>1, <2>2, <2>3 DEF Lower, Upper, Moved, temp
  <2>4. CASE k # j   BY <1>1, <2>1, <2>2, <2>4 DEF Lower, Upper
  <2>. QED BY <2>3, <2>4
<1>7. CASE Sub(j)
  <2>1. /\ pc[j] = "sub" /\ pc'[j] = "end" /\ temp_arr' = temp_arr
        /\ evals'[k] = IF k = j THEN field_sub(evals[j], temp_arr[j]) ELSE evals[k]
        /\ evals'[size + k] = evals[size + k]
    BY <1>1, <1>2, <1>3, <1>4, <1>7, Assigned DEF Sub, temp
  <2>2. CASE k = j   BY <1>1, <2>1, <2>2 DEF Lower, Upper, Moved, temp
  <2>3. CASE k # j   BY <1>1, <2>1, <2>3 DEF Lower, Upper, Moved, temp
  <2>. QED BY <2>2, <2>3
<1>. QED BY <1>5, <1>6, <1>7

\* The first call of a loop doubles the table, the others leave it.
LEMMA IterateDoubles ==
    ASSUME TypeOK, NEW j \in DOMAIN pc, Mul(j) \/ CopyUp(j) \/ Sub(j)
    PROVE  /\ Begun  => UNCHANGED <<r, Rest, Entries>>
           /\ ~ Begun => Table!Double
<1>1. /\ InLoop /\ InLoop' /\ i >= 1
      /\ UNCHANGED <<r, i, size>>
      /\ j \in 1 .. size
      /\ pc' \in [1 .. size -> Call] /\ pc'[j] # "mul"
  BY IterateStep
<1>2. size \in Nat \ {0} /\ pc \in [1 .. size -> Call]
  BY <1>1, Room
<1>3. Begun'  BY <1>1 DEF Begun
<1>4. Both' = Both
  <2>1. \A k \in 1 .. size : Lower(k)' = Lower(k) /\ Upper(k)' = Upper(k)
    BY IterateKeeps
  <2>2. \A x \in 1 .. 2 * size : ~ (x <= size) => x - size \in 1 .. size
    BY <1>2
  <2>3. \A x \in 1 .. 2 * size : x <= size => x \in 1 .. size
    BY <1>2
  <2>4. Both' = [x \in 1 .. 2 * size |-> IF x <= size THEN Lower(x)' ELSE Upper(x - size)']
    BY <1>1 DEF Both
  <2>5. ASSUME NEW x \in 1 .. 2 * size
        PROVE  (IF x <= size THEN Lower(x)' ELSE Upper(x - size)')
             = (IF x <= size THEN Lower(x) ELSE Upper(x - size))
    <3>1. CASE x <= size       BY <2>1, <2>3, <3>1
    <3>2. CASE ~ (x <= size)
      <4>1. PICK y \in 1 .. size : y = x - size  BY <2>2, <3>2
      <4>2. Upper(y)' = Upper(y)  BY <2>1
      <4>3. Upper(x - size)' = Upper(y)'
        BY <1>1, <4>1 DEF Upper, Moved, temp
      <4>4. Upper(x - size) = Upper(y)  BY <4>1
      <4>. QED BY <3>2, <4>2, <4>3, <4>4
    <3>. QED BY <3>1, <3>2
  <2>. QED BY <2>4, <2>5 DEF Both
<1>5. CASE Begun
  BY <1>1, <1>3, <1>4, <1>5 DEF Rest, Entries, Whole, Both
<1>6. CASE ~ Begun
  <2>1. \A k \in 1 .. size : pc[k] = "mul"
    BY <1>1, <1>2, <1>6 DEF Begun
  <2>2. \A k \in 1 .. size : Lower(k) = field_sub(evals[k], field_mul(evals[k], r[i]))
                          /\ Upper(k) = field_mul(evals[k], r[i])
    BY <2>1 DEF Lower, Upper, Moved
  <2>3. Len(Whole) = size /\ \A k \in 1 .. size : Whole[k] = evals[k]
    BY <1>2 DEF Whole
  <2>4. Both = [x \in 1 .. 2 * Len(Whole) |->
                    IF x <= Len(Whole) THEN field_sub(Whole[x], field_mul(Whole[x], r[i]))
                    ELSE field_mul(Whole[x - Len(Whole)], r[i])]
    <3>1. ASSUME NEW x \in 1 .. 2 * size
          PROVE  (IF x <= size THEN Lower(x) ELSE Upper(x - size))
               = (IF x <= Len(Whole) THEN field_sub(Whole[x], field_mul(Whole[x], r[i]))
                  ELSE field_mul(Whole[x - Len(Whole)], r[i]))
      <4>1. x <= size => x \in 1 .. size  BY <1>2
      <4>2. ~ (x <= size) => x - size \in 1 .. size  BY <1>2
      <4>. QED BY <2>2, <2>3, <4>1, <4>2
    <3>. QED BY <2>3, <3>1 DEF Both
  <2>5. Rest = i /\ Rest' = i - 1 /\ Entries = Whole /\ Entries' = Both
    BY <1>1, <1>3, <1>4, <1>6 DEF Rest, Entries, Whole, Both
  <2>6. i > 0 /\ r' = r  BY <1>1 DEF Room, TypeOK
  <2>7. Entries' = [x \in 1 .. 2 * Len(Entries) |->
                    IF x <= Len(Entries) THEN field_sub(Entries[x], field_mul(Entries[x], r[Rest]))
                    ELSE field_mul(Entries[x - Len(Entries)], r[Rest])]
    BY <2>4, <2>5
  <2>8. Rest > 0 /\ Rest' = Rest - 1  BY <2>5, <2>6
  <2>9. Table!Double  BY <2>6, <2>7, <2>8 DEF Table!Double
  <2>. QED BY <1>6, <2>9
<1>. QED BY <1>5, <1>6

\* The end of a loop leaves the table as its iterations left it.
LEMMA EndLoopKeeps ==
    ASSUME TypeOK, EndLoop
    PROVE  UNCHANGED <<r, Rest, Entries>>
<1>0. /\ InLoop /\ i >= 1
      /\ UNCHANGED <<r, evals>> /\ size' = 2 * size /\ i' = i - 1
      /\ pc' = IF i' = 0 THEN <<>> ELSE [j \in 1 .. size' |-> "mul"]
      /\ \A j \in 1 .. size : pc[j] = "end"
  BY DEF EndLoop, InLoop, Started
<1>1. size \in Nat \ {0} /\ pc \in [1 .. size -> Call]
  BY <1>0, Room
<1>2. Begun
  <2>1. 1 \in DOMAIN pc /\ pc[1] = "end"  BY <1>0, <1>1
  <2>. QED BY <1>0, <2>1 DEF Begun
<1>3. ~ Begun'
  <2>1. CASE i' = 0   BY <1>0, <2>1 DEF Begun, InLoop
  <2>2. CASE i' # 0   BY <1>0, <2>2 DEF Begun
  <2>. QED BY <2>1, <2>2
<1>4. Rest = i - 1 /\ Rest' = i'  BY <1>2, <1>3 DEF Rest
<1>5. \A x \in 1 .. size : Lower(x) = evals[x] /\ Upper(x) = evals[size + x]
  BY <1>0 DEF Lower, Upper
<1>6. Both = Whole'
  <2>1. ASSUME NEW x \in 1 .. 2 * size
        PROVE  (IF x <= size THEN Lower(x) ELSE Upper(x - size)) = evals[x]
    <3>1. CASE x <= size
      <4>1. x \in 1 .. size  BY <1>1, <3>1
      <4>. QED BY <1>5, <3>1, <4>1
    <3>2. CASE ~ (x <= size)
      <4>1. x - size \in 1 .. size /\ size + (x - size) = x  BY <1>1, <3>2
      <4>. QED BY <1>5, <3>2, <4>1
    <3>. QED BY <3>1, <3>2
  <2>2. Whole' = [x \in 1 .. 2 * size |-> evals[x]]  BY <1>0 DEF Whole
  <2>. QED BY <2>1, <2>2 DEF Both
<1>7. Entries = Both  BY <1>2 DEF Entries, Both
<1>8. Entries' = Whole'  BY <1>3 DEF Entries, Whole
<1>. QED BY <1>0, <1>4, <1>6, <1>7, <1>8

(* Whatever the order of the iterations, the library doubles its table as  *)
(* the Rust code does, for inputs of every length and whatever field_mul   *)
(* and field_sub compute.                                                  *)
THEOREM SpecImplementsEqTable == Spec => ImplementsEqTable
<1>1. Init => Table!EqInit
  <2> SUFFICES ASSUME Init  PROVE Table!EqInit
    OBVIOUS
  <2>1. TypeOK  BY InitTypeOK
  <2>2. size = 1 /\ pc = [j \in 1 .. 1 |-> "mul"] /\ i = Len(r)
    BY DEF Init, Started, r_len
  <2>3. ~ Begun  BY <2>2 DEF Begun
  <2>4. evals[1] = field_one
    <3>0. r_len \in 0 .. MaxEll  BY <2>1 DEF TypeOK, r_len
    <3>1. evals_len \in Nat \ {0}
      BY <3>0, PowerAssumption DEF evals_len
    <3> HIDE DEF evals_len
    <3>2. evals = [x \in 1 .. evals_len |-> IF x = 1 THEN field_one ELSE field_zero]
      BY DEF Init
    <3>. QED BY <3>1, <3>2
  <2>5. Whole = <<field_one>>  BY <2>2, <2>4 DEF Whole
  <2>6. r \in UNION {[1 .. n -> Inputs] : n \in 0 .. MaxEll}
    BY DEF Init
  <2>7. Rest = Len(r) /\ Entries = <<field_one>>  BY <2>2, <2>3, <2>5 DEF Rest, Entries, Whole, Both
  <2>. QED BY <2>6, <2>7 DEF Table!EqInit
<1>2. TypeOK /\ [Next]_vars => [Table!Double]_<<r, Rest, Entries>>
  <2> SUFFICES ASSUME TypeOK, [Next]_vars
               PROVE  [Table!Double]_<<r, Rest, Entries>>
    OBVIOUS
  <2>1. CASE Reject
    <3>1. ~ InLoop /\ ~ InLoop' /\ UNCHANGED <<r, i, size, evals>>
      BY <2>1 DEF Reject, InLoop, r_len
    <3>. QED BY <3>1 DEF Rest, Entries, Begun, Whole
  <2>2. ASSUME NEW j \in 1 .. 2 ^ MaxEll, Iterate(j)
        PROVE  [Table!Double]_<<r, Rest, Entries>>
    BY <2>2, IterateDoubles DEF Iterate
  <2>3. CASE EndLoop
    BY <2>3, EndLoopKeeps
  <2>4. CASE Return
    <3>1. ~ InLoop /\ ~ InLoop' /\ UNCHANGED <<r, i, size, evals>>
      BY <2>4 DEF Return, InLoop, r_len
    <3>. QED BY <3>1 DEF Rest, Entries, Begun, Whole
  <2>5. CASE UNCHANGED vars
    BY <2>5 DEF vars, Rest, Entries, Begun, Whole, Both, Lower, Upper, Moved, InLoop, r_len, temp
  <2>. QED BY <2>1, <2>2, <2>3, <2>4, <2>5 DEF Next
<1>. QED BY <1>1, <1>2, SpecTypeOK, PTL
     DEF Spec, ImplementsEqTable, Table!EqSpec
----------------------------------------------------------------------------
(* The Rust table.                                                         *)

\* The factor of bit m, which goes with the entry m from the last of r.
factor(x, m) == IF Bit(x, m) = 1 THEN point[Ell - m] ELSE minus(ONE, point[Ell - m])

\* The products over more and more of them.
Chain(p, x) ==
    /\ p \in [0 .. Ell -> Scalar] /\ p[0] = ONE
    /\ \A m \in 0 .. Ell - 1 : p[m + 1] = times(p[m], factor(x, m))

LEMMA FactorType ==
  ASSUME FieldArithmetic, point \in Seq(Scalar), NEW x, NEW m \in 0 .. Ell - 1
  PROVE  factor(x, m) \in Scalar /\ point[Ell - m] \in Scalar
<1>1. Ell \in Nat /\ Ell - m \in 1 .. Ell  BY DEF Ell
<1>2. point[Ell - m] \in Scalar  BY <1>1 DEF Ell
<1>. QED BY <1>2 DEF factor, FieldArithmetic

LEMMA ChainExists ==
  ASSUME FieldArithmetic, point \in Seq(Scalar), NEW x
  PROVE  \E p : Chain(p, x)
<1> DEFINE F == [m \in 0 .. Ell - 1 |-> [y \in Scalar |-> times(y, factor(x, m))]]
<1>1. Ell \in Nat /\ ONE \in Scalar  BY DEF Ell, FieldArithmetic
<1>2. \A m \in 0 .. Ell - 1, y \in Scalar :
         F[m][y] = times(y, factor(x, m)) /\ F[m][y] \in Scalar
  <2> TAKE m \in 0 .. Ell - 1, y \in Scalar
  <2>1. factor(x, m) \in Scalar  BY FactorType
  <2>2. times(y, factor(x, m)) \in Scalar  BY <2>1 DEF FieldArithmetic
  <2>. QED BY <2>2
<1> HIDE DEF F
<1>3. StepsIn(F, Ell, Scalar)  BY <1>2 DEF StepsIn
<1>4. PICK p : Recursion(p, Ell, Scalar, ONE, F)  BY <1>1, <1>3, RecursionTo
<1>5. Chain(p, x)
  <2>1. p \in [0 .. Ell -> Scalar] /\ p[0] = ONE  BY <1>4 DEF Recursion
  <2>2. ASSUME NEW m \in 0 .. Ell - 1  PROVE p[m + 1] = times(p[m], factor(x, m))
    <3>1. p[m] \in Scalar  BY <1>1, <2>1
    <3>2. p[m + 1] = F[m][p[m]]  BY <1>4 DEF Recursion
    <3>. QED BY <1>2, <3>1, <3>2
  <2>. QED BY <2>1, <2>2 DEF Chain
<1>. QED BY <1>5

(* eq of the entries after k is the product of their factors.              *)
LEMMA EqIsChain ==
  ASSUME FieldArithmetic, point \in Seq(Scalar), NEW x, NEW k \in 0 .. Ell,
         NEW p, Chain(p, x)
  PROVE  eq(k, x) = p[Ell - k]
<1> DEFINE n == Ell - k
           fac(j) == IF Bit(x, Ell - (j + 1)) = 1 THEN point[j + 1]
                     ELSE minus(ONE, point[j + 1])
           Is(e) == e = [j \in k .. Ell |-> IF j = Ell THEN ONE ELSE times(e[j + 1], fac(j))]
           e == CHOOSE g : Is(g)
           h == [j \in k .. Ell |-> p[Ell - j]]
<1>0. Ell \in Nat /\ n \in Nat /\ n <= Ell /\ k = Ell - n  BY DEF Ell
<1>1. eq(k, x) = e[k]  BY DEF eq
<1>2. \A j \in k .. Ell - 1 : fac(j) = factor(x, Ell - (j + 1))
  <2> TAKE j \in k .. Ell - 1
  <2>1. Ell - (Ell - (j + 1)) = j + 1  BY <1>0
  <2>. QED BY <2>1 DEF factor
<1> HIDE DEF fac, n
<1>3. Is(h)
  <2>1. ASSUME NEW j \in k .. Ell
        PROVE  p[Ell - j] = IF j = Ell THEN ONE ELSE times(h[j + 1], fac(j))
    <3>1. CASE j = Ell  BY <1>0, <3>1 DEF Chain
    <3>2. CASE j # Ell
      <4> DEFINE m == Ell - (j + 1)
      <4>1. m \in 0 .. Ell - 1 /\ m + 1 = Ell - j /\ j + 1 \in k .. Ell
            /\ j \in k .. Ell - 1
        BY <1>0, <3>2
      <4>2. h[j + 1] = p[m]  BY <4>1
      <4>3. fac(j) = factor(x, m)  BY <1>2, <4>1
      <4> HIDE DEF h, m
      <4>4. p[m + 1] = times(p[m], factor(x, m))  BY <4>1 DEF Chain
      <4>. QED BY <3>2, <4>1, <4>2, <4>3, <4>4
    <3>. QED BY <3>1, <3>2
  <2>. QED BY <2>1
<1>4. Is(e)
  <2> HIDE DEF Is, h
  <2>. QED BY <1>3
<1> HIDE DEF e, h
<1> DEFINE T == {m \in 0 .. n : e[Ell - m] = p[m]}
<1>5. 0 \in T  BY <1>0, <1>4 DEF Chain
<1>6. ASSUME NEW m \in 0 .. n - 1, m \in T  PROVE m + 1 \in T
  <2> DEFINE j == Ell - (m + 1)
  <2>1. j \in k .. Ell - 1 /\ j + 1 = Ell - m /\ j # Ell /\ Ell - (j + 1) = m
        /\ j \in k .. Ell /\ m \in 0 .. Ell - 1
    BY <1>0
  <2> HIDE DEF j
  <2>2. e[j] = times(e[j + 1], fac(j))  BY <1>4, <2>1
  <2>3. p[m + 1] = times(p[m], factor(x, m))  BY <2>1 DEF Chain
  <2>4. fac(j) = factor(x, m)  BY <1>2, <2>1
  <2>5. e[j + 1] = p[m]  BY <1>6, <2>1
  <2>6. e[j] = p[m + 1]  BY <2>2, <2>3, <2>4, <2>5
  <2>7. m + 1 \in 0 .. n  BY <1>0
  <2>. QED BY <2>6, <2>7 DEF j
<1>7. n \in T
  <2> HIDE DEF T
  <2>1. \A m \in 0 .. n : m \in T  BY <1>0, <1>5, <1>6, InductionTo
  <2>. QED BY <1>0, <2>1
<1>8. e[k] = p[n]  BY <1>0, <1>7
<1>. QED BY <1>1, <1>8 DEF n

SameBits(n, x, y) == \A m \in 0 .. n - 1 : Bit(x, m) = Bit(y, m)

\* The product of the first n factors only depends on the first n bits.
LEMMA ChainSame ==
  ASSUME FieldArithmetic, point \in Seq(Scalar), NEW x, NEW y, NEW n \in 0 .. Ell,
         SameBits(n, x, y),
         NEW p, Chain(p, x), NEW q, Chain(q, y)
  PROVE  p[n] = q[n]
<1> DEFINE T == {m \in 0 .. n : p[m] = q[m]}
<1>0. Ell \in Nat /\ n \in Nat  BY DEF Ell
<1>1. 0 \in T  BY <1>0 DEF Chain
<1>2. ASSUME NEW m \in 0 .. n - 1, m \in T  PROVE m + 1 \in T
  <2>1. m \in 0 .. Ell - 1 /\ m + 1 \in 0 .. n  BY <1>0
  <2>2. factor(x, m) = factor(y, m)  BY DEF factor, SameBits
  <2>3. p[m + 1] = times(p[m], factor(x, m)) /\ q[m + 1] = times(q[m], factor(y, m))
    BY <2>1 DEF Chain
  <2>4. p[m] = q[m]  BY <1>2
  <2>. QED BY <2>1, <2>2, <2>3, <2>4
<1>3. n \in T
  <2> HIDE DEF T
  <2>1. \A m \in 0 .. n : m \in T  BY <1>0, <1>1, <1>2, InductionTo
  <2>. QED BY <1>0, <2>1
<1>. QED BY <1>3
----------------------------------------------------------------------------
(* Bits: adding a power of two does not touch the lower ones.              *)
LEMMA PowerSplit ==
  ASSUME NEW n \in 0 .. MaxEll, NEW m \in 0 .. n - 1
  PROVE  \E c \in Nat : 2 ^ n = 2 ^ m * (2 * c)
<1> DEFINE k == n - (m + 1)
           T == {d \in 0 .. k : \E c \in Nat : 2 ^ (m + 1 + d) = 2 ^ m * (2 * c)}
<1>0. MaxEll \in Nat /\ k \in Nat /\ m \in 0 .. MaxEll /\ m + 1 + k = n
  BY EllAssumption
<1>1. 0 \in T
  <2>1. 2 ^ (m + 1) = 2 * 2 ^ m /\ 2 ^ m \in Nat  BY <1>0, PowerAssumption
  <2>2. 2 ^ (m + 1 + 0) = 2 ^ m * (2 * 1)
    <3> DEFINE a == 2 ^ m
    <3>1. 2 ^ (m + 1 + 0) = 2 * a  BY <1>0, <2>1
    <3> HIDE DEF a
    <3>2. a \in Nat  BY <2>1 DEF a
    <3>3. 2 ^ (m + 1 + 0) = a * (2 * 1)  BY <3>1, <3>2
    <3>. QED BY <3>3 DEF a
  <2>. QED BY <1>0, <2>2
<1>2. ASSUME NEW d \in 0 .. k - 1, d \in T  PROVE d + 1 \in T
  <2>1. PICK c \in Nat : 2 ^ (m + 1 + d) = 2 ^ m * (2 * c)  BY <1>2
  <2>2. m + 1 + d \in 0 .. MaxEll /\ (m + 1 + d) + 1 = m + 1 + (d + 1)  BY <1>0
  <2>3. 2 ^ (m + 1 + (d + 1)) = 2 * 2 ^ (m + 1 + d)  BY <2>2, PowerAssumption
  <2>4. 2 ^ m \in Nat  BY <1>0, PowerAssumption
  <2> DEFINE a == 2 ^ m
  <2>5. 2 ^ (m + 1 + (d + 1)) = 2 * (a * (2 * c)) /\ a \in Nat  BY <2>1, <2>3, <2>4
  <2> HIDE DEF a
  <2>6. 2 * (a * (2 * c)) = a * (2 * (2 * c))  BY <2>5
  <2>7. 2 * c \in Nat /\ 2 ^ (m + 1 + (d + 1)) = a * (2 * (2 * c))  BY <2>5, <2>6
  <2>8. \E b \in Nat : 2 ^ (m + 1 + (d + 1)) = 2 ^ m * (2 * b)
    BY <2>7 DEF a
  <2>9. d + 1 \in 0 .. k  BY <1>0
  <2> HIDE DEF k
  <2>. QED BY <2>8, <2>9
<1>3. k \in T
  <2> HIDE DEF T, k
  <2>. QED BY <1>0, <1>1, <1>2, InductionTo
<1>. QED BY <1>0, <1>3

LEMMA QuotientLess ==
  ASSUME NEW d \in Nat \ {0}, NEW p \in Nat, NEW q \in Nat, p < q,
         NEW s \in 0 .. d - 1, NEW t \in 0 .. d - 1
  PROVE  d * p + s # d * q + t
<1> DEFINE c == q - p
<1>1. c \in Nat \ {0} /\ q = p + c  OBVIOUS
<1> HIDE DEF c
<1>2. d <= d * c /\ d * c \in Nat  BY <1>1, Factor
<1>3. d * q = d * p + d * c /\ d * p \in Nat  BY <1>1
<1>. QED BY <1>2, <1>3

LEMMA DivAdd ==
  ASSUME NEW y \in Nat, NEW d \in Nat \ {0}, NEW c \in Nat
  PROVE  (y + d * (2 * c)) \div d = (y \div d) + 2 * c
<1> DEFINE q == y \div d
           s == y % d
           z == y + d * (2 * c)
           p == z \div d
           t == z % d
<1>1. q \in Nat /\ s \in 0 .. d - 1 /\ y = d * q + s  OBVIOUS
<1>2. z \in Nat
  <2>1. d * (2 * c) \in Nat  OBVIOUS
  <2>. QED BY <2>1
<1> HIDE DEF z
<1>3. p \in Nat /\ t \in 0 .. d - 1 /\ z = d * p + t  BY <1>2
<1> HIDE DEF q, s, p, t
<1> DEFINE b == q + 2 * c
<1>4. b \in Nat /\ d * b = d * q + d * (2 * c)  BY <1>1
<1>5. d * q \in Nat /\ d * (2 * c) \in Nat  BY <1>1
<1> DEFINE x1 == d * q
           x2 == d * (2 * c)
<1>6. z = d * b + s
  <2> HIDE DEF x1, x2, b
  <2>1. z = (x1 + s) + x2 /\ d * b = x1 + x2 /\ x1 \in Nat /\ x2 \in Nat
    BY <1>1, <1>4, <1>5 DEF z, x1, x2
  <2>. QED BY <1>1, <2>1
<1> HIDE DEF b
<1>7. p = b
  <2>1. ~ (p < b)  BY <1>1, <1>3, <1>4, <1>6, QuotientLess
  <2>2. ~ (b < p)  BY <1>1, <1>3, <1>4, <1>6, QuotientLess
  <2>. QED BY <1>3, <1>4, <2>1, <2>2
<1>. QED BY <1>7 DEF p, b, q, z

LEMMA BitKeeps ==
  ASSUME NEW n \in 0 .. MaxEll, NEW m \in 0 .. n - 1, NEW x \in Nat \ {0}
  PROVE  Bit(x + 2 ^ n, m) = Bit(x, m)
<1>1. PICK c \in Nat : 2 ^ n = 2 ^ m * (2 * c)  BY PowerSplit
<1> DEFINE d == 2 ^ m
           y == x - 1
<1>2. d \in Nat \ {0} /\ y \in Nat  BY PowerAssumption, EllAssumption
<1>3. (x + 2 ^ n) - 1 = y + d * (2 * c)
  <2>1. 2 ^ n = d * (2 * c)  BY <1>1
  <2> HIDE DEF d
  <2>2. d * (2 * c) \in Nat  BY <1>2
  <2>. QED BY <2>1, <2>2
<1>4. /\ Bit(x + 2 ^ n, m) = ((y + d * (2 * c)) \div d) % 2
      /\ Bit(x, m) = (y \div d) % 2
  BY <1>3 DEF Bit
<1> HIDE DEF d, y
<1>5. (y + d * (2 * c)) \div d = (y \div d) + 2 * c
  BY <1>2, DivAdd
<1>7. y \div d \in Nat  BY <1>2
<1>6. \A q \in Nat : (q + 2 * c) % 2 = q % 2  OBVIOUS
<1>. QED BY <1>4, <1>5, <1>6, <1>7

(* The highest bit says in which half of the table an index is.            *)
LEMMA BitHalf ==
  ASSUME NEW n \in 0 .. MaxEll, NEW x \in 1 .. 2 * 2 ^ n
  PROVE  Bit(x, n) = IF x <= 2 ^ n THEN 0 ELSE 1
<1> DEFINE d == 2 ^ n
           y == x - 1
<1>1. d \in Nat \ {0}  BY PowerAssumption
<1>2. Bit(x, n) = (y \div d) % 2 /\ x \in 1 .. 2 * d  BY DEF Bit
<1> HIDE DEF d
<1>3. CASE x <= d
  <2>1. y \in 0 .. d - 1  BY <1>1, <1>2, <1>3
  <2>2. y \div d = 0  BY <1>1, <2>1
  <2>. QED BY <1>2, <1>3, <2>2 DEF d
<1>4. CASE ~ (x <= d)
  <2>1. y \in d .. 2 * d - 1  BY <1>1, <1>2, <1>4
  <2>2. y \div d = 1  BY <1>1, <2>1
  <2>. QED BY <1>2, <1>4, <2>2 DEF d
<1>. QED BY <1>3, <1>4
----------------------------------------------------------------------------
(* A doubling multiplies in the factor of one more entry.                  *)
LEMMA DoublingFactor ==
  ASSUME FieldArithmetic, point \in Seq(Scalar), Ell <= MaxEll,
         NEW k \in 1 .. Ell, NEW n, n = Ell - k, NEW x \in 1 .. 2 * 2 ^ n
  PROVE  /\ x <= 2 ^ n => eq(k - 1, x) = minus(eq(k, x), times(eq(k, x), point[k]))
         /\ ~ (x <= 2 ^ n) => eq(k - 1, x) = times(eq(k, x - 2 ^ n), point[k])
<1> DEFINE s == 2 ^ n
<1>0. /\ Ell \in Nat /\ n \in 0 .. Ell - 1 /\ n \in 0 .. MaxEll /\ Ell - n = k
      /\ k - 1 \in 0 .. Ell /\ Ell - (k - 1) = n + 1 /\ k \in 0 .. Ell /\ n \in 0 .. Ell
  BY EllAssumption DEF Ell
<1>1. s \in Nat \ {0}  BY <1>0, PowerAssumption
<1>2. PICK p : Chain(p, x)  BY ChainExists
<1>3. eq(k, x) = p[n] /\ eq(k - 1, x) = p[n + 1]
  BY <1>0, <1>2, EqIsChain
<1>4. p[n + 1] = times(p[n], factor(x, n)) /\ p[n] \in Scalar
  BY <1>0, <1>2 DEF Chain
<1>5. factor(x, n) = IF x <= s THEN minus(ONE, point[k]) ELSE point[k]
  BY <1>0, BitHalf DEF factor
<1>6. point[k] \in Scalar  BY <1>0, FactorType
<1>7. CASE x <= s
  <2>1. minus(p[n], times(p[n], point[k])) = times(p[n], minus(ONE, point[k]))
    BY <1>4, <1>6 DEF FieldArithmetic
  <2>. QED BY <1>3, <1>4, <1>5, <1>7, <2>1
<1>8. CASE ~ (x <= s)
  <2>1. PICK y \in Nat \ {0} : y = x - s /\ y + s = x
    <3> HIDE DEF s
    <3>. QED BY <1>1, <1>8
  <2>2. PICK q : Chain(q, y)  BY ChainExists
  <2>3. eq(k, y) = q[n]  BY <1>0, <2>2, EqIsChain
  <2>4. SameBits(n, x, y)
    <3> SUFFICES \A m \in 0 .. n - 1 : Bit(x, m) = Bit(y, m)
      BY DEF SameBits
    <3> TAKE m \in 0 .. n - 1
    <3>1. Bit(y + s, m) = Bit(y, m)  BY <1>0, <2>1, BitKeeps
    <3> HIDE DEF s
    <3>. QED BY <2>1, <3>1
  <2>5. p[n] = q[n]
    <3>1. n \in 0 .. Ell  BY <1>0
    <3>. QED BY <1>2, <2>2, <2>4, <3>1, ChainSame
  <2>6. eq(k - 1, x) = times(eq(k, y), point[k])
    BY <1>3, <1>4, <1>5, <1>8, <2>3, <2>5
  <2>. QED BY <1>8, <2>1, <2>6
<1>. QED BY <1>7, <1>8

\* The table is eq of what was used.
Evaluated ==
    /\ point \in Seq(Scalar) /\ Ell <= MaxEll /\ rest \in 0 .. Ell
    /\ table = [x \in 1 .. 2 ^ (Ell - rest) |-> eq(rest, x)]

LEMMA InitEvaluated ==
  ASSUME FieldArithmetic, EqInit
  PROVE  Evaluated
<1>1. PICK n \in 0 .. MaxEll : point \in [1 .. n -> Scalar]
  BY DEF EqInit
<1>2. n \in Nat /\ point \in Seq(Scalar) /\ Ell = n /\ rest = n
  BY <1>1, EllAssumption, SeqDef DEF EqInit, Ell
<1>3. eq(Ell, 1) = ONE
  <2>1. PICK p : Chain(p, 1)  BY <1>2, ChainExists
  <2>2. Ell \in 0 .. Ell /\ Ell - Ell = 0  BY <1>2
  <2>3. eq(Ell, 1) = p[Ell - Ell]  BY <1>2, <2>1, <2>2, EqIsChain
  <2>. QED BY <2>1, <2>2, <2>3 DEF Chain
<1>4. 2 ^ (Ell - rest) = 1  BY <1>2, PowerAssumption
<1>5. table = [x \in 1 .. 1 |-> eq(rest, x)]
  BY <1>2, <1>3 DEF EqInit
<1>6. table = [x \in 1 .. 2 ^ (Ell - rest) |-> eq(rest, x)]  BY <1>4, <1>5
<1>7. Ell <= MaxEll /\ rest \in 0 .. Ell  BY <1>1, <1>2
<1>. QED BY <1>2, <1>6, <1>7 DEF Evaluated

LEMMA DoubleEvaluated ==
  ASSUME FieldArithmetic, Evaluated, Double
  PROVE  Evaluated'
<1> DEFINE n == Ell - rest
           s == 2 ^ n
<1>0. /\ point \in Seq(Scalar) /\ Ell <= MaxEll /\ rest \in 1 .. Ell /\ Ell \in Nat
      /\ rest' = rest - 1 /\ point' = point /\ Ell' = Ell
  BY DEF Evaluated, Double, Ell
<1>1. n \in 0 .. MaxEll /\ Ell' - rest' = n + 1 /\ n = Ell - rest
  BY <1>0, EllAssumption
<1> HIDE DEF n
<1>2. s \in Nat \ {0} /\ 2 ^ (n + 1) = 2 * s
  BY <1>1, PowerAssumption
<1>3. table = [x \in 1 .. s |-> eq(rest, x)]  BY DEF Evaluated, n
<1>4. \A x \in 1 .. 2 * s :
         /\ x <= s => eq(rest - 1, x) = minus(eq(rest, x), times(eq(rest, x), point[rest]))
         /\ ~ (x <= s) => eq(rest - 1, x) = times(eq(rest, x - s), point[rest])
  BY <1>0, <1>1, DoublingFactor
<1> HIDE DEF s
<1>5. Len(table) = s  BY <1>2, <1>3
<1>6. table' = [x \in 1 .. 2 * s |->
                  IF x <= s THEN minus(table[x], times(table[x], point[rest]))
                  ELSE times(table[x - s], point[rest])]
  BY <1>5 DEF Double
<1>7. ASSUME NEW x \in 1 .. 2 * s
      PROVE  (IF x <= s THEN minus(table[x], times(table[x], point[rest]))
              ELSE times(table[x - s], point[rest])) = eq(rest - 1, x)
  <2>1. CASE x <= s
    <3>1. x \in 1 .. s  BY <1>2, <2>1
    <3>2. table[x] = eq(rest, x)  BY <1>3, <3>1
    <3>. QED BY <1>4, <2>1, <3>2
  <2>2. CASE ~ (x <= s)
    <3>1. x - s \in 1 .. s  BY <1>2, <2>2
    <3>2. table[x - s] = eq(rest, x - s)  BY <1>3, <3>1
    <3>. QED BY <1>4, <2>2, <3>2
  <2>. QED BY <2>1, <2>2
<1>8. ASSUME NEW x  PROVE eq(rest, x)' = eq(rest - 1, x)
  BY <1>0 DEF eq, Ell
<1>9. table' = [x \in 1 .. 2 ^ (Ell' - rest') |-> eq(rest, x)']
  BY <1>1, <1>2, <1>6, <1>7, <1>8
<1>10. rest' \in 0 .. Ell'  BY <1>0
<1>. QED BY <1>0, <1>9, <1>10 DEF Evaluated

(* In the Rust code, whose scalars are a field's, the table is the         *)
(* equality polynomial of the part of r that was used, for inputs of every *)
(* length, in the order of the doc comment of EqPolynomial.                *)
THEOREM SpecTableIsEq ==
    ASSUME FieldArithmetic
    PROVE  EqSpec => []TableIsEq
<1>1. EqInit => Evaluated  BY InitEvaluated
<1>2. Evaluated /\ [Double]_<<point, rest, table>> => Evaluated'
  <2> SUFFICES ASSUME Evaluated, [Double]_<<point, rest, table>>  PROVE Evaluated'
    OBVIOUS
  <2>1. CASE Double  BY <2>1, DoubleEvaluated
  <2>2. CASE UNCHANGED <<point, rest, table>>
    BY <2>2 DEF Evaluated, eq, Ell
  <2>. QED BY <2>1, <2>2
<1>3. Evaluated => TableIsEq
  <2> SUFFICES ASSUME Evaluated  PROVE TableIsEq
    OBVIOUS
  <2> DEFINE s == 2 ^ (Ell - rest)
  <2>1. s \in Nat
    <3>1. Ell \in Nat /\ Ell - rest \in 0 .. MaxEll  BY EllAssumption DEF Evaluated, Ell
    <3>. QED BY <3>1, PowerAssumption
  <2>2. table = [x \in 1 .. s |-> eq(rest, x)]  BY DEF Evaluated
  <2> HIDE DEF s
  <2>3. Len(table) = s /\ \A x \in DOMAIN table : table[x] = eq(rest, x)
    BY <2>1, <2>2
  <2>. QED BY <2>3 DEF TableIsEq, s
<1>. QED BY <1>1, <1>2, <1>3, PTL DEF EqSpec
----------------------------------------------------------------------------
(* field_ops.f90                                                            *)

\* Division of natural numbers, and of numbers less than the divisor.
LEMMA Division ==
    ASSUME NEW x \in Nat, NEW d \in Nat \ {0}
    PROVE  x \div d \in Nat /\ x % d \in 0 .. d - 1 /\ x = d * (x \div d) + (x % d)
OBVIOUS

LEMMA QuotientBelow ==
    ASSUME NEW x \in Nat, NEW d \in Nat \ {0}, NEW q \in Nat, x < d * q
    PROVE  x \div d \in 0 .. q - 1
<1>1. x \div d \in Nat /\ x % d \in 0 .. d - 1 /\ x = d * (x \div d) + (x % d)
  BY Division
<1> DEFINE p == x \div d
           e == x % d
<1>2. p \in Nat /\ e \in Nat /\ d * p + e < d * q  BY <1>1
<1> HIDE DEF p, e
<1>3. ASSUME p >= q  PROVE FALSE
  <2>1. PICK m \in Nat : p = q + m  BY <1>2, <1>3
  <2>2. d * p = d * q + d * m /\ d * m \in Nat  BY <2>1
  <2>3. d * q \in Nat  OBVIOUS
  <2>. QED BY <1>2, <2>2, <2>3
<1>. QED BY <1>2, <1>3 DEF p

LEMMA Wrapped ==
    ASSUME NEW x \in Int, NEW d \in Nat \ {0}
    PROVE  /\ x \in 0 .. d - 1 => x % d = x
           /\ -d <= x /\ x < 0 => x % d = x + d
OBVIOUS

LEMMA BasePositive == Base \in Nat \ {0} /\ Half \in Nat \ {0} /\ Base = Half * Half
BY LimbsAssumption DEF Base

LEMMA WrapLimb == ASSUME NEW x \in Limb PROVE wrap(x) = x
<1>1. x \in Int /\ x \in 0 .. Base - 1  BY BasePositive DEF Limb
<1>. QED BY <1>1, BasePositive, Wrapped DEF wrap

\* What a number is more than a smaller one.
LEMMA Above ==
    ASSUME NEW n \in Nat, NEW k \in 0 .. n - 1
    PROVE  \E m \in Nat : n = k + 1 + m
<1>1. n - (k + 1) \in Nat /\ n = k + 1 + (n - (k + 1))  OBVIOUS
<1>. QED BY <1>1

\* The product of two halves.
LEMMA HalfProduct ==
    ASSUME NEW x \in 0 .. Half - 1, NEW y \in 0 .. Half - 1
    PROVE  x * y \in Limb /\ x * y \in Nat
<1>1. Half \in Nat /\ x \in Nat /\ y \in Nat  BY BasePositive
<1>2. PICK m \in Nat : Half = x + 1 + m  BY <1>1, Above
<1>3. PICK n \in Nat : Half = y + 1 + n  BY <1>1, Above
<1>4. Half * Half = x * y + x * (1 + n) + (1 + m) * (y + 1 + n)
  <2>1. Half * Half = (x + (1 + m)) * (y + (1 + n))  BY <1>2, <1>3
  <2>. QED BY <2>1, <1>1
<1>5. x * y \in Nat /\ x * (1 + n) \in Nat /\ (1 + m) * (y + 1 + n) \in Nat
  BY <1>1
<1>6. (1 + m) * (y + 1 + n) = 1 + (y + n + m * (y + 1 + n)) /\ m * (y + 1 + n) \in Nat
  BY <1>1
<1>. QED BY <1>4, <1>5, <1>6, BasePositive DEF Limb

\* The two halves of a limb.
LEMMA Halves ==
    ASSUME NEW x \in Limb
    PROVE  /\ x % Half \in 0 .. Half - 1 /\ x \div Half \in 0 .. Half - 1
           /\ x = Half * (x \div Half) + (x % Half)
<1>1. x \in Nat /\ x < Half * Half /\ Half \in Nat \ {0}  BY BasePositive DEF Limb
<1>. QED BY <1>1, Division, QuotientBelow

\* The numbers mul64 works with, and what they are worth.
LEMMA Schoolbook ==
    ASSUME NEW h \in Nat, NEW a \in Nat, NEW b \in Nat, NEW c \in Nat, NEW d \in Nat,
           NEW q0 \in Nat, NEW r0 \in Nat, NEW q1 \in Nat, NEW r1 \in Nat,
           NEW q2 \in Nat, NEW r2 \in Nat, NEW q \in Nat, NEW rst \in Nat,
           a * c = h * q0 + r0, a * d = h * q1 + r1, b * c = h * q2 + r2,
           q0 + r1 + r2 = h * q + rst
    PROVE  (h * b + a) * (h * d + c) = (r0 + rst * h) + (b * d + q1 + q2 + q) * (h * h)
<1>1. (h * b + a) * (h * d + c) = (b * d) * (h * h) + (a * d) * h + (b * c) * h + a * c
  OBVIOUS
<1>2. (a * d) * h = q1 * (h * h) + r1 * h  OBVIOUS
<1>3. (b * c) * h = q2 * (h * h) + r2 * h  OBVIOUS
<1>4. (q0 + r1 + r2) * h = q * (h * h) + rst * h  OBVIOUS
<1>5. (q0 + r1 + r2) * h = h * q0 + r1 * h + r2 * h  OBVIOUS
<1>6. (b * d + q1 + q2 + q) * (h * h)
        = (b * d) * (h * h) + q1 * (h * h) + q2 * (h * h) + q * (h * h)
  OBVIOUS
<1> DEFINE A == (b * d) * (h * h)  B == (a * d) * h  C == (b * c) * h  D == a * c
           E == (h * b + a) * (h * d + c)
           F == q1 * (h * h)  G == q2 * (h * h)  I == q * (h * h)
           J == r1 * h  K == r2 * h  L == rst * h  M == h * q0
           N == (b * d + q1 + q2 + q) * (h * h)
           S == (q0 + r1 + r2) * h
<1>7. /\ A \in Nat /\ B \in Nat /\ C \in Nat /\ D \in Nat /\ F \in Nat /\ G \in Nat
      /\ I \in Nat /\ J \in Nat /\ K \in Nat /\ L \in Nat /\ M \in Nat
  OBVIOUS
<1>8. /\ E = A + B + C + D /\ B = F + J /\ C = G + K /\ S = I + L /\ S = M + J + K
      /\ N = A + F + G + I /\ D = M + r0
  BY <1>1, <1>2, <1>3, <1>4, <1>5, <1>6
<1>9. E = (r0 + L) + N
  <2> HIDE DEF A, B, C, D, E, F, G, I, J, K, L, M, N, S
  <2>. QED BY <1>7, <1>8
<1>. QED BY <1>9

\* A limb, from its halves.
LEMMA Joined ==
    ASSUME NEW r0 \in 0 .. Half - 1, NEW rst \in 0 .. Half - 1
    PROVE  r0 + rst * Half \in Limb
<1>1. Half \in Nat /\ r0 \in Nat /\ rst \in Nat  BY BasePositive
<1>2. PICK m \in Nat : Half = rst + 1 + m  BY <1>1, Above
<1>3. Half * Half = rst * Half + Half + m * Half  BY <1>1, <1>2
<1>4. m * Half \in Nat /\ rst * Half \in Nat  BY <1>1
<1>. QED BY <1>1, <1>3, <1>4, BasePositive DEF Limb

\* A product of two limbs leaves a limb above the lowest one.
LEMMA UpperLimb ==
    ASSUME NEW x \in Limb, NEW y \in Limb, NEW lo \in Limb, NEW hi \in Nat,
           x * y = lo + hi * Base
    PROVE  hi \in Limb
<1>1. Base \in Nat /\ x \in Nat /\ y \in Nat /\ lo \in Nat /\ x < Base /\ y < Base
  BY BasePositive DEF Limb
<1>2. SUFFICES ASSUME hi >= Base  PROVE FALSE
  BY <1>1 DEF Limb
<1>3. PICK m \in Nat : hi = Base + m  BY <1>1, <1>2
<1>4. PICK n \in Nat : Base = x + 1 + n  BY <1>1
<1>5. PICK p \in Nat : Base = y + 1 + p  BY <1>1
<1>6. x * y = lo + Base * Base + m * Base  BY <1>1, <1>3
<1>7. Base * Base = x * Base + Base + n * Base  BY <1>1, <1>4
<1>8. x * Base = x * y + x + x * p  BY <1>1, <1>5
<1>9. m * Base \in Nat /\ n * Base \in Nat /\ x * p \in Nat /\ x * y \in Nat
      /\ Base * Base \in Nat /\ x * Base \in Nat
  BY <1>1
<1>10. Base \in Nat \ {0}  BY BasePositive
<1>. QED
  <2> DEFINE A == x * y  B == Base * Base  C == x * Base  D == m * Base  E == n * Base
             F == x * p
  <2>1. /\ A = lo + B + D /\ B = C + Base + E /\ C = A + x + F
        /\ A \in Nat /\ B \in Nat /\ C \in Nat /\ D \in Nat /\ E \in Nat /\ F \in Nat
    BY <1>6, <1>7, <1>8, <1>9
  <2> HIDE DEF A, B, C, D, E, F
  <2>. QED BY <2>1, <1>1, <1>10

(* The product of two limbs is what the two limbs of mul64 stand for.      *)
LEMMA Mul64IsProduct ==
    ASSUME NEW x \in Limb, NEW y \in Limb
    PROVE  /\ mul64(x, y).lo \in Limb /\ mul64(x, y).hi \in Limb
           /\ mul64(x, y).lo + mul64(x, y).hi * Base = x * y
<1> DEFINE a == x % Half  b == x \div Half  c == y % Half  d == y \div Half
           p0 == a * c  p1 == a * d  p2 == b * c  p3 == b * d
           sum == (p0 \div Half) + (p1 % Half) + (p2 % Half)
           low == (p0 % Half) + (sum % Half) * Half
           high == p3 + (p1 \div Half) + (p2 \div Half) + (sum \div Half)
<1>1. /\ a \in 0 .. Half - 1 /\ b \in 0 .. Half - 1 /\ c \in 0 .. Half - 1
      /\ d \in 0 .. Half - 1 /\ x = Half * b + a /\ y = Half * d + c
  BY Halves
<1>2. mul64(x, y) =
        LET carry == wrap((wrap(p0) \div Half) + (wrap(p1) % Half) + (wrap(p2) % Half))
        IN  [lo |-> wrap((wrap(p0) % Half) + (carry % Half) * Half),
             hi |-> wrap(wrap(p3) + (wrap(p1) \div Half) + (wrap(p2) \div Half)
                             + (carry \div Half))]
  BY DEF mul64
<1>3. /\ p0 \in Limb /\ p1 \in Limb /\ p2 \in Limb /\ p3 \in Limb
      /\ p0 \in Nat /\ p1 \in Nat /\ p2 \in Nat /\ p3 \in Nat
  <2> HIDE DEF a, b, c, d
  <2>. QED BY <1>1, HalfProduct
<1>4. wrap(p0) = p0 /\ wrap(p1) = p1 /\ wrap(p2) = p2 /\ wrap(p3) = p3
  <2> HIDE DEF p0, p1, p2, p3
  <2>. QED BY <1>3, WrapLimb
<1>5. mul64(x, y) =
        [lo |-> wrap((p0 % Half) + (wrap(sum) % Half) * Half),
         hi |-> wrap(p3 + (p1 \div Half) + (p2 \div Half) + (wrap(sum) \div Half))]
  <2> HIDE DEF p0, p1, p2, p3
  <2>. QED BY <1>2, <1>4
<1> HIDE DEF a, b, c, d
<1>6. /\ p0 \div Half \in 0 .. Half - 1 /\ p0 % Half \in 0 .. Half - 1
      /\ p1 \div Half \in Nat /\ p1 % Half \in 0 .. Half - 1
      /\ p2 \div Half \in Nat /\ p2 % Half \in 0 .. Half - 1
      /\ p0 = Half * (p0 \div Half) + (p0 % Half)
      /\ p1 = Half * (p1 \div Half) + (p1 % Half)
      /\ p2 = Half * (p2 \div Half) + (p2 % Half)
  <2> HIDE DEF p0, p1, p2
  <2>. QED BY <1>3, BasePositive, Division, Halves
<1>7. sum \in Nat /\ sum \in Limb
  <2> DEFINE u == p0 \div Half  v == p1 % Half  w == p2 % Half
  <2>1. u \in 0 .. Half - 1 /\ v \in 0 .. Half - 1 /\ w \in 0 .. Half - 1  BY <1>6
  <2>2. sum = u + v + w  OBVIOUS
  <2> HIDE DEF u, v, w, sum
  <2>3. sum \in Nat /\ sum <= 3 * (Half - 1)  BY <2>1, <2>2, BasePositive
  <2>4. 3 * (Half - 1) < Half * Half
    <3>1. Half \in Nat \ {0}  BY BasePositive
    <3>2. CASE Half = 1  BY <3>2
    <3>3. CASE Half = 2  BY <3>3
    <3>4. CASE Half >= 3
      <4>0. 2 \in 0 .. Half - 1  BY <3>1, <3>4
      <4>1. PICK m \in Nat : Half = 2 + 1 + m  BY <3>1, <4>0, Above
      <4>2. Half * Half = 3 * Half + m * Half /\ m * Half \in Nat  BY <4>1
      <4>. QED BY <4>2, <3>1
    <3>. QED BY <3>1, <3>2, <3>3, <3>4
  <2>. QED BY <2>3, <2>4, BasePositive DEF Limb
<1>8. wrap(sum) = sum
  <2> HIDE DEF sum
  <2>. QED BY <1>7, WrapLimb
<1>9. /\ sum \div Half \in Nat /\ sum % Half \in 0 .. Half - 1
      /\ sum = Half * (sum \div Half) + (sum % Half)
  <2> HIDE DEF sum
  <2>. QED BY <1>7, BasePositive, Division
<1>10. low \in Limb
  <2> DEFINE u == p0 % Half  v == sum % Half
  <2>1. u \in 0 .. Half - 1 /\ v \in 0 .. Half - 1 /\ low = u + v * Half
    BY <1>6, <1>9
  <2> HIDE DEF u, v, low
  <2>. QED BY <2>1, Joined
<1>11. x * y = low + high * Base /\ high \in Nat
  <2> DEFINE q0 == p0 \div Half  r0 == p0 % Half  q1 == p1 \div Half  r1 == p1 % Half
             q2 == p2 \div Half  r2 == p2 % Half  q == sum \div Half  rst == sum % Half
  <2>1. /\ a \in Nat /\ b \in Nat /\ c \in Nat /\ d \in Nat
        /\ q0 \in Nat /\ r0 \in Nat /\ q1 \in Nat /\ r1 \in Nat
        /\ q2 \in Nat /\ r2 \in Nat /\ q \in Nat /\ rst \in Nat /\ Half \in Nat
    BY <1>1, <1>6, <1>9, BasePositive
  <2>2. /\ a * c = Half * q0 + r0 /\ a * d = Half * q1 + r1 /\ b * c = Half * q2 + r2
        /\ q0 + r1 + r2 = Half * q + rst
    BY <1>6, <1>9
  <2>3. low = r0 + rst * Half /\ high = b * d + q1 + q2 + q  OBVIOUS
  <2> HIDE DEF q0, r0, q1, r1, q2, r2, q, rst, low, high, p0, p1, p2, p3, sum
  <2>4. (Half * b + a) * (Half * d + c)
            = (r0 + rst * Half) + (b * d + q1 + q2 + q) * (Half * Half)
    BY <2>1, <2>2, Schoolbook, SMTT(60)
  <2>5. high \in Nat  BY <2>1, <2>3
  <2>. QED BY <2>3, <2>4, <2>5, <1>1, BasePositive
<1>12. high \in Limb
  <2> HIDE DEF low, high
  <2>. QED BY <1>10, <1>11, UpperLimb
<1>13. mul64(x, y) = [lo |-> low, hi |-> high]
  <2>1. mul64(x, y) = [lo |-> wrap(low), hi |-> wrap(high)]  BY <1>5, <1>8
  <2>2. wrap(low) = low /\ wrap(high) = high
    <3> HIDE DEF low, high
    <3>. QED BY <1>10, <1>12, WrapLimb
  <2>. QED BY <2>1, <2>2
<1> HIDE DEF low, high
<1>. QED BY <1>10, <1>11, <1>12, <1>13
----------------------------------------------------------------------------
\* weight is the table its definition asks for.
LEMMA Weights ==
    /\ weight[0] = 1
    /\ \A k \in 1 .. 2 * NLIMBS : weight[k] = weight[k - 1] * Base
    /\ \A k \in 0 .. 2 * NLIMBS : weight[k] \in Nat \ {0}
<1> DEFINE n == 2 * NLIMBS
           Is(g) == g = [k \in 0 .. n |-> IF k = 0 THEN 1 ELSE g[k - 1] * Base]
           F == [k \in 0 .. n - 1 |-> [x \in Nat \ {0} |-> x * Base]]
           G == CHOOSE g : Is(g)
<1>1. weight = G  BY DEF weight
<1>2. n \in Nat  BY LimbsAssumption
<1>3. StepsIn(F, n, Nat \ {0})
  <2>1. \A k \in 0 .. n - 1 : \A x \in Nat \ {0} : F[k][x] = x * Base  OBVIOUS
  <2>2. \A x \in Nat \ {0} : x * Base \in Nat \ {0}
    <3>1. Base \in Nat \ {0}  BY BasePositive
    <3>. QED BY <3>1
  <2> HIDE DEF F
  <2>. QED BY <2>1, <2>2 DEF StepsIn
<1>4. PICK h : Recursion(h, n, Nat \ {0}, 1, F)
  <2>1. 1 \in Nat \ {0}  OBVIOUS
  <2> HIDE DEF F, n
  <2>. QED BY <1>2, <1>3, <2>1, RecursionTo
<1>5. /\ h \in [0 .. n -> Nat \ {0}] /\ h[0] = 1
      /\ \A k \in 0 .. n - 1 : h[k + 1] = F[k][h[k]]
  BY <1>4 DEF Recursion
<1>6. ASSUME NEW k \in 1 .. n  PROVE h[k] = h[k - 1] * Base
  <2>1. k - 1 \in 0 .. n - 1 /\ k - 1 \in 0 .. n /\ (k - 1) + 1 = k  BY <1>2
  <2>2. h[k] = F[k - 1][h[k - 1]] /\ h[k - 1] \in Nat \ {0}
    <3> HIDE DEF F, n
    <3>. QED BY <2>1, <1>5
  <2>. QED BY <2>1, <2>2
<1> HIDE DEF n
<1>7. Is(h)
  <2> DEFINE v(k) == IF k = 0 THEN 1 ELSE h[k - 1] * Base
  <2>1. ASSUME NEW k \in 0 .. n  PROVE h[k] = v(k)
    <3>1. CASE k = 0  BY <3>1, <1>5
    <3>2. CASE k # 0
      <4>1. k \in 1 .. n  BY <3>2, <1>2
      <4>. QED BY <4>1, <3>2, <1>6
    <3>. QED BY <3>1, <3>2
  <2>2. h = [k \in 0 .. n |-> h[k]]  BY <1>5
  <2>3. h = [k \in 0 .. n |-> v(k)]
    <3> HIDE DEF v
    <3>. QED BY <2>1, <2>2
  <2>. QED BY <2>3
<1>8. Is(G)  BY <1>7
<1> HIDE DEF G
<1>9. G[0] = 1  BY <1>8, <1>2
<1>10. \A k \in 1 .. n : G[k] = G[k - 1] * Base
  <2> TAKE k \in 1 .. n
  <2>1. k \in 0 .. n /\ k # 0  BY <1>2
  <2>. QED BY <2>1, <1>8
<1>11. \A k \in 0 .. n : G[k] \in Nat \ {0}
  <2> DEFINE T == {k \in 0 .. n : G[k] \in Nat \ {0}}
  <2>1. 0 \in T  BY <1>9, <1>2
  <2>2. ASSUME NEW k \in 0 .. n - 1, k \in T  PROVE k + 1 \in T
    <3>1. k + 1 \in 1 .. n /\ k + 1 \in 0 .. n /\ (k + 1) - 1 = k /\ G[k] \in Nat \ {0}
      BY <2>2, <1>2
    <3>2. G[k + 1] = G[k] * Base  BY <3>1, <1>10
    <3>3. Base \in Nat \ {0}  BY BasePositive
    <3>4. G[k] * Base \in Nat \ {0}
      <4> DEFINE g == G[k]
      <4>1. g \in Nat \ {0}  BY <3>1
      <4> HIDE DEF g
      <4>2. g * Base \in Nat \ {0}  BY <4>1, <3>3
      <4>. QED BY <4>2 DEF g
    <3>. QED BY <3>1, <3>2, <3>4
  <2>3. \A k \in 0 .. n : k \in T
    <3> HIDE DEF T
    <3>. QED BY <1>2, <2>1, <2>2, InductionTo
  <2>. QED BY <2>3
<1>. QED BY <1>1, <1>9, <1>10, <1>11 DEF n

\* t adds up the limbs of s, one after the other.
LimbSums(t, s, n) ==
    /\ t[0] = 0
    /\ \A k \in 0 .. n : t[k] \in Int
    /\ \A k \in 1 .. n : t[k] = t[k - 1] + s[k] * weight[k - 1]

LEMMA ValueTable ==
    ASSUME NEW n \in 0 .. 2 * NLIMBS, NEW s, Len(s) = n, \A k \in 1 .. n : s[k] \in Int
    PROVE  \E t : LimbSums(t, s, n) /\ Value(s) = t[n]
<1> DEFINE Is(g) == g = [k \in 0 .. Len(s) |->
                            IF k = 0 THEN 0 ELSE g[k - 1] + s[k] * weight[k - 1]]
           F == [k \in 0 .. n - 1 |-> [x \in Int |-> x + s[k + 1] * weight[k]]]
           G == CHOOSE g : Is(g)
<1>1. Value(s) = G[Len(s)]  BY DEF Value
<1>2. n \in Nat /\ \A k \in 0 .. n : weight[k] \in Int
  <2>1. \A k \in 0 .. 2 * NLIMBS : weight[k] \in Int  BY Weights
  <2>2. 2 * NLIMBS \in Nat  BY LimbsAssumption
  <2>. QED BY <2>1, <2>2
<1>3. StepsIn(F, n, Int)
  <2>1. ASSUME NEW k \in 0 .. n - 1, NEW x \in Int  PROVE F[k][x] \in Int
    <3>1. s[k + 1] \in Int /\ weight[k] \in Int  BY <1>2
    <3>2. F[k][x] = x + s[k + 1] * weight[k]  OBVIOUS
    <3>3. s[k + 1] * weight[k] \in Int
      <4> DEFINE c == s[k + 1]  w == weight[k]
      <4>1. c \in Int /\ w \in Int  BY <3>1
      <4> HIDE DEF c, w
      <4>2. c * w \in Int  BY <4>1
      <4>. QED BY <4>2 DEF c, w
    <3>. QED BY <3>2, <3>3
  <2> HIDE DEF F
  <2>. QED BY <2>1 DEF StepsIn
<1>4. PICK h : Recursion(h, n, Int, 0, F)
  <2>1. 0 \in Int  OBVIOUS
  <2> HIDE DEF F
  <2>. QED BY <1>2, <1>3, <2>1, RecursionTo
<1>5. /\ h \in [0 .. n -> Int] /\ h[0] = 0
      /\ \A k \in 0 .. n - 1 : h[k + 1] = F[k][h[k]]
  BY <1>4 DEF Recursion
<1>6. ASSUME NEW k \in 1 .. n  PROVE h[k] = h[k - 1] + s[k] * weight[k - 1]
  <2>1. k - 1 \in 0 .. n - 1 /\ k - 1 \in 0 .. n /\ (k - 1) + 1 = k  BY <1>2
  <2>2. h[k] = F[k - 1][h[k - 1]] /\ h[k - 1] \in Int
    <3> HIDE DEF F
    <3>. QED BY <2>1, <1>5
  <2>. QED BY <2>1, <2>2
<1>7. Is(h)
  <2> DEFINE v(k) == IF k = 0 THEN 0 ELSE h[k - 1] + s[k] * weight[k - 1]
  <2>1. ASSUME NEW k \in 0 .. n  PROVE h[k] = v(k)
    <3>1. CASE k = 0  BY <3>1, <1>5
    <3>2. CASE k # 0
      <4>1. k \in 1 .. n  BY <3>2, <1>2
      <4>. QED BY <4>1, <3>2, <1>6
    <3>. QED BY <3>1, <3>2
  <2>2. h = [k \in 0 .. n |-> h[k]]  BY <1>5
  <2>3. h = [k \in 0 .. n |-> v(k)]
    <3> HIDE DEF v
    <3>. QED BY <2>1, <2>2
  <2>. QED BY <2>3
<1>8. Is(G)  BY <1>7
<1> HIDE DEF G
<1>9. G[0] = 0  BY <1>8, <1>2
<1>10. \A k \in 1 .. n : G[k] = G[k - 1] + s[k] * weight[k - 1]
  <2> TAKE k \in 1 .. n
  <2>1. k \in 0 .. n /\ k # 0  BY <1>2
  <2>. QED BY <2>1, <1>8
<1>11. \A k \in 0 .. n : G[k] \in Int
  <2> DEFINE T == {k \in 0 .. n : G[k] \in Int}
  <2>1. 0 \in T  BY <1>9, <1>2
  <2>2. ASSUME NEW k \in 0 .. n - 1, k \in T  PROVE k + 1 \in T
    <3>1. k + 1 \in 1 .. n /\ k + 1 \in 0 .. n /\ (k + 1) - 1 = k /\ G[k] \in Int
      BY <2>2, <1>2
    <3>2. G[k + 1] = G[k] + s[k + 1] * weight[k]  BY <3>1, <1>10
    <3>3. s[k + 1] \in Int /\ weight[k] \in Int  BY <1>2
    <3>4. G[k] + s[k + 1] * weight[k] \in Int
      <4> DEFINE g == G[k]  c == s[k + 1]  w == weight[k]
      <4>1. g \in Int /\ c \in Int /\ w \in Int  BY <3>1, <3>3
      <4> HIDE DEF g, c, w
      <4>2. g + c * w \in Int  BY <4>1
      <4>. QED BY <4>2 DEF g, c, w
    <3>. QED BY <3>1, <3>2, <3>4
  <2>3. \A k \in 0 .. n : k \in T
    <3> HIDE DEF T
    <3>. QED BY <1>2, <2>1, <2>2, InductionTo
  <2>. QED BY <2>3
<1>12. LimbSums(G, s, n)  BY <1>9, <1>10, <1>11 DEF LimbSums
<1>. QED BY <1>1, <1>12

\* Numbers of one limb, and of two.
LEMMA OneLimb ==
    ASSUME NEW x \in Int
    PROVE  Value(<<x>>) = x
<1> DEFINE s == <<x>>
<1>1. Len(s) = 1 /\ s[1] = x  OBVIOUS
<1> HIDE DEF s
<1>2. 1 \in 0 .. 2 * NLIMBS /\ \A k \in 1 .. 1 : s[k] \in Int  BY <1>1, LimbsAssumption
<1>3. PICK t : LimbSums(t, s, 1) /\ Value(s) = t[1]  BY <1>1, <1>2, ValueTable
<1>4. t[0] = 0 /\ t[1] = t[1 - 1] + s[1] * weight[1 - 1]  BY <1>3 DEF LimbSums
<1>5. t[1] = 0 + x * 1  BY <1>1, <1>4, Weights
<1>. QED BY <1>3, <1>5 DEF s

LEMMA TwoLimbs ==
    ASSUME NEW x \in Int, NEW y \in Int
    PROVE  Value(<<x, y>>) = x + y * Base
<1> DEFINE s == <<x, y>>
<1>1. Len(s) = 2 /\ s[1] = x /\ s[2] = y  OBVIOUS
<1> HIDE DEF s
<1>2. 2 \in 0 .. 2 * NLIMBS /\ \A k \in 1 .. 2 : s[k] \in Int
  BY <1>1, LimbsAssumption
<1>3. PICK t : LimbSums(t, s, 2) /\ Value(s) = t[2]  BY <1>1, <1>2, ValueTable
<1>4. /\ t[0] = 0 /\ t[1] = t[1 - 1] + s[1] * weight[1 - 1]
      /\ t[2] = t[2 - 1] + s[2] * weight[2 - 1]
  BY <1>3 DEF LimbSums
<1>5. weight[0] = 1 /\ weight[1] = Base
  <2>1. 1 \in 1 .. 2 * NLIMBS /\ 1 - 1 = 0  BY LimbsAssumption
  <2>2. weight[1] = weight[0] * Base /\ weight[0] = 1  BY <2>1, Weights
  <2>3. 1 * Base = Base  BY BasePositive
  <2>. QED BY <2>2, <2>3
<1>6. t[1] = 0 + x * 1  BY <1>1, <1>4, <1>5
<1>7. t[2] = x + y * Base
  <2>1. t[1] = x  BY <1>6
  <2>2. t[2] = t[1] + y * Base  BY <1>1, <1>4, <1>5
  <2>. QED BY <2>1, <2>2
<1>. QED BY <1>3, <1>7 DEF s
----------------------------------------------------------------------------
\* Whether limb k of x - y borrows from the next one.
borrows(x, y, b, k) == IF lt(x[k], wrap(y[k] + b[k - 1])) THEN 1 ELSE 0
Borrows(b, x, y) ==
    /\ b[0] = 0
    /\ \A k \in 0 .. NLIMBS : b[k] \in {0, 1}
    /\ \A k \in 1 .. NLIMBS : b[k] = borrows(x, y, b, k)

LEMMA BorrowTable ==
    ASSUME NEW x, NEW y
    PROVE  \E b : /\ Borrows(b, x, y)
                  /\ field_sub_no_borrow(x, y) = [k \in Idx |-> wrap(x[k] - y[k] - b[k - 1])]
<1> DEFINE Is(g) == g = [k \in 0 .. NLIMBS |->
                IF k = 0 THEN 0
                ELSE IF lt(x[k], wrap(y[k] + g[k - 1])) THEN 1 ELSE 0]
           step(k, c) == IF lt(x[k + 1], wrap(y[k + 1] + c)) THEN 1 ELSE 0
           F == [k \in 0 .. NLIMBS - 1 |-> [c \in {0, 1} |-> step(k, c)]]
           G == CHOOSE g : Is(g)
<1>1. field_sub_no_borrow(x, y) = [k \in Idx |-> wrap(x[k] - y[k] - G[k - 1])]
  BY DEF field_sub_no_borrow
<1>2. NLIMBS \in Nat  BY LimbsAssumption
<1>3. StepsIn(F, NLIMBS, {0, 1})
  <2>1. \A k \in 0 .. NLIMBS - 1 : \A c \in {0, 1} : F[k][c] \in {0, 1}  OBVIOUS
  <2> HIDE DEF F
  <2>. QED BY <2>1 DEF StepsIn
<1>4. PICK h : Recursion(h, NLIMBS, {0, 1}, 0, F)
  <2>1. 0 \in {0, 1}  OBVIOUS
  <2> HIDE DEF F
  <2>. QED BY <1>2, <1>3, <2>1, RecursionTo
<1>5. /\ h \in [0 .. NLIMBS -> {0, 1}] /\ h[0] = 0
      /\ \A k \in 0 .. NLIMBS - 1 : h[k + 1] = F[k][h[k]]
  BY <1>4 DEF Recursion
<1>6. ASSUME NEW k \in 1 .. NLIMBS
      PROVE  h[k] = IF lt(x[k], wrap(y[k] + h[k - 1])) THEN 1 ELSE 0
  <2>1. k - 1 \in 0 .. NLIMBS - 1 /\ k - 1 \in 0 .. NLIMBS /\ (k - 1) + 1 = k  BY <1>2
  <2>2. h[k] = F[k - 1][h[k - 1]] /\ h[k - 1] \in {0, 1}
    <3> HIDE DEF F
    <3>. QED BY <2>1, <1>5
  <2>3. F[k - 1][h[k - 1]] = step(k - 1, h[k - 1])
    <3> HIDE DEF step
    <3>. QED BY <2>1, <2>2
  <2>. QED BY <2>1, <2>2, <2>3
<1>7. Is(h)
  <2> DEFINE v(k) == IF k = 0 THEN 0
                     ELSE IF lt(x[k], wrap(y[k] + h[k - 1])) THEN 1 ELSE 0
  <2>1. ASSUME NEW k \in 0 .. NLIMBS  PROVE h[k] = v(k)
    <3>1. CASE k = 0  BY <3>1, <1>5
    <3>2. CASE k # 0
      <4>1. k \in 1 .. NLIMBS  BY <3>2, <1>2
      <4>. QED BY <4>1, <3>2, <1>6
    <3>. QED BY <3>1, <3>2
  <2>2. h = [k \in 0 .. NLIMBS |-> h[k]]  BY <1>5
  <2>3. h = [k \in 0 .. NLIMBS |-> v(k)]
    <3> HIDE DEF v
    <3>. QED BY <2>1, <2>2
  <2>. QED BY <2>3
<1>8. Is(G)  BY <1>7
<1> HIDE DEF G
<1>9. G[0] = 0  BY <1>8, <1>2
<1>10. \A k \in 1 .. NLIMBS : G[k] = borrows(x, y, G, k)
  <2> TAKE k \in 1 .. NLIMBS
  <2>1. k \in 0 .. NLIMBS /\ k # 0  BY <1>2
  <2>. QED BY <2>1, <1>8 DEF borrows
<1>11. \A k \in 0 .. NLIMBS : G[k] \in {0, 1}
  <2> TAKE k \in 0 .. NLIMBS
  <2>1. CASE k = 0  BY <2>1, <1>9
  <2>2. CASE k # 0
    <3>1. k \in 1 .. NLIMBS  BY <2>2, <1>2
    <3>2. borrows(x, y, G, k) \in {0, 1}  BY DEF borrows
    <3>. QED BY <3>1, <3>2, <1>10
  <2>. QED BY <2>1, <2>2
<1>12. Borrows(G, x, y)  BY <1>9, <1>10, <1>11 DEF Borrows
<1>. QED BY <1>1, <1>12

\* A limb below the sign bit is compared as what it is.
LEMMA SignedIsUnsigned ==
    ASSUME NEW x \in Nat, NEW y \in Nat, x < Base \div 2, y < Base \div 2
    PROVE  lt(x, y) <=> x < y
<1>1. Base \div 2 \in Nat  BY BasePositive
<1>. QED BY <1>1 DEF lt, signed

\* What a limb of a difference is worth, with the borrows before and after it.
LEMMA LimbDifference ==
    ASSUME NEW x \in Limb, NEW y \in Limb, NEW b \in {0, 1}, NEW c \in {0, 1},
           x < Base \div 2 - 1, y < Base \div 2 - 1,
           c = IF lt(x, wrap(y + b)) THEN 1 ELSE 0
    PROVE  /\ wrap(x - y - b) \in Limb
           /\ wrap(x - y - b) = x - y - b + c * Base
<1>1. Base \in Nat \ {0} /\ Base \div 2 \in Nat /\ Base \div 2 <= Base
      /\ x \in Nat /\ y \in Nat /\ x < Base /\ y < Base
  BY BasePositive DEF Limb
<1>2. y + b \in Limb /\ y + b < Base \div 2  BY <1>1 DEF Limb
<1>3. wrap(y + b) = y + b  BY <1>2, WrapLimb
<1>4. lt(x, y + b) <=> x < y + b  BY <1>1, <1>2, SignedIsUnsigned
<1> DEFINE d == x - y - b
<1>5. d \in Int /\ -Base <= d /\ d < Base /\ (d < 0 <=> x < y + b)  BY <1>1
<1>6. CASE x < y + b
  <2>1. c = 1 /\ d < 0  BY <1>3, <1>4, <1>5, <1>6
  <2> HIDE DEF d
  <2>2. d % Base = d + Base  BY <2>1, <1>1, <1>5, Wrapped
  <2>3. d + Base \in Limb  BY <2>1, <1>1, <1>5 DEF Limb
  <2>4. wrap(d) = d + Base  BY <2>2 DEF wrap
  <2>5. d + c * Base = d + Base  BY <2>1, <1>1
  <2>. QED BY <2>3, <2>4, <2>5 DEF d
<1>7. CASE ~ (x < y + b)
  <2>1. c = 0 /\ ~ (d < 0)  BY <1>3, <1>4, <1>5, <1>7
  <2> HIDE DEF d
  <2>2. d \in Limb  BY <2>1, <1>1, <1>5 DEF Limb
  <2>3. wrap(d) = d  BY <2>2, WrapLimb
  <2>4. d + c * Base = d  BY <2>1, <1>1, <1>5
  <2>. QED BY <2>2, <2>3, <2>4 DEF d
<1>. QED BY <1>6, <1>7

\* A difference of numbers below w, and of limbs, with the borrows.
Difference(s, p, q, b, w) == s = p - q + b * w /\ s < w
Digit(z, x, y, b, c) == z = x - y - b + c * Base

\* One limb more of a difference.
LEMMA NextLimb ==
    ASSUME NEW p \in Int, NEW q \in Int, NEW s \in Int, NEW w \in Nat \ {0},
           NEW x \in Int, NEW y \in Int, NEW b \in Int, NEW c \in Int, NEW z \in Limb,
           Difference(s, p, q, b, w), Digit(z, x, y, b, c)
    PROVE  Difference(s + z * w, p + x * w, q + y * w, c, w * Base)
<1> USE DEF Difference, Digit
<1>1. Base \in Nat /\ z \in Int /\ z < Base /\ Base \in Int  BY BasePositive DEF Limb
<1>2. z * w = x * w - y * w - b * w + c * (w * Base)  BY <1>1
<1>3. PICK m \in Nat : Base = z + 1 + m  BY <1>1
<1>4. w * Base = z * w + w + m * w /\ m * w \in Nat  BY <1>1, <1>3
<1>5. z * w \in Int /\ x * w \in Int /\ y * w \in Int /\ b * w \in Int
      /\ c * (w * Base) \in Int
  BY <1>1
<1> DEFINE A == z * w  B == x * w  C == y * w  D == b * w  E == c * (w * Base)
           F == w * Base  I == m * w
<1>6. /\ A \in Int /\ B \in Int /\ C \in Int /\ D \in Int /\ E \in Int /\ I \in Nat
      /\ A = B - C - D + E /\ F = A + w + I /\ s = p - q + D
  BY <1>2, <1>4, <1>5
<1> HIDE DEF A, B, C, D, E, F, I
<1>7. s + A = (p + B) - (q + C) + E /\ s + A < F  BY <1>6
<1>. QED BY <1>7 DEF A, B, C, D, E, F

\* Sequences of limbs, of as many as an element has.
LEMMA LimbsValue ==
    ASSUME NEW x \in Words
    PROVE  \E t : LimbSums(t, x, NLIMBS) /\ Value(x) = t[NLIMBS]
<1>1. NLIMBS \in Nat /\ NLIMBS \in 0 .. 2 * NLIMBS  BY LimbsAssumption
<1>2. x \in [1 .. NLIMBS -> Limb]  BY DEF Words, Idx
<1>3. x \in Seq(Limb) /\ Len(x) = NLIMBS
  <2>1. x \in Seq(Limb)  BY <1>1, <1>2, SeqDef
  <2>. QED BY <2>1, <1>1, <1>2, LenProperties
<1>4. \A k \in 1 .. NLIMBS : x[k] \in Int  BY <1>2 DEF Limb
<1>. QED BY <1>1, <1>3, <1>4, ValueTable

(* The subtraction limb by limb is the difference of the numbers, where no *)
(* limb reaches the sign bit and the difference is not negative.           *)
LEMMA SubNoBorrowIsDifference ==
    ASSUME NEW x \in Words, NEW y \in Words, Small(x), Small(y), Value(x) >= Value(y)
    PROVE  Value(field_sub_no_borrow(x, y)) = Value(x) - Value(y)
<1>1. PICK b : /\ Borrows(b, x, y)
               /\ field_sub_no_borrow(x, y) = [k \in Idx |-> wrap(x[k] - y[k] - b[k - 1])]
  BY BorrowTable
<1> DEFINE z == field_sub_no_borrow(x, y)
<1>2. NLIMBS \in Nat /\ NLIMBS >= 1  BY LimbsAssumption
<1>3. ASSUME NEW k \in 1 .. NLIMBS
      PROVE  /\ x[k] \in Limb /\ y[k] \in Limb /\ b[k - 1] \in {0, 1} /\ b[k] \in {0, 1}
             /\ z[k] \in Limb /\ z[k] = x[k] - y[k] - b[k - 1] + b[k] * Base
  <2>1. k \in Idx /\ k - 1 \in 0 .. NLIMBS /\ k \in 0 .. NLIMBS  BY <1>2 DEF Idx
  <2>2. x[k] \in Limb /\ y[k] \in Limb  BY <2>1 DEF Words
  <2>3. x[k] < Base \div 2 - 1 /\ y[k] < Base \div 2 - 1  BY <2>1 DEF Small
  <2>4. b[k - 1] \in {0, 1} /\ b[k] \in {0, 1}
        /\ b[k] = IF lt(x[k], wrap(y[k] + b[k - 1])) THEN 1 ELSE 0
    BY <1>1, <2>1 DEF Borrows, borrows
  <2>5. z[k] = wrap(x[k] - y[k] - b[k - 1])  BY <1>1, <2>1
  <2> DEFINE u == x[k]  v == y[k]  c == b[k - 1]  d == b[k]
  <2>6. /\ u \in Limb /\ v \in Limb /\ c \in {0, 1} /\ d \in {0, 1}
        /\ u < Base \div 2 - 1 /\ v < Base \div 2 - 1
        /\ d = IF lt(u, wrap(v + c)) THEN 1 ELSE 0
    BY <2>2, <2>3, <2>4
  <2>7. wrap(u - v - c) \in Limb /\ wrap(u - v - c) = u - v - c + d * Base
    <3> HIDE DEF u, v, c, d
    <3>. QED BY <2>6, LimbDifference
  <2>. QED BY <2>2, <2>4, <2>5, <2>7
<1>4. z \in Words
  <2>1. z = [k \in Idx |-> wrap(x[k] - y[k] - b[k - 1])]  BY <1>1
  <2>2. \A k \in Idx : z[k] \in Limb  BY <1>3 DEF Idx
  <2> HIDE DEF z
  <2>. QED BY <2>1, <2>2 DEF Words
<1> HIDE DEF z
<1>5. PICK p : LimbSums(p, x, NLIMBS) /\ Value(x) = p[NLIMBS]  BY LimbsValue
<1>6. PICK q : LimbSums(q, y, NLIMBS) /\ Value(y) = q[NLIMBS]  BY LimbsValue
<1>7. PICK s : LimbSums(s, z, NLIMBS) /\ Value(z) = s[NLIMBS]  BY <1>4, LimbsValue
<1> DEFINE Good(k) == s[k] = p[k] - q[k] + b[k] * weight[k] /\ s[k] < weight[k]
           T == {k \in 0 .. NLIMBS : Good(k)}
<1>8. \A k \in 0 .. NLIMBS : /\ p[k] \in Int /\ q[k] \in Int /\ s[k] \in Int
                             /\ b[k] \in {0, 1} /\ weight[k] \in Nat \ {0}
  <2>1. \A k \in 0 .. NLIMBS : weight[k] \in Nat \ {0}  BY Weights, <1>2
  <2>. QED BY <2>1, <1>1, <1>5, <1>6, <1>7 DEF LimbSums, Borrows
<1>9. 0 \in T
  <2>1. /\ p[0] = 0 /\ q[0] = 0 /\ s[0] = 0 /\ b[0] = 0 /\ weight[0] = 1
    BY <1>1, <1>5, <1>6, <1>7, Weights DEF LimbSums, Borrows
  <2>. QED BY <2>1, <1>2
<1>10. ASSUME NEW k \in 0 .. NLIMBS - 1, k \in T  PROVE k + 1 \in T
  <2>1. k + 1 \in 1 .. NLIMBS /\ k + 1 \in 0 .. NLIMBS /\ (k + 1) - 1 = k /\ k \in 0 .. NLIMBS
        /\ k + 1 \in 1 .. 2 * NLIMBS
    BY <1>2
  <2>2. /\ p[k + 1] = p[k] + x[k + 1] * weight[k]
        /\ q[k + 1] = q[k] + y[k + 1] * weight[k]
        /\ s[k + 1] = s[k] + z[k + 1] * weight[k]
        /\ weight[k + 1] = weight[k] * Base
    BY <2>1, <1>5, <1>6, <1>7, Weights DEF LimbSums
  <2>3. Good(k)  BY <1>10
  <2>4. /\ x[k + 1] \in Limb /\ y[k + 1] \in Limb /\ z[k + 1] \in Limb
        /\ b[k + 1] \in {0, 1} /\ b[k] \in {0, 1}
        /\ z[k + 1] = x[k + 1] - y[k + 1] - b[k] + b[k + 1] * Base
    BY <2>1, <1>3
  <2> DEFINE u == x[k + 1]  v == y[k + 1]  o == z[k + 1]  c == b[k]  d == b[k + 1]
             P0 == p[k]  Q0 == q[k]  S0 == s[k]  w == weight[k]
  <2>5. /\ P0 \in Int /\ Q0 \in Int /\ S0 \in Int /\ w \in Nat \ {0}
        /\ u \in Int /\ v \in Int /\ c \in Int /\ d \in Int /\ o \in Limb
        /\ Difference(S0, P0, Q0, c, w) /\ Digit(o, u, v, c, d)
    BY <2>1, <2>3, <2>4, <1>8 DEF Limb, Difference, Digit
  <2>6. Difference(S0 + o * w, P0 + u * w, Q0 + v * w, d, w * Base)
    <3> HIDE DEF u, v, o, c, d, P0, Q0, S0, w
    <3>. QED BY <2>5, NextLimb
  <2>7. Good(k + 1)
    <3>1. /\ p[k + 1] = P0 + u * w /\ q[k + 1] = Q0 + v * w /\ s[k + 1] = S0 + o * w
          /\ weight[k + 1] = w * Base /\ b[k + 1] = d
      BY <2>2
    <3> HIDE DEF u, v, o, c, d, P0, Q0, S0, w
    <3>. QED BY <3>1, <2>6 DEF Difference
  <2>. QED BY <2>1, <2>7
<1>11. NLIMBS \in T
  <2>1. \A k \in 0 .. NLIMBS : k \in T
    <3> HIDE DEF T
    <3>. QED BY <1>2, <1>9, <1>10, InductionTo
  <2>. QED BY <2>1, <1>2
<1>12. b[NLIMBS] = 0
  <2> DEFINE P0 == p[NLIMBS]  Q0 == q[NLIMBS]  S0 == s[NLIMBS]  w == weight[NLIMBS]
             c == b[NLIMBS]
  <2>1. /\ P0 \in Int /\ Q0 \in Int /\ S0 \in Int /\ w \in Nat \ {0} /\ c \in {0, 1}
        /\ S0 = P0 - Q0 + c * w /\ S0 < w /\ P0 >= Q0
    BY <1>2, <1>8, <1>11, <1>5, <1>6
  <2> HIDE DEF P0, Q0, S0, w, c
  <2>2. ASSUME c = 1  PROVE FALSE
    <3>1. S0 = P0 - Q0 + w  BY <2>1, <2>2
    <3>. QED BY <3>1, <2>1
  <2>. QED BY <2>1, <2>2 DEF c
<1>13. s[NLIMBS] = p[NLIMBS] - q[NLIMBS] + 0 * weight[NLIMBS]  BY <1>11, <1>12
<1>. QED
  <2>1. NLIMBS \in 0 .. NLIMBS  BY <1>2
  <2>2. /\ p[NLIMBS] \in Int /\ q[NLIMBS] \in Int /\ weight[NLIMBS] \in Int
    BY <2>1, <1>8
  <2>3. s[NLIMBS] = p[NLIMBS] - q[NLIMBS]  BY <1>13, <2>2
  <2>. QED BY <2>3, <1>5, <1>6, <1>7 DEF z
----------------------------------------------------------------------------
LEMMA ElementLimbs == Element \subseteq Words
<1> SUFFICES ASSUME NEW v \in 0 .. P - 1  PROVE LimbsOf(v, NLIMBS) \in Words
  BY DEF Element
<1>1. ASSUME NEW k \in Idx  PROVE (v \div weight[k - 1]) % Base \in Limb
  <2>1. k - 1 \in 0 .. 2 * NLIMBS  BY LimbsAssumption DEF Idx
  <2>2. weight[k - 1] \in Nat \ {0}  BY <2>1, Weights
  <2> DEFINE w == weight[k - 1]
  <2>3. w \in Nat \ {0} /\ v \in Nat  BY <2>2, LimbsAssumption
  <2> HIDE DEF w
  <2>4. v \div w \in Nat  BY <2>3, Division
  <2>5. (v \div w) % Base \in 0 .. Base - 1
    <3> DEFINE n == v \div w
    <3>1. n \in Nat  BY <2>4
    <3> HIDE DEF n
    <3>2. n % Base \in 0 .. Base - 1  BY <3>1, BasePositive, Division
    <3>. QED BY <3>2 DEF n
  <2>. QED BY <2>5 DEF w, Limb
<1>. QED BY <1>1 DEF LimbsOf, Words, Idx

LEMMA InitLimbs == LimbsInit => LimbsExact
BY DEF LimbsInit, LimbsExact, Mul64Exact, SubNoBorrowExact

LEMMA StepLimbs == LimbsExact /\ [LimbsNext]_limb_vars => LimbsExact'
<1> SUFFICES ASSUME LimbsExact, [LimbsNext]_limb_vars  PROVE LimbsExact'
  OBVIOUS
<1>1. ASSUME NEW x \in Limb, NEW y \in Limb, CallMul64(x, y)  PROVE LimbsExact'
  <2>1. /\ called' = "mul64" /\ left' = <<x>> /\ right' = <<y>>
        /\ returned' = <<mul64(x, y).lo, mul64(x, y).hi>>
    BY <1>1 DEF CallMul64, Called
  <2> DEFINE lo == mul64(x, y).lo  hi == mul64(x, y).hi
  <2>2. lo \in Limb /\ hi \in Limb /\ lo + hi * Base = x * y  BY Mul64IsProduct
  <2>3. x \in Int /\ y \in Int /\ lo \in Int /\ hi \in Int  BY <2>2 DEF Limb
  <2>4. Value(<<x>>) = x /\ Value(<<y>>) = y  BY <2>3, OneLimb
  <2>5. Value(<<lo, hi>>) = lo + hi * Base
    <3> HIDE DEF lo, hi
    <3>. QED BY <2>3, TwoLimbs
  <2>6. Value(returned') = Value(left') * Value(right')  BY <2>1, <2>2, <2>4, <2>5
  <2>7. Mul64Exact'  BY <2>6 DEF Mul64Exact
  <2>8. SubNoBorrowExact'  BY <2>1 DEF SubNoBorrowExact
  <2>. QED BY <2>7, <2>8 DEF LimbsExact
<1>2. ASSUME NEW x \in Element, NEW y \in Element, CallSubNoBorrow(x, y)  PROVE LimbsExact'
  <2>1. /\ called' = "sub_no_borrow" /\ left' = x /\ right' = y
        /\ returned' = field_sub_no_borrow(x, y)
    BY <1>2 DEF CallSubNoBorrow, Called
  <2>2. x \in Words /\ y \in Words  BY ElementLimbs
  <2>3. Small(x) /\ Small(y) /\ Value(x) >= Value(y)
            => Value(field_sub_no_borrow(x, y)) = Value(x) - Value(y)
    BY <2>2, SubNoBorrowIsDifference
  <2>4. SubNoBorrowExact'  BY <2>1, <2>3 DEF SubNoBorrowExact
  <2>5. Mul64Exact'  BY <2>1 DEF Mul64Exact
  <2>. QED BY <2>4, <2>5 DEF LimbsExact
<1>3. ASSUME called' \notin {"mul64", "sub_no_borrow"}  PROVE LimbsExact'
  BY <1>3 DEF LimbsExact, Mul64Exact, SubNoBorrowExact
<1>4. ASSUME NEW x \in Element, NEW y \in Element,
             CallCompare(x, y) \/ CallAdd(x, y) \/ CallSub(x, y) \/ CallMul(x, y)
      PROVE  LimbsExact'
  <2>1. called' \in {"compare", "add", "sub", "mul"}
    BY <1>4 DEF CallCompare, CallAdd, CallSub, CallMul, Called
  <2>. QED BY <2>1, <1>3
<1>5. ASSUME NEW x \in Element, CallFromMontgomery(x)  PROVE LimbsExact'
  <2>1. called' = "from_montgomery"  BY <1>5 DEF CallFromMontgomery, Called
  <2>. QED BY <2>1, <1>3
<1>6. ASSUME UNCHANGED limb_vars  PROVE LimbsExact'
  BY <1>6 DEF limb_vars, LimbsExact, Mul64Exact, SubNoBorrowExact
<1>. QED BY <1>1, <1>2, <1>4, <1>5, <1>6 DEF LimbsNext

(* mul64 is exact for limbs of every width, the subtraction for elements   *)
(* of any number of limbs that stay below the sign bit.                    *)
THEOREM SpecLimbsExact == LimbsSpec => []LimbsExact
<1>. QED BY InitLimbs, StepLimbs, PTL DEF LimbsSpec
============================================================================
