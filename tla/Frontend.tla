------------------------------ MODULE Frontend ------------------------------
(***************************************************************************)
(* The synthesis of a circuit (src/frontend): linear combinations (lc.rs), *)
(* the constraint systems that collect the shape (shape_cs.rs), the        *)
(* assignment (util_cs/witness_cs.rs) and both (util_cs/test_cs.rs), and   *)
(* the R1CS made of them (r1cs.rs).                                        *)
(*                                                                         *)
(* A circuit runs once on each constraint system; the three are kept side  *)
(* by side here.  Its variables may be allocated at any time and its       *)
(* linear combinations are built term by term, in any order.               *)
(***************************************************************************)
EXTENDS Integers, SequencesExt

CONSTANTS
    P,                                            \* the modulus of the scalars
    Coefficients,                                 \* those a circuit writes
    MaxAux, MaxInputs, MaxTerms, MaxConstraints   \* bounds of a circuit

ASSUME ModulusAssumption == P \in Nat /\ P > 1
ASSUME CoefficientsAssumption == Coefficients \subseteq 0 .. P - 1

VARIABLES
    inputs, aux,        \* WitnessCS and TestConstraintSystem: the assignment
    synthesized,        \* ShapeCS: the counts and the constraints
    lc,                 \* the linear combination under construction
    terms,              \* the terms it was built from
    plain               \* for each constraint, the terms of its parts

frontend_vars == <<inputs, aux, synthesized, lc, terms, plain>>

F == 0 .. P - 1

total(s) == LET upto[k \in 0 .. Len(s)] == IF k = 0 THEN 0 ELSE (upto[k - 1] + s[k]) % P
            IN  upto[Len(s)]
----------------------------------------------------------------------------
(* Indexer: pairs of a key and a coefficient by rising keys, and where the *)
(* last insertion was.                                                     *)

NoInsertion == <<0, -1>>
Empty == [values |-> <<>>, last |-> NoInsertion]

update(ix, i, c) == [ix EXCEPT !.values[i] = <<@[1], (@[2] + c) % P>>]

\* Mutant: an insertion found by binary search is not remembered.
insert_mut(ix, i, key, c) ==
    [values |-> InsertAt(ix.values, i, <<key, c>>),
     last   |-> IF ix.last = NoInsertion THEN <<i, key>> ELSE ix.last]
insert(ix, i, key, c) == [values |-> InsertAt(ix.values, i, <<key, c>>), last |-> <<i, key>>]

binary_search(ix, key) ==
    CHOOSE i \in 1 .. Len(ix.values) + 1 :
        /\ \A j \in 1 .. i - 1 : ix.values[j][1] < key
        /\ \A j \in i .. Len(ix.values) : ix.values[j][1] >= key

insert_or_update(ix, key, c) ==
    LET next  == ix.last[1] + 1
        found == binary_search(ix, key)
        at(i) == i \in DOMAIN ix.values /\ ix.values[i][1] = key
    IN  CASE ix.last # NoInsertion /\ ix.last[2] = key -> update(ix, ix.last[1], c)
          [] ix.last # NoInsertion /\ ix.last[2] + 1 = key ->
                IF at(next) THEN update(ix, next, c) ELSE insert(ix, next, key, c)
          [] OTHER -> IF at(found) THEN update(ix, found, c) ELSE insert(ix, found, key, c)
----------------------------------------------------------------------------
(* Linear combinations.  A variable is <<"input", index>> or               *)
(* <<"aux", index>>, with indices from 0 as in the code.                   *)

zero == [input |-> Empty, aux |-> Empty]
ONE  == <<"input", 0>>

add(l, c, v) == [l EXCEPT ![v[1]] = insert_or_update(@, v[2], c)]

\* The variables and their coefficients, inputs first.
lc_iter(l) ==
    [k \in DOMAIN l.input.values |-> <<<<"input", l.input.values[k][1]>>, l.input.values[k][2]>>]
    \o [k \in DOMAIN l.aux.values |-> <<<<"aux", l.aux.values[k][1]>>, l.aux.values[k][2]>>]

add_scaled(l, c, other) ==
    LET it == lc_iter(other)
        added[k \in 0 .. Len(it)] ==
            IF k = 0 THEN l ELSE add(added[k - 1], (c * it[k][2]) % P, it[k][1])
    IN  added[Len(it)]

value(v) == IF v[1] = "input" THEN inputs[v[2] + 1] ELSE aux[v[2] + 1]
eval(l)  == LET it == lc_iter(l) IN total([k \in DOMAIN it |-> it[k][2] * value(it[k][1])])

\* The terms that were added, without merging: the reference.
eval_terms(ts) == total([k \in DOMAIN ts |-> ts[k][1] * value(ts[k][2])])
----------------------------------------------------------------------------
(* The R1CS: the columns are the auxiliary variables, ONE and the inputs.  *)

column(v, num_vars) == IF v[1] = "input" THEN v[2] + num_vars ELSE v[2]

\* The entries of a row, those that are not zero.
add_constraint_component(l, num_vars) ==
    LET it == lc_iter(l)
        row[k \in 0 .. Len(it)] ==
            IF k = 0 THEN <<>>
            ELSE IF it[k][2] = 0 THEN row[k - 1]
            ELSE Append(row[k - 1], <<column(it[k][1], num_vars), it[k][2]>>)
    IN  row[Len(it)]

\* The rows of A, B and C for each constraint, made when all are known.
r1cs_shape == [k \in DOMAIN synthesized.constraints |->
                  [m \in 1 .. 3 |-> add_constraint_component(synthesized.constraints[k][m], synthesized.aux)]]

r1cs_instance_and_witness == [W |-> aux, X |-> Tail(inputs)]

multiply(row, z) == total([k \in DOMAIN row |-> row[k][2] * z[row[k][1] + 1]])
row_satisfied(row, z) ==
    (multiply(row[1], z) * multiply(row[2], z)) % P = multiply(row[3], z)
----------------------------------------------------------------------------
FrontendInit ==
        /\ inputs = <<1>> /\ aux = <<>>
        /\ synthesized = [inputs |-> 1, aux |-> 0, constraints |-> <<>>]
        /\ lc = zero /\ terms = <<>> /\ plain = <<>>

\* The values are data: a fixed one for each variable is enough to tell the
\* variables apart.
Assigned(k) == (k * k + 1) % P
InputValue == P - 1

alloc ==
    /\ Len(aux) < MaxAux
    /\ aux' = Append(aux, Assigned(Len(aux)))
    /\ synthesized' = [synthesized EXCEPT !.aux = @ + 1]
    /\ UNCHANGED <<inputs, lc, terms, plain>>

alloc_input ==
    /\ Len(inputs) <= MaxInputs
    /\ inputs' = Append(inputs, InputValue)
    /\ synthesized' = [synthesized EXCEPT !.inputs = @ + 1]
    /\ UNCHANGED <<aux, lc, terms, plain>>

\* A sub-circuit that was synthesized on its own: its assignment is appended,
\* without its own ONE.
extend ==
    /\ Len(aux) < MaxAux /\ Len(inputs) <= MaxInputs
    /\ LET other == [inputs |-> <<1, InputValue>>, aux |-> <<Assigned(Len(aux))>>]
       IN  inputs' = inputs \o Tail(other.inputs) /\ aux' = aux \o other.aux
    /\ synthesized' = [synthesized EXCEPT !.aux = @ + 1, !.inputs = @ + 1]
    /\ UNCHANGED <<lc, terms, plain>>

Variables == {<<"input", k>> : k \in 0 .. Len(inputs) - 1}
             \cup {<<"aux", k>> : k \in 0 .. Len(aux) - 1}

\* What bounds the terms: those of the constraints count.
written == LET upto[k \in 0 .. Len(plain)] ==
                   IF k = 0 THEN Len(terms) ELSE upto[k - 1] + Len(plain[k][1])
           IN  upto[Len(plain)]

AddTerm == \E c \in Coefficients, v \in Variables :
    /\ written < MaxTerms
    /\ lc' = add(lc, c, v)
    /\ terms' = Append(terms, <<c, v>>)
    /\ UNCHANGED <<inputs, aux, synthesized, plain>>

\* The left part of an earlier constraint is added, and with c = P - 1 subtracted.
AddCombination == \E c \in Coefficients \ {0}, k \in DOMAIN plain :
    /\ written <= MaxTerms
    /\ lc' = add_scaled(lc, c, synthesized.constraints[k][1])
    /\ terms' = terms \o [j \in DOMAIN plain[k][1] |->
                             <<(c * plain[k][1][j][1]) % P, plain[k][1][j][2]>>]
    /\ UNCHANGED <<inputs, aux, synthesized, plain>>

\* lc is the left part; the others are ONE and nothing, or lc itself.
enforce == \E b \in {<<add(zero, 1, ONE), <<<<1, ONE>>>>>>, <<lc, terms>>},
              c \in {<<zero, <<>>>>, <<lc, terms>>} :
    /\ terms # <<>> /\ Len(plain) < MaxConstraints
    /\ synthesized' = [synthesized EXCEPT !.constraints = Append(@, <<lc, b[1], c[1]>>)]
    /\ plain' = Append(plain, <<terms, b[2], c[2]>>)
    /\ lc' = zero /\ terms' = <<>>
    /\ UNCHANGED <<inputs, aux>>

FrontendNext == alloc \/ alloc_input \/ extend \/ AddTerm \/ AddCombination \/ enforce

FrontendSpec == FrontendInit /\ [][FrontendNext]_frontend_vars
----------------------------------------------------------------------------
(* However a circuit interleaves its allocations, its terms and its        *)
(* constraints, a constraint is satisfied in the R1CS by the instance and  *)
(* the witness, and in the test system, exactly when the terms it was      *)
(* written with say so; shape and assignment have the same variables, and  *)
(* the shortcuts of the indexer keep a combination sorted, one entry for   *)
(* a variable.                                                             *)
FrontendAgrees ==
    LET z == r1cs_instance_and_witness.W \o <<1>> \o r1cs_instance_and_witness.X
    IN  /\ synthesized.inputs = Len(inputs) /\ synthesized.aux = Len(aux)
        /\ \A ix \in {lc.input, lc.aux} :
              \A k \in 2 .. Len(ix.values) : ix.values[k - 1][1] < ix.values[k][1]
        /\ eval(lc) = eval_terms(terms)
        /\ \A k \in DOMAIN plain :
              LET holds == (eval_terms(plain[k][1]) * eval_terms(plain[k][2])) % P
                           = eval_terms(plain[k][3])
                  l     == synthesized.constraints[k]
              IN  /\ row_satisfied(r1cs_shape[k], z) = holds
                  /\ ((eval(l[1]) * eval(l[2])) % P = eval(l[3])) = holds
=============================================================================
