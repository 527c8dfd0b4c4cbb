# A verification project for zksnarkfortran (Nova with a Fortran back end)

The repository is a fork of Nova, a library for incrementally verifiable
computation (IVC): a caller runs a function `F` step by step and gets, after
every step, a proof of constant size that all of the steps were executed. The
fork adds a Fortran implementation of one routine, the table of the equality
polynomial. These modules model the protocol core of the Rust code and the
Fortran code, TLC checks them on small instances and TLAPS proves theorems about
them for every instance.

## 1. Inventory

For every part: what state it keeps, its operations, what it works with, what is
hard about it, and what makes it correct.

### Folding: `src/nova/nifs.rs`, `src/r1cs/mod.rs`
* State: a running relaxed instance `(comm_W, comm_E, u, X)` and its witness
  `(W, r_W, E, r_E)`. The prover has both, a verifier the instance only.
* Operations: `NIFS::prove`/`verify` (fold an R1CS pair in),
  `NIFSRelaxed::prove`/`verify` (fold a relaxed pair in), sampling of a random
  pair, `derandomize`; `is_sat`, `is_sat_relaxed`.
* Works with: the random oracle, which both sides query with what they absorbed;
  the commitment engine. It is called by `RecursiveSNARK`, `CompressedSNARK` and,
  as a circuit, by the augmented circuit.
* Hard: the two sides compute the same thing from different data and must absorb
  alike; nothing is checked when it is folded; the cross term uses one product
  (Mova, section 5.2), so it contains the errors of both pairs.
* Correct if: completeness (good pairs fold to a good pair), agreement of both
  sides, soundness (a bad pair spoils the result), exact removal of the blinds.

### IVC: `src/nova/mod.rs`, `src/nova/circuit/`
* State of a `RecursiveSNARK`: `z0`, `zi`, `i`, the two running instances, the
  last secondary instance `l_u_secondary`, the blinds `ri_*` of the hashes.
* Operations: `new` (runs the first step), `prove_step` (the first call only
  counts it), `verify`, `outputs`, `num_steps`; `CompressedSNARK::setup`, `prove`,
  `verify`. The type is `Clone` and serializable.
* Works with: two augmented circuits on two curves, each verifying the fold of
  the other one's last instance and chaining a hash of the parameters, the
  counter, `z0`, `zi`, the running instance and a blind.
* Hard: the order in which old and new running instances are used; the base case;
  the counter; parameters given again to every call; step circuits whose witness
  is bad, which only `verify` notices; copies of a snark.
* Correct if: both verifiers accept exactly what was executed.

### R1CS shape: `src/r1cs/mod.rs`, `src/r1cs/sparse.rs`
* State: dimensions and three matrices in compressed rows, a cached digest.
* Operations: construction, iteration, multiplication, index check, `pad`.
* Hard: empty rows; shapes regular in one dimension only.
* Correct if: no index escapes the check, padding changes no constraint and
  yields a shape the final SNARKs accept.

### Fortran: `fortran/src/`, `src/fortran/`
* State: local arrays of one call, shared by the iterations of a parallel loop.
* Operations: `evals_from_points_fortran`; the field arithmetic below it.
* Works with: the Rust caller, which passes bytes and 32-bit lengths.
* Hard: `DO CONCURRENT` with `-fopenmp`; signed limbs that stand for unsigned ones;
  carries.
* Correct if: iterations do not interfere and the result is the Rust table. The
  first holds; of the second the order of the operations does, the arithmetic does
  not (findings 2 and 3).

### Spartan: `src/spartan/`
* State: none outlives a call; within one, the tables the prover binds variable by
  variable, its claim, and the transcript.
* Operations: sumcheck (`prove_quad_prod`, `prove_quad_batch`, `prove_cubic_with_three_inputs`,
  `verify`), the polynomials of `polys/`, `RelaxedR1CSSNARK::prove` and `verify` of
  `snark.rs` (matrices sent) and `ppsnark.rs` (matrices committed, read through a
  look-up argument), `direct.rs` around either.
* Works with: the transcript, an evaluation engine, `R1CSShape`.
* Hard: over ten absorptions and squeezes in four phases; equality polynomials that
  are factored instead of bound; batches of different sizes; lists padded with
  accesses that time stamps must count; poles of the look-up argument.
* Correct if: honest proofs of true statements are accepted, every false claim is
  noticed by some check, and both sides have one transcript.

### NeutronNova: `src/neutron/`
* State: as above, with one chain: `z0`, `zi`, `i`, a running instance `(comm_W,
  comm_E, T, u, X)` with its witness, the last instance `l_u`, the blind `ri`.
* Operations: `new`, `prove_step`, `verify`; below them `NIFS::prove`,
  `NIFS::verify` (compiled for tests only) and the same verifier as a circuit,
  `Structure::is_sat`.
* Works with: the augmented circuit of the same curve, which verifies the fold of
  its own last instance with the folded commitments as hints; sumcheck's
  univariate polynomials; the random oracle.
* Hard: a fold is one sumcheck round, whose value at 1 is claimed and not
  computed; `eq(rho, r_b)` is inverted with `unwrap`; three parties compute the
  same instance; the circuit gets the running instance of before the fold.
* Correct if: completeness, agreement and soundness of the fold as for Nova, and
  `verify` accepts exactly what was executed.

### Poseidon sponge and random oracle: `sponge/`, `src/provider/poseidon.rs`
* State: the lanes, two positions, the IO pattern and a count of operations; in a
  circuit the lanes twice, as expressions and as values. The oracle: a list.
* Operations: `start`, `absorb`, `squeeze`, `finish`; the oracle's `absorb`, `squeeze`.
* Works with: the permutation; the constraint system, which decides which of the
  two copies is permuted. Every fold and every hash of the IVC goes through it.
* Hard: positions at the rate; operations of any length, none included, in any
  order; coalesced runs in the tag; keeping the two copies equal.
* Correct if: what is squeezed depends on all that was absorbed and on nothing
  twice, the pattern is enforced, and a circuit squeezes what a native sponge does.

### Poseidon permutation: `src/frontend/gadgets/poseidon/`
* State: the elements, the round, an offset into the compressed constants.
* Operations: `new_from_parameters` (factor the matrix, compress the constants),
  `hash`, the circuit and the generator of its witness.
* Works with: the sponge, which calls one of the three implementations.
* Hard: four ways to multiply by a matrix, two of them transposed; constants that
  are moved through inverse matrices and consumed in another order.
* Correct if: all three compute the permutation of the paper.

### Frontend: `src/frontend/`, `src/gadgets/utils.rs`
* State: the constraint systems: counts and constraints (`ShapeCS`), assignments
  (`WitnessCS`), both (`TestConstraintSystem`); sorted coefficients in a
  combination; in `MultiEq` a pending equation.
* Operations: `alloc`, `alloc_input`, `enforce`, `extend`; `r1cs_shape`,
  `r1cs_instance_and_witness`; gadgets for bits, numbers, words, SHA-256.
* Hard: an indexer with shortcuts; allocations between constraints; a decomposition
  that must be unique; equations packed up to a capacity and enforced on drop.
* Correct if: shape and assignment describe one circuit and every gadget leaves
  exactly the result it computes.

### Curves and big numbers in circuits: `src/gadgets/`
* State: none; the values a prover may assign to the variables of a call.
* Operations: addition, doubling, `scalar_mul`; `equal_when_carried_regroup`,
  `mult_mod`, `red_mod` and the conversions.
* Works with: the verifier circuits, `fold_with_r1cs` above all.
* Hard: additions that are undefined for equal and opposite points; limbs beyond
  their width; the number of bits of a carry.
* Correct if: the constraints allow the sum, multiple or remainder only.

### Commitments, evaluation engines, multi-scalar multiplication: `src/provider/`
* State: the key; within a call buckets, windows and chunks for each thread.
* Operations: `commit`, `batch_commit`, `commit_small`, `commit_small_range`,
  `derandomize`; HyperKZG, Mercury and the inner product argument, `prove` and
  `verify`; the bucket methods of `msm.rs`; chunked division.
* Hard: chunk and window sizes that depend on the length, the width of the scalars
  and the number of threads; degrees that shrink at special points.
* Correct if: every way to commit is the same sum, and an engine accepts exactly the
  value of the committed polynomial.

### Transcript: `src/provider/keccak.rs`
* State: the round, the hash so far, what was absorbed since.
* Operations: `absorb`, `dom_sep`, `squeeze`.
* Hard: nothing says where a label ends; the round counter is checked late.
* Correct if: equal challenges mean equal calls and data.

### The rest
Bindings to curve libraries, key files, `src/traits/`, `src/digest.rs`, the
examples: interfaces, input/output and serialization.

`PROJECT.json` lists every component with its status, and the hazards, each at
its line with the properties that watch it.

## 2. Modules

| module | models | state and actions |
|---|---|---|
| `ScalarField` | the laws of `E::Scalar` | constants only |
| `Folding` | `nifs.rs`, relaxed R1CS | `pU, pW` prover, `vU` verifier, `msg` proof under way, `ro` oracle; one action for each `prove` and `verify`, two for the derandomization |
| `InductionProofs`, `RingProofs` | | induction and recursion in first-order form; the algebra of scalars, sums and products |
| `FoldingProofs` | | theorems about `Folding` |
| `IVC` | `nova/mod.rs`, `nova/circuit/mod.rs` | `snark` the caller's snarks, `compressed`, and the history `log`, `plog` of executed steps; `New`, `ProveFirstStep`, `ProveStep`, `Copy`, `Compress` |
| `IncrementalComputation` | what a snark promises | `claim`, `published` |
| `IVCProofs` | | theorems about `IVC`, and its refinement of `IncrementalComputation` |
| `EqTable` | `EqPolynomial::evals_from_points` | `point, rest, table`; `Double`; the product and the difference of scalars are parameters |
| `Butterfly` | `ffi_interface.f90` | `r, evals, temp_arr, i, size`, a `pc` for every iteration of the loop, `status`; `Reject`, `Mul`, `CopyUp`, `Sub`, `EndLoop`, `Return` |
| `FieldLimbs` | `field_ops.f90` | operators; one call, `left, right, called, returned` |
| `R1CSShape` | `r1cs/sparse.rs`, shape part of `r1cs/mod.rs` | `coo` and `rows` of the matrix to be made, `shape`, `padded`; `AddEntry`, `New`, `Pad` |
| `ZeroFold` | `neutron/nifs.rs`, `relation.rs`, `circuit/nifs.rs`, `circuit/relation.rs`, `polys/power.rs` | `pU, pW` prover, `vU` and `cU` the two verifiers, `msg`, `ro`, `status`; `ProveFold`, `Verify`, `VerifyCircuit` |
| `NeutronIVC` | `neutron/mod.rs`, `neutron/circuit/mod.rs` | `snark`, `log`; `New`, `ProveFirstStep`, `ProveStep`, `Copy` |
| `Sponge` | `sponge/api.rs`, `vanilla.rs`, `circuit.rs`, `provider/poseidon.rs` | `sponges` in three modes under the same calls, `status`, the oracle's list; `Start`, `Absorb`, `Squeeze`, `Mismatch`, `Finish`, `RoAbsorb`, `RoSqueeze` |
| `NeutronProofs` | | theorems about `ZeroFold` and `NeutronIVC` |
| `HashingProofs` | | theorems about `Sponge` and `Transcript` |
| `FortranProofs` | | theorems about `Butterfly`, `EqTable` and `FieldLimbs` |
| `CircuitProofs` | | theorems about `R1CSShape`, and about `Frontend` and `Gadgets` as in `FrontendGadgets` |
| `Poseidon` | `poseidon_inner.rs`, `circuit2.rs`, `circuit2_witness.rs`, `preprocessing.rs`, `mds.rs`, `matrix.rs` | `constants` and the elements of `plain`, `native`, `generator`, `circuit`; `New`, `Round` |
| `Transcript` | `provider/keccak.rs` | two transcripts `ts`, their `outputs`; `absorb`, `dom_sep`, `squeeze` |
| `PrimeField` | | sums and matrices modulo an odd prime, for the modules below |
| `BooleanGadgets`, `Gadgets` | `boolean.rs`, `num.rs`, `gadgets/utils.rs` | one call, `gadget`, `args`, and the `allowed` results |
| `Sha256` | `uint32.rs`, `multieq.rs`, `sha256.rs` | the schedule, the registers, the pending equation `multieq`, whether the constraints hold; an action for each part of a round |
| `BigNat` | `bignat.rs`, `nonnative/util.rs`, `nova/circuit/r1cs.rs` | as `Gadgets`; a fold of a public value takes two steps |
| `Ecc` | `gadgets/ecc.rs` | as `Gadgets` |
| `FrontendGadgets` | | `Frontend` with `Gadgets` over the same scalars |
| `Frontend` | `lc.rs`, `shape_cs.rs`, `witness_cs.rs`, `test_cs.rs`, `r1cs.rs` | `inputs, aux` assignment, `synthesized` counts and constraints, the combination `lc` under construction; `alloc`, `alloc_input`, `extend`, `AddTerm`, `AddCombination`, `enforce` |
| `Polynomials` | `spartan/polys/`, `sumcheck.rs` | operators |
| `Spartan` | `spartan/snark.rs`, `mod.rs`, `sumcheck.rs` | `prover` tables and claim, challenges `ch`, `log` of the transcript; one action for each phase and round |
| `PPSnark` | `spartan/ppsnark.rs` | the same with the vectors `vec` of the look-up argument |
| `Msm` | `provider/msm.rs`, `hyperkzg.rs` | operators |
| `HyperKZG`, `InnerProduct`, `Mercury` | `hyperkzg.rs`, `ipa_pc.rs`, `mercury.rs` | operators: prover, proof, verifier |
| `Evaluation` | the three as an engine | `engine, poly, point, claim`, the proof `sent` and the `proof` received; `Prove`, `AlterProof`, `AlterClaim`, `Verify` |
| `Commitments` | the commitment engines, chunked loops | one call, `args` and `result` |

The `MC` modules give the constants values for TLC. A composite one (`MCFortran`,
`MCHashing`, `MCNeutron`, `MCCircuits`, `MCArguments`) holds several components,
of which every behaviour runs one, named by the variable `part`; they share a
configuration, not state. Where components do interact, modules compose:
* `IVC` and `NeutronIVC` both implement `IncrementalComputation` (`IsIncremental`,
  `NeutronIsIncremental`; NeutronNova publishes nothing), and `Butterfly` implements
  `EqTable` (`ImplementsEqTable`).
* `Butterfly` computes with the operators of `FieldLimbs`; its instance of `EqTable`
  has `field_mul` and `field_sub` for the two parameters.
* `IVC` relies on `Folding` and `NeutronIVC` on `ZeroFold` for their treatment of a
  fold: an instance satisfies if and only if all that was folded into it did. All
  four take the oracle as ideal; `Sponge` shows what of that its construction
  provides (`CircuitAgrees`, `OracleDepends`), with `Poseidon` for the permutation.
  That `IVC`'s circuit folds public values of the other field exactly is `BigNat`,
  its scalar multiplications are `Ecc`.
* `IVC` takes the final SNARKs as ideal; `Spartan` and `PPSnark` show what they
  accept, with an ideal evaluation engine; `Evaluation` shows what the engines accept,
  over `Msm`; `Transcript` shows that challenges bind what was absorbed.

Abstractions.
* A commitment is the pair of vector and blind it commits to: binding and
  homomorphic. A hash or an oracle query is what was absorbed: no collisions.
* In `Folding` a matrix is a family of linear maps, one for each row, which is
  what `multiply_vec` computes. The oracle answers a new query with any challenge,
  and the query the pending message carries with the same one; older queries are
  forgotten, which only allows more behaviours.
* In `IVC` whether an instance is satisfied is part of it (`sat`). A step circuit
  may return any state, and its constraints hold or not (`ok`); the hash check
  of the augmented circuit is one of its constraints, so a snark extended under
  other parameters gets an unsatisfied instance. A call that returns an error
  changes nothing, because every assignment to `self` comes after the last
  operator that can return early, so errors need no action. The final SNARKs are
  ideal: they verify if the instance they were made for is the verifier's and is
  satisfied.
* In `ZeroFold` a polynomial is its evaluations at 0 to 5, from which `from_evals`
  computes the coefficients; evaluating it is interpolation. The panic of a zero
  `eq(rho, r_b)` ends the behaviour. What the circuit enforces is the same check,
  so an unsatisfied circuit is a rejection. The oracle is `Folding`'s.
* `NeutronIVC` treats hashes, satisfaction, step circuits and errors as `IVC`
  does. The blind of `comm_E` is drawn in every fold, so a folded instance carries
  the draw.
* In `Sponge` a lane is the set of what its value depends on, and the permutation
  makes every lane depend on all. The tag is the list of coalesced runs: its hash
  has no collisions. Three sponges (native, in a circuit that records its shape,
  in a witness generator) get the same calls. `direction`, `absorbed`, `squeezed`
  and the queue never change under `SpongeAPI`, and padding does nothing for a
  `HashType::Sponge`; they are left out.
* In `Butterfly` one action is one of the three calls of an iteration, and what a call
  computes is what `field_ops.f90` computes, limb by limb: `field_mul_mont_b` with the
  entry of `r` that was converted ahead, and `field_sub`. This is not the arithmetic
  of a field: `from_montgomery` returns its argument, so a product keeps the factor
  `R`, and the comparisons are signed (findings 2 and 3). Nothing is therefore claimed
  of the values of the table it returns: it is not the equality polynomial.
  `ImplementsEqTable` says that these operations are applied in the order and to the
  elements the Rust code applies its own to, and `TableIsEq`, about `EqTable`, that
  with those of a field the result is the equality polynomial. That `field_sub` is
  passed `evals(j)` both to read and to write is harmless in the code as written: it
  reads each limb before it writes it.
* In `FieldLimbs` the values of half a limb and the number of limbs are constants; a limb wraps and is
  compared as a signed number, as `integer(c_int64_t)` is.
* In `R1CSShape` values are 0 or 1; one matrix stands for the three, which the
  code treats alike. Loops over the entries are tables of what they have after each:
  the rows pushed so far, their starts, the rows joined, the row the iterator is in.
* In `Frontend` the scalars are the integers modulo `P`; that `P` is prime is not used.
  The binary search is the position it finds, the one insertion keeps in order.
* `Poseidon` has the circuit's combinations by their values under the generated
  witness, over 13 elements; the numbers of rounds are constants.
* A gadget (`Gadgets`, `BigNat`, `Ecc`) is the set of results its constraints allow
  over all values of the variables it allocates: what a prover who is not bound to
  the generated witness can make of it. A set of one element is soundness and
  completeness at once. Names and namespaces are left out.
* `Sha256` has words of W bits (two in the run), constants and rotations cut to fit.
  The prover may assign any bits to a sum; an execution ends when a constraint
  fails.
* In `Spartan` and `PPSnark` a commitment is the vector and the last evaluation is
  opened. A prover is honest or makes one false claim, `dev`, and goes on honestly.
  Challenges are drawn from a set that leaves out the degenerate ones: the statement
  is then exact instead of probable.
* In `HyperKZG`, `Mercury`, `InnerProduct`, `Msm` and `Commitments` a group element is its
  discrete logarithm in the field, so a commitment is a value at the secret Tau
  and a pairing a product. Everything the code computes with groups is linear, so
  equations hold in the code exactly when they hold there up to multiples of the
  modulus; that nobody can compute the logarithm is assumed, not shown. A proof or
  a claim is altered in one element on its way.
* In `Transcript` a byte string is a sequence and the hash is ideal.

## 3. Runs

| run | instance | what it shows |
|---|---|---|
| `folding` | integers mod 5, one variable, one public value, one constraint `w * (w + u) = x`; right and wrong commitments; challenges 0 to 3 | completeness, agreement, soundness of a fold, derandomization |
| `ivc` | two slots, two parameters, two states, three draws | both verifiers accept exactly what was executed; the refinement of `IncrementalComputation` |
| `num_steps` | the same with two draws | finding: `num_steps` after `new` |
| `neutron` | integers mod 7, four rows of which two are padding (`w * w = x`, `w * x = u`), two folds of right and wrong pairs, challenges 0, 2, 3, 6; and the chain with the bounds of `ivc` | completeness, agreement of the three parties and soundness of a fold; `verify` accepts exactly what was executed; the refinement |
| `fortran` | two limbs of four bits (half a limb has 4 values), modulus 59; up to three variables of the values 0, 1 and 50, so loops of 1, 2 and 4 iterations; the Rust table over the integers mod 5 | no race, the doubling of the Rust code with the library's operations, termination; the Rust table is the equality polynomial; exactness of `mul64`, and of the limb-wise subtraction for limbs below the sign bit |
| `limbs_compare` | the limbs | finding: signed comparison |
| `limbs_montgomery` | the limbs | finding: `from_montgomery` |
| `hashing` | a sponge of rate 2, all patterns of up to three operations of 0 to 3 elements, oracles of up to six items; Poseidon of width 3 mod 13, 4 full and 3 partial rounds, 218 matrices; two transcripts with up to four calls and two rounds; SHA-256 on words of 2 bits, 17 rounds, an empty message and one that takes two blocks | what is squeezed, the pattern, the tag, the circuit, the oracle; the optimised permutation; equal challenges; the hash circuit |
| `circuits` | gadgets and circuits mod 11; numbers of 2-bit limbs mod 257, moduli 11 and 13; the curve `y^2 = x^3 + 2` mod 13 of order 19, scalars up to 5 bits; circuits of up to 3 + 1 variables, 3 terms with the coefficients 0, 1 and -1, one constraint; shapes of up to 2 constraints, 3 variables, public values and entries | each gadget leaves exactly its result; shape and assignment agree; index check and padding |
| `shape_rows` | up to 4 variables | finding: rows of a padded shape |
| `arguments` | integers mod 1009; R1CS of up to 4 constraints and 4 variables, honest and deviating provers; engines on polynomials of 0 to 4 variables; a key of 65 elements, two threads, three chunks | what the two SNARKs, the three engines and all ways to commit accept and compute |
| `batch_sizes` | Spartan with 4 variables and 2 constraints | finding: batches of different sizes |

Why the bounds are enough.
* `folding`: the state space is finite without a bound, since running instances
  are vectors of scalars; 5 is the least prime with challenges other than 0, 1
  and -1. One row already gives every power of the challenge its own role. The
  theorems lift all bounds.
* `ivc`: three draws make every sequence of up to three calls that draw, with any
  number of copies and counting calls in between: base case, first real step, a
  step on top of a folded instance, compression, and forks of them. The
  theorems lift the bounds. Slots, parameters and states are symmetric.
* `neutron`: 7 is the least prime for which the evaluation points 0 to 5 are
  different, and leaves 6 as a challenge outside of them, where soundness must
  hold; the other challenges are among them, where completeness and agreement must
  hold too. `rho` = 6 with `r_b` = 3 reaches the panic. Two folds put a real pair on
  top of the default one and a real one on top of that. In the chain the third draw
  is the first whose fold has a folded instance with a real step in it.
* `fortran`: four iterations of three calls interleave in all orders in the last
  loop, on data the earlier loops left; products and differences of 0, 1 and 50
  already differ from those of a field. The Rust table is checked for every `r` of up to
  three integers mod 5. With 4 bits the low limb of 59 (11) has its
  sign bit set and the high one does not, as the third and the top limb of the
  BN256 modulus; the modulus is below a quarter of the range, as BN256's is.
* `hashing`: with a rate of 2, lengths 0 to 3 stop before, at and after a full rate,
  and three operations turn twice. Six items pass the rate three times. Poseidon has
  the Cauchy matrix the code makes, all symmetric ones over a few entries, with
  minors that have no inverse, and one that is not symmetric, on which its circuit
  differs. Two rounds reach the end of the round counter. Labels are prefixes of one
  another. Round 17 is the first to use an extended word of the schedule, and two
  bits are enough for all carries and for packing several sums in a constraint.
* `circuits`: 11 - 1 is `1010` in binary: a second run of ones is compared with the
  first. A product of two-limb numbers has carries that need all their bits.
  A group of order 19 has scalars of 5 bits, so both the incomplete additions and the
  complete ones at the end of a multiplication occur. One constraint with three
  terms of any order reaches each shortcut of the indexer. Two rows give empty rows
  before and after occupied ones; sizes 1, 2, 3 cover both powers of two and their
  absence in each dimension.
* `arguments`: 4 by 4 gives two rounds to the outer and three to the inner sumcheck,
  ten entries fill lists of 16, padded by 6. There is a deviation for every
  claim a prover makes. A polynomial of 4 variables is a 4 by 4 matrix to Mercury and
  one of 3 variables is not square; among the points are Boolean ones, among the polynomials zero. Vectors
  of up to 66 elements are in each window size of `msm.rs` that a length decides, and
  one is longer than the key. The window of `msm_small_rest` for scalars of 32 and 64 bits
  is in the model, but the scalars of the run are shorter; the limit of 32 rounds of the
  inner product argument (`ipa_pc.rs:299`) is left out, since it takes vectors of more
  elements than any run could have. Of Mercury the debug assertions are left out: a
  release build has none.

Deadlock. A `Folding` behaviour ends with the derandomization, a `ZeroFold` one with the
bound on folds or a panic, a `Sponge` with `finish`, a panic or the bound on items, a
`Butterfly` call returns, and a hash, a call of a gadget, an engine, a commitment or a
proof is made once; their configurations switch the check off. `IVC` and
`NeutronIVC` never stop.

Fairness. Only `Butterfly` needs it: weak fairness of every iteration of the
loop (a worksharing loop runs each iteration on some thread that is not stopped)
and of the sequential rest of the routine. The other modules are driven by a
caller who owes no progress, or are loops of one thread over a known number of
rounds, and state no liveness property.

Every passing property has a mutant, a definition next to the one it replaces
with a comment that says which mistake it is; with it, TLC finds the property
violated.

## 4. Findings

1. `num_steps()` is documented as the number of steps executed; between `new` and
   the first `prove_step` it is 0 although the first step circuit has run and
   `outputs()` returns its result. Such a snark can be compressed, and the
   compressed proof verifies for one step. (NeutronNova's `num_steps` has the same
   comment and the same behaviour.)
2. `from_montgomery` does not leave Montgomery form. It puts the element in the
   upper half of the double-width product, where the reduction only cancels the
   factor it has thereby introduced; `field_mul` returns a result in Montgomery
   form, and so does each product of `evals_from_points_fortran`, whose table is
   therefore not the one `integration_test.rs` compares it with. (The element belongs
   in the lower half.)
3. The README's "all limbs < 2^63" does not hold of BN256: only the top limb is
   bounded. `field_compare` orders elements wrongly, and with it
   `field_gte_modulus`; the borrows and the carries compare in the same way.
4. `R1CSShape::pad` of a shape with `num_vars` equal to the padded size raises
   `num_cons` without adding rows, so that the assertions of `is_sat_relaxed` and
   `is_sat` on the lengths of the products fail. Related: the result is not
   regular if the public values alone fill the padded size (`PadRegular` states
   exactly when it is).
5. The batched sumcheck allows claims over different numbers of variables by its
   comment, and `snark.rs` uses it for `W` and `E`, whose sizes a shape that is
   regular with `num_vars` and `num_cons` different powers of two keeps apart. Until
   the variables of the smaller claim begin, its round polynomial is constant; the
   prover gives the claim as its value at 0 and, instead of 0, as its quadratic
   coefficient too. The assertion on the last evaluation then fails: the honest
   prover panics.

A remark: `poseidon_inner.rs` says the MDS matrix "does not have to be symmetric". The
native hash indeed agrees with the paper for any matrix, the circuit only for
symmetric ones, which is what `PermutationAgrees` states. The matrix the code
generates is symmetric.

## 5. Proofs

`InductionProofs` is what most of the other proofs rest on. The induction theorems of
the library take the property as an operator, which no prover here instantiates. So
the property is a set, and the least number outside of it is refuted
(`LeastNumber`, `InductionTo`); a recursive function is shown to exist as the
table of its values (`RecursionTo`), after which its equation may be used.

`FoldingProofs` (with `RingProofs`) proves every property of the `folding` run for
every commutative ring without zero divisors, every family of linear maps, every
set of incoming pairs and every set of challenges: `SpecTypeOK`,
`SpecCompleteness`, `SpecAgreement`, `SpecOpensUnblinded`, `SpecFoldSound`,
`SpecDerandomizeExact`. Assumed are `RingAssumption`, `DomainAssumption`,
`LinearAssumption` and `SamplingAssumption`, which TLC evaluates on the instance
it checks. The argument:
* `RingProofs` derives the identities of the scalars that are needed from the
  ring laws; `FoldedDifference` and `CrossTerm` are the algebra of a fold.
* By how much a row misses its equation is its residual. `FoldedResidual`: a fold
  with challenge `r` has the residual `(1 - r) * (res1 - r * res2)`. It is
  zero if both are; if one of the two is zero and `r` is neither 0 nor 1 it is
  zero only if both are. This is where the one-product cross term shows.
* `FoldedOpening` is the same for commitments. A plain fold is a relaxed fold of
  the converted pair (`PlainIsRelaxed`), so the two kinds share one proof.
* The invariant `IInv` is `TypeOK`, `Completeness`, `Agreement` and `Unblinded`
  (once derandomized, the prover's blinds are zero): completeness needs the
  types, agreement the exact form of the pending message, and what the verifier
  opens needs the last.

`IVCProofs` proves every property of the `ivc` run, and the
types, for all slots, parameters, states and draws: `SpecTypeOK`, `SpecVerifySound`,
`SpecVerifyComplete`, `SpecCompressedSound`, `SpecCompressedComplete`,
`SpecIsIncremental`. None of the invariants is inductive: what a
verifier accepts says nothing of a snark it rejects, which the next step could
turn into one it accepts. The invariant `Linked` ties every snark, good or bad,
to its log: the counter and the states agree with the log, the hashes it carries
are those of its last step, and its instances are all satisfied exactly when
every step was good and of one set of parameters. That a hash is injective is
by construction of `Hash` (a tuple).

The refinement rests on the same invariant. What a snark claims is by definition
whatever `verify` would accept of it, a choice over all parameters; `ClaimOfLinked`
shows that for a linked snark it is a function of the log alone (`claimBy`), and
`PublicationOfLinked` that a compressed proof claims that or nothing. `Record` adds
which fields a snark has. With these, `new` starts a claim, the first `prove_step`
counts it, a good step extends it, a bad one makes it void, and a step on a void
one is a stutter.

`NeutronProofs` proves `SpecNeutronSound`, `SpecNeutronComplete`, `SpecTypeOK` and the
refinement `SpecNeutronIsIncremental` for all slots, parameters, states and steps,
without an assumption (the types need `BoundAssumption`). As for Nova the invariant `Linked` ties snarks to logs; with one
chain there is one hash, that of the last instance over the running instance it is
going to be folded into. `StepLinked` is the heart: the circuit's check of its input
hash passes exactly if the step names the parameters of the step before.

`NeutronProofs` also proves, about `ZeroFold`, `SpecFoldTypeOK`, `SpecZeroFoldAgree`, `SpecZeroFoldComplete` and
`SpecZeroFoldSound` for every field with six points, every structure, good and bad
pairs and any challenges.
* Agreement. In the invariant `FoldInv` the part `Pending` says what a message is worth to a verifier that
  has not used it (`Turns`): the oracle answers its queries as it answered the
  prover's, the claim it holds is what the polynomial's values at 0 and 1 add up to,
  the factor it divides by is not zero, and its fold is the prover's instance. That
  the sum is right for any pair is `RoundPoly`: the value at 1 is not computed but
  is what the claim leaves.
* Completeness. Each factor of a row (`eq`, the folded weight, the folded products) is
  a line in the challenge, so the round polynomial has degree five (`RoundDegree`) and
  its six evaluations determine it (`Interpolation`: a Lagrange basis, and a
  polynomial with more roots than its degree is zero, `Roots` and `Agree`). What is
  left after the division is the sum of the folded pair plus an `Error` times the
  basis polynomial of the point 1 (`FoldSum`), and the error of two right pairs is
  zero (`FoldKeeps`).
* Soundness. The error is `(1 - rho)` times how far the claim of the running pair is
  off, minus `rho` times the residual of the incoming one (`ErrorOf`): if one of them
  is zero the other one shows, because the basis polynomial vanishes at evaluation
  points only (`BasisNonZero`, `FoldShows`). If both pairs are wrong, some
  `rho` makes the errors cancel; the property excludes this case.

Assumed are the laws of a field (`RingAssumption`, `DomainAssumption`,
`InverseAssumption`), linear rows (`LinearAssumption`), at least four rows and that
pairs have the lengths of the shape (`StructureAssumption`, `CallAssumption`); TLC
evaluates all of them.

`FortranProofs` proves about `Butterfly`, for inputs of every length, that the iterations
of a `DO CONCURRENT` loop touch disjoint elements inside the arrays (`SpecNoRace`),
that the arrays keep their shape (`SpecTypeOK`), and that the routine implements
the Rust algorithm (`SpecImplementsEqTable`). No law of arithmetic is used: the
statements hold for the operations as they are, right or wrong, and the third one needs
only that `field_mul` is `field_mul_mont_b` with its second operand converted.
* The refinement mapping reads the table off the arrays: before a loop begins it is the
  first `size` elements, from the first call on what the loop will leave in the first
  `2 * size` (`Lower`, `Upper`). The doubling thus happens at the first product of a loop
  (`IterateDoubles`), and every other call is a stutter, whichever iteration makes it
  (`IterateKeeps`): what an iteration still has to do is computed from its own
  element and its own temporary, and no other iteration writes either. At the end of the
  loop nothing is left to do and the arrays hold what was promised (`EndLoopKeeps`).
* `TypeOK` is inductive and is all the invariant it takes; that `size * 2 ^ i` stays the
  length of the arrays is what keeps the upper half inside of them (`Room`).

`SpecTableIsEq` is about the Rust table, `EqTable`: under `FieldArithmetic`, two closure
laws and `a - a * b = a * (1 - b)`, the table after each doubling is the equality
polynomial of the entries of `r` used so far. An element is a product of one factor for
each of them, chosen by a bit of its index (`EqIsChain`); a doubling appends a factor, and
the index of an element keeps its lower bits (`BitKeeps`) and gets its next one from the
half it is in (`BitHalf`). `FieldArithmetic` is a hypothesis of this theorem alone, and
the Fortran operations do not satisfy it. All of these use `PowerAssumption`, the rules of
powers of two up to the longest input, because no prover has a theory of exponents.

`HashingProofs` proves every property of `Sponge`, for every rate, all patterns and any
number of elements: `SpecSqueezeDepends`, `SpecFinishExact`, `SpecCircuitAgrees`,
`SpecOracleDepends`, `SpecTagDecides`. It needs `RateAssumption` only.
* The invariant `Inv` is `TypeOK`; `Unused` (a pattern's sponges before `start`);
  `Running`: in each mode the lanes together depend on the tag and all that was
  absorbed (`Content`), after an absorption a squeeze that needs no permutation finds
  this in each lane (`Mixed`), no lane is squeezed twice (`Spent`), the three sponges
  differ in their modes only (`Same`) and a witness generator's two copies are equal
  (`Synced`), the operations made begin the pattern (`Follows`); and `Kept`, what an
  oracle keeps depends on all it absorbed. None of the properties is inductive
  without it.
* A call of many elements is a table of sponges, one after each element
  (`AbsorbTable`, `SqueezeTable`), and its effect an induction along it
  (`AbsorbExact`, `SqueezeExact`).
* The tag. Absorbing `n` and then `m` elements leaves the sponge that absorbing
  `n + m` does, apart from counters nothing reads (`AbsorbJoin`; `SqueezeJoin` the
  same), so the coalesced form the tag hashes runs as the pattern does (`Coalesced`,
  along the steps of the hasher). `Ran` ties the sponge to the run of the operations
  made so far. Patterns with empty operations are excluded because they do differ:
  an empty absorption between two squeezes makes the second one permute, and leaves
  the tag as if it were not there.

`HashingProofs` also proves `SpecTranscriptBinds`: for all labels, data and bounds,
equal challenges of `Keccak256Transcript` mean equal calls and data.
* The invariant `ChainInv`: each challenge is the hash of the tags, the round, the
  challenge before and exactly what was absorbed since that one (`Hashes`), until the
  counter ends, after which every squeeze fails; and what was absorbed since the last
  challenge is in the transcript (`Current`). The property alone is not inductive: it
  does not say what a challenge is a hash of.
* A string that is hashed is read from its end. The one hash in it is the state before,
  so its place is known (`HashPlace`) though nothing says where a label starts; what
  follows is the label, what precedes is the round, the tag and what was absorbed
  (`HashedInjective`). Two equal challenges thus have equal predecessors (`BindStep`),
  down to the persona tag (`ChallengesBind`). With the same kinds and lengths the
  same bytes split into the same calls (`SameCalls`).
* Assumed are `BytesAssumption` (labels and data are bytes, not hashes) and
  `MaxRoundAssumption`.

`FortranProofs` also proves `SpecLimbsExact`, for every limb width and number of limbs:
`mul64` returns both limbs of the product, and `field_sub_no_borrow` the difference.
* `mul64`. None of the four products of half limbs overflows (`HalfProduct`), the middle
  column carries what the schoolbook method does (`Schoolbook`), and the upper limb
  stays below the limb's values, so its sums do not wrap (`UpperLimb`).
* The subtraction, along the limbs: what has been computed is the difference of the
  lower limbs plus the borrow times the weight of the next (`Difference`, `NextLimb`).
  The borrow is right because limbs below half of their range compare as signed numbers
  as they do as unsigned ones (`SignedIsUnsigned`), and at the top there is none since
  the result is not negative. Larger limbs are finding 3.
* Only `LimbsAssumption` is used: the sizes are positive.

`CircuitProofs` proves the properties of `Frontend`, of `Gadgets` and both of `R1CSShape`,
for circuits and shapes of every size and fields of every odd prime. It is the longest proof, since every loop of the code is a
table that has to be shown to exist before its entries can be reasoned about.

`SpecNewChecksEveryEntry`: `R1CSShape::new` refuses exactly the matrices with an index
out of range, because the iterator returns every entry, in the row it was pushed to.
* A row holds the entries with its index and, over all rows, as many as were pushed
  (`PushedExact`, `SizesPush`); joined, a row's entries are where its pointer says
  (`JoinedLaid`).
* The iterator is always in the one row whose range holds its item (`InRow`, `OneRow`),
  since empty rows end where they begin and are skipped (`SkipExact`, `IterExact`).
* The invariant `IInv` has the types (`Typed`), why a matrix was refused (`Refused`),
  of which entries an accepted one was made (`Made`) and that a padded shape is the
  result of `pad` (`Paddings`).

`SpecPadExact`, with the same invariant: padding changes no row, and the result is
regular unless the public values alone fill the padded size.
* `next_power_of_two` returns the least entry of a table of doublings that is large
  enough (`PowerFound`, `NextPower`) and is the same whatever table it is taken from
  (`PowersAgree`), so that padded sizes are their own next powers (`SizeExact`).
* A column of the padded matrix finds in the padded vector what it found before
  (`ZPadded`), so the sums of a row are equal term by term (`ExtendedProducts`); a row
  that was added is empty (`ExtendedRows`).

`SpecFrontendAgrees`: however a circuit mixes allocations, terms and constraints, the
row of the R1CS, the test system and the terms as they were written have one value.
* The indexer. `GoodIx` is what its shortcuts rest on: the keys rise, they are indices of
  variables, and the remembered place is where its key is. Under it all three ways
  into the list find the right position, and the sum over the entries rises by
  the added term modulo `P` (`UpdateAdds`, `InsertAdds`, `InsertOrUpdateAdds`).
* Combinations. `AddAdds` and, along the loop of `add_scaled`, `AddScaledAdds` say the same
  of a combination. A row has the entries of its combination but for the zeros, at
  the columns of their variables (`RowIs`).
* The invariant `SynthInv`. `Agree` cannot speak of the present assignment only: a variable
  allocated later would change the value on both sides, and a constraint must stay
  what it was. So it says that a combination and its terms are congruent under every
  assignment to the variables there are so far; then new variables change nothing
  (`MeansGrows`). Besides it there are the assignment with its `ONE`, the counts
  (`Counted`), and `Agree` for the parts of each constraint (`Constrained`).
* Sums of sequences are handled once, over the integers: inserting, updating, joining and
  scaling (`SumInserted`, `SumUpdated`, `SumJoined`, `SumScaled`), and `total` is congruent
  to the sum (`TotalIsSum`).
* Only `ModulusAssumption` and `CoefficientsAssumption` are used: the modulus is above 1,
  and what a circuit may write as coefficients are any scalars, all of them if one likes.

`SpecGadgetsExact`: whatever values a prover gives to the variables a gadget allocates,
the constraints let through the documented result and no other. A behaviour is one
call, so the invariant is the property itself; the work is in the gadgets.
* Booleans. A gadget's result is one of the three kinds with one value (`Computes`), case
  after case of the `match` (`XorIs`, `AndIs`, `ChIs`, `MajIs`): a constant or a negated
  argument must give what the plain bits would.
* Numbers. A product that is zero has a factor that is (`ZeroProduct`, from the inverses),
  so an allocated bit is 0 or 1, one number passes a selection and `alloc_num_equals`
  cannot claim either answer wrongly (`AllocBit`, `Selections`, `Equals`, `Reverses`).
* Bits. Halving a number gives its bits (`BitsOf`) and packing them gives it back
  (`HighsOfBits`). The invariant `Strict` of the strict decomposition says after each bit
  that what has been written is at most what `-1` begins with, and equal exactly if
  all bits where `-1` has a one are ones; that is what the AND of a run with the result of
  the run before it stands for (`OnesSoFar`, `KaryAnd`). `StrictStep` keeps it and
  takes any bit that does not exceed `-1`, so all strings up to `-1` are allowed and no
  other (`StrictStrings`): one decomposition for each number (`StrictIs`).
* That the modulus is odd is used once, `-1` and the modulus have equally many bits
  (`NumBits`), and is what the code asserts at the end of the strict decomposition.
* Only `PrimeAssumption` is used: the modulus is above 2 and every number but zero has an
  inverse.

Only model-checked:
* the findings about `FieldLimbs` and `R1CSShape`, and those about `num_steps` and the
  batches: they are counterexamples;
* `PermutationAgrees`, `CircuitIsSha256`, `BigNatExact` and `EccExact`. Their modules use
  folds whose operator is a parameter, which no prover here can unfold. They are statements about particular fields and curves, which
  enumeration settles: that a curve has 19 points, that 13 constants compress;
* `SpartanExact`, `PPSnarkExact` and `EvaluationExact`. They say what holds for challenges
  outside of a few degenerate ones, the choice of which is in the instance; a theorem
  would have to count the degenerate ones (a polynomial has no more zeros than its
  degree), an induction over the degree of data;
* `CommitmentsExact`: the loops over buckets are folds over operators, and windows are
  powers of two whose exponents the code takes from logarithms in floating point.

Out of the prover's reach: the liveness property `Returns` and `ENABLED`, on which its
fairness depends.

## 6. Not modelled

* `spartan/direct.rs`, which wraps a step circuit around either SNARK; the digests of
  keys and parameters (a hash of a serialization; `IVC` takes it as a name).
* Of Poseidon: the choice of round numbers and of round constants (fixed tables and
  a generator from an external specification). Of the sponge: `SpongeTrait::squeeze`
  with its queue (the library uses `SpongeAPI` only), domain separators (nothing
  passes one) and a second `start` of one sponge, after which its count of
  operations goes on where it was.
* Of the Fortran interface: the conversions between scalars and bytes, and 32-bit
  lengths, which overflow only for tables of 2 GiB and more.
* Curve bindings, key files and the generation of keys (external libraries,
  input/output), the accelerator's bindings, traits and errors, examples, benchmarks.
* Computational hardness everywhere: hashes do not collide, commitments bind, and
  challenges are outside of the few degenerate values.

## 7. Plan

Done, in this order: `ScalarField`, `Folding` and its proofs; `IVC`,
`IncrementalComputation` and the proofs of `IVC`; `EqTable`, `Butterfly`; `FieldLimbs`;
`R1CSShape`; `ZeroFold`; `NeutronIVC`; `Sponge`; `Poseidon`; the gadgets, `Sha256`,
`BigNat`, `Ecc`; `Frontend`; `Polynomials`, `Spartan`, `PPSnark`; the engines, `Msm` and
`Commitments`; `Transcript`; the proofs of `NeutronIVC`, and of the two refinements of
`IncrementalComputation`; induction and recursion, with them the proofs of all
properties of `Butterfly` but liveness, of `ZeroFold` and of `Sponge`; the proofs of
`Transcript`, `R1CSShape`, the arithmetic of `FieldLimbs`, `Frontend` and `Gadgets`.

Left of the model: `direct.rs` as a caller of `Frontend` and `Spartan`; lengths as
32-bit integers in `Butterfly`; a second `start` of a sponge.

Theorems to come: that `field_add` and `field_mul` are right for limbs below half their
range; numbers of limbs (`BigNat`); the round invariant of sumcheck, for a fixed degree.
