-------------------------------- MODULE IVC --------------------------------
(***************************************************************************)
(* Incrementally verifiable computation: RecursiveSNARK and                *)
(* CompressedSNARK of src/nova/mod.rs over the augmented circuit of        *)
(* src/nova/circuit/mod.rs.                                                *)
(*                                                                         *)
(* A caller keeps RecursiveSNARKs in slots.  It creates them, extends them *)
(* a step at a time, copies them (Clone, or a serialized checkpoint that   *)
(* is resumed), compresses them and verifies both kinds.  It may pass      *)
(* other public parameters to a call than to the one before, a step        *)
(* circuit may compute anything, fail, or be given a witness that violates *)
(* its constraints: no call but verify checks that.                        *)
(*                                                                         *)
(* A hash is what it absorbed (no collisions), a commitment is binding:    *)
(* whether the witness behind an instance satisfies it is a part, sat, of  *)
(* the instance.  An instance that was folded satisfies exactly if all its *)
(* parts do, which is what Folding shows for the random challenges the     *)
(* code draws.                                                             *)
(***************************************************************************)
EXTENDS Integers, Sequences

CONSTANTS
    Slot,        \* where the caller keeps RecursiveSNARKs
    PP,          \* public parameters, each standing for its digest
    State,       \* the vectors z
    MaxDraws     \* how often fresh randomness may be drawn (bound of the model)

VARIABLES
    snark,       \* the RecursiveSNARK in each slot
    compressed,  \* the last CompressedSNARK made
    log,         \* history: the step circuits executed for each snark ...
    plog,        \* ... and for the compressed one
    draws        \* randomness drawn so far; also names the next sample

vars == <<snark, compressed, log, plog, draws>>

ASSUME BoundAssumption == MaxDraws \in Nat

None == [kind |-> "none"]
----------------------------------------------------------------------------
(* Instances and hashes.                                                   *)

Hash(pp, i, z0, zi, U, r) == <<pp, i, z0, zi, U, r>>
NoHash == <<>>           \* the zero an absent instance is allocated with
Zero   == 0              \* the vector of the trivial circuit

\* An R1CSInstance made by a circuit: its two public outputs.
Instance(X0, X1, sat) == [X |-> <<X0, X1>>, sat |-> sat]
NoInstance == Instance(NoHash, NoHash, FALSE)

\* Relaxed instances: what they were made of, and whether all of it satisfies.
default == [of |-> <<>>, sat |-> TRUE]
from_r1cs_instance(u) == [of |-> <<u>>, sat |-> u.sat]
\* The challenge is the oracle's answer to <<pp, u, T>>.
fold(pp, U, u, T) == [of |-> <<U, pp, u, T>>, sat |-> U.sat /\ u.sat]

\* NovaAugmentedCircuit::synthesize with the inputs in, for a step circuit
\* that maps its input to z and whose own constraints hold if ok does.
\* Mutant: the check of the input hash is left out.
synthesize_mut(primary, in, z, ok) ==
    LET Unew == IF in.i # 0 THEN fold(in.pp, in.U, in.u, in.T)
                ELSE IF primary THEN default ELSE from_r1cs_instance(in.u)
    IN  Instance(in.u.X[2], Hash(in.pp, in.i + 1, in.z0, z, Unew, in.r_next), ok)
synthesize(primary, in, z, ok) ==
    LET base     == in.i = 0
        check_non_base_pass ==
            in.u.X[1] = Hash(in.pp, in.i, in.z0, in.zi, in.U, in.ri)
        Unew     == IF ~base THEN fold(in.pp, in.U, in.u, in.T)
                    ELSE IF primary THEN default ELSE from_r1cs_instance(in.u)
    IN  Instance(in.u.X[2],
                 Hash(in.pp, in.i + 1, in.z0, z, Unew, in.r_next),
                 ok /\ (base \/ check_non_base_pass))

\* What the step circuit is given: zi, or z0 in the base case.
z_input(i, z0, zi) == IF i = 0 THEN z0 ELSE zi

\* Mutant: the secondary circuit's counter runs one ahead.
SecondaryInputs_mut(pp, i, U, ri, r_next, u, T) ==
    [pp |-> pp, i |-> i + 1, z0 |-> Zero, zi |-> Zero,
     U |-> U, ri |-> ri, r_next |-> r_next, u |-> u, T |-> T]
\* What the secondary circuit, whose step circuit is trivial, is given.
SecondaryInputs(pp, i, U, ri, r_next, u, T) ==
    [pp |-> pp, i |-> i, z0 |-> Zero, zi |-> Zero,
     U |-> U, ri |-> ri, r_next |-> r_next, u |-> u, T |-> T]
----------------------------------------------------------------------------
(* RecursiveSNARK.  One sample n stands for everything a call draws: the   *)
(* two r_next, and the blinds of the commitments.                          *)

ri_p(n) == 2 * n
ri_s(n) == 2 * n + 1

new_snark(pp, z0, z, ok, n) ==
    LET u_primary == synthesize(TRUE,
            [pp |-> pp, i |-> 0, z0 |-> z0, zi |-> Zero, U |-> default,
             ri |-> 0, r_next |-> ri_p(n), u |-> NoInstance, T |-> 0], z, ok)
        u_secondary == synthesize(FALSE,
            SecondaryInputs(pp, 0, default, 0, ri_s(n), u_primary, 0), Zero, TRUE)
    IN  [kind |-> "snark", z0 |-> z0, zi |-> z, i |-> 0,
         r_U_primary |-> from_r1cs_instance(u_primary), ri_primary |-> ri_p(n),
         r_U_secondary |-> default, ri_secondary |-> ri_s(n),
         l_u_secondary |-> u_secondary]

\* A step after the first: both running instances are folded and both
\* circuits run, on the instances as they were before.
next_snark(S, pp, z, ok, n) ==
    LET u_primary == synthesize(TRUE,
            [pp |-> pp, i |-> S.i, z0 |-> S.z0, zi |-> S.zi,
             U |-> S.r_U_secondary, ri |-> S.ri_primary, r_next |-> ri_p(n),
             u |-> S.l_u_secondary, T |-> n], z, ok)
        u_secondary == synthesize(FALSE,
            SecondaryInputs(pp, S.i, S.r_U_primary, S.ri_secondary, ri_s(n),
                            u_primary, n),
            Zero, TRUE)
    IN  [kind |-> "snark", z0 |-> S.z0, zi |-> z, i |-> S.i + 1,
         r_U_primary |-> fold(pp, S.r_U_primary, u_primary, n),
         ri_primary |-> ri_p(n),
         r_U_secondary |-> fold(pp, S.r_U_secondary, S.l_u_secondary, n),
         ri_secondary |-> ri_s(n),
         l_u_secondary |-> u_secondary]

\* The first call only counts the step that new has executed already.
counted(S) ==
    [kind |-> "snark", z0 |-> S.z0, zi |-> S.zi, i |-> 1,
     r_U_primary |-> S.r_U_primary, ri_primary |-> S.ri_primary,
     r_U_secondary |-> S.r_U_secondary, ri_secondary |-> S.ri_secondary,
     l_u_secondary |-> S.l_u_secondary]

\* The instances point to each other and to the statement.
hashes_match(S, pp, num_steps, z0, zn) ==
    /\ S.l_u_secondary.X[1] =
          Hash(pp, num_steps, z0, zn, S.r_U_secondary, S.ri_primary)
    /\ S.l_u_secondary.X[2] =
          Hash(pp, num_steps, Zero, Zero, S.r_U_primary, S.ri_secondary)

\* RecursiveSNARK::verify returns Ok; what it returns is S.zi.
verify(S, pp, num_steps, z0) ==
    /\ num_steps # 0 /\ S.i = num_steps /\ S.z0 = z0
    /\ hashes_match(S, pp, num_steps, z0, S.zi)
    /\ S.r_U_primary.sat /\ S.r_U_secondary.sat /\ S.l_u_secondary.sat

(* CompressedSNARK: the verifier folds again what the prover folded, and   *)
(* the final SNARKs prove the two results.                                 *)

\* A random satisfying instance, as sampled with the sample n.
random_instance(n) == Instance(<<"random", n>>, NoHash, TRUE)

Un_secondary(pp, C, T) ==
    fold(pp, fold(pp, C.r_U_secondary, C.l_u_secondary, T), C.l_ur, T)
Un_primary(pp, C, T) == fold(pp, C.r_U_primary, C.l_ur, T)

compress(S, pp, n) ==
    LET C == [r_U_secondary |-> S.r_U_secondary, l_u_secondary |-> S.l_u_secondary,
              r_U_primary |-> S.r_U_primary, l_ur |-> random_instance(n)]
    IN  [kind |-> "compressed", zn |-> S.zi, T |-> n,
         r_U_secondary |-> C.r_U_secondary, ri_secondary |-> S.ri_secondary,
         l_u_secondary |-> C.l_u_secondary,
         r_U_primary |-> C.r_U_primary, ri_primary |-> S.ri_primary,
         l_ur |-> C.l_ur,
         snark_secondary |-> Un_secondary(pp, C, n),
         snark_primary |-> Un_primary(pp, C, n)]

\* Mutant: only the secondary curve's SNARK is verified.
verify_compressed_mut(C, vk, num_steps, z0) ==
    /\ num_steps # 0 /\ hashes_match(C, vk, num_steps, z0, C.zn)
    /\ C.snark_secondary = Un_secondary(vk, C, C.T) /\ C.snark_secondary.sat
\* Mutant: the steps are counted from zero, as RecursiveSNARK::new does.
verify_compressed_mut2(C, vk, num_steps, z0) ==
    /\ num_steps # 0 /\ hashes_match(C, vk, num_steps + 1, z0, C.zn)
    /\ C.snark_primary = Un_primary(vk, C, C.T) /\ C.snark_primary.sat
    /\ C.snark_secondary = Un_secondary(vk, C, C.T) /\ C.snark_secondary.sat
\* CompressedSNARK::verify returns Ok; what it returns is C.zn.
verify_compressed(C, vk, num_steps, z0) ==
    /\ num_steps # 0
    /\ hashes_match(C, vk, num_steps, z0, C.zn)
    /\ C.snark_primary = Un_primary(vk, C, C.T) /\ C.snark_primary.sat
    /\ C.snark_secondary = Un_secondary(vk, C, C.T) /\ C.snark_secondary.sat
----------------------------------------------------------------------------
Init ==
    /\ snark = [s \in Slot |-> None]
    /\ compressed = None
    /\ log = [s \in Slot |-> <<>>]
    /\ plog = <<>>
    /\ draws = 0

Executed(pp, zin, zout, ok) == [pp |-> pp, zin |-> zin, zout |-> zout, ok |-> ok]

New(s, pp, z0, z, ok) ==
    /\ draws < MaxDraws
    /\ draws' = draws + 1
    /\ snark' = [snark EXCEPT ![s] = new_snark(pp, z0, z, ok, draws)]
    /\ log' = [log EXCEPT ![s] = <<Executed(pp, z_input(0, z0, Zero), z, ok)>>]
    /\ UNCHANGED <<compressed, plog>>

ProveFirstStep(s) ==
    /\ snark[s] # None /\ snark[s].i = 0
    /\ snark' = [snark EXCEPT ![s] = counted(snark[s])]
    /\ UNCHANGED <<compressed, log, plog, draws>>

\* A call that returns an error changes nothing: every assignment to self
\* comes after the last operator that may return early.
ProveStep(s, pp, z, ok) ==
    /\ snark[s] # None /\ snark[s].i # 0
    /\ draws < MaxDraws
    /\ draws' = draws + 1
    /\ snark' = [snark EXCEPT ![s] = next_snark(snark[s], pp, z, ok, draws)]
    /\ LET S == snark[s]
       IN  log' = [log EXCEPT ![s] =
              Append(@, Executed(pp, z_input(S.i, S.z0, S.zi), z, ok))]
    /\ UNCHANGED <<compressed, plog>>

Copy(s, t) ==
    /\ snark[s] # None
    /\ snark' = [snark EXCEPT ![t] = snark[s]]
    /\ log' = [log EXCEPT ![t] = log[s]]
    /\ UNCHANGED <<compressed, plog, draws>>

Compress(s, pp) ==
    /\ snark[s] # None
    /\ draws < MaxDraws
    /\ draws' = draws + 1
    /\ compressed' = compress(snark[s], pp, draws)
    /\ plog' = log[s]
    /\ UNCHANGED <<snark, log>>

Next ==
    \/ \E s \in Slot, pp \in PP, z0, z \in State, ok \in BOOLEAN :
          New(s, pp, z0, z, ok)
    \/ \E s \in Slot : ProveFirstStep(s)
    \/ \E s \in Slot, pp \in PP, z \in State, ok \in BOOLEAN :
          ProveStep(s, pp, z, ok)
    \/ \E s, t \in Slot : Copy(s, t)
    \/ \E s \in Slot, pp \in PP : Compress(s, pp)

Spec == Init /\ [][Next]_vars
----------------------------------------------------------------------------
(* Every slot is empty or holds a snark whose log records its steps.       *)
TypeOK ==
    /\ draws \in 0 .. MaxDraws
    /\ \A s \in Slot :
          /\ log[s] \in Seq([pp : PP, zin : State, zout : State, ok : BOOLEAN])
          /\ snark[s] # None =>
                /\ snark[s].i \in 0 .. Len(log[s])
                /\ snark[s].z0 \in State /\ snark[s].zi \in State

\* L records num_steps steps from z0 to zn under pp, with nothing violated.
Executes(L, pp, num_steps, z0, zn) ==
    /\ num_steps = Len(L) /\ num_steps # 0
    /\ L[1].zin = z0 /\ L[num_steps].zout = zn
    /\ \A k \in 1 .. num_steps : L[k].pp = pp /\ L[k].ok
    /\ \A k \in 2 .. num_steps : L[k].zin = L[k - 1].zout

Statement == PP \X (0 .. MaxDraws + 1) \X State

(* What RecursiveSNARK::verify accepts is true of the steps that were      *)
(* executed: all of them, under these parameters, from this z0, and what   *)
(* it returns is their result.                                             *)
VerifySound ==
    \A s \in Slot : snark[s] # None =>
        \A c \in Statement :
            verify(snark[s], c[1], c[2], c[3])
                => Executes(log[s], c[1], c[2], c[3], snark[s].zi)

(* RecursiveSNARK::verify accepts every run of good steps (the nifs and    *)
(* ivc tests call it after each step), once the first one was counted.     *)
VerifyComplete ==
    \A s \in Slot : snark[s] # None /\ snark[s].i # 0 =>
        \A c \in Statement :
            Executes(log[s], c[1], c[2], c[3], snark[s].zi)
                => verify(snark[s], c[1], c[2], c[3])

(* CompressedSNARK::verify accepts, whatever snark was compressed and with *)
(* whatever parameters, only what is true of the steps that were executed. *)
CompressedSound ==
    compressed # None =>
        \A c \in Statement :
            verify_compressed(compressed, c[1], c[2], c[3])
                => Executes(plog, c[1], c[2], c[3], compressed.zn)

(* Compressing with the right parameters loses nothing: the step makes a   *)
(* proof of every statement the RecursiveSNARK proves, whatever it was     *)
(* copied from or into.                                                    *)
CompressedComplete ==
    [][\A s \in Slot, pp \in PP :
          snark[s] # None /\ compressed' = compress(snark[s], pp, draws)
            => \A n \in 0 .. MaxDraws + 1, z0 \in State :
                  verify(snark[s], pp, n, z0)
                    => /\ verify_compressed(compressed', pp, n, z0)
                       /\ compressed'.zn = snark[s].zi]_vars

(* The claim a snark makes, read off the statements its checks let pass;   *)
(* the step that new executed is claimed before it is counted.             *)
claimOf(S) ==
    LET n   == IF S.i = 0 THEN 1 ELSE S.i
        pps == {pp \in PP : verify([S EXCEPT !.i = n], pp, n, S.z0)}
    IN  IF pps = {} THEN [kind |-> "void"]
        ELSE [kind |-> "claim", pp |-> CHOOSE pp \in pps : TRUE, z0 |-> S.z0,
              n |-> n, z |-> S.zi, counted |-> S.i # 0]
claimOfCompressed(C) ==
    LET cs == {c \in Statement : verify_compressed(C, c[1], c[2], c[3])}
        c  == CHOOSE x \in cs : TRUE
    IN  IF cs = {} THEN [kind |-> "void"]
        ELSE [kind |-> "claim", pp |-> c[1], z0 |-> c[3],
              n |-> c[2], z |-> C.zn, counted |-> TRUE]

Claims == INSTANCE IncrementalComputation WITH
    claim     <- [s \in Slot |-> IF snark[s] = None THEN None ELSE claimOf(snark[s])],
    published <- IF compressed = None THEN None ELSE claimOfCompressed(compressed)

(* The snarks of a caller are claims that grow a step at a time: only a    *)
(* step of the same parameters extends one, what went wrong stays void,    *)
(* and a compressed proof claims what the snark claimed or nothing.        *)
IsIncremental == Claims!Spec

(* RecursiveSNARK::num_steps, "the number of steps which have been         *)
(* executed thus far", counts the step circuits that were executed.        *)
NumStepsExecuted ==
    \A s \in Slot : snark[s] # None => snark[s].i = Len(log[s])
============================================================================
