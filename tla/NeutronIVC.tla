----------------------------- MODULE NeutronIVC -----------------------------
(***************************************************************************)
(* NeutronNova's incrementally verifiable computation: RecursiveSNARK of   *)
(* src/neutron/mod.rs over the augmented circuit of                        *)
(* src/neutron/circuit/mod.rs.                                             *)
(*                                                                         *)
(* It has the interface of Nova's RecursiveSNARK and the same callers (see *)
(* IVC), but a single chain: the circuit verifies the fold of its own last *)
(* instance, its counter starts with the base case it runs in new, and the *)
(* instance new makes is folded only by the third call.  Hashes,           *)
(* commitments and folds are treated as in IVC; ZeroFold is what makes the *)
(* satisfaction of a folded instance that of its parts.                    *)
(***************************************************************************)
EXTENDS Integers, Sequences

CONSTANTS
    Slot,        \* where the caller keeps RecursiveSNARKs
    PP,          \* public parameters, each standing for its digest
    State,       \* the vectors z
    MaxDraws     \* how often fresh randomness may be drawn (bound of the model)

VARIABLES
    snark,       \* the RecursiveSNARK in each slot
    log,         \* history: the step circuits executed for each snark
    draws        \* randomness drawn so far; also names the next sample

vars == <<snark, log, draws>>

BoundAssumption == MaxDraws \in Nat

None == [kind |-> "none"]
----------------------------------------------------------------------------
(* Instances and hashes.                                                   *)

Hash(pp, i, z0, zi, U, r) == <<pp, i, z0, zi, U, r>>
NoHash == <<>>           \* the zero an absent instance is allocated with
Zeros  == 0              \* the zi of the base case

\* An R1CSInstance made by the circuit: its public output.
Instance(X0, sat) == [X |-> X0, sat |-> sat]
NoInstance == Instance(NoHash, FALSE)

\* Folded instances: what they were made of, and whether all of it satisfies.
default == [of |-> <<>>, sat |-> TRUE]
\* NIFS::prove and AllocatedNIFS::verify; n names the sampled blind of the
\* commitment comm_E, on which the challenges depend.
fold(pp, U, u, n) == [of |-> <<U, pp, u, n>>, sat |-> U.sat /\ u.sat]

\* NeutronAugmentedCircuit::synthesize with the inputs in, for a step
\* circuit that maps its input to z and whose constraints hold if ok does.
\* Mutant: nothing is enforced about the input hash.
synthesize_mut(in, z, ok) ==
    LET Unew == IF in.i = 0 THEN default ELSE fold(in.pp, in.U, in.u, in.n)
    IN  Instance(Hash(in.pp, in.i + 1, in.z0, z, Unew, in.r_next), ok)
synthesize(in, z, ok) ==
    LET base == in.i = 0
        check_non_base_pass == in.u.X = Hash(in.pp, in.i, in.z0, in.zi, in.U, in.ri)
        Unew == IF base THEN default ELSE fold(in.pp, in.U, in.u, in.n)
    IN  Instance(Hash(in.pp, in.i + 1, in.z0, z, Unew, in.r_next),
                 ok /\ (base \/ check_non_base_pass))

\* What the step circuit is given: zi, or z0 in the base case.
z_input(i, z0, zi) == IF i = 0 THEN z0 ELSE zi
----------------------------------------------------------------------------
(* RecursiveSNARK.  A sample n is the r_next a call draws, and the blinds. *)

new_snark(pp, z0, z, ok, n) ==
    [kind |-> "snark", z0 |-> z0, zi |-> z, i |-> 0, r_U |-> default, ri |-> n,
     l_u |-> synthesize([pp |-> pp, i |-> 0, z0 |-> z0, zi |-> Zeros, U |-> default,
                         ri |-> 0, r_next |-> n, u |-> NoInstance, n |-> n], z, ok)]

\* The first call only counts the step that new has executed already.
counted(S) ==
    [kind |-> "snark", z0 |-> S.z0, zi |-> S.zi, i |-> 1, r_U |-> S.r_U, ri |-> S.ri,
     l_u |-> S.l_u]

\* Mutant: the circuit is given the instance that was folded already.
next_snark_mut(S, pp, z, ok, n) ==
    LET r_U == fold(pp, S.r_U, S.l_u, n)
    IN  [kind |-> "snark", z0 |-> S.z0, zi |-> z, i |-> S.i + 1, r_U |-> r_U, ri |-> n,
         l_u |-> synthesize([pp |-> pp, i |-> S.i, z0 |-> S.z0, zi |-> S.zi, U |-> r_U,
                             ri |-> S.ri, r_next |-> n, u |-> S.l_u, n |-> n], z, ok)]
\* A later step: the last instance is folded, the circuit is run on the
\* running instance as it was before.
next_snark(S, pp, z, ok, n) ==
    [kind |-> "snark", z0 |-> S.z0, zi |-> z, i |-> S.i + 1,
     r_U |-> fold(pp, S.r_U, S.l_u, n), ri |-> n,
     l_u |-> synthesize([pp |-> pp, i |-> S.i, z0 |-> S.z0, zi |-> S.zi, U |-> S.r_U,
                         ri |-> S.ri, r_next |-> n, u |-> S.l_u, n |-> n], z, ok)]

\* RecursiveSNARK::verify returns Ok; what it returns is S.zi.
verify(S, pp, num_steps, z0) ==
    /\ num_steps # 0 /\ S.i = num_steps /\ S.z0 = z0
    /\ S.l_u.X = Hash(pp, num_steps, z0, S.zi, S.r_U, S.ri)
    /\ S.r_U.sat /\ S.l_u.sat
----------------------------------------------------------------------------
Init ==
    /\ snark = [s \in Slot |-> None]
    /\ log = [s \in Slot |-> <<>>]
    /\ draws = 0

Executed(pp, zin, zout, ok) == [pp |-> pp, zin |-> zin, zout |-> zout, ok |-> ok]

New(s, pp, z0, z, ok) ==
    /\ draws < MaxDraws
    /\ draws' = draws + 1
    /\ snark' = [snark EXCEPT ![s] = new_snark(pp, z0, z, ok, draws)]
    /\ log' = [log EXCEPT ![s] = <<Executed(pp, z_input(0, z0, Zeros), z, ok)>>]

ProveFirstStep(s) ==
    /\ snark[s] # None /\ snark[s].i = 0
    /\ snark' = [snark EXCEPT ![s] = counted(snark[s])]
    /\ UNCHANGED <<log, draws>>

\* A call that returns an error, or panics in NIFS::prove, changes nothing:
\* every assignment to self comes after the last operator that may fail.
ProveStep(s, pp, z, ok) ==
    LET S == snark[s]
    IN  /\ S # None /\ S.i # 0
        /\ draws < MaxDraws
        /\ draws' = draws + 1
        /\ snark' = [snark EXCEPT ![s] = next_snark(S, pp, z, ok, draws)]
        /\ log' = [log EXCEPT ![s] =
              Append(@, Executed(pp, z_input(S.i, S.z0, S.zi), z, ok))]

Copy(s, t) ==
    /\ snark[s] # None
    /\ snark' = [snark EXCEPT ![t] = snark[s]]
    /\ log' = [log EXCEPT ![t] = log[s]]
    /\ UNCHANGED draws

Next ==
    \/ \E s \in Slot, pp \in PP, z0, z \in State, ok \in BOOLEAN :
          New(s, pp, z0, z, ok)
    \/ \E s \in Slot : ProveFirstStep(s)
    \/ \E s \in Slot, pp \in PP, z \in State, ok \in BOOLEAN :
          ProveStep(s, pp, z, ok)
    \/ \E s, t \in Slot : Copy(s, t)

Spec == Init /\ [][Next]_vars
----------------------------------------------------------------------------
(* Every slot is empty or holds a snark whose log records its steps.       *)
TypeOK ==
    /\ draws \in 0 .. MaxDraws
    /\ \A s \in Slot :
          /\ log[s] \in Seq([pp : PP, zin : State, zout : State, ok : BOOLEAN])
          /\ snark[s] # None =>
                /\ snark[s].i \in 0 .. Len(log[s])
                /\ snark[s].z0 \in State /\ snark[s].zi \in State

\* L records num_steps steps from z0 to zn under pp, with nothing violated.
Executes(L, pp, num_steps, z0, zn) ==
    /\ num_steps = Len(L) /\ num_steps # 0
    /\ L[1].zin = z0 /\ L[num_steps].zout = zn
    /\ \A k \in 1 .. num_steps : L[k].pp = pp /\ L[k].ok
    /\ \A k \in 2 .. num_steps : L[k].zin = L[k - 1].zout

Statement == PP \X (0 .. MaxDraws + 1) \X State

(* What NeutronNova's RecursiveSNARK::verify accepts is true of the steps  *)
(* that were executed, even if other steps, under other parameters or with *)
(* a violated circuit, came before or the snark is a resumed copy.         *)
NeutronSound ==
    \A s \in Slot : snark[s] # None =>
        \A c \in Statement :
            verify(snark[s], c[1], c[2], c[3])
                => Executes(log[s], c[1], c[2], c[3], snark[s].zi)

(* NeutronNova's RecursiveSNARK::verify accepts every run of good steps    *)
(* (test_ivc_nontrivial_with verifies after each of them).                 *)
NeutronComplete ==
    \A s \in Slot : snark[s] # None /\ snark[s].i # 0 =>
        \A c \in Statement :
            Executes(log[s], c[1], c[2], c[3], snark[s].zi)
                => verify(snark[s], c[1], c[2], c[3])

\* The claim a snark makes; the step of new is claimed before it is counted.
claimOf(S) ==
    LET n   == IF S.i = 0 THEN 1 ELSE S.i
        pps == {pp \in PP : verify([S EXCEPT !.i = n], pp, n, S.z0)}
    IN  IF pps = {} THEN [kind |-> "void"]
        ELSE [kind |-> "claim", pp |-> CHOOSE pp \in pps : TRUE, z0 |-> S.z0,
              n |-> n, z |-> S.zi, counted |-> S.i # 0]

Claims == INSTANCE IncrementalComputation WITH
    claim     <- [s \in Slot |-> IF snark[s] = None THEN None ELSE claimOf(snark[s])],
    published <- None

(* Nova's and NeutronNova's RecursiveSNARK are two implementations of one  *)
(* promise: the snarks of a caller are claims that grow a step at a time   *)
(* under one set of parameters, and what went wrong stays void.            *)
NeutronIsIncremental == Claims!Spec
=============================================================================
