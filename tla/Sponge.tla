------------------------------- MODULE Sponge -------------------------------
(***************************************************************************)
(* The Poseidon sponge behind its IO-pattern interface (SpongeAPI of       *)
(* src/frontend/gadgets/poseidon/sponge/api.rs), natively (vanilla.rs) and *)
(* as a circuit (circuit.rs), and the random oracle made of it             *)
(* (src/provider/poseidon.rs).                                             *)
(*                                                                         *)
(* A lane of the state is the set of what its value depends on: 0 for the  *)
(* tag of the IO pattern, k > 0 for the k-th element absorbed.  A          *)
(* permutation makes every lane depend on all of them.                     *)
(*                                                                         *)
(* The same calls are made in three modes: on a native sponge, on a        *)
(* circuit's sponge while a witness is generated, and on a circuit's       *)
(* sponge while its shape is recorded.  A circuit keeps the state twice,   *)
(* as expressions and as values; a witness generator permutes the values   *)
(* and copies them over the expressions.                                   *)
(***************************************************************************)
EXTENDS Integers, SequencesExt

CONSTANTS
    Rate,        \* lanes that are absorbed into and squeezed from
    MaxCount,    \* the longest operation (bound of the model)
    MaxOps,      \* the longest IO pattern (bound of the model)
    MaxItems     \* what an oracle absorbs and squeezes (bound of the model)

ASSUME RateAssumption == Rate \in Nat /\ Rate > 0

VARIABLES
    client,      \* who uses the sponges: a "pattern" or an "oracle"
    sponges,     \* the sponge of each mode
    status,      \* "new", "running", "ok", "mismatch" or "panicked"
    done,        \* history: the operations that returned
    absorbed,    \* history: how many elements the client has absorbed
    outs,        \* history: what was squeezed, from where, and after what
    oracle       \* PoseidonRO::state of each mode, items as dependencies

vars == <<client, sponges, status, done, absorbed, outs, oracle>>

Modes == {"native", "witness", "shape"}
Lanes == 0 .. Rate          \* lane 0 is the capacity
capacity == 1
Tag == 0
----------------------------------------------------------------------------
(* IO patterns.                                                            *)

Op(is_absorb, count) == [absorb |-> is_absorb, count |-> count]
Ops == {Op(a, n) : a \in BOOLEAN, n \in 0 .. MaxCount}
IOPattern == UNION {[1 .. n -> Ops] : n \in 0 .. MaxOps}

matches(op1, op2) == op1.absorb = op2.absorb
combine(op1, op2) == Op(op1.absorb, op1.count + op2.count)

\* Hasher: the values hashed so far and the run that is being coalesced.
\* The hash is a polynomial in the values, taken to be free of collisions.
finish_op(h) == IF h.current.count = 0 THEN h.hashed ELSE Append(h.hashed, h.current)
\* Mutant: a run keeps the count of its last operation only.
update_op_mut(h, op) ==
    IF matches(h.current, op) THEN [h EXCEPT !.current = op]
    ELSE [hashed |-> finish_op(h), current |-> op]
update_op(h, op) ==
    IF matches(h.current, op) THEN [h EXCEPT !.current = combine(@, op)]
    ELSE [hashed |-> finish_op(h), current |-> op]

\* The hasher of IOPattern::value after each number of operations.
hashers(pattern) ==
    LET h[k \in 0 .. Len(pattern)] ==
            IF k = 0 THEN [hashed |-> <<>>, current |-> Op(TRUE, 0)]
            ELSE update_op(h[k - 1], pattern[k])
    IN  h

\* IOPattern::value; no caller gives a domain separator.
value(pattern) == finish_op(hashers(pattern)[Len(pattern)])

\* IOPattern::op_at; io_count starts at 0.
op_at(pattern, i) == IF i < Len(pattern) THEN <<pattern[i + 1]>> ELSE <<>>
----------------------------------------------------------------------------
(* A sponge: el is the state, twin its values in a witness generator.      *)

new_with_constants(mode) ==
    [mode |-> mode, el |-> [i \in Lanes |-> {}], twin |-> [i \in Lanes |-> {}],
     absorb_pos |-> 0, squeeze_pos |-> 0, io_count |-> 0, pattern |-> <<>>,
     permutation_count |-> 0, out |-> <<>>]

mix(el) == [i \in Lanes |-> UNION {el[j] : j \in Lanes}]

\* Mutant: the circuit's values are not kept up to date.
set_element_mut(s, i, e) == [s EXCEPT !.el[i] = e]
\* While a shape is recorded nothing reads the values.
set_element(s, i, e) ==
    [s EXCEPT !.el[i] = e, !.twin[i] = IF s.mode = "witness" THEN e ELSE @]

permute_state(s) ==
    IF s.mode = "witness" THEN [s EXCEPT !.twin = mix(s.twin), !.el = mix(s.twin)]
    ELSE [s EXCEPT !.el = mix(s.el)]

\* Nothing is padded: SpongeAPI never leaves the absorbing direction, and
\* padding a HashType::Sponge does nothing.
permute(s) ==
    [permute_state(s) EXCEPT !.absorb_pos = 0, !.squeeze_pos = 0,
                             !.permutation_count = @ + 1]

\* Every lane is set: the capacity to the tag, the others to zero.
initialize_state(s, tag) ==
    LET lanes == [i \in Lanes |-> IF i = 0 THEN tag ELSE {}]
    IN  [s EXCEPT !.el = lanes, !.twin = IF s.mode = "witness" THEN lanes ELSE @]

start(s, pattern) ==
    [initialize_state([s EXCEPT !.pattern = pattern], {Tag})
        EXCEPT !.absorb_pos = 0, !.squeeze_pos = 0]

absorb_element(s, e) ==
    LET t == IF s.absorb_pos = Rate THEN permute(s) ELSE s
        i == t.absorb_pos + capacity
    IN  [set_element(t, i, t.el[i] \cup e) EXCEPT !.absorb_pos = @ + 1]

absorb_elements(s, elements) ==
    LET t[k \in 0 .. Len(elements)] ==
            IF k = 0 THEN s ELSE absorb_element(t[k - 1], elements[k])
    IN  t[Len(elements)]

\* Mutant: squeezing goes on where it was before an absorption.
absorb_mut(s, elements) == [absorb_elements(s, elements) EXCEPT !.io_count = @ + 1]
absorb(s, elements) ==
    [absorb_elements(s, elements) EXCEPT !.squeeze_pos = Rate, !.io_count = @ + 1]

read_rate_element(s) ==
    [value |-> s.el[s.squeeze_pos + capacity],
     from |-> <<s.permutation_count, s.squeeze_pos>>]

squeeze_element(s) ==
    LET t == IF s.squeeze_pos = Rate THEN permute(s) ELSE s
    IN  [t EXCEPT !.squeeze_pos = @ + 1, !.out = Append(@, read_rate_element(t))]

\* out is what the call returns.
squeeze_elements(s, n) ==
    LET t[k \in 0 .. n] == IF k = 0 THEN s ELSE squeeze_element(t[k - 1])
    IN  t[n]
squeeze(s, n) ==
    [squeeze_elements([s EXCEPT !.out = <<>>], n) EXCEPT !.io_count = @ + 1]

\* The assertion both absorb and squeeze end with.
follows_pattern(s, op) == op_at(s.pattern, s.io_count) = <<op>>

\* Mutant: a pattern that was not used up is not reported.
finish_ok_mut(s) == s.io_count <= Len(s.pattern)
\* What finish returns; it also clears the state.
finish_ok(s) == s.io_count = Len(s.pattern)
finish(s) == [initialize_state(s, {}) EXCEPT !.io_count = @ + 1]
----------------------------------------------------------------------------
Native == sponges["native"]

\* The next n elements of the client.
Elements(n) == [k \in 1 .. n |-> {absorbed + k}]

\* What the history keeps of an element squeezed.
Squeezed(o, mixed) ==
    [value |-> o.value, from |-> o.from, after |-> absorbed, mixed |-> mixed]

Init ==
    /\ client \in {"pattern", "oracle"}
    /\ sponges = [m \in Modes |-> new_with_constants(m)]
    /\ status = "new"
    /\ done = <<>>
    /\ absorbed = 0
    /\ outs = [m \in Modes |-> <<>>]
    /\ oracle = [m \in Modes |-> <<>>]

Start(p) ==
    /\ client = "pattern" /\ status = "new"
    /\ sponges' = [m \in Modes |-> start(sponges[m], p)]
    /\ status' = "running"
    /\ UNCHANGED <<client, done, absorbed, outs, oracle>>

Absorb(n) ==
    /\ status = "running" /\ follows_pattern(Native, Op(TRUE, n))
    /\ sponges' = [m \in Modes |-> absorb(sponges[m], Elements(n))]
    /\ done' = Append(done, Op(TRUE, n))
    /\ absorbed' = absorbed + n
    /\ UNCHANGED <<client, status, outs, oracle>>

Squeeze(n) ==
    /\ status = "running" /\ follows_pattern(Native, Op(FALSE, n))
    /\ sponges' = [m \in Modes |-> squeeze(sponges[m], n)]
    /\ done' = Append(done, Op(FALSE, n))
    /\ outs' = [m \in Modes |-> outs[m] \o
           [i \in 1 .. n |-> Squeezed(sponges'[m].out[i],
                                     \E k \in 1 .. Len(done) : done[k].absorb)]]
    /\ UNCHANGED <<client, status, absorbed, oracle>>

\* A call that is not the next one of the pattern; the panic drops the
\* sponge, a local variable of its caller.
Mismatch(op) ==
    /\ status = "running" /\ ~follows_pattern(Native, op)
    /\ status' = "panicked"
    /\ UNCHANGED <<client, sponges, done, absorbed, outs, oracle>>

Finish ==
    /\ status = "running"
    /\ sponges' = [m \in Modes |-> finish(sponges[m])]
    /\ status' = IF finish_ok(Native) THEN "ok" ELSE "mismatch"
    /\ UNCHANGED <<client, done, absorbed, outs, oracle>>

----------------------------------------------------------------------------
(* The random oracle keeps what it absorbed, and makes a sponge of its own *)
(* for every challenge.  Here absorbed counts its items.                   *)

ro_pattern(state) == <<Op(TRUE, Len(state)), Op(FALSE, 1)>>

\* The sponge when PoseidonRO::squeeze calls finish.
ro_sponge(mode, state) ==
    squeeze(absorb(start(new_with_constants(mode), ro_pattern(state)), state), 1)

\* Mutant: the oracle forgets the challenge it gave.
ro_state_mut(state, hash) == <<>>
ro_state(state, hash) == <<hash>>

RoAbsorb ==
    /\ client = "oracle" /\ status = "new"
    /\ absorbed < MaxItems
    /\ absorbed' = absorbed + 1
    /\ oracle' = [m \in Modes |-> Append(oracle[m], {absorbed + 1})]
    /\ UNCHANGED <<client, sponges, status, done, outs>>

\* finish(acc).unwrap() panics unless the pattern was used up.
RoSqueeze ==
    /\ client = "oracle" /\ status = "new"
    /\ Len(outs["native"]) < MaxItems
    /\ sponges' = [m \in Modes |-> finish(ro_sponge(m, oracle[m]))]
    /\ IF finish_ok(ro_sponge("native", oracle["native"]))
       THEN /\ outs' = [m \in Modes |-> Append(outs[m],
                   Squeezed(sponges'[m].out[1], TRUE))]
            /\ oracle' = [m \in Modes |-> ro_state(oracle[m], sponges'[m].out[1].value)]
            /\ UNCHANGED status
       ELSE status' = "panicked" /\ UNCHANGED <<outs, oracle>>
    /\ UNCHANGED <<client, done, absorbed>>

Next ==
    \/ \E p \in IOPattern : Start(p)
    \/ \E n \in 0 .. MaxCount : Absorb(n) \/ Squeeze(n)
    \/ \E op \in Ops : Mismatch(op)
    \/ Finish
    \/ RoAbsorb
    \/ RoSqueeze

Spec == Init /\ [][Next]_vars
----------------------------------------------------------------------------
Nonempty(p) == \A k \in 1 .. Len(p) : p[k].count > 0

\* The next operation of a native run: its sponge, the elements absorbed so
\* far and what was squeezed.
RunOp(r, op) ==
    IF op.absorb
    THEN [sponge |-> absorb(r.sponge, [k \in 1 .. op.count |-> {r.next + k}]),
          next |-> r.next + op.count, out |-> r.out]
    ELSE LET s == squeeze(r.sponge, op.count)
         IN  [sponge |-> s, next |-> r.next, out |-> r.out \o s.out]

\* The run of some operations, without the assertions that compare each of
\* them with a pattern.
RunOf(p) ==
    LET r[k \in 0 .. Len(p)] ==
            IF k = 0 THEN [sponge |-> start(new_with_constants("native"), <<>>),
                           next |-> 0, out |-> <<>>]
            ELSE RunOp(r[k - 1], p[k])
    IN  r[Len(p)]

\* Whatever is squeezed after an absorption depends on the tag and on every
\* element absorbed until then, however absorptions and squeezes of any
\* lengths, none included, are interleaved around the rate, and no lane of a
\* permutation's result is handed out twice.
SqueezeDepends ==
    client = "pattern" =>
        \A m \in Modes : \A i \in 1 .. Len(outs[m]) :
            /\ outs[m][i].mixed => outs[m][i].value = {Tag} \cup 1 .. outs[m][i].after
            /\ \A j \in 1 .. i - 1 : outs[m][i].from /= outs[m][j].from

\* finish returns Ok exactly when every operation of the pattern was made,
\* in its order: a run that stopped early or strayed is never accepted.
FinishExact ==
    /\ status = "ok" => done = Native.pattern
    /\ status = "mismatch" =>
          /\ Len(done) < Len(Native.pattern)
          /\ done = SubSeq(Native.pattern, 1, Len(done))

\* The tag decides: a pattern with no empty operation squeezes what its
\* coalesced form (which is all that IOPattern::value hashes) squeezes, so
\* the tests' [Absorb(1), Absorb(1), Squeeze(2)] and [Absorb(2), Squeeze(2)],
\* which share a tag, share their outputs too.
TagDecides ==
    status = "ok" /\ Nonempty(Native.pattern) =>
        LET expected == RunOf(value(Native.pattern)).out
        IN  /\ Len(outs["native"]) = Len(expected)
            /\ \A i \in 1 .. Len(expected) :
                  /\ outs["native"][i].value = expected[i].value
                  /\ outs["native"][i].from = expected[i].from

\* A circuit, both when it records its shape and when its witness is made,
\* squeezes what the native sponge does, and so do the oracles built on them.
CircuitAgrees ==
    \A m \in Modes : outs[m] = outs["native"] /\ oracle[m] = oracle["native"]

\* A challenge depends on every item the oracle absorbed since it was made,
\* through the challenges that came between as well.
OracleDepends ==
    client = "oracle" =>
        \A m \in Modes : \A i \in 1 .. Len(outs[m]) :
            1 .. outs[m][i].after \subseteq outs[m][i].value
=============================================================================
