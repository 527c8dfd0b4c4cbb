----------------------------- MODULE Transcript -----------------------------
(***************************************************************************)
(* Keccak256Transcript of src/provider/keccak.rs, the transcript of the    *)
(* SNARKs: two transcripts, of a prover and a verifier, each called in any *)
(* way.  A byte string is a sequence of units, each with its kind: a byte  *)
(* a caller gives, the two bytes of the round or, since the hash is ideal, *)
(* the string whose hash the 64 bytes are.                                 *)
(***************************************************************************)
EXTENDS Integers, Sequences

CONSTANTS
    Byte,           \* the bytes strings are made of
    Labels, Data,   \* byte strings
    MaxRound,       \* the largest value of the round counter, 2^16 - 1 in the code
    MaxCalls        \* bound on the calls, of both transcripts together

byte(b) == <<"byte", b>>
Bytes == {byte(b) : b \in Byte}
PERSONA_TAG == <<byte("N"), byte("o"), byte("T"), byte("R")>>
DOM_SEP_TAG == <<byte("N"), byte("o"), byte("D"), byte("S")>>

ASSUME BytesAssumption ==
    /\ {"N", "o", "T", "R", "D", "S"} \subseteq Byte
    /\ \A s \in Labels \cup Data : s \in Seq(Bytes)
ASSUME MaxRoundAssumption == MaxRound \in Nat

Sides == {"prover", "verifier"}

VARIABLES
    ts,        \* for each side: round, state and what was absorbed since the last squeeze
    outputs,   \* the challenges, and Error for a call that failed, with the call's number
    calls      \* the calls so far

keccak_vars == <<ts, outputs, calls>>

Error == <<"InternalTranscriptError", <<>>>>
compute_updated_state(transcript, input) == <<"hash", transcript \o input>>

new == [round |-> 0, transcript |-> <<>>, state |-> compute_updated_state(<<>>, PERSONA_TAG)]

KeccakInit ==
    /\ ts = [s \in Sides |-> new]
    /\ outputs = [s \in Sides |-> <<>>]
    /\ calls = [s \in Sides |-> <<>>]

Call(s, kind, label, data) ==
    /\ Len(calls["prover"]) + Len(calls["verifier"]) < MaxCalls
    /\ calls' = [calls EXCEPT ![s] = Append(@, [kind |-> kind, label |-> label, data |-> data])]

\* The label and the data, with nothing that says how long they are.
AbsorbData == \E s \in Sides, l \in Labels, d \in Data :
    /\ Call(s, "absorb", l, d)
    /\ ts' = [ts EXCEPT ![s].transcript = @ \o (l \o d)]
    /\ UNCHANGED outputs

DomSep == \E s \in Sides, l \in Labels :
    /\ Call(s, "dom_sep", l, <<>>)
    /\ ts' = [ts EXCEPT ![s].transcript = @ \o (DOM_SEP_TAG \o l)]
    /\ UNCHANGED outputs

\* Mutant: the state before is not hashed.
squeezed_mut(t, l) ==
    compute_updated_state(t.transcript, DOM_SEP_TAG \o (<<<<"round", t.round>>>> \o l))
squeezed(t, l) ==
    compute_updated_state(t.transcript, DOM_SEP_TAG \o (<<<<"round", t.round>>, t.state>> \o l))

\* The counter is incremented after the hash and before the state is kept.
SqueezeChallenge == \E s \in Sides, l \in Labels :
    /\ Call(s, "squeeze", l, <<>>)
    /\ LET output == squeezed(ts[s], l)
           Return(c) == outputs' = [outputs EXCEPT ![s] =
                            Append(@, [challenge |-> c, call |-> Len(calls[s]) + 1])]
       IN  IF ts[s].round < MaxRound
           THEN /\ ts' = [ts EXCEPT ![s] = [round |-> @.round + 1, state |-> output,
                                            transcript |-> <<>>]]
                /\ Return(output)
           ELSE Return(Error) /\ UNCHANGED ts

KeccakNext == AbsorbData \/ DomSep \/ SqueezeChallenge

KeccakSpec == KeccakInit /\ [][KeccakNext]_keccak_vars
----------------------------------------------------------------------------
\* The bytes of a call, and of the first n calls.
mark(kind) == CASE kind = "absorb"  -> <<>>
                [] kind = "dom_sep" -> DOM_SEP_TAG
                [] kind = "squeeze" -> <<<<"squeeze", <<>>>>>>
bytes(c) == mark(c.kind) \o (c.label \o c.data)
AllBytes(cs) == LET first[n \in 0 .. Len(cs)] ==
                        IF n = 0 THEN <<>> ELSE first[n - 1] \o bytes(cs[n])
                IN  first

\* What a side was given up to its k-th squeeze.
position(s, k) == outputs[s][k].call
given(s, k)  == AllBytes(calls[s])[position(s, k)]
shapes(s, k) == [i \in 1 .. position(s, k) |->
                    <<calls[s][i].kind, calls[s][i].label, Len(calls[s][i].data)>>]

(* Two challenges are equal only when they are the same squeeze of what    *)
(* was given the same bytes from the start; with the same calls, labels    *)
(* and lengths that means the same data, though the bytes alone do not say *)
(* where a label ends.  A transcript that failed once fails ever after.    *)
TranscriptBinds ==
    \A s, t \in Sides : \A j \in DOMAIN outputs[s], k \in DOMAIN outputs[t] :
        IF outputs[s][j].challenge = Error
        THEN s = t /\ k > j => outputs[t][k].challenge = Error
        ELSE outputs[s][j].challenge = outputs[t][k].challenge =>
                /\ j = k
                /\ given(s, j) = given(t, k)
                /\ shapes(s, j) = shapes(t, k)
                       => SubSeq(calls[s], 1, position(s, j)) = SubSeq(calls[t], 1, position(t, k))
=============================================================================
