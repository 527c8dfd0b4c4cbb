------------------------------- MODULE Sha256 -------------------------------
(***************************************************************************)
(* The SHA-256 circuit: words of Booleans (src/frontend/gadgets/uint32.rs),*)
(* additions whose equations are packed several to a constraint            *)
(* (multieq.rs), and the hash function (sha256.rs).                        *)
(*                                                                         *)
(* A word has the bits the prover assigned and the value the generator of  *)
(* the witness computed beside them.  Every addition lets the prover       *)
(* assign any bits, and an execution ends when a constraint fails.  The    *)
(* bitwise gadgets allow one result (GadgetsExact of Gadgets).  Words have *)
(* W bits and the compression has Rounds rounds.                           *)
(***************************************************************************)
EXTENDS BooleanGadgets, Bitwise

CONSTANTS
    W,                  \* bits of a word (32)
    Rounds,             \* rounds of a compression (64)
    LengthBits,         \* bits of the length in the padding (64)
    ByteBits,           \* the message is a multiple of so many bits (8)
    Inputs,             \* the messages, sequences of 0 and 1
    IV, ROUND_CONSTANTS \* the initial words and one word for each round

CAPACITY  == NUM_BITS - 1
BlockBits == 16 * W
N         == 2 ^ W

VARIABLES
    input,              \* the message
    blocks,             \* the blocks that are left, the present one first
    cur,                \* the hash so far
    w,                  \* the message schedule
    reg,                \* the registers a to h; a and e may be deferred sums
    outs,               \* the words of the next hash
    i, stage,           \* the position in the program
    multieq,            \* the pending equation
    sat,                \* every constraint so far is satisfied
    honest              \* every addition so far has the generator's bits

vars == <<input, blocks, cur, w, reg, outs, i, stage, multieq, sat, honest>>
----------------------------------------------------------------------------
(* MultiEq.                                                                *)

Empty == [lhs |-> 0, rhs |-> 0, bits_used |-> 0]

\* The pending equation is enforced first if the new one does not fit in.
enforce_sum(m, num_bits, lhs, rhs) ==
    LET full  == CAPACITY <= m.bits_used + num_bits
        base  == IF full THEN Empty ELSE m
        coeff == pow(2, base.bits_used)
    IN  [multieq |-> [lhs |-> (base.lhs + coeff * lhs) % P,
                      rhs |-> (base.rhs + coeff * rhs) % P,
                      bits_used |-> base.bits_used + num_bits],
         sat     |-> full => m.lhs = m.rhs]
----------------------------------------------------------------------------
(* UInt32: bits, the lowest first, and a value.                            *)

Bit(v, k)      == (v \div 2 ^ (k - 1)) % 2
word_const(v)  == [bits |-> Tuple([k \in 1 .. W |-> Boolean("const", Bit(v, k))]), value |-> v]
from_bits_be(bs) == LET r == Reverse(bs)
                    IN [bits |-> r, value |-> packed([k \in 1 .. W |-> lc(r[k])])]

\* rotate_right and >> of integers.
rotate_right(v, by) == shiftR(v, by) + (v % 2 ^ by) * 2 ^ (W - by)
rotr(x, by) == LET s == by % W
               IN [bits  |-> Tuple([k \in 1 .. W |-> x.bits[((k + s - 1) % W) + 1]]),
                   value |-> rotate_right(x.value, s)]
shr(x, by)  == LET s == by % W
               IN [bits  |-> SubSeq(x.bits, s + 1, W)
                             \o [k \in 1 .. s |-> Boolean("const", 0)],
                   value |-> shiftR(x.value, s)]

word_xor(x, y) == [bits  |-> Tuple([k \in 1 .. W |-> The(xor(x.bits[k], y.bits[k]))]),
                   value |-> x.value ^^ y.value]
plain_maj(x, y, z) == ((x & y) ^^ (x & z)) ^^ (y & z)
plain_ch(x, y, z)  == (x & y) ^^ ((N - 1 - x) & z)
word_maj(x, y, z) ==
    [bits  |-> Tuple([k \in 1 .. W |-> The(sha256_maj(x.bits[k], y.bits[k], z.bits[k]))]),
     value |-> plain_maj(x.value, y.value, z.value)]
word_ch(x, y, z) ==
    [bits  |-> Tuple([k \in 1 .. W |-> The(sha256_ch(x.bits[k], y.bits[k], z.bits[k]))]),
     value |-> plain_ch(x.value, y.value, z.value)]

lc_word(x) == packed([k \in 1 .. W |-> lc(x.bits[k])])
Total(ops, f(_)) == FoldLeft(LAMBDA v, x : v + f(x), 0, ops)

\* Mutant: one carry whatever the number of operands.
sum_bits_mut(n) == W + 1
\* The bits of the largest sum of n words.
sum_bits(n) == Len(bits_of(n * (N - 1)))

\* The results of an addition: the word, with what becomes of the pending
\* equation.  Constants are added outright.
addmany(ops) ==
    LET total    == Total(ops, LAMBDA x : x.value)
        num_bits == sum_bits(Len(ops))
        lhs      == Total(ops, lc_word) % P
        constant == \A k \in DOMAIN ops : \A j \in 1 .. W : ops[k].bits[j].kind = "const"
        result(b) ==
            LET e == enforce_sum(multieq, num_bits, lhs, packed(b) % P)
            IN  [word    |-> [bits  |-> Tuple([k \in 1 .. W |-> Boolean("is", b[k])]),
                              value |-> total % N],
                 multieq |-> e.multieq,
                 sat     |-> e.sat,
                 honest  |-> \A k \in 1 .. num_bits : b[k] = Bit(total, k)]
    IN  IF constant
        THEN {[word |-> word_const(total % N), multieq |-> multieq,
               sat |-> TRUE, honest |-> TRUE]}
        ELSE {result(b) : b \in [1 .. num_bits -> {0, 1}]}

Concrete(x)    == [deferred |-> FALSE, words |-> <<x>>]
Deferred(xs)   == [deferred |-> TRUE, words |-> xs]
compute(x, others) ==
    IF x.deferred THEN addmany(x.words \o others)
    ELSE {[word |-> x.words[1], multieq |-> multieq, sat |-> TRUE, honest |-> TRUE]}
----------------------------------------------------------------------------
(* The hash function.                                                      *)

\* A one, zeros up to a whole number of blocks, and the length.
pad(bits) ==
    LET zeros == CHOOSE k \in 0 .. BlockBits :
                    /\ (Len(bits) + 1 + k + LengthBits) % BlockBits = 0
                    /\ \A j \in 0 .. k - 1 : (Len(bits) + 1 + j + LengthBits) % BlockBits # 0
    IN  bits \o <<Boolean("const", 1)>> \o [k \in 1 .. zeros |-> Boolean("const", 0)]
             \o [k \in 1 .. LengthBits |->
                    Boolean("const", Bit(Len(bits), LengthBits + 1 - k))]
chunks(s, n) == [k \in 1 .. Len(s) \div n |-> SubSeq(s, (k - 1) * n + 1, k * n)]

Registers(h) == [a |-> Concrete(h[1]), b |-> h[2], c |-> h[3], d |-> h[4],
                 e |-> Concrete(h[5]), f |-> h[6], g |-> h[7], h |-> h[8]]

Init == \E m \in Inputs :
    /\ Len(m) % ByteBits = 0
    /\ input = m
    /\ blocks = chunks(pad([k \in DOMAIN m |-> Boolean("is", m[k])]), BlockBits)
    /\ cur = [k \in 1 .. 8 |-> word_const(IV[k])]
    /\ stage = "block" /\ i = 0
    /\ w = <<>> /\ reg = <<>> /\ outs = <<>>
    /\ multieq = Empty /\ sat = TRUE /\ honest = TRUE

Add(r) == /\ sat
          /\ multieq' = r.multieq /\ sat' = r.sat /\ honest' = (honest /\ r.honest)

Begin == /\ stage = "block" /\ blocks # <<>>
         /\ w' = [k \in 1 .. 16 |-> from_bits_be(chunks(Head(blocks), W)[k])]
         /\ reg' = Registers(cur)
         /\ stage' = "extend" /\ i' = 17
         /\ UNCHANGED <<input, blocks, cur, outs, multieq, sat, honest>>

Sigma(x, p, q, r) == word_xor(word_xor(rotr(x, p), rotr(x, q)), r)

Extend ==
    /\ stage = "extend" /\ i <= Rounds
    /\ LET s0 == Sigma(w[i - 15], 7, 18, shr(w[i - 15], 3))
           s1 == Sigma(w[i - 2], 17, 19, shr(w[i - 2], 10))
       IN \E r \in addmany(<<w[i - 16], s0, w[i - 7], s1>>) :
             Add(r) /\ w' = Append(w, r.word)
    /\ i' = i + 1
    /\ UNCHANGED <<input, blocks, cur, reg, outs, stage>>

Compression == /\ stage = "extend" /\ i > Rounds
               /\ stage' = "round e" /\ i' = 1
               /\ UNCHANGED <<input, blocks, cur, w, reg, outs, multieq, sat, honest>>

\* A round computes e, and then a and the sums for the next a and e.
RoundE == /\ stage = "round e" /\ i <= Rounds
          /\ \E r \in compute(reg.e, <<>>) :
                Add(r) /\ reg' = [reg EXCEPT !.e = Concrete(r.word)]
          /\ stage' = "round a"
          /\ UNCHANGED <<input, blocks, cur, w, outs, i>>

RoundA ==
    /\ stage = "round a"
    /\ LET new_e == reg.e.words[1]
           s1    == Sigma(new_e, 6, 11, rotr(new_e, 25))
           temp1 == <<reg.h, s1, word_ch(new_e, reg.f, reg.g),
                      word_const(ROUND_CONSTANTS[i]), w[i]>>
       IN \E r \in compute(reg.a, <<>>) :
             LET new_a == r.word
                 temp2 == <<Sigma(new_a, 2, 13, rotr(new_a, 22)),
                            word_maj(new_a, reg.b, reg.c)>>
             IN /\ Add(r)
                /\ reg' = [h |-> reg.g, g |-> reg.f, f |-> new_e,
                           e |-> Deferred(Append(temp1, reg.d)),
                           d |-> reg.c, c |-> reg.b, b |-> new_a,
                           a |-> Deferred(temp1 \o temp2)]
    /\ stage' = "round e" /\ i' = i + 1
    /\ UNCHANGED <<input, blocks, cur, w, outs>>

FinalSums == /\ stage = "round e" /\ i > Rounds
             /\ stage' = "sums" /\ i' = 1
             /\ UNCHANGED <<input, blocks, cur, w, reg, outs, multieq, sat, honest>>

\* The registers are added to the hash.
FinalSum ==
    /\ stage = "sums" /\ i <= 8
    /\ \E r \in CASE i = 1 -> compute(reg.a, <<cur[1]>>)
                  [] i = 5 -> compute(reg.e, <<cur[5]>>)
                  [] OTHER -> addmany(<<cur[i], <<reg.a, reg.b, reg.c, reg.d,
                                                  reg.e, reg.f, reg.g, reg.h>>[i]>>) :
          Add(r) /\ outs' = Append(outs, r.word)
    /\ i' = i + 1
    /\ UNCHANGED <<input, blocks, cur, w, reg, stage>>

\* The gadget is dropped at the end of the block: what is pending is enforced.
EndBlock ==
    /\ stage = "sums" /\ i > 8 /\ sat
    /\ sat' = (multieq.bits_used > 0 => multieq.lhs = multieq.rhs)
    /\ multieq' = Empty
    /\ cur' = outs /\ outs' = <<>> /\ blocks' = Tail(blocks)
    /\ stage' = "block" /\ i' = 0
    /\ UNCHANGED <<input, w, reg, honest>>

Next == \/ Begin \/ Extend \/ Compression \/ RoundE \/ RoundA
        \/ FinalSums \/ FinalSum \/ EndBlock

Spec == Init /\ [][Next]_vars
----------------------------------------------------------------------------
(* SHA-256 as its standard states it, on numbers below N.                  *)

std_rotr(x, s) == rotate_right(x, s % W)
std_sigma(x, p, q, r) == (std_rotr(x, p) ^^ std_rotr(x, q)) ^^ r

std_schedule(block) ==
    FoldLeft(LAMBDA s, t : Append(s, (s[t - 16] + s[t - 7]
                + std_sigma(s[t - 15], 7, 18, shiftR(s[t - 15], 3 % W))
                + std_sigma(s[t - 2], 17, 19, shiftR(s[t - 2], 10 % W))) % N),
             [t \in 1 .. 16 |-> packed(Reverse(chunks(block, W)[t]))],
             [k \in 1 .. Rounds - 16 |-> k + 16])

std_compress(h, block) ==
    LET ws == std_schedule(block)
        round(v, t) ==
            LET temp1 == v[8] + std_sigma(v[5], 6, 11, std_rotr(v[5], 25))
                         + plain_ch(v[5], v[6], v[7]) + ROUND_CONSTANTS[t] + ws[t]
                temp2 == std_sigma(v[1], 2, 13, std_rotr(v[1], 22))
                         + plain_maj(v[1], v[2], v[3])
            IN  <<(temp1 + temp2) % N, v[1], v[2], v[3],
                  (v[4] + temp1) % N, v[5], v[6], v[7]>>
        last == FoldLeft(round, h, [t \in 1 .. Rounds |-> t])
    IN  [k \in 1 .. 8 |-> (h[k] + last[k]) % N]

\* The padding is the only one of its form of the next length that fits.
std_pad(m) ==
    LET blocks_of == (Len(m) + LengthBits) \div BlockBits + 1
        total     == blocks_of * BlockBits
    IN  [k \in 1 .. total |->
            CASE k <= Len(m) -> m[k]
              [] k = Len(m) + 1 -> 1
              [] k > total - LengthBits -> Bit(Len(m), total - k + 1)
              [] OTHER -> 0]

std_hash(m) == FoldLeft(std_compress, IV, chunks(std_pad(m), BlockBits))

(* The packed equations of all additions are satisfied by the bits of the  *)
(* sums and by no others, and the circuit's output is then the SHA-256     *)
(* hash of the message: the capacity of a constraint is never exceeded, no *)
(* equation is lost when a block ends, and each sum has enough bits.       *)
CircuitIsSha256 ==
    /\ honest => sat
    /\ stage = "block" /\ sat =>
          /\ honest
          /\ \A k \in 1 .. 8 : lc_word(cur[k]) = cur[k].value
          /\ blocks = <<>> => [k \in 1 .. 8 |-> cur[k].value] = std_hash(input)
=============================================================================
