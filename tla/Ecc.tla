-------------------------------- MODULE Ecc --------------------------------
(***************************************************************************)
(* Points of the other curve in a circuit (src/gadgets/ecc.rs): affine     *)
(* coordinates with a bit for the point at infinity, the complete addition *)
(* law, the incomplete one, and the multiplication by a scalar given by    *)
(* its bits.  As in Gadgets a gadget is the set of results its constraints *)
(* allow; what is left to the prover are the slopes.                       *)
(*                                                                         *)
(* The curve is y^2 = x^3 + A * x + B.  The complete addition compares     *)
(* coordinates, and infinity has the coordinates (0, 0): it is right for a *)
(* curve that has no point with x = 0, as one of odd prime order with      *)
(* A = 0, which all the curves of src/provider are.                        *)
(***************************************************************************)
EXTENDS BooleanGadgets

CONSTANTS
    A, B,           \* group_params
    Order,          \* the number of points
    Points,         \* the points: see CurveAssumption
    MaxBits         \* the longest scalar

VARIABLES op, args, allowed     \* as in Gadgets

vars == <<op, args, allowed>>
----------------------------------------------------------------------------
Point(x, y, is_infinity) == [x |-> x % P, y |-> y % P, inf |-> is_infinity]
infinity == Point(0, 0, 1)

select(p, q, c) == Point(The(conditionally_select(p.x, q.x, c)),
                         The(conditionally_select(p.y, q.y, c)),
                         The(conditionally_select(p.inf, q.inf, c)))
select_point_or_infinity(p, c) == Point(The(select_num_or_zero(p.x, c)),
                                        The(select_num_or_zero(p.y, c)),
                                        The(select_num_or_one(p.inf, c)))

\* The allowed values of rhs have a witness.
check_on_curve(p) ==
    \E rhs \in F : /\ ((p.x * p.x * p.x + A * p.x + B) * (1 - p.inf)) % P = rhs
                   /\ (p.y * p.y * (1 - p.inf)) % P = rhs

negate(p) == Point(p.x, -p.y, p.inf)

\* The point a slope through p leads to: third is the other abscissa.
through(p, slope, third) ==
    LET x == (slope * slope - p.x - third) % P
    IN Point(x, slope * (p.x - x) - p.y, 0)
slopes(dx, dy) == {l \in F : (l * dx) % P = dy % P}

add_internal(p, o, equal_x) ==
    LET at_least_one_inf == (1 - (1 - p.inf) * (1 - o.inf)) % P
        x_diff_is_actual == (1 - (1 - at_least_one_inf) * (1 - equal_x)) % P
        x_diff == The(select_one_or_diff2(o.x, p.x, x_diff_is_actual))
        chosen(r) ==
            LET or_p == select(p, [r EXCEPT !.inf = 0], o.inf)
            IN [select(o, or_p, p.inf) EXCEPT
                    !.inf = The(conditionally_select(o.inf,
                                    The(select_num_or_zero(p.inf, o.inf)), p.inf))]
    IN {chosen(through(p, l, o.x)) : l \in slopes(x_diff, o.y - p.y)}

double(p) ==
    LET tmp == The(select_one_or_num2((2 * p.y) % P, p.inf))
        cleared(r) == Point(The(select_zero_or_num2(r.x, p.inf)),
                            The(select_zero_or_num2(r.y, p.inf)), p.inf)
    IN {cleared(through(p, l, p.x)) : l \in slopes(tmp, 3 * p.x * p.x + A)}

\* Equal points are doubled, points of equal abscissa cancel out.
add(p, o) ==
    {select(select_point_or_infinity(d, The(alloc_num_equals(p.y, o.y))), s,
            The(alloc_num_equals(p.x, o.x))) :
        d \in double(p), s \in add_internal(p, o, The(alloc_num_equals(p.x, o.x)))}

add_incomplete(p, o)  == {through(p, l, o.x) : l \in slopes(o.x - p.x, o.y - p.y)}
double_incomplete(p)  == {through(p, l, p.x) : l \in slopes(2 * p.y, 3 * p.x * p.x + A)}

\* Mutant: all bits are added by the incomplete law.
split_len_mut(bits) == Len(bits)
split_len(bits) == IF Len(bits) < NUM_BITS - 2 THEN Len(bits) ELSE NUM_BITS - 2

\* From the lowest bit up, acc starts as the point itself as if the lowest
\* bit were 1 and p as its double; infinity is treated as if it were a point
\* until the incomplete additions are done.
scalar_mul(self, bits) ==
    LET step(S, k) == Then(S, LAMBDA s :
            {[acc |-> select(t, s.acc, bits[k]), p |-> d] :
                t \in add_incomplete(s.acc, s.p), d \in double_incomplete(s.p)})
        complete(S, k) == Then(S, LAMBDA s :
            {[acc |-> select(t, s.acc, bits[k]), p |-> d] :
                t \in add(s.acc, s.p), d \in double(s.p)})
        split == split_len(bits)
        incomplete == FoldLeft(step,
                        {[acc |-> Point(self.x, self.y, 0), p |-> d] : d \in double_incomplete(self)},
                        [k \in 1 .. split - 1 |-> k + 1])
        without_slack(s) ==
            LET acc == [s.acc EXCEPT !.inf = self.inf]
            IN  {[acc |-> [select(infinity, select(acc, minus, bits[1]), self.inf)
                              EXCEPT !.inf = select(acc, minus, bits[1]).inf],
                  p   |-> [s.p EXCEPT !.inf = self.inf]] : minus \in add(acc, negate(self))}
    IN {s.acc : s \in FoldLeft(complete, Then(incomplete, without_slack),
                               [k \in 1 .. Len(bits) - split |-> k + split])}
----------------------------------------------------------------------------
OnCurve(p) == p = infinity \/ (p.inf = 0 /\ check_on_curve(p))

\* What is asked of the constants.
CurveAssumption ==
    /\ A = 0
    /\ Points = {p \in [x : F, y : F, inf : {0, 1}] : OnCurve(p)}
    /\ Cardinality(Points) = Order /\ Order > 2 ^ (NUM_BITS - 1)
    /\ \A k \in 2 .. Order - 1 : Order % k # 0

Init == op = "none" /\ args = <<>> /\ allowed = {}

Call(name, arguments, results) ==
    op = "none" /\ op' = name /\ args' = arguments /\ allowed' = results

CallPoint == \E p \in Points :
    \/ Call("double", <<p>>, double(p))
    \/ Call("negate_add", <<p>>, add(p, negate(p)))
    \/ \E q \in Points : Call("add", <<p, q>>, add(p, q))

CallScalarMul == \E p \in Points, n \in 1 .. MaxBits :
    \E bits \in [1 .. n -> {0, 1}] : Call("scalar_mul", <<p, bits>>, scalar_mul(p, bits))

CallCheck == \E x, y \in F :
    Call("check", <<Point(x, y, 0)>>, {p \in {Point(x, y, 0)} : check_on_curve(p)})

Next == CallPoint \/ CallScalarMul \/ CallCheck

Spec == Init /\ [][Next]_vars
----------------------------------------------------------------------------
\* The group of the curve.
plus(p, q) ==
    CASE p = infinity -> q
      [] q = infinity -> p
      [] p.x = q.x /\ p.y # q.y -> infinity
      [] p = q -> through(p, ((3 * p.x * p.x + A) * inv[(2 * p.y) % P]) % P, p.x)
      [] OTHER -> through(p, ((q.y - p.y) * inv[(q.x - p.x) % P]) % P, q.x)
times(n, p) == FoldLeft(LAMBDA r, k : plus(r, p), infinity, [k \in 1 .. n |-> k])

(* Addition and doubling allow exactly the sum in the group, for infinity, *)
(* equal and opposite points too, and the multiplication by a scalar of    *)
(* any length exactly the multiple: no incomplete addition meets two equal *)
(* or opposite points, which would leave its slope to the prover or admit  *)
(* none, and the bit that was assumed is taken away.  The multiple of      *)
(* infinity has coordinates other than (0, 0) for a scalar with more bits  *)
(* than the incomplete additions take; the circuits' challenges have fewer.*)
EccExact ==
    /\ op = "double" => allowed = {plus(args[1], args[1])}
    /\ op = "add" => allowed = {plus(args[1], args[2])}
    /\ op = "negate_add" => allowed = {infinity}
    /\ op = "scalar_mul" =>
          IF args[1] = infinity /\ split_len(args[2]) < Len(args[2])
          THEN allowed # {} /\ \A r \in allowed : r.inf = 1
          ELSE allowed = {times(packed(args[2]), args[1])}
    /\ op = "check" => (allowed # {} <=> \E p \in Points : p = args[1])
=============================================================================
