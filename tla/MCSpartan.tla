----------------------------- MODULE MCSpartan -----------------------------
\* The sumchecks of Spartan on a shape whose two dimensions differ, as
\* R1CSShape::pad returns a shape that is regular already.
EXTENDS Spartan

\* W of two entries, E of four, u = 2.
Shape3 == [num_cons |-> 4, num_vars |-> 2, num_io |-> 0,
           A |-> <<<<0, 0, 1>>, <<1, 1, 2>>>>, B |-> <<<<0, 0, 1>>, <<1, 0, 1>>>>,
           C |-> <<<<0, 1, 1>>>>]
MCSizesShapes == {Shape3}
MCSizesAssignments ==
    Shape3 :> {<<[u |-> 2, X |-> <<>>], [W |-> <<3, 9>>, E |-> <<P - 9, 54, 0, 0>>]>>}
=============================================================================
