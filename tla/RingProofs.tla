---------------------------- MODULE RingProofs -----------------------------
(***************************************************************************)
(* What the proofs about folding and evaluation rest on: identities of the *)
(* scalar ring, sums and products of any number of scalars, polynomials as *)
(* functions and how many roots they have.                                 *)
(***************************************************************************)
EXTENDS ScalarField, InductionProofs

(* Sums, products, negatives and differences of scalars are scalars.       *)
LEMMA RingClosed ==
  ASSUME NEW a \in Scalar, NEW b \in Scalar
  PROVE  a ++ b \in Scalar /\ a ** b \in Scalar /\ FieldNeg(a) \in Scalar
           /\ a -- b \in Scalar
<1>1. FieldNeg(a) \in Scalar /\ FieldNeg(b) \in Scalar BY RingAssumption
<1>. QED BY <1>1, RingAssumption DEF --

(* Moving the middle two terms of a sum of four.                           *)
LEMMA AddSwap ==
  ASSUME NEW a \in Scalar, NEW b \in Scalar, NEW c \in Scalar, NEW d \in Scalar
  PROVE  (a ++ b) ++ (c ++ d) = (a ++ c) ++ (b ++ d)
<1>0. c ++ d \in Scalar /\ b ++ d \in Scalar BY RingAssumption
<1>1. (a ++ b) ++ (c ++ d) = a ++ (b ++ (c ++ d))
  BY <1>0, RingAssumption
<1>2. b ++ (c ++ d) = c ++ (b ++ d)
  <2>1. b ++ (c ++ d) = (b ++ c) ++ d BY RingAssumption
  <2>2. (c ++ b) ++ d = c ++ (b ++ d) BY RingAssumption
  <2>. QED BY <2>1, <2>2, RingAssumption
<1>3. a ++ (c ++ (b ++ d)) = (a ++ c) ++ (b ++ d)
  BY <1>0, RingAssumption
<1>. QED BY <1>1, <1>2, <1>3

(* The negative is the only scalar that cancels a scalar.                  *)
LEMMA NegUnique ==
  ASSUME NEW a \in Scalar, NEW b \in Scalar, a ++ b = Zero
  PROVE  b = FieldNeg(a)
<1>0. Zero \in Scalar /\ FieldNeg(a) \in Scalar BY RingAssumption
<1>1. (FieldNeg(a) ++ a) ++ b = FieldNeg(a) ++ (a ++ b)
  BY <1>0, RingAssumption
<1>2. FieldNeg(a) ++ a = Zero BY <1>0, RingAssumption
<1>3. Zero ++ b = b BY <1>0, RingAssumption
<1>4. FieldNeg(a) ++ Zero = FieldNeg(a) BY <1>0, RingAssumption
<1>. QED BY <1>1, <1>2, <1>3, <1>4

LEMMA NegOfSum ==
  ASSUME NEW a \in Scalar, NEW b \in Scalar
  PROVE  FieldNeg(a ++ b) = FieldNeg(a) ++ FieldNeg(b)
<1> DEFINE na == FieldNeg(a)
           nb == FieldNeg(b)
<1>0. na \in Scalar /\ nb \in Scalar /\ Zero \in Scalar BY RingAssumption
<1>1. a ++ na = Zero /\ b ++ nb = Zero BY RingAssumption
<1> HIDE DEF na, nb
<1>2. (a ++ b) ++ (na ++ nb) = (a ++ na) ++ (b ++ nb) BY <1>0, AddSwap
<1>3. Zero ++ Zero = Zero BY <1>0, RingAssumption
<1>4. a ++ b \in Scalar /\ na ++ nb \in Scalar BY <1>0, RingClosed
<1>5. na ++ nb = FieldNeg(a ++ b)
  BY <1>1, <1>2, <1>3, <1>4, NegUnique
<1>. QED BY <1>5 DEF na, nb

LEMMA MulZero ==
  ASSUME NEW a \in Scalar
  PROVE  a ** Zero = Zero /\ Zero ** a = Zero
<1> DEFINE m == a ** Zero
<1>0. Zero \in Scalar /\ m \in Scalar BY RingAssumption
<1>1. m = m ++ m
  <2>1. Zero ++ Zero = Zero BY <1>0, RingAssumption
  <2>2. a ** (Zero ++ Zero) = (a ** Zero) ++ (a ** Zero) BY <1>0, RingAssumption
  <2>. QED BY <2>1, <2>2
<1>4. Zero ** a = m BY <1>0, RingAssumption
<1> HIDE DEF m
<1>2. m ++ FieldNeg(m) = Zero /\ FieldNeg(m) \in Scalar BY <1>0, RingAssumption
<1>3. (m ++ m) ++ FieldNeg(m) = m ++ (m ++ FieldNeg(m)) BY <1>0, <1>2, RingAssumption
<1>5. m ++ Zero = m BY <1>0, RingAssumption
<1>6. m = Zero BY <1>1, <1>2, <1>3, <1>5
<1>. QED BY <1>4, <1>6 DEF m

LEMMA MulNeg ==
  ASSUME NEW a \in Scalar, NEW b \in Scalar
  PROVE  a ** FieldNeg(b) = FieldNeg(a ** b)
<1>0. FieldNeg(b) \in Scalar /\ b ++ FieldNeg(b) = Zero BY RingAssumption
<1>1. a ** (b ++ FieldNeg(b)) = (a ** b) ++ (a ** FieldNeg(b))
  BY <1>0, RingAssumption
<1>2. a ** b \in Scalar /\ a ** FieldNeg(b) \in Scalar BY <1>0, RingClosed
<1>3. (a ** b) ++ (a ** FieldNeg(b)) = Zero BY <1>0, <1>1, MulZero
<1>. QED BY <1>2, <1>3, NegUnique

(* A difference of sums is the sum of the differences.                     *)
LEMMA SubOfSums ==
  ASSUME NEW a \in Scalar, NEW b \in Scalar, NEW c \in Scalar, NEW d \in Scalar
  PROVE  (a ++ b) -- (c ++ d) = (a -- c) ++ (b -- d)
<1>1. FieldNeg(c) \in Scalar /\ FieldNeg(d) \in Scalar BY RingClosed
<1>2. (a ++ b) -- (c ++ d) = (a ++ b) ++ (FieldNeg(c) ++ FieldNeg(d))
  BY NegOfSum DEF --
<1>. QED BY <1>1, <1>2, AddSwap DEF --

LEMMA MulOfSub ==
  ASSUME NEW r \in Scalar, NEW a \in Scalar, NEW b \in Scalar
  PROVE  (r ** a) -- (r ** b) = r ** (a -- b)
<1>1. FieldNeg(b) \in Scalar BY RingClosed
<1>2. r ** (a ++ FieldNeg(b)) = (r ** a) ++ (r ** FieldNeg(b))
  BY <1>1, RingAssumption
<1>. QED BY <1>2, MulNeg DEF --

(* An equation is a difference that is zero.                               *)
LEMMA SubZero ==
  ASSUME NEW a \in Scalar, NEW b \in Scalar
  PROVE  /\ a -- b = Zero <=> a = b
         /\ a -- Zero = a
<1>0. Zero \in Scalar /\ FieldNeg(b) \in Scalar /\ FieldNeg(a) \in Scalar
  BY RingAssumption
<1>1. a ++ FieldNeg(a) = Zero /\ b ++ FieldNeg(b) = Zero BY RingAssumption
<1>2. ASSUME a -- b = Zero PROVE a = b
  <2>1. (a ++ FieldNeg(b)) ++ b = a ++ (FieldNeg(b) ++ b) BY <1>0, RingAssumption
  <2>2. FieldNeg(b) ++ b = Zero BY <1>0, <1>1, RingAssumption
  <2>3. a ++ Zero = a /\ Zero ++ b = b BY <1>0, RingAssumption
  <2>. QED BY <1>2, <2>1, <2>2, <2>3 DEF --
<1>3. FieldNeg(Zero) = Zero
  <2>1. Zero ++ Zero = Zero BY <1>0, RingAssumption
  <2>. QED BY <1>0, <2>1, NegUnique
<1>4. a ++ Zero = a BY RingAssumption
<1>. QED BY <1>1, <1>2, <1>3, <1>4 DEF --

LEMMA MulOfSums ==
  ASSUME NEW a \in Scalar, NEW b \in Scalar, NEW c \in Scalar, NEW d \in Scalar
  PROVE  (a ++ b) ** (c ++ d) = ((a ** c) ++ ((a ** d) ++ (b ** c))) ++ (b ** d)
<1>0. a ++ b \in Scalar /\ c ++ d \in Scalar BY RingClosed
<1>1. (a ++ b) ** (c ++ d) = ((a ++ b) ** c) ++ ((a ++ b) ** d)
  BY <1>0, RingAssumption
<1>2. (a ++ b) ** c = (a ** c) ++ (b ** c)
  <2>1. (a ++ b) ** c = c ** (a ++ b) BY <1>0, RingAssumption
  <2>2. c ** (a ++ b) = (c ** a) ++ (c ** b) BY RingAssumption
  <2>3. c ** a = a ** c /\ c ** b = b ** c BY RingAssumption
  <2>. QED BY <2>1, <2>2, <2>3
<1>3. (a ++ b) ** d = (a ** d) ++ (b ** d)
  <2>1. (a ++ b) ** d = d ** (a ++ b) BY <1>0, RingAssumption
  <2>2. d ** (a ++ b) = (d ** a) ++ (d ** b) BY RingAssumption
  <2>3. d ** a = a ** d /\ d ** b = b ** d BY RingAssumption
  <2>. QED BY <2>1, <2>2, <2>3
<1> DEFINE ac == a ** c
           bc == b ** c
           ad == a ** d
           bd == b ** d
<1>4. ac \in Scalar /\ bc \in Scalar /\ ad \in Scalar /\ bd \in Scalar
  BY RingClosed
<1>5. (a ++ b) ** (c ++ d) = (ac ++ bc) ++ (ad ++ bd) BY <1>1, <1>2, <1>3
<1> HIDE DEF ac, bc, ad, bd
<1>6. (ac ++ bc) ++ (ad ++ bd) = ((ac ++ bc) ++ ad) ++ bd
  <2>1. ac ++ bc \in Scalar BY <1>4, RingClosed
  <2>. QED BY <1>4, <2>1, RingAssumption
<1>7. (ac ++ bc) ++ ad = ac ++ (ad ++ bc)
  <2>1. (ac ++ bc) ++ ad = ac ++ (bc ++ ad) BY <1>4, RingAssumption
  <2>2. bc ++ ad = ad ++ bc BY <1>4, RingAssumption
  <2>. QED BY <2>1, <2>2
<1>. QED BY <1>5, <1>6, <1>7 DEF ac, bc, ad, bd

(* The product of two folded values: the cross term is what r multiplies.  *)
LEMMA FoldedProduct ==
  ASSUME NEW a1 \in Scalar, NEW a2 \in Scalar, NEW b1 \in Scalar,
         NEW b2 \in Scalar, NEW r \in Scalar
  PROVE  (a1 ++ (r ** a2)) ** (b1 ++ (r ** b2))
           = ((a1 ** b1) ++ (r ** ((a1 ** b2) ++ (a2 ** b1)))) ++ ((r ** r) ** (a2 ** b2))
<1> DEFINE x == r ** a2
           y == r ** b2
<1>0. x \in Scalar /\ y \in Scalar BY RingClosed
<1>1. a1 ** y = r ** (a1 ** b2)
  <2>1. a1 ** (r ** b2) = (a1 ** r) ** b2 BY RingAssumption
  <2>2. (r ** a1) ** b2 = r ** (a1 ** b2) BY RingAssumption
  <2>3. a1 ** r = r ** a1 BY RingAssumption
  <2>. QED BY <2>1, <2>2, <2>3
<1>2. x ** b1 = r ** (a2 ** b1) BY RingAssumption
<1>3. x ** y = (r ** r) ** (a2 ** b2)
  <2>0. a2 ** b2 \in Scalar /\ r ** b2 \in Scalar BY RingClosed
  <2>1. (r ** a2) ** (r ** b2) = r ** (a2 ** (r ** b2)) BY <2>0, RingAssumption
  <2>2. a2 ** (r ** b2) = r ** (a2 ** b2)
    <3>1. a2 ** (r ** b2) = (a2 ** r) ** b2 BY RingAssumption
    <3>2. (r ** a2) ** b2 = r ** (a2 ** b2) BY RingAssumption
    <3>3. a2 ** r = r ** a2 BY RingAssumption
    <3>. QED BY <3>1, <3>2, <3>3
  <2>3. r ** (r ** (a2 ** b2)) = (r ** r) ** (a2 ** b2) BY <2>0, RingAssumption
  <2>. QED BY <2>1, <2>2, <2>3
<1>4. (r ** (a1 ** b2)) ++ (r ** (a2 ** b1)) = r ** ((a1 ** b2) ++ (a2 ** b1))
  <2>1. a1 ** b2 \in Scalar /\ a2 ** b1 \in Scalar BY RingClosed
  <2>. QED BY <2>1, RingAssumption
<1> HIDE DEF x, y
<1>5. (a1 ++ x) ** (b1 ++ y) = ((a1 ** b1) ++ ((a1 ** y) ++ (x ** b1))) ++ (x ** y)
  BY <1>0, MulOfSums
<1>6. (a1 ++ x) ** (b1 ++ y)
        = ((a1 ** b1) ++ (r ** ((a1 ** b2) ++ (a2 ** b1)))) ++ ((r ** r) ** (a2 ** b2))
  BY <1>1, <1>2, <1>3, <1>4, <1>5
<1>. QED BY <1>6 DEF x, y

DifferenceFolds(a1, a2, b1, b2, c1, c2, u1, u2, r) ==
    ((a1 ++ (r ** a2)) ** (b1 ++ (r ** b2))) -- ((u1 ++ (r ** u2)) ** (c1 ++ (r ** c2)))
      = (((a1 ** b1) -- (u1 ** c1))
           ++ (r ** (((a1 ** b2) ++ (a2 ** b1)) -- ((u1 ** c2) ++ (u2 ** c1)))))
        ++ ((r ** r) ** ((a2 ** b2) -- (u2 ** c2)))

(* A product of folded values less another one: the same shape again.      *)
LEMMA FoldedDifference ==
  ASSUME NEW a1 \in Scalar, NEW a2 \in Scalar, NEW b1 \in Scalar, NEW b2 \in Scalar,
         NEW c1 \in Scalar, NEW c2 \in Scalar, NEW u1 \in Scalar, NEW u2 \in Scalar,
         NEW r \in Scalar
  PROVE  DifferenceFolds(a1, a2, b1, b2, c1, c2, u1, u2, r)
<1> DEFINE p1 == a1 ** b1
           pc == (a1 ** b2) ++ (a2 ** b1)
           p2 == a2 ** b2
           q1 == u1 ** c1
           qc == (u1 ** c2) ++ (u2 ** c1)
           q2 == u2 ** c2
           s  == r ** r
           P  == (a1 ++ (r ** a2)) ** (b1 ++ (r ** b2))
           Q  == (u1 ++ (r ** u2)) ** (c1 ++ (r ** c2))
<1>1. /\ p1 \in Scalar /\ p2 \in Scalar /\ q1 \in Scalar /\ q2 \in Scalar
      /\ s \in Scalar
  BY RingClosed
<1>2. pc \in Scalar /\ qc \in Scalar
  <2>1. /\ a1 ** b2 \in Scalar /\ a2 ** b1 \in Scalar
        /\ u1 ** c2 \in Scalar /\ u2 ** c1 \in Scalar
    BY RingClosed
  <2>. QED BY <2>1, RingClosed
<1>3. P = (p1 ++ (r ** pc)) ++ (s ** p2) BY FoldedProduct
<1>4. Q = (q1 ++ (r ** qc)) ++ (s ** q2) BY FoldedProduct
<1> SUFFICES P -- Q = ((p1 -- q1) ++ (r ** (pc -- qc))) ++ (s ** (p2 -- q2))
  BY DEF DifferenceFolds
<1> HIDE DEF p1, pc, p2, q1, qc, q2, s, P, Q
<1>5. /\ r ** pc \in Scalar /\ r ** qc \in Scalar
      /\ s ** p2 \in Scalar /\ s ** q2 \in Scalar
  BY <1>1, <1>2, RingClosed
<1>6. p1 ++ (r ** pc) \in Scalar /\ q1 ++ (r ** qc) \in Scalar
  BY <1>1, <1>5, RingClosed
<1>7. P -- Q = ((p1 ++ (r ** pc)) -- (q1 ++ (r ** qc))) ++ ((s ** p2) -- (s ** q2))
  BY <1>3, <1>4, <1>5, <1>6, SubOfSums
<1>8. (p1 ++ (r ** pc)) -- (q1 ++ (r ** qc)) = (p1 -- q1) ++ ((r ** pc) -- (r ** qc))
  BY <1>1, <1>5, SubOfSums
<1>9. /\ (r ** pc) -- (r ** qc) = r ** (pc -- qc)
      /\ (s ** p2) -- (s ** q2) = s ** (p2 -- q2)
  BY <1>1, <1>2, MulOfSub
<1>. QED BY <1>7, <1>8, <1>9

(* What a fold leaves of the residuals d1 and d2 of the two rows when the  *)
(* cross term t is computed from one product (commit_T_relaxed).           *)
LEMMA CrossTerm ==
  ASSUME NEW m1 \in Scalar, NEW mc \in Scalar, NEW m2 \in Scalar,
         NEW e1 \in Scalar, NEW e2 \in Scalar, NEW r \in Scalar, NEW t \in Scalar,
         t = (((m1 ++ mc) ++ m2) -- e1) -- e2
  PROVE  ((m1 ++ (r ** mc)) ++ ((r ** r) ** m2)) -- ((e1 ++ (r ** t)) ++ ((r ** r) ** e2))
           = ((m1 -- e1) ++ (r ** FieldNeg((m1 -- e1) ++ (m2 -- e2))))
               ++ ((r ** r) ** (m2 -- e2))
<1> DEFINE s  == r ** r
           d1 == m1 -- e1
           d2 == m2 -- e2
           ne1 == FieldNeg(e1)
           ne2 == FieldNeg(e2)
<1>1. /\ s \in Scalar /\ d1 \in Scalar /\ d2 \in Scalar
      /\ ne1 \in Scalar /\ ne2 \in Scalar
  BY RingClosed
<1>2. t = mc ++ (d1 ++ d2)
  <2>1. t = (((m1 ++ mc) ++ m2) ++ ne1) ++ ne2 BY DEF --
  <2>2. d1 = m1 ++ ne1 /\ d2 = m2 ++ ne2 BY DEF --
  <2> HIDE DEF ne1, ne2, d1, d2
  <2>3. m1 ++ mc \in Scalar /\ ne1 ++ ne2 \in Scalar /\ m1 ++ ne1 \in Scalar
        /\ m2 ++ ne2 \in Scalar
    BY <1>1, RingClosed
  <2>4. (m1 ++ mc) ++ m2 \in Scalar BY <2>3, RingClosed
  <2>5. t = ((m1 ++ mc) ++ m2) ++ (ne1 ++ ne2)
    BY <1>1, <2>1, <2>4, RingAssumption
  <2>6. ((m1 ++ mc) ++ m2) ++ (ne1 ++ ne2) = ((m1 ++ mc) ++ ne1) ++ (m2 ++ ne2)
    BY <1>1, <2>3, AddSwap
  <2>7. (m1 ++ mc) ++ ne1 = mc ++ (m1 ++ ne1)
    <3>1. m1 ++ mc = mc ++ m1 BY RingAssumption
    <3>2. (mc ++ m1) ++ ne1 = mc ++ (m1 ++ ne1) BY <1>1, RingAssumption
    <3>. QED BY <3>1, <3>2
  <2>8. (mc ++ (m1 ++ ne1)) ++ (m2 ++ ne2) = mc ++ ((m1 ++ ne1) ++ (m2 ++ ne2))
    BY <2>3, RingAssumption
  <2>. QED BY <2>2, <2>5, <2>6, <2>7, <2>8
<1> SUFFICES ((m1 ++ (r ** mc)) ++ (s ** m2)) -- ((e1 ++ (r ** t)) ++ (s ** e2))
               = (d1 ++ (r ** FieldNeg(d1 ++ d2))) ++ (s ** d2)
  OBVIOUS
<1>3. s ** d2 = (s ** m2) -- (s ** e2) BY <1>1, MulOfSub
<1>4. r ** mc \in Scalar /\ r ** t \in Scalar /\ s ** m2 \in Scalar /\ s ** e2 \in Scalar
  BY <1>1, RingClosed
<1>5. m1 ++ (r ** mc) \in Scalar /\ e1 ++ (r ** t) \in Scalar BY <1>4, RingClosed
<1>6. ((m1 ++ (r ** mc)) ++ (s ** m2)) -- ((e1 ++ (r ** t)) ++ (s ** e2))
        = ((m1 ++ (r ** mc)) -- (e1 ++ (r ** t))) ++ ((s ** m2) -- (s ** e2))
  BY <1>4, <1>5, SubOfSums
<1>7. (m1 ++ (r ** mc)) -- (e1 ++ (r ** t)) = d1 ++ ((r ** mc) -- (r ** t))
  BY <1>4, SubOfSums
<1>8. (r ** mc) -- (r ** t) = r ** (mc -- t) BY MulOfSub
<1>9. mc -- t = FieldNeg(d1 ++ d2)
  <2> DEFINE d == d1 ++ d2
  <2>1. d \in Scalar BY <1>1, RingClosed
  <2>2. FieldNeg(d) \in Scalar /\ FieldNeg(mc) \in Scalar BY <2>1, RingClosed
  <2>3. FieldNeg(t) = FieldNeg(mc) ++ FieldNeg(d) BY <1>2, <2>1, NegOfSum
  <2> HIDE DEF d, d1, d2
  <2>4. mc ++ (FieldNeg(mc) ++ FieldNeg(d)) = (mc ++ FieldNeg(mc)) ++ FieldNeg(d)
    BY <2>2, RingAssumption
  <2>5. mc ++ FieldNeg(mc) = Zero BY RingAssumption
  <2>6. Zero ++ FieldNeg(d) = FieldNeg(d) BY <2>2, RingAssumption
  <2>. QED BY <2>3, <2>4, <2>5, <2>6 DEF --, d
<1>. QED BY <1>3, <1>6, <1>7, <1>8, <1>9

(* A fold of two rows that hold is a row that holds.                       *)
LEMMA ResidualBothHold ==
  ASSUME NEW r \in Scalar
  PROVE  (Zero ++ (r ** FieldNeg(Zero ++ Zero))) ++ ((r ** r) ** Zero) = Zero
<1>0. Zero \in Scalar /\ r ** r \in Scalar BY RingAssumption
<1>1. Zero ++ Zero = Zero BY <1>0, RingAssumption
<1>2. FieldNeg(Zero) = Zero BY <1>0, <1>1, NegUnique
<1>3. r ** Zero = Zero /\ (r ** r) ** Zero = Zero BY <1>0, MulZero
<1>. QED BY <1>1, <1>2, <1>3

(* Folding a row that holds into one that does not: only the challenge One *)
(* hides it.                                                               *)
LEMMA ResidualSecondHolds ==
  ASSUME NEW r \in Scalar, NEW d \in Scalar, r # One,
         (d ++ (r ** FieldNeg(d ++ Zero))) ++ ((r ** r) ** Zero) = Zero
  PROVE  d = Zero
<1>0. /\ Zero \in Scalar /\ One \in Scalar /\ r ** r \in Scalar
      /\ FieldNeg(r) \in Scalar /\ FieldNeg(d) \in Scalar /\ r ** d \in Scalar
      /\ r ** FieldNeg(d) \in Scalar
  <2>1. FieldNeg(d) \in Scalar BY RingClosed
  <2>. QED BY <2>1, RingAssumption
<1>1. (r ** r) ** Zero = Zero BY <1>0, MulZero
<1>2. d ++ Zero = d BY RingAssumption
<1>3. d ++ (r ** FieldNeg(d)) \in Scalar BY <1>0, RingClosed
<1>4. (d ++ (r ** FieldNeg(d))) ++ Zero = d ++ (r ** FieldNeg(d)) BY <1>3, RingAssumption
<1>5. d ++ (r ** FieldNeg(d)) = Zero BY <1>1, <1>2, <1>4
<1>6. d -- (r ** d) = Zero BY <1>5, MulNeg DEF --
<1>7. d ** (One -- r) = Zero
  <2>1. d ** One = d /\ d ** r = r ** d BY <1>0, RingAssumption
  <2>. QED BY <1>0, <1>6, <2>1, MulOfSub
<1>8. One -- r \in Scalar BY <1>0, RingClosed
<1>9. d = Zero \/ One -- r = Zero BY <1>7, <1>8, DomainAssumption
<1>10. One -- r = Zero => One = r BY <1>0, SubZero
<1>. QED BY <1>9, <1>10

(* Folding a row that does not hold into one that does: only the           *)
(* challenges Zero and One hide it.                                        *)
LEMMA ResidualFirstHolds ==
  ASSUME NEW r \in Scalar, NEW d \in Scalar, r # One, r # Zero,
         (Zero ++ (r ** FieldNeg(Zero ++ d))) ++ ((r ** r) ** d) = Zero
  PROVE  d = Zero
<1> DEFINE n == FieldNeg(d)
           w == r ** d
<1>0. /\ Zero \in Scalar /\ One \in Scalar /\ r ** r \in Scalar
      /\ n \in Scalar /\ w \in Scalar
  BY RingAssumption
<1>1. Zero ++ d = d BY <1>0, RingAssumption
<1>2. r ** n \in Scalar BY <1>0, RingClosed
<1>3. Zero ++ (r ** n) = r ** n BY <1>0, <1>2, RingAssumption
<1>4. (r ** r) ** d = r ** w BY RingAssumption
<1>5. (r ** n) ++ (r ** w) = Zero BY <1>1, <1>3, <1>4
<1>6. r ** (n ++ w) = Zero
  <2> HIDE DEF n, w
  <2>. QED BY <1>0, <1>5, RingAssumption
<1>7. n ++ w \in Scalar BY <1>0, RingClosed
<1>8. n ++ w = Zero BY <1>6, <1>7, DomainAssumption
<1>9. w -- d = Zero
  <2>1. n ++ w = w ++ n BY <1>0, RingAssumption
  <2>. QED BY <1>8, <2>1 DEF --
<1>10. d ** (r -- One) = Zero
  <2>1. d ** One = d /\ d ** r = r ** d BY <1>0, RingAssumption
  <2>. QED BY <1>0, <1>9, <2>1, MulOfSub
<1>11. r -- One \in Scalar BY <1>0, RingClosed
<1>12. d = Zero \/ r -- One = Zero BY <1>10, <1>11, DomainAssumption
<1>13. r -- One = Zero => r = One BY <1>0, SubZero
<1>. QED BY <1>12, <1>13

(* Cancelling in a weighted sum.                                           *)
LEMMA AxpyCancel ==
  ASSUME NEW x1 \in Scalar, NEW x2 \in Scalar, NEW y1 \in Scalar, NEW y2 \in Scalar,
         NEW r \in Scalar, x1 ++ (r ** y1) = x2 ++ (r ** y2)
  PROVE  /\ y1 = y2 => x1 = x2
         /\ x1 = x2 /\ r # Zero => y1 = y2
<1>0. r ** y1 \in Scalar /\ r ** y2 \in Scalar BY RingClosed
<1>1. (x1 -- x2) ++ ((r ** y1) -- (r ** y2)) = Zero
  <2>1. x1 ++ (r ** y1) \in Scalar /\ x2 ++ (r ** y2) \in Scalar BY <1>0, RingClosed
  <2>2. (x1 ++ (r ** y1)) -- (x2 ++ (r ** y2)) = Zero BY <2>1, SubZero
  <2>. QED BY <1>0, <2>2, SubOfSums
<1>2. (x1 -- x2) ++ (r ** (y1 -- y2)) = Zero BY <1>1, MulOfSub
<1>3. x1 -- x2 \in Scalar /\ y1 -- y2 \in Scalar BY RingClosed
<1>4. ASSUME y1 = y2 PROVE x1 = x2
  <2>1. y1 -- y2 = Zero BY <1>4, SubZero
  <2>2. (x1 -- x2) ++ Zero = Zero BY <1>2, <2>1, MulZero
  <2>3. x1 -- x2 = Zero BY <1>3, <2>2, RingAssumption
  <2>. QED BY <2>3, SubZero
<1>5. ASSUME x1 = x2, r # Zero PROVE y1 = y2
  <2>1. x1 -- x2 = Zero BY <1>5, SubZero
  <2>2. r ** (y1 -- y2) \in Scalar /\ Zero \in Scalar BY <1>3, RingAssumption
  <2>3. Zero ++ (r ** (y1 -- y2)) = r ** (y1 -- y2) BY <2>2, RingAssumption
  <2>4. r ** (y1 -- y2) = Zero BY <1>2, <2>1, <2>3
  <2>5. y1 -- y2 = Zero BY <1>3, <1>5, <2>4, DomainAssumption
  <2>. QED BY <2>5, SubZero
<1>. QED BY <1>4, <1>5
----------------------------------------------------------------------------
(* Sums and products of any number of scalars.                             *)

(* Factors may change places.                                              *)
LEMMA MulSwap ==
  ASSUME NEW a \in Scalar, NEW b \in Scalar, NEW c \in Scalar
  PROVE  a ** (b ** c) = b ** (a ** c)
<1>1. a ** (b ** c) = (a ** b) ** c  BY RingAssumption
<1>2. b ** (a ** c) = (b ** a) ** c  BY RingAssumption
<1>3. a ** b = b ** a  BY RingAssumption
<1>. QED BY <1>1, <1>2, <1>3

(* What is taken away and put back.                                        *)
LEMMA Restored ==
  ASSUME NEW a \in Scalar, NEW t \in Scalar
  PROVE  a ++ (t -- a) = t
<1>1. FieldNeg(a) \in Scalar /\ t -- a \in Scalar  BY RingClosed
<1>2. a ++ (t -- a) = (t ++ FieldNeg(a)) ++ a  BY <1>1, RingAssumption DEF --
<1>3. (t ++ FieldNeg(a)) ++ a = t ++ (FieldNeg(a) ++ a)  BY <1>1, RingAssumption
<1>4. FieldNeg(a) ++ a = Zero  BY <1>1, RingAssumption
<1>. QED BY <1>2, <1>3, <1>4, RingAssumption

(* The partial sums of Sum and the partial products of Product.            *)
Sums(n, f, s) ==
    /\ s \in [0 .. n -> Scalar] /\ s[0] = Zero /\ Sum(n, f) = s[n]
    /\ \A k \in 0 .. n - 1 : s[k + 1] = s[k] ++ f[k]
Products(n, f, p) ==
    /\ p \in [0 .. n -> Scalar] /\ p[0] = One /\ Product(n, f) = p[n]
    /\ \A k \in 0 .. n - 1 : p[k + 1] = p[k] ** f[k]

LEMMA SumTable ==
  ASSUME NEW n \in Nat, NEW f, \A k \in 0 .. n - 1 : f[k] \in Scalar
  PROVE  \E s : Sums(n, f, s)
<1> DEFINE Is(s) == s = [k \in 0 .. n |-> IF k = 0 THEN Zero ELSE s[k - 1] ++ f[k - 1]]
           F == [k \in 0 .. n - 1 |-> [x \in Scalar |-> x ++ f[k]]]
           s == CHOOSE g : Is(g)
<1>1. \A k \in 0 .. n - 1, x \in Scalar : F[k][x] = x ++ f[k]
  OBVIOUS
<1>2. Zero \in Scalar  BY RingAssumption
<1>3. PICK g : Recursion(g, n, Scalar, Zero, F)
  <2> HIDE DEF F
  <2>1. StepsIn(F, n, Scalar)
    <3> SUFFICES ASSUME NEW k \in 0 .. n - 1, NEW x \in Scalar  PROVE F[k][x] \in Scalar
      BY DEF StepsIn
    <3>1. x ++ f[k] \in Scalar  BY RingAssumption
    <3>. QED BY <1>1, <3>1
  <2>. QED BY <1>2, <2>1, RecursionTo
<1>4. \A k \in 0 .. n - 1 : g[k + 1] = g[k] ++ f[k]
  <2> HIDE DEF F
  <2>. QED BY <1>1, <1>3 DEF Recursion
<1>5. Is(g)
  <2>1. \A k \in 0 .. n : k # 0 => k - 1 \in 0 .. n - 1 /\ (k - 1) + 1 = k  OBVIOUS
  <2>2. \A k \in 0 .. n : g[k] = IF k = 0 THEN Zero ELSE g[k - 1] ++ f[k - 1]
    BY <1>3, <1>4, <2>1 DEF Recursion
  <2>3. g \in [0 .. n -> Scalar]  BY <1>3 DEF Recursion
  <2>. QED BY <2>2, <2>3
<1>6. Is(s)  BY <1>5
<1>7. Sum(n, f) = s[n]  BY DEF Sum
<1> HIDE DEF s
<1>8. s[0] = Zero /\ DOMAIN s = 0 .. n  BY <1>6
<1>9. \A k \in 0 .. n - 1 : s[k + 1] = s[k] ++ f[k]  BY <1>6
<1>10. \A k \in 0 .. n : s[k] \in Scalar
  <2> DEFINE T == {k \in 0 .. n : s[k] \in Scalar}
  <2>1. 0 \in T  BY <1>2, <1>8
  <2>2. ASSUME NEW k \in 0 .. n - 1, k \in T  PROVE k + 1 \in T
    <3>1. s[k] ++ f[k] \in Scalar  BY <2>2, RingAssumption
    <3>. QED BY <1>9, <3>1
  <2>3. \A k \in 0 .. n : k \in T
    <3> HIDE DEF T
    <3>. QED BY <2>1, <2>2, InductionTo
  <2>. QED BY <2>3
<1>11. s \in [0 .. n -> Scalar]  
  <2>. QED BY <1>6, <1>8, <1>10
<1>. QED BY <1>7, <1>8, <1>9, <1>11 DEF Sums

LEMMA ProductTable ==
  ASSUME NEW n \in Nat, NEW f, \A k \in 0 .. n - 1 : f[k] \in Scalar
  PROVE  \E s : Products(n, f, s)
<1> DEFINE Is(s) == s = [k \in 0 .. n |-> IF k = 0 THEN One ELSE s[k - 1] ** f[k - 1]]
           F == [k \in 0 .. n - 1 |-> [x \in Scalar |-> x ** f[k]]]
           s == CHOOSE g : Is(g)
<1>1. \A k \in 0 .. n - 1, x \in Scalar : F[k][x] = x ** f[k]
  OBVIOUS
<1>2. One \in Scalar  BY RingAssumption
<1>3. PICK g : Recursion(g, n, Scalar, One, F)
  <2> HIDE DEF F
  <2>1. StepsIn(F, n, Scalar)
    <3> SUFFICES ASSUME NEW k \in 0 .. n - 1, NEW x \in Scalar  PROVE F[k][x] \in Scalar
      BY DEF StepsIn
    <3>1. x ** f[k] \in Scalar  BY RingAssumption
    <3>. QED BY <1>1, <3>1
  <2>. QED BY <1>2, <2>1, RecursionTo
<1>4. \A k \in 0 .. n - 1 : g[k + 1] = g[k] ** f[k]
  <2> HIDE DEF F
  <2>. QED BY <1>1, <1>3 DEF Recursion
<1>5. Is(g)
  <2>1. \A k \in 0 .. n : k # 0 => k - 1 \in 0 .. n - 1 /\ (k - 1) + 1 = k  OBVIOUS
  <2>2. \A k \in 0 .. n : g[k] = IF k = 0 THEN One ELSE g[k - 1] ** f[k - 1]
    BY <1>3, <1>4, <2>1 DEF Recursion
  <2>3. g \in [0 .. n -> Scalar]  BY <1>3 DEF Recursion
  <2>. QED BY <2>2, <2>3
<1>6. Is(s)  BY <1>5
<1>7. Product(n, f) = s[n]  BY DEF Product
<1> HIDE DEF s
<1>8. s[0] = One /\ DOMAIN s = 0 .. n  BY <1>6
<1>9. \A k \in 0 .. n - 1 : s[k + 1] = s[k] ** f[k]  BY <1>6
<1>10. \A k \in 0 .. n : s[k] \in Scalar
  <2> DEFINE T == {k \in 0 .. n : s[k] \in Scalar}
  <2>1. 0 \in T  BY <1>2, <1>8
  <2>2. ASSUME NEW k \in 0 .. n - 1, k \in T  PROVE k + 1 \in T
    <3>1. s[k] ** f[k] \in Scalar  BY <2>2, RingAssumption
    <3>. QED BY <1>9, <3>1
  <2>3. \A k \in 0 .. n : k \in T
    <3> HIDE DEF T
    <3>. QED BY <2>1, <2>2, InductionTo
  <2>. QED BY <2>3
<1>11. s \in [0 .. n -> Scalar]  
  <2>. QED BY <1>6, <1>8, <1>10
<1>. QED BY <1>7, <1>8, <1>9, <1>11 DEF Products

LEMMA SumType ==
  ASSUME NEW n \in Nat, NEW f, \A k \in 0 .. n - 1 : f[k] \in Scalar
  PROVE  Sum(n, f) \in Scalar
<1>1. PICK s : Sums(n, f, s)  BY SumTable
<1>. QED BY <1>1 DEF Sums

LEMMA ProductType ==
  ASSUME NEW n \in Nat, NEW f, \A k \in 0 .. n - 1 : f[k] \in Scalar
  PROVE  Product(n, f) \in Scalar
<1>1. PICK p : Products(n, f, p)  BY ProductTable
<1>. QED BY <1>1 DEF Products

(* A sum has at most one term that is not zero: it is that term.           *)
LEMMA SumSingle ==
  ASSUME NEW n \in Nat, NEW f, NEW j \in 0 .. n - 1, f[j] \in Scalar,
         \A k \in 0 .. n - 1 : k # j => f[k] = Zero
  PROVE  Sum(n, f) = f[j]
<1>0. Zero \in Scalar  BY RingAssumption
<1>1. \A k \in 0 .. n - 1 : f[k] \in Scalar  BY <1>0
<1>2. PICK s : Sums(n, f, s)  BY <1>1, SumTable
<1> DEFINE T == {k \in 0 .. n : s[k] = IF k <= j THEN Zero ELSE f[j]}
<1>3. 0 \in T  BY <1>2 DEF Sums
<1>4. ASSUME NEW k \in 0 .. n - 1, k \in T  PROVE k + 1 \in T
  <2>1. s[k + 1] = s[k] ++ f[k]  BY <1>2 DEF Sums
  <2>2. /\ Zero ++ Zero = Zero /\ f[j] ++ Zero = f[j] /\ Zero ++ f[j] = f[j]
    BY <1>0, RingAssumption
  <2>3. CASE k < j   BY <1>4, <2>1, <2>2, <2>3
  <2>4. CASE k = j   BY <1>4, <2>1, <2>2, <2>4
  <2>5. CASE k > j   BY <1>4, <2>1, <2>2, <2>5
  <2>. QED BY <2>3, <2>4, <2>5
<1>5. n \in T
  <2> HIDE DEF T
  <2>. QED BY <1>3, <1>4, InductionTo
<1>. QED BY <1>2, <1>5 DEF Sums

(* A sum of zeros is zero.                                                 *)
LEMMA SumZeros ==
  ASSUME NEW n \in Nat, NEW f, \A k \in 0 .. n - 1 : f[k] = Zero
  PROVE  Sum(n, f) = Zero
<1>0. Zero \in Scalar  BY RingAssumption
<1>1. \A k \in 0 .. n - 1 : f[k] \in Scalar  BY <1>0
<1>2. PICK s : Sums(n, f, s)  BY <1>1, SumTable
<1> DEFINE T == {k \in 0 .. n : s[k] = Zero}
<1>3. 0 \in T  BY <1>2 DEF Sums
<1>4. ASSUME NEW k \in 0 .. n - 1, k \in T  PROVE k + 1 \in T
  <2>1. s[k + 1] = s[k] ++ f[k]  BY <1>2 DEF Sums
  <2>2. Zero ++ Zero = Zero  BY <1>0, RingAssumption
  <2>. QED BY <1>4, <2>1, <2>2
<1>5. n \in T
  <2> HIDE DEF T
  <2>. QED BY <1>3, <1>4, InductionTo
<1>. QED BY <1>2, <1>5 DEF Sums

(* Sums are added term by term.                                            *)
LEMMA SumAdds ==
  ASSUME NEW n \in Nat, NEW f, NEW g, NEW h,
         \A k \in 0 .. n - 1 : f[k] \in Scalar /\ g[k] \in Scalar /\ h[k] = f[k] ++ g[k]
  PROVE  Sum(n, h) = Sum(n, f) ++ Sum(n, g)
<1>0. Zero \in Scalar /\ Zero ++ Zero = Zero  BY RingAssumption
<1>1. \A k \in 0 .. n - 1 : h[k] \in Scalar  BY RingClosed
<1>2. PICK s : Sums(n, f, s)  BY SumTable
<1>3. PICK t : Sums(n, g, t)  BY SumTable
<1>4. PICK u : Sums(n, h, u)  BY <1>1, SumTable
<1> DEFINE T == {k \in 0 .. n : u[k] = s[k] ++ t[k]}
<1>5. 0 \in T  BY <1>0, <1>2, <1>3, <1>4 DEF Sums
<1>6. ASSUME NEW k \in 0 .. n - 1, k \in T  PROVE k + 1 \in T
  <2>1. /\ s[k + 1] = s[k] ++ f[k] /\ t[k + 1] = t[k] ++ g[k] /\ u[k + 1] = u[k] ++ h[k]
        /\ s[k] \in Scalar /\ t[k] \in Scalar
    BY <1>2, <1>3, <1>4 DEF Sums
  <2>2. (s[k] ++ t[k]) ++ (f[k] ++ g[k]) = (s[k] ++ f[k]) ++ (t[k] ++ g[k])
    BY <2>1, AddSwap
  <2>3. u[k + 1] = s[k + 1] ++ t[k + 1]  BY <1>6, <2>1, <2>2
  <2>. QED BY <2>3
<1>7. n \in T
  <2> HIDE DEF T
  <2>. QED BY <1>5, <1>6, InductionTo
<1>. QED BY <1>2, <1>3, <1>4, <1>7 DEF Sums

(* A product of ones is one.                                               *)
LEMMA ProductOnes ==
  ASSUME NEW n \in Nat, NEW f, \A k \in 0 .. n - 1 : f[k] = One
  PROVE  Product(n, f) = One
<1>0. One \in Scalar /\ One ** One = One  BY RingAssumption
<1>1. \A k \in 0 .. n - 1 : f[k] \in Scalar  BY <1>0
<1>2. PICK p : Products(n, f, p)  BY <1>1, ProductTable
<1> DEFINE T == {k \in 0 .. n : p[k] = One}
<1>3. 0 \in T  BY <1>2 DEF Products
<1>4. ASSUME NEW k \in 0 .. n - 1, k \in T  PROVE k + 1 \in T
  <2>1. p[k + 1] = p[k] ** f[k]  BY <1>2 DEF Products
  <2>. QED BY <1>0, <1>4, <2>1
<1>5. n \in T
  <2> HIDE DEF T
  <2>. QED BY <1>3, <1>4, InductionTo
<1>. QED BY <1>2, <1>5 DEF Products

(* A product is zero exactly if one of its factors is.                     *)
LEMMA ProductZero ==
  ASSUME NEW n \in Nat, NEW f, \A k \in 0 .. n - 1 : f[k] \in Scalar
  PROVE  Product(n, f) = Zero <=> \E k \in 0 .. n - 1 : f[k] = Zero
<1>1. PICK p : Products(n, f, p)  BY ProductTable
<1> DEFINE T == {m \in 0 .. n : p[m] = Zero <=> \E k \in 0 .. m - 1 : f[k] = Zero}
<1>2. 0 \in T
  <2>1. p[0] # Zero  BY <1>1, DomainAssumption DEF Products
  <2>. QED BY <2>1
<1>3. ASSUME NEW m \in 0 .. n - 1, m \in T  PROVE m + 1 \in T
  <2>1. p[m + 1] = p[m] ** f[m] /\ p[m] \in Scalar /\ f[m] \in Scalar
    BY <1>1 DEF Products
  <2>2. p[m + 1] = Zero <=> p[m] = Zero \/ f[m] = Zero
    BY <2>1, MulZero, DomainAssumption
  <2>3. (\E k \in 0 .. m : f[k] = Zero) <=> (\E k \in 0 .. m - 1 : f[k] = Zero) \/ f[m] = Zero
    <3>1. \A k : k \in 0 .. m <=> k \in 0 .. m - 1 \/ k = m  OBVIOUS
    <3>. QED BY <3>1
  <2>4. (m + 1) - 1 = m /\ m + 1 \in 0 .. n  OBVIOUS
  <2>. QED BY <1>3, <2>2, <2>3, <2>4
<1>4. n \in T
  <2> HIDE DEF T
  <2>. QED BY <1>2, <1>3, InductionTo
<1>. QED BY <1>1, <1>4 DEF Products
----------------------------------------------------------------------------
(* Polynomials as functions, in Horner's form: c + x * g(x) raises the     *)
(* degree of g by one.                                                     *)
Fun         == [Scalar -> Scalar]
Const(c)    == [x \in Scalar |-> c]
Plus(f, g)  == [x \in Scalar |-> f[x] ++ g[x]]
Scale(c, f) == [x \in Scalar |-> c ** f[x]]
Horner(c, g) == [x \in Scalar |-> c ++ (x ** g[x])]

Constants == {Const(c) : c \in Scalar}
Raised(P) == {Horner(c, g) : c \in Scalar, g \in P}

\* Every root of a function of the next degree can be divided out.
Factors(P) ==
    \A f \in Raised(P), a \in Scalar : \E q \in P :
        \A x \in Scalar : f[x] = f[a] ++ ((x -- a) ** q[x])

\* What the polynomials up to any degree have.
Space(P) ==
    /\ P \subseteq Fun /\ Constants \subseteq P /\ P \subseteq Raised(P)
    /\ \A f, g \in P : Plus(f, g) \in P
    /\ \A c \in Scalar, f \in P : Scale(c, f) \in P
    /\ Factors(P)

LEMMA ConstantSpace == Space(Constants)
<1>0. Zero \in Scalar  BY RingAssumption
<1>1. Constants \subseteq Fun  BY DEF Constants, Const, Fun
<1>2. ASSUME NEW f \in Constants  PROVE f \in Raised(Constants)
  <2>1. PICK c \in Scalar : f = Const(c)  BY DEF Constants
  <2>2. \A x \in Scalar : c ++ (x ** Zero) = c  BY MulZero, RingAssumption
  <2>3. Horner(c, Const(Zero)) = Const(c)  BY <1>0, <2>2 DEF Horner, Const
  <2>4. Const(Zero) \in Constants  BY <1>0 DEF Constants
  <2>. QED BY <2>1, <2>3, <2>4 DEF Raised
<1>3. ASSUME NEW f \in Constants, NEW g \in Constants  PROVE Plus(f, g) \in Constants
  <2>1. PICK c \in Scalar : f = Const(c)  BY DEF Constants
  <2>2. PICK d \in Scalar : g = Const(d)  BY DEF Constants
  <2>3. Plus(f, g) = Const(c ++ d)  BY <2>1, <2>2 DEF Plus, Const
  <2>. QED BY <2>3, RingClosed DEF Constants
<1>4. ASSUME NEW c \in Scalar, NEW f \in Constants  PROVE Scale(c, f) \in Constants
  <2>1. PICK d \in Scalar : f = Const(d)  BY DEF Constants
  <2>2. Scale(c, f) = Const(c ** d)  BY <2>1 DEF Scale, Const
  <2>. QED BY <2>2, RingClosed DEF Constants
<1>5. ASSUME NEW f \in Raised(Constants), NEW a \in Scalar
      PROVE  \E q \in Constants : \A x \in Scalar : f[x] = f[a] ++ ((x -- a) ** q[x])
  <2>1. PICK c \in Scalar, g \in Constants : f = Horner(c, g)  BY DEF Raised
  <2>2. PICK d \in Scalar : g = Const(d)  BY DEF Constants
  <2>3. ASSUME NEW x \in Scalar  PROVE f[x] = f[a] ++ ((x -- a) ** g[x])
    <3>1. f[x] = c ++ (x ** d) /\ f[a] = c ++ (a ** d) /\ g[x] = d
      BY <2>1, <2>2 DEF Horner, Const
    <3>2. /\ x -- a \in Scalar /\ a ** d \in Scalar /\ (x -- a) ** d \in Scalar
          /\ x ** d \in Scalar
      BY RingClosed
    <3>3. (a ** d) ++ ((x -- a) ** d) = x ** d
      <4>1. (x -- a) ** d = (x ** d) -- (a ** d)
        <5>1. (d ** x) -- (d ** a) = d ** (x -- a)  BY MulOfSub
        <5>2. d ** x = x ** d /\ d ** a = a ** d /\ d ** (x -- a) = (x -- a) ** d
          BY <3>2, RingAssumption
        <5>. QED BY <5>1, <5>2
      <4>. QED BY <3>2, <4>1, Restored
    <3>4. (c ++ (a ** d)) ++ ((x -- a) ** d) = c ++ ((a ** d) ++ ((x -- a) ** d))
      BY <3>2, RingAssumption
    <3>. QED BY <3>1, <3>3, <3>4
  <2>. QED BY <2>3
<1>. QED BY <1>1, <1>2, <1>3, <1>4, <1>5 DEF Space, Factors

LEMMA RaisedSpace ==
  ASSUME NEW P, Space(P)
  PROVE  Space(Raised(P))
<1> DEFINE R == Raised(P)
<1>0. /\ P \subseteq Fun /\ Constants \subseteq P /\ P \subseteq R
      /\ Zero \in Scalar
  BY RingAssumption DEF Space
<1>1. R \subseteq Fun
  <2> SUFFICES ASSUME NEW f \in R  PROVE f \in Fun
    OBVIOUS
  <2>1. PICK c \in Scalar, g \in P : f = Horner(c, g)  BY DEF Raised
  <2>2. \A x \in Scalar : c ++ (x ** g[x]) \in Scalar
    <3> TAKE x \in Scalar
    <3>1. g[x] \in Scalar  BY <1>0 DEF Fun
    <3>. QED BY <3>1, RingAssumption
  <2>. QED BY <2>1, <2>2 DEF Horner, Fun
<1>2. Constants \subseteq R  BY <1>0
<1>3. R \subseteq Raised(R)  BY <1>0 DEF Raised
<1>4. ASSUME NEW f \in R, NEW h \in R  PROVE Plus(f, h) \in R
  <2>1. PICK c \in Scalar, g \in P : f = Horner(c, g)  BY DEF Raised
  <2>2. PICK d \in Scalar, k \in P : h = Horner(d, k)  BY DEF Raised
  <2>3. Plus(g, k) \in P  BY DEF Space
  <2>4. ASSUME NEW x \in Scalar
        PROVE  f[x] ++ h[x] = (c ++ d) ++ (x ** Plus(g, k)[x])
    <3>1. g[x] \in Scalar /\ k[x] \in Scalar  BY <1>0 DEF Fun
    <3>2. x ** g[x] \in Scalar /\ x ** k[x] \in Scalar  BY <3>1, RingClosed
    <3>3. (c ++ (x ** g[x])) ++ (d ++ (x ** k[x])) = (c ++ d) ++ ((x ** g[x]) ++ (x ** k[x]))
      BY <3>2, AddSwap
    <3>4. (x ** g[x]) ++ (x ** k[x]) = x ** (g[x] ++ k[x])
      <4>1. \A u, v \in Scalar : (x ** u) ++ (x ** v) = x ** (u ++ v)  BY RingAssumption
      <4>. QED BY <3>1, <4>1
    <3>5. f[x] = c ++ (x ** g[x]) /\ h[x] = d ++ (x ** k[x]) /\ Plus(g, k)[x] = g[x] ++ k[x]
      BY <2>1, <2>2 DEF Horner, Plus
    <3>. QED BY <3>3, <3>4, <3>5
  <2>5. Plus(f, h) = Horner(c ++ d, Plus(g, k))
    <3> DEFINE s == Plus(g, k)
    <3> HIDE DEF s
    <3>. QED BY <2>4 DEF Plus, Horner, s
  <2>6. c ++ d \in Scalar  BY RingClosed
  <2>. QED BY <2>3, <2>5, <2>6 DEF Raised
<1>5. ASSUME NEW c \in Scalar, NEW f \in R  PROVE Scale(c, f) \in R
  <2>1. PICK d \in Scalar, g \in P : f = Horner(d, g)  BY DEF Raised
  <2>2. Scale(c, g) \in P  BY DEF Space
  <2>3. ASSUME NEW x \in Scalar  PROVE c ** f[x] = (c ** d) ++ (x ** Scale(c, g)[x])
    <3>1. g[x] \in Scalar  BY <1>0 DEF Fun
    <3>2. x ** g[x] \in Scalar  BY <3>1, RingClosed
    <3>3. c ** (d ++ (x ** g[x])) = (c ** d) ++ (c ** (x ** g[x]))  BY <3>2, RingAssumption
    <3>4. c ** (x ** g[x]) = x ** (c ** g[x])  BY <3>1, MulSwap
    <3>5. f[x] = d ++ (x ** g[x]) /\ Scale(c, g)[x] = c ** g[x]
      BY <2>1 DEF Horner, Scale
    <3>. QED BY <3>3, <3>4, <3>5
  <2>4. Scale(c, f) = Horner(c ** d, Scale(c, g))
    <3> DEFINE s == Scale(c, g)
    <3> HIDE DEF s
    <3>. QED BY <2>3 DEF Scale, Horner, s
  <2>5. c ** d \in Scalar  BY RingClosed
  <2>. QED BY <2>2, <2>4, <2>5 DEF Raised
<1>6. ASSUME NEW f \in Raised(R), NEW a \in Scalar
      PROVE  \E q \in R : \A x \in Scalar : f[x] = f[a] ++ ((x -- a) ** q[x])
  <2>1. PICK c \in Scalar, g \in R : f = Horner(c, g)  BY DEF Raised
  <2>2. PICK p \in P : \A x \in Scalar : g[x] = g[a] ++ ((x -- a) ** p[x])
    BY DEF Space, Factors
  <2>3. g[a] \in Scalar  BY <1>1 DEF Fun
  <2> DEFINE q == Horner(g[a], p)
  <2>4. q \in R  BY <2>3 DEF Raised
  <2>5. ASSUME NEW x \in Scalar  PROVE f[x] = f[a] ++ ((x -- a) ** q[x])
    <3> DEFINE y == p[x]
               b == g[a]
               t == x -- a
    <3>1. /\ y \in Scalar /\ b \in Scalar /\ t \in Scalar
          /\ x ** y \in Scalar /\ t ** y \in Scalar /\ a ** b \in Scalar /\ t ** b \in Scalar
          /\ x ** b \in Scalar
      <4>1. y \in Scalar /\ b \in Scalar /\ t \in Scalar
        BY <1>0, <2>3, RingClosed DEF Fun
      <4>. QED BY <4>1, RingClosed
    <3>2. f[x] = c ++ (x ** (b ++ (t ** y))) /\ f[a] = c ++ (a ** b) /\ q[x] = b ++ (x ** y)
      BY <2>1, <2>2 DEF Horner
    <3>3. (a ** b) ++ (t ** b) = x ** b
      <4>1. (b ** x) -- (b ** a) = b ** (x -- a)  BY <3>1, MulOfSub
      <4>2. b ** x = x ** b /\ b ** a = a ** b /\ b ** t = t ** b
        BY <3>1, RingAssumption
      <4>3. t ** b = (x ** b) -- (a ** b)  BY <4>1, <4>2
      <4>. QED BY <3>1, <4>3, Restored
    <3> HIDE DEF y, b, t
    <3>4. x ** (b ++ (t ** y)) = (x ** b) ++ (x ** (t ** y))  BY <3>1, RingAssumption
    <3>5. x ** (t ** y) = t ** (x ** y)  BY <3>1, MulSwap
    <3>6. t ** (b ++ (x ** y)) = (t ** b) ++ (t ** (x ** y))  BY <3>1, RingAssumption
    <3>7. t ** (x ** y) \in Scalar  BY <3>1, RingClosed
    <3>8. (c ++ (a ** b)) ++ ((t ** b) ++ (t ** (x ** y))) = c ++ ((x ** b) ++ (t ** (x ** y)))
      <4>1. (c ++ (a ** b)) ++ ((t ** b) ++ (t ** (x ** y)))
              = c ++ ((a ** b) ++ ((t ** b) ++ (t ** (x ** y))))
        <5>1. (t ** b) ++ (t ** (x ** y)) \in Scalar  BY <3>1, <3>7, RingClosed
        <5>. QED BY <3>1, <5>1, RingAssumption
      <4>2. (a ** b) ++ ((t ** b) ++ (t ** (x ** y)))
              = ((a ** b) ++ (t ** b)) ++ (t ** (x ** y))
        BY <3>1, <3>7, RingAssumption
      <4>. QED BY <3>3, <4>1, <4>2
    <3>9. f[x] = f[a] ++ (t ** q[x])
      <4> HIDE DEF q
      <4>. QED BY <3>2, <3>4, <3>5, <3>6, <3>8
    <3>. QED BY <3>9 DEF t
  <2>. QED BY <2>4, <2>5
<1>7. Factors(R)  BY <1>6 DEF Factors
<1>. QED BY <1>1, <1>2, <1>3, <1>4, <1>5, <1>7 DEF Space

(* A linear factor raises the degree by one.                               *)
LEMMA LinearFactor ==
  ASSUME NEW P, Space(P), NEW f \in P, NEW a \in Scalar, NEW b \in Scalar
  PROVE  [x \in Scalar |-> (a ++ (x ** b)) ** f[x]] \in Raised(P)
<1> DEFINE g == Scale(a, f)
           h == Horner(Zero, Scale(b, f))
<1>1. Space(Raised(P))  BY RaisedSpace
<1>2. g \in Raised(P)  BY DEF Space
<1>3. h \in Raised(P)
  <2>1. Scale(b, f) \in P /\ Zero \in Scalar  BY RingAssumption DEF Space
  <2>. QED BY <2>1 DEF Raised
<1>4. Plus(g, h) \in Raised(P)  BY <1>1, <1>2, <1>3 DEF Space
<1>5. ASSUME NEW x \in Scalar  PROVE g[x] ++ h[x] = (a ++ (x ** b)) ** f[x]
  <2> DEFINE y == f[x]
  <2>1. y \in Scalar  BY DEF Space, Fun
  <2>2. g[x] = a ** y  BY DEF Scale
  <2>3. h[x] = Zero ++ (x ** (b ** y))  BY DEF Horner, Scale
  <2> HIDE DEF y, g, h
  <2>4. b ** y \in Scalar /\ x ** (b ** y) \in Scalar /\ x ** b \in Scalar
    <3>1. b ** y \in Scalar  BY <2>1, RingClosed
    <3>. QED BY <3>1, RingClosed
  <2>5. Zero ++ (x ** (b ** y)) = (x ** b) ** y
    <3>1. Zero ++ (x ** (b ** y)) = x ** (b ** y)  BY <2>4, RingAssumption
    <3>2. x ** (b ** y) = (x ** b) ** y  BY <2>1, RingAssumption
    <3>. QED BY <3>1, <3>2
  <2>6. (a ** y) ++ ((x ** b) ** y) = (a ++ (x ** b)) ** y
    <3> DEFINE c == x ** b
    <3> HIDE DEF c
    <3>1. c \in Scalar /\ a ++ c \in Scalar  BY <2>4, RingClosed DEF c
    <3>2. y ** (a ++ c) = (y ** a) ++ (y ** c)  BY <2>1, <3>1, RingAssumption
    <3>3. y ** a = a ** y /\ y ** c = c ** y /\ y ** (a ++ c) = (a ++ c) ** y
      BY <2>1, <3>1, RingAssumption
    <3>. QED BY <3>2, <3>3 DEF c
  <2>. QED BY <2>2, <2>3, <2>5, <2>6 DEF y
<1>6. Plus(g, h) = [x \in Scalar |-> (a ++ (x ** b)) ** f[x]]
  <2> HIDE DEF g, h
  <2>. QED BY <1>5 DEF Plus
<1>. QED BY <1>4, <1>6

(* A sum of polynomials, at every point, is one of the same degree.        *)
LEMMA SumOfPolys ==
  ASSUME NEW P, Space(P), NEW n \in Nat, NEW F, \A k \in 0 .. n - 1 : F[k] \in P
  PROVE  [x \in Scalar |-> Sum(n, [k \in 0 .. n - 1 |-> F[k][x]])] \in P
<1> DEFINE f(x) == [k \in 0 .. n - 1 |-> F[k][x]]
           s(x) == CHOOSE t : Sums(n, f(x), t)
           part(m) == [x \in Scalar |-> s(x)[m]]
           T == {m \in 0 .. n : part(m) \in P}
<1>1. ASSUME NEW x \in Scalar  PROVE Sums(n, f(x), s(x))
  <2>1. \A k \in 0 .. n - 1 : f(x)[k] \in Scalar  BY DEF Space, Fun
  <2> HIDE DEF f
  <2>. QED BY <2>1, SumTable
<1> HIDE DEF s
<1>2. 0 \in T
  <2>1. part(0) = Const(Zero)
    <3>1. \A x \in Scalar : s(x)[0] = Zero
      <4> HIDE DEF f
      <4>. QED BY <1>1 DEF Sums
    <3>. QED BY <3>1 DEF Const
  <2>2. Const(Zero) \in P  BY RingAssumption DEF Constants, Space
  <2>. QED BY <2>1, <2>2
<1>3. ASSUME NEW m \in 0 .. n - 1, m \in T  PROVE m + 1 \in T
  <2>1. Plus(part(m), F[m]) \in P  BY <1>3 DEF Space
  <2>2. \A x \in Scalar : s(x)[m + 1] = s(x)[m] ++ F[m][x]
    <3> TAKE x \in Scalar
    <3>1. s(x)[m + 1] = s(x)[m] ++ f(x)[m]
      <4> HIDE DEF f
      <4>. QED BY <1>1 DEF Sums
    <3>. QED BY <3>1
  <2>3. Plus(part(m), F[m]) = part(m + 1)
    <3>1. \A x \in Scalar : part(m)[x] = s(x)[m]  OBVIOUS
    <3> HIDE DEF part
    <3>2. Plus(part(m), F[m]) = [x \in Scalar |-> s(x)[m] ++ F[m][x]]
      BY <3>1 DEF Plus
    <3>3. part(m + 1) = [x \in Scalar |-> s(x)[m + 1]]  BY DEF part
    <3>. QED BY <2>2, <3>2, <3>3
  <2>. QED BY <2>1, <2>3
<1>4. n \in T
  <2> HIDE DEF T
  <2>. QED BY <1>2, <1>3, InductionTo
<1>5. \A x \in Scalar : Sum(n, f(x)) = s(x)[n]
  <2> HIDE DEF f
  <2>. QED BY <1>1 DEF Sums
<1>6. part(n) = [x \in Scalar |-> Sum(n, f(x))]
  <2> HIDE DEF f
  <2>. QED BY <1>5
<1>. QED BY <1>4, <1>6

MaxDegree == 5

\* The polynomials of degree at most d.
Poly[d \in 0 .. MaxDegree] == IF d = 0 THEN Constants ELSE Raised(Poly[d - 1])

LEMMA PolySteps ==
  /\ Poly[0] = Constants
  /\ \A d \in 0 .. MaxDegree - 1 : Poly[d + 1] = Raised(Poly[d])
<1> DEFINE n == MaxDegree
           Is(p) == p = [d \in 0 .. n |-> IF d = 0 THEN Constants ELSE Raised(p[d - 1])]
           F == [d \in 0 .. n - 1 |-> [X \in SUBSET Fun |-> Raised(X)]]
<1>0. n \in Nat  BY DEF MaxDegree
<1> HIDE DEF n
<1>1. \A X \in SUBSET Fun : Raised(X) \in SUBSET Fun
  <2> SUFFICES ASSUME NEW X \in SUBSET Fun, NEW c \in Scalar, NEW g \in X
               PROVE  Horner(c, g) \in Fun
    BY DEF Raised
  <2>1. ASSUME NEW x \in Scalar  PROVE c ++ (x ** g[x]) \in Scalar
    <3>1. g[x] \in Scalar  BY DEF Fun
    <3>. QED BY <3>1, RingAssumption
  <2>. QED BY <2>1 DEF Horner, Fun
<1>2. \A d \in 0 .. n - 1 : \A X \in SUBSET Fun : F[d][X] = Raised(X)
  OBVIOUS
<1>3. Constants \in SUBSET Fun  BY DEF Constants, Const, Fun
<1>4. PICK p : Recursion(p, n, SUBSET Fun, Constants, F)
  <2> HIDE DEF F
  <2>1. StepsIn(F, n, SUBSET Fun)  BY <1>1, <1>2 DEF StepsIn
  <2>. QED BY <1>0, <1>3, <2>1, RecursionTo
<1>5. \A d \in 0 .. n - 1 : p[d + 1] = Raised(p[d])
  <2> HIDE DEF F
  <2>1. \A d \in 0 .. n - 1 : p[d] \in SUBSET Fun /\ p[d + 1] = F[d][p[d]]
    BY <1>0, <1>4 DEF Recursion
  <2>. QED BY <1>2, <2>1
<1>6. Is(p)
  <2>1. \A d \in 0 .. n : d # 0 => d - 1 \in 0 .. n - 1 /\ (d - 1) + 1 = d  BY <1>0
  <2>2. p[0] = Constants /\ p \in [0 .. n -> SUBSET Fun]  BY <1>4 DEF Recursion
  <2>3. \A d \in 0 .. n : p[d] = IF d = 0 THEN Constants ELSE Raised(p[d - 1])
    BY <1>5, <2>1, <2>2
  <2>. QED BY <2>2, <2>3
<1>7. Poly = CHOOSE q : Is(q)  BY DEF Poly, n
<1>8. Is(Poly)  
  <2> HIDE DEF Is
  <2>. QED BY <1>6, <1>7
<1>9. Poly[0] = Constants  BY <1>0, <1>8
<1>10. ASSUME NEW d \in 0 .. n - 1  PROVE Poly[d + 1] = Raised(Poly[d])
  <2>1. d + 1 \in 0 .. n /\ d + 1 # 0 /\ (d + 1) - 1 = d  BY <1>0
  <2>. QED BY <1>8, <2>1
<1>. QED BY <1>9, <1>10 DEF n

LEMMA PolySpaces == \A d \in 0 .. MaxDegree : Space(Poly[d])
<1> DEFINE T == {d \in 0 .. MaxDegree : Space(Poly[d])}
<1>0. MaxDegree \in Nat  BY DEF MaxDegree
<1>1. 0 \in T  BY <1>0, PolySteps, ConstantSpace
<1>2. ASSUME NEW d \in 0 .. MaxDegree - 1, d \in T  PROVE d + 1 \in T
  <2>1. Space(Raised(Poly[d]))  BY <1>2, RaisedSpace
  <2>. QED BY <1>0, <2>1, PolySteps
<1>3. \A d \in 0 .. MaxDegree : d \in T
  <2> HIDE DEF T
  <2>. QED BY <1>0, <1>1, <1>2, InductionTo
<1>. QED BY <1>3

(* A polynomial of degree d with d + 1 roots is zero everywhere.           *)
LEMMA Roots ==
  ASSUME NEW p, \A i \in 0 .. MaxDegree : p[i] \in Scalar,
         \A i, j \in 0 .. MaxDegree : p[i] = p[j] => i = j
  PROVE  \A d \in 0 .. MaxDegree : \A f \in Poly[d] :
           (\A i \in 0 .. d : f[p[i]] = Zero) => \A x \in Scalar : f[x] = Zero
<1> DEFINE Vanish(d) == \A f \in Poly[d] : (\A i \in 0 .. d : f[p[i]] = Zero)
                                             => \A x \in Scalar : f[x] = Zero
           T == {d \in 0 .. MaxDegree : Vanish(d)}
<1>0. MaxDegree \in Nat  BY DEF MaxDegree
<1>1. 0 \in T
  <2>1. ASSUME NEW f \in Poly[0], \A i \in 0 .. 0 : f[p[i]] = Zero, NEW x \in Scalar
        PROVE  f[x] = Zero
    <3>1. PICK c \in Scalar : f = Const(c)  BY PolySteps DEF Constants
    <3>2. f[p[0]] = Zero /\ p[0] \in Scalar  BY <1>0, <2>1
    <3>. QED BY <3>1, <3>2 DEF Const
  <2>. QED BY <1>0, <2>1
<1>2. ASSUME NEW d \in 0 .. MaxDegree - 1, d \in T  PROVE d + 1 \in T
  <2>0. d + 1 \in 0 .. MaxDegree /\ d \in 0 .. MaxDegree  BY <1>0
  <2>1. ASSUME NEW f \in Poly[d + 1], \A i \in 0 .. d + 1 : f[p[i]] = Zero, NEW x \in Scalar
        PROVE  f[x] = Zero
    <3> DEFINE a == p[d + 1]
    <3>1. a \in Scalar /\ f[a] = Zero  BY <2>0, <2>1
    <3>2. Poly[d + 1] = Raised(Poly[d]) /\ Space(Poly[d]) /\ Space(Poly[d + 1])
      BY <2>0, PolySteps, PolySpaces
    <3>3. PICK q \in Poly[d] : \A y \in Scalar : f[y] = f[a] ++ ((y -- a) ** q[y])
      BY <3>1, <3>2 DEF Space, Factors
    <3>4. ASSUME NEW y \in Scalar
          PROVE  /\ y -- a \in Scalar /\ q[y] \in Scalar
                 /\ f[y] = (y -- a) ** q[y]
      <4>1. y -- a \in Scalar /\ q[y] \in Scalar  BY <3>1, <3>2, RingClosed DEF Space, Fun
      <4>2. (y -- a) ** q[y] \in Scalar /\ Zero \in Scalar  BY <4>1, RingAssumption
      <4>3. Zero ++ ((y -- a) ** q[y]) = (y -- a) ** q[y]  BY <4>2, RingAssumption
      <4>. QED BY <3>1, <3>3, <4>1, <4>3
    <3>5. ASSUME NEW i \in 0 .. d  PROVE q[p[i]] = Zero
      <4>1. i \in 0 .. MaxDegree /\ i # d + 1 /\ i \in 0 .. d + 1  BY <1>0, <2>0
      <4>2. p[i] \in Scalar /\ p[i] # a  BY <2>0, <4>1
      <4>3. p[i] -- a # Zero  BY <3>1, <4>2, SubZero
      <4>4. (p[i] -- a) ** q[p[i]] = Zero  BY <2>1, <3>4, <4>1, <4>2
      <4>. QED BY <3>4, <4>2, <4>3, <4>4, DomainAssumption
    <3>6. q[x] = Zero  BY <1>2, <3>5
    <3>. QED BY <3>4, <3>6, MulZero
  <2>. QED BY <2>0, <2>1
<1>3. \A d \in 0 .. MaxDegree : d \in T
  <2> HIDE DEF T
  <2>. QED BY <1>0, <1>1, <1>2, InductionTo
<1>. QED BY <1>3

(* Polynomials that agree at more points than their degree are equal.      *)
LEMMA Agree ==
  ASSUME NEW p, \A i \in 0 .. MaxDegree : p[i] \in Scalar,
         \A i, j \in 0 .. MaxDegree : p[i] = p[j] => i = j,
         NEW f \in Poly[MaxDegree], NEW g \in Poly[MaxDegree],
         \A i \in 0 .. MaxDegree : f[p[i]] = g[p[i]], NEW x \in Scalar
  PROVE  f[x] = g[x]
<1>0. MaxDegree \in 0 .. MaxDegree /\ Zero \in Scalar /\ One \in Scalar
  BY RingAssumption DEF MaxDegree
<1>1. Space(Poly[MaxDegree])  BY <1>0, PolySpaces
<1> DEFINE m == FieldNeg(One)
           h == Plus(f, Scale(m, g))
<1>2. m \in Scalar  BY <1>0, RingAssumption
<1>3. h \in Poly[MaxDegree]  BY <1>1, <1>2 DEF Space
<1>4. ASSUME NEW y \in Scalar  PROVE h[y] = f[y] -- g[y] /\ f[y] \in Scalar /\ g[y] \in Scalar
  <2>1. f[y] \in Scalar /\ g[y] \in Scalar  BY <1>1 DEF Space, Fun
  <2>2. m ** g[y] = FieldNeg(g[y])
    <3>1. g[y] ** m = FieldNeg(g[y] ** One)  BY <1>0, <2>1, MulNeg
    <3>2. g[y] ** m = m ** g[y] /\ g[y] ** One = g[y]  BY <1>0, <1>2, <2>1, RingAssumption
    <3>. QED BY <3>1, <3>2
  <2>3. h[y] = f[y] ++ (m ** g[y])  BY DEF Plus, Scale
  <2>. QED BY <2>1, <2>2, <2>3 DEF --
<1> HIDE DEF h
<1>5. \A i \in 0 .. MaxDegree : h[p[i]] = Zero  BY <1>4, SubZero
<1>6. h[x] = Zero  BY <1>0, <1>3, <1>5, Roots
<1>. QED BY <1>4, <1>6, SubZero
============================================================================
