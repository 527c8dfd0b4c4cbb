--------------------------- MODULE CircuitProofs ---------------------------
(***************************************************************************)
(* Theorems about the shape of a circuit (R1CSShape), about its synthesis  *)
(* (Frontend) and about the gadgets it is made of (Gadgets).               *)
(*                                                                         *)
(* The index check of R1CSShape::new sees every entry of a matrix and      *)
(* padding changes no constraint, for shapes and matrices of any size.     *)
(* The linear combinations of a circuit stand for the terms they were      *)
(* built from, and the rows of its R1CS say of the assignment what its     *)
(* constraints say, for every modulus and circuits of any size.  And the   *)
(* constraints of a gadget leave exactly its result, for every odd prime.  *)
(***************************************************************************)
EXTENDS R1CSShape, FrontendGadgets, InductionProofs, SequenceTheorems

Rows(n)  == [1 .. n -> Seq(Nat)]
Entry(n) == (0 .. n - 1) \X Nat
----------------------------------------------------------------------------
(* Construction                                                            *)

\* The table behind pushed.
Pushes(t, e, n) ==
    /\ t \in [0 .. Len(e) -> Rows(n)]
    /\ t[0] = [r \in 1 .. n |-> <<>>]
    /\ \A k \in 1 .. Len(e) :
          t[k] = [t[k - 1] EXCEPT ![e[k][1] + 1] = Append(@, e[k][2])]

\* Row r with c pushed, row by row.
Pushed(m, r, c, n) == [q \in 1 .. n |-> IF q = r THEN Append(m[q], c) ELSE m[q]]

LEMMA PushRow ==
  ASSUME NEW n \in Nat, NEW m \in Rows(n), NEW r \in 1 .. n, NEW c \in Nat
  PROVE  /\ [m EXCEPT ![r] = Append(@, c)] = Pushed(m, r, c, n)
         /\ Pushed(m, r, c, n) \in Rows(n)
<1>1. m \in [1 .. n -> Seq(Nat)]  BY DEF Rows
<1>2. Append(m[r], c) \in Seq(Nat)  BY <1>1, AppendProperties
<1>3. [m EXCEPT ![r] = Append(@, c)] = Pushed(m, r, c, n)  BY <1>1 DEF Pushed
<1>4. Pushed(m, r, c, n) \in Rows(n)  BY <1>1, <1>2 DEF Pushed, Rows
<1>. QED BY <1>3, <1>4

LEMMA PushedTable ==
  ASSUME NEW n \in Nat, NEW e \in Seq(Entry(n))
  PROVE  \E t : Pushes(t, e, n) /\ pushed(e, n) = t[Len(e)]
<1> DEFINE N == Len(e)
           S == Rows(n)
           none == [r \in 1 .. n |-> <<>>]
           Is(g) == g = [k \in 0 .. N |->
                           IF k = 0 THEN none
                           ELSE [g[k - 1] EXCEPT ![e[k][1] + 1] = Append(@, e[k][2])]]
           H == [k \in 0 .. N - 1 |-> [m \in S |-> Pushed(m, e[k + 1][1] + 1, e[k + 1][2], n)]]
           G == CHOOSE g : Is(g)
<1>1. N \in Nat  BY LenProperties
<1>2. pushed(e, n) = G[N]  BY DEF pushed
<1>3. ASSUME NEW k \in 1 .. N
      PROVE  e[k][1] + 1 \in 1 .. n /\ e[k][2] \in Nat
  <2>1. e[k] \in Entry(n)  BY ElementOfSeq
  <2>2. e[k][1] \in 0 .. n - 1 /\ e[k][2] \in Nat  BY <2>1 DEF Entry
  <2>. QED BY <2>2
<1>4. StepsIn(H, N, S)
  <2> SUFFICES ASSUME NEW k \in 0 .. N - 1, NEW m \in S  PROVE H[k][m] \in S
    BY DEF StepsIn
  <2>1. k + 1 \in 1 .. N  BY <1>1
  <2>2. Pushed(m, e[k + 1][1] + 1, e[k + 1][2], n) \in S  BY <2>1, <1>3, PushRow
  <2>. QED BY <2>2
<1>5. none \in S  BY DEF Rows
<1>6. PICK h : Recursion(h, N, S, none, H)
  <2> HIDE DEF H, S, N, none
  <2>. QED BY <1>1, <1>4, <1>5, RecursionTo
<1>7. /\ h \in [0 .. N -> S] /\ h[0] = none
      /\ \A k \in 0 .. N - 1 : h[k + 1] = H[k][h[k]]
  BY <1>6 DEF Recursion
<1>8. ASSUME NEW k \in 1 .. N
      PROVE  h[k] = [h[k - 1] EXCEPT ![e[k][1] + 1] = Append(@, e[k][2])]
  <2>1. k - 1 \in 0 .. N - 1 /\ k - 1 \in 0 .. N /\ (k - 1) + 1 = k  BY <1>1
  <2>2. h[k] = H[k - 1][h[k - 1]] /\ h[k - 1] \in S  BY <2>1, <1>7
  <2>3. h[k] = Pushed(h[k - 1], e[k][1] + 1, e[k][2], n)  BY <2>1, <2>2
  <2>. QED BY <2>2, <2>3, <1>3, PushRow
<1>9. Is(h)
  <2> DEFINE v(k) == IF k = 0 THEN none
                     ELSE [h[k - 1] EXCEPT ![e[k][1] + 1] = Append(@, e[k][2])]
  <2>1. ASSUME NEW k \in 0 .. N  PROVE h[k] = v(k)
    <3>1. CASE k = 0  BY <3>1, <1>7
    <3>2. CASE k # 0
      <4>1. k \in 1 .. N  BY <1>1, <3>2
      <4>. QED BY <4>1, <3>2, <1>8
    <3>. QED BY <3>1, <3>2
  <2>2. h = [k \in 0 .. N |-> h[k]]  BY <1>7
  <2>3. h = [k \in 0 .. N |-> v(k)]
    <3> HIDE DEF v
    <3>. QED BY <2>1, <2>2
  <2>. QED BY <2>3
<1>10. Is(G)  BY <1>9
<1> HIDE DEF G
<1>11. G[0] = none /\ DOMAIN G = 0 .. N  BY <1>1, <1>10
<1>12. \A k \in 1 .. N : G[k] = [G[k - 1] EXCEPT ![e[k][1] + 1] = Append(@, e[k][2])]
  <2> TAKE k \in 1 .. N
  <2>1. k \in 0 .. N /\ k # 0  BY <1>1
  <2>. QED BY <2>1, <1>10
<1>13. \A k \in 0 .. N : G[k] \in S
  <2> DEFINE T == {k \in 0 .. N : G[k] \in S}
  <2>1. 0 \in T  BY <1>1, <1>5, <1>11
  <2>2. ASSUME NEW k \in 0 .. N - 1, k \in T  PROVE k + 1 \in T
    <3>1. k + 1 \in 1 .. N /\ k + 1 \in 0 .. N /\ (k + 1) - 1 = k /\ G[k] \in S
      BY <1>1, <2>2
    <3>2. G[k + 1] = [G[k] EXCEPT ![e[k + 1][1] + 1] = Append(@, e[k + 1][2])]
      BY <3>1, <1>12
    <3>3. G[k + 1] \in S
      <4> DEFINE g == G[k]
                 r == e[k + 1][1] + 1
                 c == e[k + 1][2]
      <4>1. r \in 1 .. n /\ c \in Nat /\ g \in Rows(n)  BY <3>1, <1>3
      <4>2. G[k + 1] = [g EXCEPT ![r] = Append(@, c)]  BY <3>2
      <4> HIDE DEF g, r, c, S
      <4>3. [g EXCEPT ![r] = Append(@, c)] = Pushed(g, r, c, n) /\ Pushed(g, r, c, n) \in Rows(n)
        BY <4>1, PushRow
      <4>. QED BY <4>2, <4>3 DEF S
    <3>. QED BY <3>1, <3>3
  <2>3. \A k \in 0 .. N : k \in T
    <3> HIDE DEF T, N
    <3>. QED BY <1>1, <2>1, <2>2, InductionTo
  <2>. QED BY <2>3
<1>14. G \in [0 .. N -> S]
  <2>1. G = [k \in 0 .. N |-> G[k]]  BY <1>10
  <2> HIDE DEF S, N
  <2>. QED BY <1>13, <2>1
<1>15. Pushes(G, e, n)  BY <1>11, <1>12, <1>14 DEF Pushes
<1>. QED BY <1>2, <1>15

\* The table behind starts, from 0.
Sizes(t, m, n) ==
    /\ t \in [0 .. n -> Nat] /\ t[0] = 0
    /\ \A k \in 1 .. n : t[k] = t[k - 1] + Len(m[k])

LEMMA SizesTable ==
  ASSUME NEW n \in Nat, NEW m \in Rows(n)
  PROVE  \E t : Sizes(t, m, n) /\ starts(m, n) = [k \in 1 .. n + 1 |-> t[k - 1]]
<1> DEFINE Is(g) == g = [k \in 0 .. n |-> IF k = 0 THEN 0 ELSE g[k - 1] + Len(m[k])]
           H == [k \in 0 .. n - 1 |-> [x \in Nat |-> x + Len(m[k + 1])]]
           G == CHOOSE g : Is(g)
<1>1. starts(m, n) = [k \in 1 .. n + 1 |-> G[k - 1]]  BY DEF starts
<1>2. ASSUME NEW k \in 1 .. n  PROVE Len(m[k]) \in Nat
  <2>1. m[k] \in Seq(Nat)  BY DEF Rows
  <2>. QED BY <2>1, LenProperties
<1>3. StepsIn(H, n, Nat)
  <2> SUFFICES ASSUME NEW k \in 0 .. n - 1, NEW x \in Nat  PROVE H[k][x] \in Nat
    BY DEF StepsIn
  <2>1. k + 1 \in 1 .. n  OBVIOUS
  <2>2. x + Len(m[k + 1]) \in Nat  BY <2>1, <1>2
  <2>. QED BY <2>2
<1>4. PICK h : Recursion(h, n, Nat, 0, H)
  <2> HIDE DEF H
  <2>1. 0 \in Nat  OBVIOUS
  <2>. QED BY <1>3, <2>1, RecursionTo
<1>5. /\ h \in [0 .. n -> Nat] /\ h[0] = 0
      /\ \A k \in 0 .. n - 1 : h[k + 1] = H[k][h[k]]
  BY <1>4 DEF Recursion
<1>6. ASSUME NEW k \in 1 .. n  PROVE h[k] = h[k - 1] + Len(m[k])
  <2>1. k - 1 \in 0 .. n - 1 /\ k - 1 \in 0 .. n /\ (k - 1) + 1 = k  OBVIOUS
  <2>2. h[k] = H[k - 1][h[k - 1]] /\ h[k - 1] \in Nat  BY <2>1, <1>5
  <2>. QED BY <2>1, <2>2
<1>7. Is(h)
  <2> DEFINE v(k) == IF k = 0 THEN 0 ELSE h[k - 1] + Len(m[k])
  <2>1. ASSUME NEW k \in 0 .. n  PROVE h[k] = v(k)
    <3>1. CASE k = 0  BY <3>1, <1>5
    <3>2. CASE k # 0
      <4>1. k \in 1 .. n  BY <3>2
      <4>. QED BY <4>1, <3>2, <1>6
    <3>. QED BY <3>1, <3>2
  <2>2. h = [k \in 0 .. n |-> h[k]]  BY <1>5
  <2>3. h = [k \in 0 .. n |-> v(k)]
    <3> HIDE DEF v
    <3>. QED BY <2>1, <2>2
  <2>. QED BY <2>3
<1>8. Is(G)  BY <1>7
<1> HIDE DEF G
<1>9. G[0] = 0 /\ DOMAIN G = 0 .. n  BY <1>8
<1>10. \A k \in 1 .. n : G[k] = G[k - 1] + Len(m[k])
  <2> TAKE k \in 1 .. n
  <2>1. k \in 0 .. n /\ k # 0  OBVIOUS
  <2>. QED BY <2>1, <1>8
<1>11. \A k \in 0 .. n : G[k] \in Nat
  <2> DEFINE T == {k \in 0 .. n : G[k] \in Nat}
  <2>1. 0 \in T  BY <1>9
  <2>2. ASSUME NEW k \in 0 .. n - 1, k \in T  PROVE k + 1 \in T
    <3>1. k + 1 \in 1 .. n /\ k + 1 \in 0 .. n /\ (k + 1) - 1 = k /\ G[k] \in Nat
      BY <2>2
    <3>2. G[k + 1] = G[k] + Len(m[k + 1]) /\ Len(m[k + 1]) \in Nat  BY <3>1, <1>2, <1>10
    <3>. QED BY <3>1, <3>2
  <2>3. \A k \in 0 .. n : k \in T
    <3> HIDE DEF T
    <3>. QED BY <2>1, <2>2, InductionTo
  <2>. QED BY <2>3
<1>12. G \in [0 .. n -> Nat]
  <2>1. G = [k \in 0 .. n |-> G[k]]  BY <1>8
  <2>. QED BY <1>11, <2>1
<1>13. Sizes(G, m, n)  BY <1>9, <1>10, <1>12 DEF Sizes
<1>. QED BY <1>1, <1>13

(* Sizes only grow.                                                        *)
LEMMA SizesGrow ==
  ASSUME NEW n \in Nat, NEW m \in Rows(n), NEW t, Sizes(t, m, n)
  PROVE  \A k \in 0 .. n : \A j \in 0 .. k : t[j] <= t[k]
<1> DEFINE T == {k \in 0 .. n : \A j \in 0 .. k : t[j] <= t[k]}
<1>1. 0 \in T  BY DEF Sizes
<1>2. ASSUME NEW k \in 0 .. n - 1, k \in T  PROVE k + 1 \in T
  <2>1. k + 1 \in 1 .. n /\ k + 1 \in 0 .. n /\ (k + 1) - 1 = k  OBVIOUS
  <2>2. m[k + 1] \in Seq(Nat)  BY <2>1 DEF Rows
  <2>3. Len(m[k + 1]) \in Nat /\ t[k + 1] = t[k] + Len(m[k + 1]) /\ t[k] \in Nat
    BY <2>1, <2>2, LenProperties DEF Sizes
  <2>4. ASSUME NEW j \in 0 .. k + 1  PROVE t[j] <= t[k + 1]
    <3>1. CASE j = k + 1  BY <3>1, <2>1, <2>3
    <3>2. CASE j # k + 1
      <4>1. j \in 0 .. k /\ j \in 0 .. n  BY <3>2
      <4>2. t[j] <= t[k] /\ t[j] \in Nat  BY <4>1, <1>2 DEF Sizes
      <4>. QED BY <4>2, <2>3
    <3>. QED BY <3>1, <3>2
  <2>. QED BY <2>1, <2>4
<1>3. \A k \in 0 .. n : k \in T
  <2> HIDE DEF T
  <2>. QED BY <1>1, <1>2, InductionTo
<1>. QED BY <1>3

(* Pushing one entry moves the rows behind it by one.                      *)
LEMMA SizesPush ==
  ASSUME NEW n \in Nat, NEW m \in Rows(n), NEW r \in 1 .. n, NEW c \in Nat,
         NEW t, Sizes(t, m, n), NEW u, Sizes(u, Pushed(m, r, c, n), n)
  PROVE  u[n] = t[n] + 1
<1> DEFINE w == Pushed(m, r, c, n)
           T == {k \in 0 .. n : u[k] = t[k] + (IF k >= r THEN 1 ELSE 0)}
<1>1. 0 \in T  BY DEF Sizes
<1>2. ASSUME NEW k \in 0 .. n - 1, k \in T  PROVE k + 1 \in T
  <2>1. k + 1 \in 1 .. n /\ k + 1 \in 0 .. n /\ (k + 1) - 1 = k  OBVIOUS
  <2>2. m[k + 1] \in Seq(Nat)  BY <2>1 DEF Rows
  <2>3. Len(m[k + 1]) \in Nat  BY <2>2, LenProperties
  <2>4. Len(w[k + 1]) = Len(m[k + 1]) + (IF k + 1 = r THEN 1 ELSE 0)
    <3>1. CASE k + 1 = r
      <4>1. w[k + 1] = Append(m[k + 1], c)  BY <2>1, <3>1 DEF Pushed
      <4>2. Len(Append(m[k + 1], c)) = Len(m[k + 1]) + 1  BY <2>2, AppendProperties
      <4>. QED BY <4>1, <4>2, <3>1
    <3>2. CASE k + 1 # r
      <4>1. w[k + 1] = m[k + 1]  BY <2>1, <3>2 DEF Pushed
      <4>. QED BY <4>1, <3>2, <2>3
    <3>. QED BY <3>1, <3>2
  <2> HIDE DEF w
  <2>5. /\ t[k + 1] = t[k] + Len(m[k + 1]) /\ t[k] \in Nat
        /\ u[k + 1] = u[k] + Len(w[k + 1]) /\ u[k] \in Nat
    BY <2>1 DEF Sizes, w
  <2>6. u[k] = t[k] + (IF k >= r THEN 1 ELSE 0)  BY <1>2
  <2>7. u[k + 1] = t[k + 1] + (IF k + 1 >= r THEN 1 ELSE 0)
    <3>1. CASE k + 1 = r
      <4>1. ~ (k >= r) /\ k + 1 >= r  BY <3>1
      <4>2. u[k] = t[k] /\ Len(w[k + 1]) = Len(m[k + 1]) + 1
        BY <4>1, <3>1, <2>4, <2>5, <2>6
      <4>3. u[k + 1] = t[k] + (Len(m[k + 1]) + 1)  BY <4>2, <2>5
      <4>4. t[k] + (Len(m[k + 1]) + 1) = t[k + 1] + 1  BY <2>3, <2>5
      <4>. QED BY <4>1, <4>3, <4>4
    <3>2. CASE k + 1 # r
      <4>1. Len(w[k + 1]) = Len(m[k + 1])  BY <3>2, <2>3, <2>4
      <4>2. CASE k >= r
        <5>1. k + 1 >= r  BY <4>2
        <5>2. u[k] = t[k] + 1  BY <4>2, <2>6
        <5>3. u[k + 1] = t[k + 1] + 1  BY <5>2, <4>1, <2>3, <2>5
        <5>. QED BY <5>1, <5>3
      <4>3. CASE ~ (k >= r)
        <5>1. ~ (k + 1 >= r)  BY <4>3, <3>2
        <5>2. u[k] = t[k]  BY <4>3, <2>5, <2>6
        <5>3. u[k + 1] = t[k + 1] /\ t[k + 1] \in Nat  BY <5>2, <4>1, <2>3, <2>5
        <5>. QED BY <5>1, <5>3
      <4>. QED BY <4>2, <4>3
    <3>. QED BY <3>1, <3>2
  <2>. QED BY <2>1, <2>7
<1>3. \A k \in 0 .. n : k \in T
  <2> HIDE DEF T
  <2>. QED BY <1>1, <1>2, InductionTo
<1>4. n \in T /\ n >= r  BY <1>3
<1>. QED BY <1>4

\* m holds the first k entries of e, each in its row.
Holds(m, e, k, n) ==
    \A r \in 1 .. n, c \in Nat :
        (\E p \in 1 .. Len(m[r]) : m[r][p] = c) <=> (\E i \in 1 .. k : e[i] = <<r - 1, c>>)

LEMMA HoldsPush ==
  ASSUME NEW n \in Nat, NEW e \in Seq(Entry(n)), NEW k \in 0 .. Len(e) - 1,
         NEW m \in Rows(n), Holds(m, e, k, n),
         NEW r, r = e[k + 1][1] + 1, NEW c, c = e[k + 1][2]
  PROVE  Holds(Pushed(m, r, c, n), e, k + 1, n)
<1> DEFINE w == Pushed(m, r, c, n)
<1>1. k + 1 \in 1 .. Len(e) /\ Len(e) \in Nat  BY LenProperties
<1>2. e[k + 1] \in Entry(n)  BY <1>1, ElementOfSeq
<1>3. e[k + 1] = <<r - 1, c>> /\ r \in 1 .. n /\ c \in Nat  BY <1>2 DEF Entry
<1>4. SUFFICES ASSUME NEW q \in 1 .. n, NEW d \in Nat
      PROVE  (\E p \in 1 .. Len(w[q]) : w[q][p] = d)
             <=> (\E i \in 1 .. k + 1 : e[i] = <<q - 1, d>>)
  BY DEF Holds
<1>5. m[q] \in Seq(Nat)  BY DEF Rows
<1>6. Len(m[q]) \in Nat  BY <1>5, LenProperties
<1>7. (\E p \in 1 .. Len(m[q]) : m[q][p] = d) <=> (\E i \in 1 .. k : e[i] = <<q - 1, d>>)
  BY DEF Holds
<1>8. (\E i \in 1 .. k + 1 : e[i] = <<q - 1, d>>)
      <=> (\E i \in 1 .. k : e[i] = <<q - 1, d>>) \/ e[k + 1] = <<q - 1, d>>
  <2>1. \A i \in 1 .. k + 1 : i \in 1 .. k \/ i = k + 1  OBVIOUS
  <2>2. k + 1 \in 1 .. k + 1 /\ \A i \in 1 .. k : i \in 1 .. k + 1  OBVIOUS
  <2>. QED BY <2>1, <2>2
<1>9. CASE q # r
  <2>1. w[q] = m[q]  BY <1>9 DEF Pushed
  <2>2. e[k + 1] # <<q - 1, d>>
    <3>1. q - 1 # r - 1  BY <1>3, <1>9
    <3>. QED BY <3>1, <1>3
  <2>. QED BY <2>1, <2>2, <1>7, <1>8
<1>10. CASE q = r
  <2> DEFINE b == m[q]
             a == Append(b, c)
             L == Len(b)
  <2>1. w[q] = a  BY <1>10 DEF Pushed
  <2>2. Len(a) = L + 1 /\ a[L + 1] = c /\ \A p \in 1 .. L : a[p] = b[p]
    <3>1. b \in Seq(Nat) /\ c \in Nat  BY <1>3, <1>5
    <3> HIDE DEF b
    <3>. QED BY ONLY <3>1, AppendProperties
  <2> HIDE DEF a, w
  <2>3. (\E p \in 1 .. Len(a) : a[p] = d) <=> (\E p \in 1 .. L : m[q][p] = d) \/ c = d
    <3>1. \A p \in 1 .. L + 1 : p \in 1 .. L \/ p = L + 1  BY <1>6
    <3>2. L + 1 \in 1 .. L + 1 /\ \A p \in 1 .. L : p \in 1 .. L + 1  BY <1>6
    <3> HIDE DEF L
    <3>. QED BY <3>1, <3>2, <2>2
  <2>4. e[k + 1] = <<q - 1, d>> <=> c = d  BY <1>3, <1>10
  <2>. QED BY <2>1, <2>3, <2>4, <1>7, <1>8
<1>. QED BY <1>9, <1>10

(* What is pushed is what was given, and as much.                          *)
LEMMA PushedExact ==
  ASSUME NEW n \in Nat, NEW e \in Seq(Entry(n))
  PROVE  /\ pushed(e, n) \in Rows(n) /\ Holds(pushed(e, n), e, Len(e), n)
         /\ \A t : Sizes(t, pushed(e, n), n) => t[n] = Len(e)
<1>1. PICK t : Pushes(t, e, n) /\ pushed(e, n) = t[Len(e)]  BY PushedTable
<1> DEFINE N == Len(e)
           Good(k) == Holds(t[k], e, k, n) /\ \A u : Sizes(u, t[k], n) => u[n] = k
           T == {k \in 0 .. N : Good(k)}
<1>2. N \in Nat  BY LenProperties
<1>3. /\ \A k \in 0 .. N : t[k] \in Rows(n)
      /\ t[0] = [r \in 1 .. n |-> <<>>]
      /\ \A k \in 1 .. N : t[k] = [t[k - 1] EXCEPT ![e[k][1] + 1] = Append(@, e[k][2])]
  BY <1>1 DEF Pushes
<1>4. 0 \in T
  <2>1. \A r \in 1 .. n : t[0][r] = <<>> /\ Len(t[0][r]) = 0  BY <1>3
  <2>2. Holds(t[0], e, 0, n)  BY <2>1 DEF Holds
  <2>3. ASSUME NEW u, Sizes(u, t[0], n)  PROVE u[n] = 0
    <3> DEFINE Z == {k \in 0 .. n : u[k] = 0}
    <3>1. 0 \in Z  BY <2>3 DEF Sizes
    <3>2. ASSUME NEW k \in 0 .. n - 1, k \in Z  PROVE k + 1 \in Z
      <4>1. k + 1 \in 1 .. n /\ k + 1 \in 0 .. n /\ (k + 1) - 1 = k  OBVIOUS
      <4>2. u[k + 1] = u[k] + Len(t[0][k + 1])  BY <4>1, <2>3 DEF Sizes
      <4>. QED BY <4>1, <4>2, <3>2, <2>1
    <3>3. \A k \in 0 .. n : k \in Z
      <4> HIDE DEF Z
      <4>. QED BY <3>1, <3>2, InductionTo
    <3>. QED BY <3>3
  <2>. QED BY <2>2, <2>3, <1>2
<1>5. ASSUME NEW k \in 0 .. N - 1, k \in T  PROVE k + 1 \in T
  <2> DEFINE m == t[k]
             r == e[k + 1][1] + 1
             c == e[k + 1][2]
  <2>1. k + 1 \in 1 .. N /\ k + 1 \in 0 .. N /\ (k + 1) - 1 = k /\ k \in 0 .. N
    BY <1>2
  <2>2. e[k + 1] \in Entry(n)  BY <2>1, ElementOfSeq
  <2>3. r \in 1 .. n /\ c \in Nat
    <3>1. e[k + 1][1] \in 0 .. n - 1 /\ c \in Nat  BY <2>2 DEF Entry
    <3>. QED BY <3>1
  <2>4. m \in Rows(n)  BY <2>1, <1>3
  <2>5. t[k + 1] = [m EXCEPT ![r] = Append(@, c)]  BY <2>1, <1>3
  <2>6. Good(k)  BY <1>5
  <2>7. Holds(m, e, k, n) /\ \A u : Sizes(u, m, n) => u[n] = k  BY <2>6
  <2>8. r = e[k + 1][1] + 1 /\ c = e[k + 1][2]  OBVIOUS
  <2> HIDE DEF m, r, c
  <2>9. t[k + 1] = Pushed(m, r, c, n)  BY <2>3, <2>4, <2>5, PushRow
  <2>10. Holds(Pushed(m, r, c, n), e, k + 1, n)  BY <2>1, <2>4, <2>7, <2>8, HoldsPush
  <2>11. ASSUME NEW u, Sizes(u, Pushed(m, r, c, n), n)  PROVE u[n] = k + 1
    <3>1. PICK v : Sizes(v, m, n)  BY <2>4, SizesTable
    <3>2. u[n] = v[n] + 1  BY <2>3, <2>4, <2>11, <3>1, SizesPush
    <3>. QED BY <3>1, <3>2, <2>7
  <2>12. Good(k + 1)  BY <2>9, <2>10, <2>11
  <2>. QED BY <2>1, <2>12
<1>6. \A k \in 0 .. N : k \in T
  <2> HIDE DEF T, N
  <2>. QED BY <1>2, <1>4, <1>5, InductionTo
<1>7. N \in 0 .. N  BY <1>2
<1>8. Good(N)  BY <1>6, <1>7
<1>. QED BY <1>1, <1>3, <1>7, <1>8
----------------------------------------------------------------------------
(* The iterator                                                            *)

\* The table behind joined.
Joins(f, m, n) ==
    /\ f \in [0 .. n -> Seq(Nat)] /\ f[0] = <<>>
    /\ \A k \in 1 .. n : f[k] = f[k - 1] \o m[k]

LEMMA JoinsTable ==
  ASSUME NEW n \in Nat, NEW m \in Rows(n)
  PROVE  \E f : Joins(f, m, n) /\ joined(m, n) = f[n]
<1> DEFINE S == Seq(Nat)
           Is(g) == g = [k \in 0 .. n |-> IF k = 0 THEN <<>> ELSE g[k - 1] \o m[k]]
           H == [k \in 0 .. n - 1 |-> [x \in S |-> x \o m[k + 1]]]
           G == CHOOSE g : Is(g)
<1>1. joined(m, n) = G[n]  BY DEF joined
<1>2. ASSUME NEW k \in 1 .. n  PROVE m[k] \in S
  BY DEF Rows
<1>3. \A x \in S : \A y \in S : x \o y \in S  BY ConcatProperties
<1>4. <<>> \in S  OBVIOUS
<1>5. StepsIn(H, n, S)
  <2> SUFFICES ASSUME NEW k \in 0 .. n - 1, NEW x \in S  PROVE H[k][x] \in S
    BY DEF StepsIn
  <2>1. k + 1 \in 1 .. n  OBVIOUS
  <2>2. x \o m[k + 1] \in S
    <3>1. m[k + 1] \in S  BY <2>1, <1>2
    <3> HIDE DEF S
    <3>. QED BY <3>1, <1>3
  <2>. QED BY <2>2
<1>6. PICK h : Recursion(h, n, S, <<>>, H)
  <2> HIDE DEF H, S
  <2>. QED BY <1>4, <1>5, RecursionTo
<1>7. /\ h \in [0 .. n -> S] /\ h[0] = <<>>
      /\ \A k \in 0 .. n - 1 : h[k + 1] = H[k][h[k]]
  BY <1>6 DEF Recursion
<1>8. ASSUME NEW k \in 1 .. n  PROVE h[k] = h[k - 1] \o m[k]
  <2>1. k - 1 \in 0 .. n - 1 /\ k - 1 \in 0 .. n /\ (k - 1) + 1 = k  OBVIOUS
  <2>2. h[k] = H[k - 1][h[k - 1]] /\ h[k - 1] \in S  BY <2>1, <1>7
  <2>. QED BY <2>1, <2>2
<1>9. Is(h)
  <2> DEFINE v(k) == IF k = 0 THEN <<>> ELSE h[k - 1] \o m[k]
  <2>1. ASSUME NEW k \in 0 .. n  PROVE h[k] = v(k)
    <3>1. CASE k = 0  BY <3>1, <1>7
    <3>2. CASE k # 0
      <4>1. k \in 1 .. n  BY <3>2
      <4>. QED BY <4>1, <3>2, <1>8
    <3>. QED BY <3>1, <3>2
  <2>2. h = [k \in 0 .. n |-> h[k]]  BY <1>7
  <2>3. h = [k \in 0 .. n |-> v(k)]
    <3> HIDE DEF v
    <3>. QED BY <2>1, <2>2
  <2>. QED BY <2>3
<1>10. Is(G)  BY <1>9
<1> HIDE DEF G
<1>11. G[0] = <<>> /\ DOMAIN G = 0 .. n  BY <1>10
<1>12. \A k \in 1 .. n : G[k] = G[k - 1] \o m[k]
  <2> TAKE k \in 1 .. n
  <2>1. k \in 0 .. n /\ k # 0  OBVIOUS
  <2>. QED BY <2>1, <1>10
<1>13. \A k \in 0 .. n : G[k] \in S
  <2> DEFINE T == {k \in 0 .. n : G[k] \in S}
  <2>1. 0 \in T  BY <1>11
  <2>2. ASSUME NEW k \in 0 .. n - 1, k \in T  PROVE k + 1 \in T
    <3>1. k + 1 \in 1 .. n /\ k + 1 \in 0 .. n /\ (k + 1) - 1 = k /\ G[k] \in S
      BY <2>2
    <3>2. G[k + 1] = G[k] \o m[k + 1] /\ m[k + 1] \in S  BY <3>1, <1>2, <1>12
    <3> HIDE DEF S
    <3>3. G[k + 1] \in S  BY <3>1, <3>2, <1>3
    <3>. QED BY <3>1, <3>3
  <2>3. \A k \in 0 .. n : k \in T
    <3> HIDE DEF T
    <3>. QED BY <2>1, <2>2, InductionTo
  <2>. QED BY <2>3
<1>14. G \in [0 .. n -> S]
  <2>1. G = [k \in 0 .. n |-> G[k]]  BY <1>10
  <2> HIDE DEF S
  <2>. QED BY <1>13, <2>1
<1>15. Joins(G, m, n)  BY <1>11, <1>12, <1>14 DEF Joins
<1>. QED BY <1>1, <1>15

\* The rows up to k lie one after the other in f, each where t says.
Laid(f, m, t, k) ==
    /\ Len(f) = t[k]
    /\ \A r \in 1 .. k : \A p \in 1 .. Len(m[r]) : f[t[r - 1] + p] = m[r][p]

LEMMA LaidPush ==
  ASSUME NEW n \in Nat, NEW m \in Rows(n), NEW t, Sizes(t, m, n),
         NEW k \in 0 .. n - 1, NEW f \in Seq(Nat), Laid(f, m, t, k)
  PROVE  Laid(f \o m[k + 1], m, t, k + 1)
<1> DEFINE b == m[k + 1]
           g == f \o b
<1>1. k + 1 \in 1 .. n /\ k \in 0 .. n /\ (k + 1) - 1 = k  OBVIOUS
<1>2. b \in Seq(Nat)  BY <1>1 DEF Rows
<1>3. t[k + 1] = t[k] + Len(b) /\ t[k] \in Nat  BY <1>1 DEF Sizes
<1>4. Len(f) = t[k]  BY DEF Laid
<1>5. ASSUME NEW r \in 1 .. k, NEW p \in 1 .. Len(m[r])
      PROVE  f[t[r - 1] + p] = m[r][p] /\ t[r - 1] + p \in 1 .. Len(f)
  <2>1. r \in 1 .. n /\ r - 1 \in 0 .. n /\ r \in 0 .. k  OBVIOUS
  <2>2. m[r] \in Seq(Nat)  BY <2>1 DEF Rows
  <2>3. Len(m[r]) \in Nat  BY <2>2, LenProperties
  <2>4. t[r] = t[r - 1] + Len(m[r]) /\ t[r - 1] \in Nat /\ t[r] \in Nat
    BY <2>1 DEF Sizes
  <2>5. t[r] <= t[k]  BY <1>1, <2>1, SizesGrow
  <2> DEFINE L == Len(m[r])
             a == t[r - 1]
  <2>6. a + p \in 1 .. t[k]
    <3>1. L \in Nat /\ p \in 1 .. L /\ a \in Nat /\ t[k] \in Nat /\ a + L <= t[k]
      BY <1>3, <2>3, <2>4, <2>5
    <3> HIDE DEF L, a
    <3>. QED BY <3>1
  <2>7. f[a + p] = m[r][p]  BY DEF Laid
  <2>. QED BY <1>4, <2>6, <2>7
<1> HIDE DEF b
<1>6. /\ Len(g) = Len(f) + Len(b)
      /\ \A i \in 1 .. Len(f) + Len(b) :
            g[i] = IF i <= Len(f) THEN f[i] ELSE b[i - Len(f)]
  BY <1>2, ConcatProperties
<1>7. Len(f) \in Nat /\ Len(b) \in Nat  BY <1>2, LenProperties
<1> HIDE DEF g
<1>8. Len(g) = t[k + 1]  BY <1>3, <1>4, <1>6
<1>9. ASSUME NEW r \in 1 .. k + 1, NEW p \in 1 .. Len(m[r])
      PROVE  g[t[r - 1] + p] = m[r][p]
  <2>1. CASE r = k + 1
    <3>1. m[r] = b /\ t[r - 1] = Len(f)  BY <2>1, <1>1, <1>4 DEF b
    <3>2. p \in 1 .. Len(b)  BY <3>1
    <3>3. /\ Len(f) + p \in 1 .. Len(f) + Len(b) /\ ~ (Len(f) + p <= Len(f))
          /\ (Len(f) + p) - Len(f) = p
      BY <3>2, <1>7
    <3>4. g[Len(f) + p] = b[p]  BY <3>3, <1>6
    <3>. QED BY <3>1, <3>4
  <2>2. CASE r # k + 1
    <3>1. r \in 1 .. k  BY <2>2
    <3>2. f[t[r - 1] + p] = m[r][p] /\ t[r - 1] + p \in 1 .. Len(f)  BY <3>1, <1>5
    <3> DEFINE i == t[r - 1] + p
    <3>3. i \in 1 .. Len(f) /\ f[i] = m[r][p]  BY <3>2
    <3> HIDE DEF i
    <3>4. i \in 1 .. Len(f) + Len(b) /\ i <= Len(f)  BY <3>3, <1>7
    <3>5. g[i] = f[i]  BY <3>4, <1>6
    <3>. QED BY <3>3, <3>5 DEF i
  <2>. QED BY <2>1, <2>2
<1>. QED BY <1>8, <1>9 DEF Laid, g, b

(* The rows, joined, lie where their sizes say.                            *)
LEMMA JoinedLaid ==
  ASSUME NEW n \in Nat, NEW m \in Rows(n), NEW t, Sizes(t, m, n)
  PROVE  joined(m, n) \in Seq(Nat) /\ Laid(joined(m, n), m, t, n)
<1>1. PICK f : Joins(f, m, n) /\ joined(m, n) = f[n]  BY JoinsTable
<1>2. /\ \A k \in 0 .. n : f[k] \in Seq(Nat)
      /\ f[0] = <<>> /\ \A k \in 1 .. n : f[k] = f[k - 1] \o m[k]
  BY <1>1 DEF Joins
<1> DEFINE T == {k \in 0 .. n : Laid(f[k], m, t, k)}
<1>3. 0 \in T
  <2>1. Len(f[0]) = 0 /\ t[0] = 0  BY <1>2 DEF Sizes
  <2>2. Laid(f[0], m, t, 0)  BY <2>1 DEF Laid
  <2>. QED BY <2>2
<1>4. ASSUME NEW k \in 0 .. n - 1, k \in T  PROVE k + 1 \in T
  <2>1. k + 1 \in 1 .. n /\ k + 1 \in 0 .. n /\ (k + 1) - 1 = k /\ k \in 0 .. n
    OBVIOUS
  <2>2. f[k] \in Seq(Nat) /\ Laid(f[k], m, t, k)  BY <2>1, <1>2, <1>4
  <2>3. f[k + 1] = f[k] \o m[k + 1]  BY <2>1, <1>2
  <2>4. Laid(f[k] \o m[k + 1], m, t, k + 1)  BY <2>2, LaidPush
  <2>. QED BY <2>1, <2>3, <2>4
<1>5. \A k \in 0 .. n : k \in T
  <2> HIDE DEF T
  <2>. QED BY <1>3, <1>4, InductionTo
<1>6. n \in T /\ n \in 0 .. n  BY <1>5
<1>. QED BY <1>1, <1>2, <1>6

\* Item i, from 0, is in row x.
InRow(t, x, i) == t[x - 1] <= i /\ i < t[x]

LEMMA SkipExact ==
  ASSUME NEW n \in Nat, NEW m \in Rows(n), NEW t, Sizes(t, m, n),
         NEW s, s = [k \in 1 .. n + 1 |-> t[k - 1]],
         NEW i \in Nat, i < t[n], NEW x \in 1 .. n, t[x - 1] <= i
  PROVE  skip(s, x, i) \in 1 .. n /\ InRow(t, skip(s, x, i), i)
<1>1. Len(s) = n + 1
  <2> DEFINE N == n + 1
  <2>1. N \in Nat /\ \A k \in 1 .. N : k - 1 \in 0 .. n  OBVIOUS
  <2>2. s \in [1 .. N -> Nat]  BY <2>1 DEF Sizes
  <2> HIDE DEF N
  <2>3. s \in Seq(Nat) /\ DOMAIN s = 1 .. N  BY <2>1, <2>2, SeqDef
  <2>. QED BY <2>1, <2>3, LenProperties DEF N
<1>2. /\ \A k \in 0 .. n : t[k] \in Nat
      /\ \A k \in 0 .. n : k + 1 \in 1 .. n + 1 /\ s[k + 1] = t[k]
  BY DEF Sizes
<1> DEFINE Here(k) == i < s[k + 1] /\ \A j \in x .. k - 1 : s[j + 1] <= i
           C == {k \in x .. n : i < t[k]}
<1>3. \E k \in x .. n : Here(k)
  <2>1. C \subseteq Nat /\ n \in C  OBVIOUS
  <2>2. PICK k \in C : \A j \in C : k <= j
    <3> HIDE DEF C
    <3>. QED BY <2>1, LeastNumber
  <2>3. k \in x .. n /\ k \in 0 .. n /\ i < s[k + 1]  BY <1>2
  <2>4. ASSUME NEW j \in x .. k - 1  PROVE s[j + 1] <= i
    <3>1. j \in x .. n /\ j \in 0 .. n /\ ~ (k <= j)  BY <2>3
    <3>2. j \notin C  BY <3>1, <2>2
    <3>3. ~ (i < t[j])  BY <3>1, <3>2
    <3>4. t[j] \in Nat /\ s[j + 1] = t[j]  BY <3>1, <1>2
    <3>. QED BY <3>3, <3>4
  <2>. QED BY <2>3, <2>4
<1> DEFINE y == skip(s, x, i)
<1>4. y = CHOOSE k \in x .. n : Here(k)
  <2>1. Len(s) - 1 = n  BY <1>1
  <2>. QED BY <2>1 DEF skip
<1>5. y \in x .. n /\ Here(y)
  <2> HIDE DEF Here, y
  <2>. QED BY <1>3, <1>4
<1>6. y \in 1 .. n /\ y \in 0 .. n /\ y - 1 \in 0 .. n  BY <1>5
<1>7. i < t[y]  BY <1>2, <1>5, <1>6
<1>8. t[y - 1] <= i
  <2>1. CASE y = x  BY <2>1
  <2>2. CASE y # x
    <3>1. y - 1 \in x .. y - 1 /\ (y - 1) + 1 = y  BY <2>2, <1>5, <1>6
    <3>2. s[(y - 1) + 1] <= i  BY <3>1, <1>5
    <3>3. s[(y - 1) + 1] = t[y - 1]  BY <1>2, <1>6
    <3>. QED BY <3>2, <3>3
  <2>. QED BY <2>1, <2>2
<1>. QED BY <1>6, <1>7, <1>8 DEF InRow

\* Where the iterator is at item i, from 1.
Found(at, t, n) ==
    \A i \in 1 .. t[n] : at[i] \in 1 .. n /\ InRow(t, at[i], i - 1)

LEMMA IterTable ==
  ASSUME NEW n \in Nat, NEW m \in Rows(n), NEW t, Sizes(t, m, n),
         NEW M, M.indptr = [k \in 1 .. n + 1 |-> t[k - 1]], Len(M.indices) = t[n]
  PROVE  \E at : /\ Found(at, t, n)
                 /\ iter(M) = [i \in 1 .. t[n] |-> <<at[i] - 1, M.indices[i]>>]
<1> DEFINE N == t[n]
           s == [k \in 1 .. n + 1 |-> t[k - 1]]
           S == 1 .. n + 1
           Is(g) == g = [i \in 0 .. Len(M.indices) |->
                           IF i = 0 THEN 1 ELSE skip(M.indptr, g[i - 1], i - 1)]
           ok(x, k) == x \in 1 .. n /\ t[x - 1] <= k
           H == [k \in 0 .. N - 1 |-> [x \in S |-> IF ok(x, k) THEN skip(s, x, k) ELSE 1]]
           G == CHOOSE g : Is(g)
<1>1. N \in Nat /\ t[0] = 0 /\ \A k \in 0 .. n : t[k] \in Nat  BY DEF Sizes
<1>2. iter(M) = [i \in 1 .. N |-> <<G[i] - 1, M.indices[i]>>]
  <2>1. iter(M) = [i \in 1 .. Len(M.indices) |-> <<G[i] - 1, M.indices[i]>>]
    BY DEF iter
  <2> HIDE DEF G
  <2>. QED BY <2>1
<1>3. ASSUME NEW k \in 0 .. N - 1, NEW x, ok(x, k)
      PROVE  skip(s, x, k) \in 1 .. n /\ InRow(t, skip(s, x, k), k)
  <2>1. k \in Nat /\ k < t[n]  BY <1>1
  <2>2. x \in 1 .. n /\ t[x - 1] <= k  BY <1>3
  <2>3. s = [j \in 1 .. n + 1 |-> t[j - 1]]  OBVIOUS
  <2> HIDE DEF s, N
  <2>. QED BY <2>1, <2>2, <2>3, SkipExact
<1>4. 1 \in S  OBVIOUS
<1>5. StepsIn(H, N, S)
  <2> SUFFICES ASSUME NEW k \in 0 .. N - 1, NEW x \in S  PROVE H[k][x] \in S
    BY DEF StepsIn
  <2>1. H[k][x] = IF ok(x, k) THEN skip(s, x, k) ELSE 1  OBVIOUS
  <2>2. CASE ok(x, k)
    <3>1. skip(s, x, k) \in 1 .. n  BY <2>2, <1>3
    <3>2. H[k][x] = skip(s, x, k)  BY <2>1, <2>2
    <3> HIDE DEF H, s
    <3>. QED BY <3>1, <3>2
  <2>3. CASE ~ ok(x, k)  BY <2>1, <2>3, <1>4
  <2>. QED BY <2>2, <2>3
<1>6. PICK h : Recursion(h, N, S, 1, H)
  <2> HIDE DEF H, S, N
  <2>. QED BY <1>1, <1>4, <1>5, RecursionTo
<1>7. /\ h \in [0 .. N -> S] /\ h[0] = 1
      /\ \A k \in 0 .. N - 1 : h[k + 1] = H[k][h[k]]
  BY <1>6 DEF Recursion
<1>8. \A k \in 0 .. N - 1 : \A x \in S : ok(x, k) => H[k][x] = skip(s, x, k)
  OBVIOUS
<1>9. \A k \in 0 .. N - 1 : ok(h[k], k)
  <2>1. CASE N = 0  BY <2>1
  <2>2. CASE N # 0
    <3> DEFINE T == {k \in 0 .. N - 1 : ok(h[k], k)}
    <3>1. 0 \in T
      <4>1. n # 0  BY <2>2, <1>1
      <4>2. ok(1, 0)  BY <4>1, <1>1
      <4>. QED BY <4>2, <2>2, <1>1, <1>7
    <3>2. ASSUME NEW k \in 0 .. (N - 1) - 1, k \in T  PROVE k + 1 \in T
      <4>1. /\ k \in 0 .. N - 1 /\ k + 1 \in 0 .. N - 1 /\ k \in 0 .. N
            /\ h[k] \in S /\ ok(h[k], k)
        BY <1>1, <1>7, <3>2
      <4>2. h[k + 1] = skip(s, h[k], k)  BY <4>1, <1>7, <1>8
      <4>3. h[k + 1] \in 1 .. n /\ InRow(t, h[k + 1], k)  BY <4>1, <4>2, <1>3
      <4>4. t[h[k + 1] - 1] <= k /\ t[h[k + 1] - 1] \in Nat
        <5>1. h[k + 1] - 1 \in 0 .. n  BY <4>3
        <5>. QED BY <5>1, <4>3, <1>1 DEF InRow
      <4>5. ok(h[k + 1], k + 1)  BY <4>3, <4>4
      <4>. QED BY <4>1, <4>5
    <3>3. N - 1 \in Nat  BY <1>1, <2>2
    <3>4. \A k \in 0 .. N - 1 : k \in T
      <4> HIDE DEF T, N
      <4>. QED BY <3>1, <3>2, <3>3, InductionTo
    <3>. QED BY <3>4
  <2>. QED BY <2>1, <2>2
<1>10. ASSUME NEW i \in 1 .. N
       PROVE  /\ h[i] = skip(s, h[i - 1], i - 1)
              /\ h[i] \in 1 .. n /\ InRow(t, h[i], i - 1)
  <2>1. i - 1 \in 0 .. N - 1 /\ i - 1 \in 0 .. N /\ (i - 1) + 1 = i  BY <1>1
  <2>2. h[i - 1] \in S /\ ok(h[i - 1], i - 1)  BY <2>1, <1>7, <1>9
  <2>3. h[i] = skip(s, h[i - 1], i - 1)  BY <2>1, <2>2, <1>7, <1>8
  <2>. QED BY <2>1, <2>2, <2>3, <1>3
<1>11. Is(h)
  <2> DEFINE v(i) == IF i = 0 THEN 1 ELSE skip(s, h[i - 1], i - 1)
  <2>1. ASSUME NEW i \in 0 .. N  PROVE h[i] = v(i)
    <3>1. CASE i = 0  BY <3>1, <1>7
    <3>2. CASE i # 0
      <4>1. i \in 1 .. N  BY <3>2, <1>1
      <4>. QED BY <4>1, <3>2, <1>10
    <3>. QED BY <3>1, <3>2
  <2>2. h = [i \in 0 .. N |-> h[i]]  BY <1>7
  <2>3. h = [i \in 0 .. N |-> v(i)]
    <3> HIDE DEF v
    <3>. QED BY <2>1, <2>2
  <2>4. Len(M.indices) = N /\ M.indptr = s  OBVIOUS
  <2> HIDE DEF N, s
  <2>. QED BY <2>3, <2>4
<1>12. Is(G)  BY <1>11
<1> HIDE DEF G
<1>13. \A i \in 0 .. N : G[i] = h[i]
  <2> DEFINE T == {i \in 0 .. N : G[i] = h[i]}
  <2>1. 0 \in T
    <3>1. 0 \in 0 .. N  BY <1>1
    <3>2. G[0] = 1  BY <3>1, <1>12
    <3>. QED BY <3>1, <3>2, <1>7
  <2>2. ASSUME NEW k \in 0 .. N - 1, k \in T  PROVE k + 1 \in T
    <3>1. k + 1 \in 1 .. N /\ k + 1 \in 0 .. N /\ k + 1 # 0 /\ (k + 1) - 1 = k /\ G[k] = h[k]
      BY <1>1, <2>2
    <3>2. G[k + 1] = skip(s, G[k], k)  BY <3>1, <1>12
    <3>3. h[k + 1] = skip(s, h[k], k)  BY <3>1, <1>10
    <3>. QED BY <3>1, <3>2, <3>3
  <2>3. \A k \in 0 .. N : k \in T
    <3> HIDE DEF T, N
    <3>. QED BY <1>1, <2>1, <2>2, InductionTo
  <2>. QED BY <2>3
<1>14. Found(G, t, n)
  <2> SUFFICES ASSUME NEW i \in 1 .. N
      PROVE  G[i] \in 1 .. n /\ InRow(t, G[i], i - 1)
    BY DEF Found
  <2>1. i \in 0 .. N  BY <1>1
  <2>. QED BY <2>1, <1>10, <1>13
<1>. QED BY <1>2, <1>14

(* The rows at which an item can be are one.                               *)
LEMMA OneRow ==
  ASSUME NEW n \in Nat, NEW m \in Rows(n), NEW t, Sizes(t, m, n), NEW i \in Nat,
         NEW x \in 1 .. n, NEW y \in 1 .. n, InRow(t, x, i), InRow(t, y, i)
  PROVE  x = y
<1>1. \A k \in 0 .. n : t[k] \in Nat  BY DEF Sizes
<1>2. ASSUME NEW u \in 1 .. n, NEW v \in 1 .. n, InRow(t, u, i), InRow(t, v, i), u < v
      PROVE  FALSE
  <2>1. v - 1 \in 0 .. n /\ u \in 0 .. v - 1 /\ u \in 0 .. n  BY <1>2
  <2>2. t[u] <= t[v - 1]  BY <2>1, SizesGrow
  <2>3. t[v - 1] <= i /\ i < t[u] /\ t[u] \in Nat /\ t[v - 1] \in Nat
    BY <2>1, <1>1, <1>2 DEF InRow
  <2>. QED BY <2>2, <2>3
<1>3. ~ (x < y) /\ ~ (y < x)  BY <1>2
<1>. QED BY <1>3

(* The iterator of a matrix returns the entries it was made from.          *)
LEMMA IterExact ==
  ASSUME NEW n \in Nat, NEW e \in Seq(Entry(n)), NEW cols
  PROVE  /\ Len(iter(SparseMatrix(e, n, cols))) = Len(e)
         /\ ToSet(iter(SparseMatrix(e, n, cols))) = ToSet(e)
<1> DEFINE m == pushed(e, n)
           M == SparseMatrix(e, n, cols)
           I == joined(m, n)
           it == iter(M)
<1>1. m \in Rows(n) /\ Holds(m, e, Len(e), n) /\ \A t : Sizes(t, m, n) => t[n] = Len(e)
  BY PushedExact
<1>2. M = [indices |-> I, indptr |-> starts(m, n), cols |-> cols]  BY DEF SparseMatrix
<1> HIDE DEF m
<1>3. PICK t : Sizes(t, m, n) /\ starts(m, n) = [k \in 1 .. n + 1 |-> t[k - 1]]
  BY <1>1, SizesTable
<1>4. I \in Seq(Nat) /\ Laid(I, m, t, n)  BY <1>1, <1>3, JoinedLaid
<1>5. t[n] = Len(e) /\ Len(I) = t[n] /\ Len(e) \in Nat
  BY <1>1, <1>3, <1>4, LenProperties DEF Laid
<1>6. M.indices = I /\ M.indptr = starts(m, n)  BY <1>2
<1> HIDE DEF M, I
<1>7. PICK at : Found(at, t, n) /\ it = [i \in 1 .. t[n] |-> <<at[i] - 1, M.indices[i]>>]
  BY <1>1, <1>3, <1>5, <1>6, IterTable
<1> DEFINE N == Len(e)
<1>8. it = [i \in 1 .. N |-> <<at[i] - 1, I[i]>>]  BY <1>5, <1>6, <1>7
<1>9. /\ \A k \in 0 .. n : t[k] \in Nat
      /\ \A k \in 1 .. n : t[k] = t[k - 1] + Len(m[k]) /\ Len(m[k]) \in Nat
  <2>1. \A k \in 1 .. n : m[k] \in Seq(Nat)  BY <1>1 DEF Rows
  <2>2. \A k \in 1 .. n : Len(m[k]) \in Nat  BY <2>1, LenProperties
  <2>. QED BY <2>2, <1>3 DEF Sizes
<1> HIDE DEF it
<1>10. ASSUME NEW i \in 1 .. N  PROVE it[i] \in ToSet(e) /\ it[i] \in Entry(n)
  <2> DEFINE r == at[i]
             p == i - t[r - 1]
  <2>1. r \in 1 .. n /\ InRow(t, r, i - 1)  BY <1>5, <1>7 DEF Found
  <2>2. /\ r - 1 \in 0 .. n /\ t[r - 1] \in Nat
        /\ t[r] = t[r - 1] + Len(m[r]) /\ Len(m[r]) \in Nat
    <3>1. r \in 1 .. n /\ r - 1 \in 0 .. n  BY <2>1
    <3> HIDE DEF r
    <3>. QED BY <3>1, <1>9
  <2>3. p \in 1 .. Len(m[r]) /\ t[r - 1] + p = i
    <3> DEFINE a == t[r - 1]
               L == Len(m[r])
    <3>1. a \in Nat /\ L \in Nat /\ i \in Nat /\ a <= i - 1 /\ i - 1 < a + L
      BY <2>1, <2>2, <1>5 DEF InRow
    <3> HIDE DEF a, L
    <3>2. i - a \in 1 .. L /\ a + (i - a) = i  BY <3>1
    <3>. QED BY <3>2 DEF a, L
  <2>4. I[i] = m[r][p]  BY <2>1, <2>3, <1>4 DEF Laid
  <2>5. I[i] \in Nat
    <3>1. i \in 1 .. Len(I)  BY <1>5
    <3>. QED BY <3>1, <1>4, ElementOfSeq
  <2>6. it[i] = <<r - 1, I[i]>>  BY <1>8
  <2> HIDE DEF r, p
  <2>7. \E q \in 1 .. Len(m[r]) : m[r][q] = I[i]  BY <2>3, <2>4
  <2>8. \E j \in 1 .. Len(e) : e[j] = <<r - 1, I[i]>>  BY <2>1, <2>5, <2>7, <1>1 DEF Holds
  <2>9. DOMAIN e = 1 .. Len(e)  BY LenProperties
  <2>10. it[i] \in ToSet(e)  BY <2>6, <2>8, <2>9 DEF ToSet
  <2>11. it[i] \in Entry(n)  BY <2>1, <2>5, <2>6 DEF Entry
  <2>. QED BY <2>10, <2>11
<1>11. it \in Seq(Entry(n)) /\ DOMAIN it = 1 .. N
  <2>1. DOMAIN it = 1 .. N  BY <1>8
  <2>2. it = [i \in 1 .. N |-> it[i]]  BY <1>8
  <2>3. N \in Nat  BY <1>5
  <2> HIDE DEF N
  <2>4. it \in [1 .. N -> Entry(n)]  BY <1>10, <2>1, <2>2
  <2>. QED BY <2>1, <2>3, <2>4, SeqDef
<1>12. Len(it) = N  BY <1>5, <1>11, LenProperties
<1>13. ASSUME NEW y \in ToSet(e)  PROVE y \in ToSet(it)
  <2>1. PICK j \in 1 .. Len(e) : e[j] = y  BY <1>13, LenProperties DEF ToSet
  <2>2. y \in Entry(n)  BY <2>1, ElementOfSeq
  <2>3. PICK r \in 1 .. n, c \in Nat : y = <<r - 1, c>>
    <3>1. PICK a \in 0 .. n - 1, c \in Nat : y = <<a, c>>  BY <2>2 DEF Entry
    <3>2. a + 1 \in 1 .. n /\ (a + 1) - 1 = a  OBVIOUS
    <3>. QED BY <3>1, <3>2
  <2>4. \E k \in 1 .. Len(e) : e[k] = <<r - 1, c>>  BY <2>1, <2>3
  <2>5. PICK p \in 1 .. Len(m[r]) : m[r][p] = c  BY <2>4, <1>1 DEF Holds
  <2> DEFINE i == t[r - 1] + p
  <2>6. /\ r - 1 \in 0 .. n /\ t[r - 1] \in Nat /\ t[r] \in Nat /\ r \in 0 .. n
        /\ t[r] = t[r - 1] + Len(m[r]) /\ Len(m[r]) \in Nat
    BY <1>9
  <2>7. t[r] <= t[n]
    <3>1. n \in 0 .. n /\ r \in 0 .. n  BY <2>6
    <3>. QED BY <3>1, <1>1, <1>3, SizesGrow
  <2>8. i \in 1 .. N /\ i - 1 \in Nat /\ InRow(t, r, i - 1)
    <3> DEFINE a == t[r - 1]
               L == Len(m[r])
    <3>1. /\ t[n] = N /\ N \in Nat /\ a \in Nat /\ L \in Nat /\ t[r] = a + L
          /\ t[r] <= t[n] /\ p \in 1 .. L
      BY <1>5, <2>6, <2>7
    <3> HIDE DEF N, a, L
    <3>2. a + p \in 1 .. N /\ (a + p) - 1 \in Nat /\ a <= (a + p) - 1 /\ (a + p) - 1 < t[r]
      BY <3>1
    <3>. QED BY <3>2 DEF InRow, a
  <2>9. I[i] = c  BY <2>5, <1>4 DEF Laid
  <2> HIDE DEF i, N
  <2>10. at[i] \in 1 .. n /\ InRow(t, at[i], i - 1)
    BY <2>8, <1>5, <1>7 DEF Found, N
  <2>11. at[i] = r  BY <2>8, <2>10, <1>1, <1>3, OneRow
  <2>12. it[i] = y  BY <2>3, <2>8, <2>9, <2>11, <1>8
  <2>. QED BY <2>8, <2>12, <1>11 DEF ToSet
<1>14. ToSet(it) = ToSet(e)
  <2>1. ASSUME NEW y \in ToSet(it)  PROVE y \in ToSet(e)
    <3>1. PICK i \in 1 .. N : it[i] = y  BY <2>1, <1>11 DEF ToSet
    <3>. QED BY <3>1, <1>10
  <2>. QED BY <2>1, <1>13
<1>. QED BY <1>12, <1>14 DEF it, M
----------------------------------------------------------------------------
(* The index check                                                         *)

Fits(e) == e[1] < shape.num_cons /\ e[2] <= shape.num_io + shape.num_vars

Typed ==
    /\ stage \in {"coo", "rejected", "shape", "padded"}
    /\ rows \in Nat /\ coo \in Seq(Entry(rows))
    /\ shape.num_cons \in Nat /\ shape.num_vars \in Nat /\ shape.num_io \in Nat
Refused == stage = "rejected" => \E e \in ToSet(coo) : ~ Fits(e)
Made ==
    stage \in {"shape", "padded"} => shape.M = matrix /\ \A e \in ToSet(coo) : Fits(e)
Paddings == stage = "padded" => padded = pad(shape)
IInv == Typed /\ Refused /\ Made /\ Paddings

(* is_valid says of every entry what the iterator shows it.                *)
LEMMA ValidExact ==
  ASSUME Typed
  PROVE  is_valid(matrix, shape.num_cons, shape.num_vars, shape.num_io)
         <=> \A e \in ToSet(coo) : Fits(e)
<1> DEFINE it == iter(matrix)
<1>1. ToSet(it) = ToSet(coo)  BY IterExact DEF Typed, matrix
<1>2. is_valid(matrix, shape.num_cons, shape.num_vars, shape.num_io)
      <=> \A i \in DOMAIN it : Fits(it[i])
  BY DEF is_valid, Fits
<1> HIDE DEF it
<1>3. (\A i \in DOMAIN it : Fits(it[i])) <=> \A e \in ToSet(it) : Fits(e)
  BY DEF ToSet
<1>. QED BY <1>1, <1>2, <1>3

LEMMA InitIInv == Init => IInv
<1> SUFFICES ASSUME Init  PROVE IInv
  OBVIOUS
<1> USE BoundsAssumption
<1>1. PICK c \in 1 .. MaxCons, v \in 1 .. MaxVars, x \in 0 .. MaxIO :
        /\ shape = [num_cons |-> c, num_vars |-> v, num_io |-> x]
        /\ rows \in c .. c + 1
  BY DEF Init
<1>2. c \in Nat /\ v \in Nat /\ x \in Nat /\ rows \in Nat  BY <1>1
<1>3. coo = <<>> /\ stage = "coo"  BY DEF Init
<1>4. coo \in Seq(Entry(rows))  BY <1>3
<1>. QED BY <1>1, <1>2, <1>3, <1>4 DEF IInv, Typed, Refused, Made, Paddings

LEMMA AddEntryIInv == IInv /\ AddEntry => IInv'
<1> SUFFICES ASSUME IInv, AddEntry  PROVE IInv'
  OBVIOUS
<1>1. PICK r \in 0 .. rows - 1, c \in 0 .. shape.num_vars + shape.num_io + 1 :
        coo' = Append(coo, <<r, c>>)
  BY DEF AddEntry
<1>2. /\ rows \in Nat /\ coo \in Seq(Entry(rows))
      /\ shape.num_cons \in Nat /\ shape.num_vars \in Nat /\ shape.num_io \in Nat
  BY DEF IInv, Typed
<1>3. c \in Nat  BY <1>2
<1>4. <<r, c>> \in Entry(rows)  BY <1>3 DEF Entry
<1>5. coo' \in Seq(Entry(rows))
  <2> DEFINE S == Entry(rows)
             y == <<r, c>>
  <2>1. y \in S /\ coo \in Seq(S) /\ coo' = Append(coo, y)  BY <1>1, <1>2, <1>4
  <2> HIDE DEF S, y
  <2>2. coo' \in Seq(S)  BY <2>1, AppendProperties
  <2>. QED BY <2>2 DEF S
<1>6. rows' = rows /\ shape' = shape /\ stage' = stage /\ stage = "coo"  BY DEF AddEntry
<1>7. Typed'  BY <1>2, <1>5, <1>6 DEF Typed
<1>. QED BY <1>6, <1>7 DEF IInv, Refused, Made, Paddings

LEMMA NewIInv == IInv /\ New => IInv'
<1> SUFFICES ASSUME IInv, New  PROVE IInv'
  OBVIOUS
<1>1. Typed  BY DEF IInv
<1>2. /\ rows \in Nat /\ coo \in Seq(Entry(rows))
      /\ shape.num_cons \in Nat /\ shape.num_vars \in Nat /\ shape.num_io \in Nat
  BY <1>1 DEF Typed
<1>3. coo' = coo /\ rows' = rows  BY DEF New
<1>4. CASE is_valid(matrix, shape.num_cons, shape.num_vars, shape.num_io)
  <2>1. /\ shape' = [num_cons |-> shape.num_cons, num_vars |-> shape.num_vars,
                     num_io |-> shape.num_io, M |-> matrix]
        /\ stage' = "shape"
    BY <1>4 DEF New
  <2>2. /\ shape.num_cons' = shape.num_cons /\ shape.num_vars' = shape.num_vars
        /\ shape.num_io' = shape.num_io /\ shape.M' = matrix
    BY <2>1
  <2>3. matrix' = matrix  BY <1>3, <2>2 DEF matrix
  <2>4. \A e \in ToSet(coo) : Fits(e)  BY <1>1, <1>4, ValidExact
  <2>5. \A e : Fits(e) <=> Fits(e)'  BY <2>2 DEF Fits
  <2>6. Made'  BY <1>3, <2>2, <2>3, <2>4, <2>5 DEF Made
  <2>7. Typed'  BY <1>2, <1>3, <2>1, <2>2 DEF Typed
  <2>. QED BY <2>1, <2>6, <2>7 DEF IInv, Refused, Paddings
<1>5. CASE ~ is_valid(matrix, shape.num_cons, shape.num_vars, shape.num_io)
  <2>1. shape' = shape /\ stage' = "rejected"  BY <1>5 DEF New
  <2>2. \E e \in ToSet(coo) : ~ Fits(e)  BY <1>1, <1>5, ValidExact
  <2>3. Refused'  BY <1>3, <2>1, <2>2 DEF Refused, Fits
  <2>4. Typed'  BY <1>2, <1>3, <2>1 DEF Typed
  <2>. QED BY <2>1, <2>3, <2>4 DEF IInv, Made, Paddings
<1>. QED BY <1>4, <1>5

LEMMA PadIInv == IInv /\ Pad => IInv'
<1> SUFFICES ASSUME IInv, Pad  PROVE IInv'
  OBVIOUS
<1>1. /\ stage = "shape" /\ stage' = "padded" /\ padded' = pad(shape)
      /\ coo' = coo /\ rows' = rows /\ shape' = shape
  BY DEF Pad
<1>2. Typed'  BY <1>1 DEF IInv, Typed
<1>3. Made'  BY <1>1 DEF IInv, Made, matrix, Fits
<1>4. Paddings'
  <2>1. padded' = pad(shape')  BY <1>1
  <2>. QED BY <2>1 DEF Paddings
<1>. QED BY <1>1, <1>2, <1>3, <1>4 DEF IInv, Refused

(* A shape that is refused has an entry that is out of range, one that is  *)
(* made has none, and what is padded is the pad of it (R1CSShape::new and  *)
(* pad).                                                                   *)
THEOREM SpecIInv == Spec => []IInv
<1>1. IInv /\ UNCHANGED vars => IInv'
  BY DEF IInv, Typed, Refused, Made, Paddings, matrix, Fits, vars
<1>2. IInv /\ [Next]_vars => IInv'
  BY <1>1, AddEntryIInv, NewIInv, PadIInv DEF Next
<1>. QED BY <1>2, InitIInv, PTL DEF Spec

LEMMA IInvChecks == IInv => NewChecksEveryEntry
<1> SUFFICES ASSUME IInv  PROVE NewChecksEveryEntry
  OBVIOUS
<1>1. ToSet(iter(matrix)) = ToSet(coo) /\ Len(iter(matrix)) = Len(coo)
  BY IterExact DEF IInv, Typed, matrix
<1>2. \A e \in ToSet(coo) : e \in Entry(rows)
  <2>1. coo \in Seq(Entry(rows))  BY DEF IInv, Typed
  <2>. QED BY <2>1, LenProperties, ElementOfSeq DEF ToSet
<1>3. \A e \in ToSet(coo) : ~ Fits(e) =>
         e[1] >= shape.num_cons \/ e[2] > shape.num_io + shape.num_vars
  <2> TAKE e \in ToSet(coo)
  <2>1. rows \in Nat /\ e \in Entry(rows)  BY <1>2 DEF IInv, Typed
  <2>2. e[1] \in Nat /\ e[2] \in Nat  BY <2>1 DEF Entry
  <2>3. shape.num_cons \in Nat /\ shape.num_vars \in Nat /\ shape.num_io \in Nat
    BY DEF IInv, Typed
  <2>. QED BY <2>2, <2>3 DEF Fits
<1>4. stage = "rejected" =>
        \E e \in ToSet(coo) : e[1] >= shape.num_cons \/ e[2] > shape.num_io + shape.num_vars
  BY <1>3 DEF IInv, Refused
<1>5. stage = "shape" =>
        \A e \in ToSet(coo) : e[1] < shape.num_cons /\ e[2] <= shape.num_io + shape.num_vars
  BY DEF IInv, Made, Fits
<1>. QED BY <1>1, <1>4, <1>5 DEF NewChecksEveryEntry

(* The check of R1CSShape::new sees every entry: whatever the matrix, its  *)
(* rows that are empty included, a shape is refused exactly when an index  *)
(* is out of range.                                                        *)
THEOREM SpecNewChecksEveryEntry == Spec => []NewChecksEveryEntry
BY SpecIInv, IInvChecks, PTL
----------------------------------------------------------------------------
(* Powers of two                                                           *)

Doubles(p, n) ==
    /\ p \in [0 .. n -> Nat] /\ p[0] = 1
    /\ \A k \in 1 .. n : p[k] = 2 * p[k - 1]

LEMMA PowersTable ==
  ASSUME NEW n \in Nat
  PROVE  Doubles(powers(n), n)
<1> DEFINE Is(g) == g = [k \in 0 .. n |-> IF k = 0 THEN 1 ELSE 2 * g[k - 1]]
           H == [k \in 0 .. n - 1 |-> [x \in Nat |-> 2 * x]]
           G == CHOOSE g : Is(g)
<1>1. powers(n) = G  BY DEF powers
<1>2. StepsIn(H, n, Nat)
  <2>1. \A k \in 0 .. n - 1 : \A x \in Nat : H[k][x] = 2 * x  OBVIOUS
  <2>2. \A x \in Nat : 2 * x \in Nat  OBVIOUS
  <2> HIDE DEF H
  <2>. QED BY <2>1, <2>2 DEF StepsIn
<1>3. PICK h : Recursion(h, n, Nat, 1, H)
  <2>1. 1 \in Nat  OBVIOUS
  <2> HIDE DEF H
  <2>. QED BY <1>2, <2>1, RecursionTo
<1>4. /\ h \in [0 .. n -> Nat] /\ h[0] = 1
      /\ \A k \in 0 .. n - 1 : h[k + 1] = H[k][h[k]]
  BY <1>3 DEF Recursion
<1>5. ASSUME NEW k \in 1 .. n  PROVE h[k] = 2 * h[k - 1]
  <2>1. k - 1 \in 0 .. n - 1 /\ k - 1 \in 0 .. n /\ (k - 1) + 1 = k  OBVIOUS
  <2>2. h[k] = H[k - 1][h[k - 1]] /\ h[k - 1] \in Nat  BY <2>1, <1>4
  <2>. QED BY <2>1, <2>2
<1>6. Is(h)
  <2> DEFINE v(k) == IF k = 0 THEN 1 ELSE 2 * h[k - 1]
  <2>1. ASSUME NEW k \in 0 .. n  PROVE h[k] = v(k)
    <3>1. CASE k = 0  BY <3>1, <1>4
    <3>2. CASE k # 0
      <4>1. k \in 1 .. n  BY <3>2
      <4>. QED BY <4>1, <3>2, <1>5
    <3>. QED BY <3>1, <3>2
  <2>2. h = [k \in 0 .. n |-> h[k]]  BY <1>4
  <2>3. h = [k \in 0 .. n |-> v(k)]
    <3> HIDE DEF v
    <3>. QED BY <2>1, <2>2
  <2>. QED BY <2>3
<1>7. Is(G)  BY <1>6
<1> HIDE DEF G
<1>8. G[0] = 1 /\ DOMAIN G = 0 .. n  BY <1>7
<1>9. \A k \in 1 .. n : G[k] = 2 * G[k - 1]
  <2> TAKE k \in 1 .. n
  <2>1. k \in 0 .. n /\ k # 0  OBVIOUS
  <2>. QED BY <2>1, <1>7
<1>10. \A k \in 0 .. n : G[k] \in Nat
  <2> DEFINE T == {k \in 0 .. n : G[k] \in Nat}
  <2>1. 0 \in T  BY <1>8
  <2>2. ASSUME NEW k \in 0 .. n - 1, k \in T  PROVE k + 1 \in T
    <3>1. k + 1 \in 1 .. n /\ k + 1 \in 0 .. n /\ (k + 1) - 1 = k /\ G[k] \in Nat
      BY <2>2
    <3>2. G[k + 1] = 2 * G[k]  BY <3>1, <1>9
    <3>. QED BY <3>1, <3>2
  <2>3. \A k \in 0 .. n : k \in T
    <3> HIDE DEF T
    <3>. QED BY <2>1, <2>2, InductionTo
  <2>. QED BY <2>3
<1>11. G \in [0 .. n -> Nat]
  <2>1. G = [k \in 0 .. n |-> G[k]]  BY <1>7
  <2>. QED BY <1>10, <2>1
<1>. QED BY <1>1, <1>8, <1>9, <1>11 DEF Doubles

(* They grow, and faster than their exponents.                             *)
LEMMA PowersGrow ==
  ASSUME NEW n \in Nat, NEW p, Doubles(p, n)
  PROVE  \A k \in 0 .. n : p[k] >= k + 1 /\ \A j \in 0 .. k - 1 : p[j] < p[k]
<1> DEFINE Grows(k) == p[k] >= k + 1 /\ \A j \in 0 .. k - 1 : p[j] < p[k]
           T == {k \in 0 .. n : Grows(k)}
<1>1. \A k \in 0 .. n : p[k] \in Nat  BY DEF Doubles
<1>2. 0 \in T  BY DEF Doubles
<1>3. ASSUME NEW k \in 0 .. n - 1, k \in T  PROVE k + 1 \in T
  <2>1. k + 1 \in 1 .. n /\ k + 1 \in 0 .. n /\ (k + 1) - 1 = k /\ k \in 0 .. n
    OBVIOUS
  <2>2. p[k + 1] = 2 * p[k] /\ p[k] \in Nat /\ p[k] >= k + 1
    BY <2>1, <1>1, <1>3 DEF Doubles
  <2>3. p[k + 1] >= (k + 1) + 1 /\ p[k] < p[k + 1]  BY <2>1, <2>2
  <2>4. ASSUME NEW j \in 0 .. (k + 1) - 1  PROVE p[j] < p[k + 1]
    <3>1. CASE j = k  BY <3>1, <2>3
    <3>2. CASE j # k
      <4>1. j \in 0 .. k - 1 /\ j \in 0 .. n  BY <3>2
      <4>2. p[j] < p[k] /\ p[j] \in Nat  BY <4>1, <1>1, <1>3
      <4>. QED BY <4>2, <2>2, <2>3
    <3>. QED BY <3>1, <3>2
  <2>. QED BY <2>1, <2>3, <2>4
<1>4. \A k \in 0 .. n : k \in T
  <2> HIDE DEF T
  <2>. QED BY <1>2, <1>3, InductionTo
<1>. QED BY <1>4

(* Tables of different lengths agree where both are defined.               *)
LEMMA PowersAgree ==
  ASSUME NEW n \in Nat, NEW p, Doubles(p, n), NEW m \in Nat, NEW q, Doubles(q, m),
         NEW k \in 0 .. n, k \in 0 .. m
  PROVE  p[k] = q[k]
<1> DEFINE T == {j \in 0 .. k : p[j] = q[j]}
<1>1. 0 \in T  BY DEF Doubles
<1>2. ASSUME NEW j \in 0 .. k - 1, j \in T  PROVE j + 1 \in T
  <2>1. /\ j + 1 \in 1 .. n /\ j + 1 \in 1 .. m /\ (j + 1) - 1 = j /\ j + 1 \in 0 .. k
        /\ p[j] = q[j]
    BY <1>2
  <2>2. p[j + 1] = 2 * p[j] /\ q[j + 1] = 2 * q[j]  BY <2>1 DEF Doubles
  <2>. QED BY <2>1, <2>2
<1>3. \A j \in 0 .. k : j \in T
  <2>1. k \in Nat  OBVIOUS
  <2> HIDE DEF T
  <2>. QED BY <1>1, <1>2, <2>1, InductionTo
<1>4. k \in T  BY <1>3
<1>. QED BY <1>4

\* k is the exponent next_power_of_two finds for n.
Least(p, n, k) == k \in 0 .. n /\ p[k] >= n /\ \A j \in 0 .. k - 1 : p[j] < n

LEMMA PowerFound ==
  ASSUME NEW n \in Nat
  PROVE  \E k : Least(powers(n), n, k) /\ next_power_of_two(n) = powers(n)[k]
<1> DEFINE p == powers(n)
           Here(k) == p[k] >= n /\ \A j \in 0 .. k - 1 : p[j] < n
           C == {k \in 0 .. n : p[k] >= n}
<1>1. Doubles(p, n)  BY PowersTable
<1> HIDE DEF p
<1>2. \A k \in 0 .. n : p[k] \in Nat  BY <1>1 DEF Doubles
<1>3. \E k \in 0 .. n : Here(k)
  <2>1. p[n] >= n + 1 /\ p[n] \in Nat /\ n \in 0 .. n
    <3>1. n \in 0 .. n  OBVIOUS
    <3>. QED BY <3>1, <1>1, <1>2, PowersGrow
  <2>2. n \in C /\ C \subseteq Nat  BY <2>1
  <2>3. PICK k \in C : \A j \in C : k <= j
    <3> HIDE DEF C
    <3>. QED BY <2>2, LeastNumber
  <2>4. ASSUME NEW j \in 0 .. k - 1  PROVE p[j] < n
    <3>1. j \in 0 .. n /\ ~ (k <= j)  BY <2>3
    <3>2. j \notin C  BY <3>1, <2>3
    <3>3. ~ (p[j] >= n) /\ p[j] \in Nat  BY <3>1, <3>2, <1>2
    <3>. QED BY <3>3
  <2>. QED BY <2>3, <2>4
<1> DEFINE y == CHOOSE k \in 0 .. n : Here(k)
<1>4. y \in 0 .. n /\ Here(y)
  <2> HIDE DEF Here
  <2>. QED BY <1>3
<1>5. next_power_of_two(n) = p[y]  BY DEF next_power_of_two, p
<1>6. Least(p, n, y)
  <2> HIDE DEF y
  <2>. QED BY <1>4 DEF Least
<1>. QED BY <1>5, <1>6 DEF p

(* The next power of two is one, and not below.                            *)
LEMMA NextPower ==
  ASSUME NEW n \in Nat
  PROVE  /\ next_power_of_two(n) \in Nat /\ next_power_of_two(n) >= n
         /\ next_power_of_two(next_power_of_two(n)) = next_power_of_two(n)
<1> DEFINE p == powers(n)
           q == next_power_of_two(n)
           r == powers(q)
<1>1. PICK k : Least(p, n, k) /\ q = p[k]  BY PowerFound
<1>2. Doubles(p, n)  BY PowersTable
<1>3. k \in 0 .. n /\ q \in Nat /\ q >= n /\ q >= k + 1
  BY <1>1, <1>2, PowersGrow DEF Least, Doubles
<1> HIDE DEF q, p
<1>4. Doubles(r, q)  BY <1>3, PowersTable
<1>5. PICK j : Least(r, q, j) /\ next_power_of_two(q) = r[j]  BY <1>3, PowerFound
<1> HIDE DEF r
<1>6. k \in 0 .. q /\ r[k] = q
  <2>1. k \in 0 .. q  BY <1>3
  <2>2. r[k] = p[k]  BY <2>1, <1>2, <1>3, <1>4, PowersAgree
  <2>. QED BY <2>1, <2>2, <1>1
<1>7. j \in 0 .. q /\ r[j] >= q /\ \A i \in 0 .. j - 1 : r[i] < q  BY <1>5 DEF Least
<1>8. j = k
  <2>1. ~ (k < j)
    <3> SUFFICES ASSUME k < j  PROVE FALSE
      OBVIOUS
    <3>1. k \in 0 .. j - 1  BY <1>6, <1>7
    <3>. QED BY <3>1, <1>3, <1>6, <1>7
  <2>2. ~ (j < k)
    <3> SUFFICES ASSUME j < k  PROVE FALSE
      OBVIOUS
    <3>1. j \in 0 .. k - 1  BY <1>6, <1>7
    <3>2. r[j] < r[k]  BY <3>1, <1>3, <1>4, <1>6, PowersGrow
    <3>3. r[j] \in Nat  BY <1>4, <1>7 DEF Doubles
    <3>. QED BY <3>2, <3>3, <1>3, <1>6, <1>7
  <2>. QED BY <2>1, <2>2, <1>6, <1>7
<1>9. next_power_of_two(q) = q  BY <1>5, <1>6, <1>8
<1>. QED BY <1>3, <1>9 DEF q
----------------------------------------------------------------------------
(* Padding                                                                 *)

Size(S) == next_power_of_two(max(max(S.num_vars, S.num_cons), S.num_io))

LEMMA SizeExact ==
  ASSUME NEW S, S.num_cons \in Nat, S.num_vars \in Nat, S.num_io \in Nat
  PROVE  /\ Size(S) \in Nat /\ next_power_of_two(Size(S)) = Size(S)
         /\ Size(S) >= S.num_cons /\ Size(S) >= S.num_vars /\ Size(S) >= S.num_io
<1> DEFINE a == S.num_cons
           b == S.num_vars
           c == S.num_io
           n == max(max(b, a), c)
<1>1. a \in Nat /\ b \in Nat /\ c \in Nat  OBVIOUS
<1>2. Size(S) = next_power_of_two(n)  BY DEF Size
<1> HIDE DEF a, b, c
<1>3. n \in Nat /\ n >= a /\ n >= b /\ n >= c  BY <1>1 DEF max
<1> HIDE DEF n
<1> DEFINE q == next_power_of_two(n)
<1>4. q \in Nat /\ q >= n /\ next_power_of_two(q) = q  BY <1>3, NextPower
<1> HIDE DEF q
<1>5. q >= a /\ q >= b /\ q >= c  BY <1>1, <1>3, <1>4
<1>6. Size(S) = q  BY <1>2 DEF q
<1>. QED BY <1>4, <1>5, <1>6 DEF a, b, c

LEMMA RegularExact ==
  ASSUME NEW S, S.num_cons \in Nat, S.num_vars \in Nat, S.num_io \in Nat
  PROVE  is_regular_shape(pad(S)) <=> S.num_io # Size(S)
<1> DEFINE m == Size(S)
<1>1. /\ m \in Nat /\ next_power_of_two(m) = m
      /\ m >= S.num_cons /\ m >= S.num_vars /\ m >= S.num_io
  BY SizeExact
<1>2. pad(S) = IF is_regular_shape(S) THEN S
               ELSE [num_cons |-> m, num_vars |-> m, num_io |-> S.num_io,
                     M |-> IF S.num_vars = m THEN S.M ELSE apply_pad(S, m)]
  BY DEF pad, Size
<1> HIDE DEF m
<1>3. CASE is_regular_shape(S)
  <2>1. pad(S) = S /\ S.num_io < S.num_vars  BY <1>2, <1>3 DEF is_regular_shape
  <2>2. S.num_io # m  BY <2>1, <1>1
  <2>. QED BY <2>1, <2>2, <1>3 DEF m
<1>4. CASE ~ is_regular_shape(S)
  <2> DEFINE p == pad(S)
  <2>1. p.num_cons = m /\ p.num_vars = m /\ p.num_io = S.num_io  BY <1>2, <1>4
  <2> HIDE DEF p
  <2>2. is_regular_shape(p) <=> S.num_io < m  BY <2>1, <1>1 DEF is_regular_shape
  <2>3. S.num_io < m <=> S.num_io # m  BY <1>1
  <2>. QED BY <2>2, <2>3 DEF p, m
<1>. QED BY <1>3, <1>4

LEMMA TableLen ==
  ASSUME NEW n \in Nat, NEW f, f = [k \in 1 .. n |-> f[k]]
  PROVE  Len(f) = n
<1> DEFINE T == {f[k] : k \in 1 .. n}
<1>1. \A k \in 1 .. n : f[k] \in T  OBVIOUS
<1> HIDE DEF T
<1>2. f \in [1 .. n -> T] /\ DOMAIN f = 1 .. n  BY <1>1
<1>3. f \in Seq(T)  BY <1>2, SeqDef
<1>. QED BY <1>2, <1>3, LenProperties

\* d zeros.
zeros(d) == [i \in 1 .. d |-> 0]

LEMMA ZerosSeq ==
  ASSUME NEW V, 0 \in V, NEW d \in Nat
  PROVE  zeros(d) \in Seq(V) /\ Len(zeros(d)) = d
<1>1. zeros(d) \in [1 .. d -> V] /\ DOMAIN zeros(d) = 1 .. d  BY DEF zeros
<1>2. zeros(d) \in Seq(V)  BY <1>1, SeqDef
<1>. QED BY <1>1, <1>2, LenProperties

LEMMA ZAt ==
  ASSUME NEW V, NEW w \in Seq(V), NEW u \in V, NEW x \in Seq(V)
  PROVE  \A j \in 1 .. Len(w) + 1 + Len(x) :
            z_of(w, u, x)[j] = IF j <= Len(w) THEN w[j]
                               ELSE IF j = Len(w) + 1 THEN u ELSE x[j - (Len(w) + 1)]
<1> DEFINE s == <<u>>
           a == w \o s
           L == Len(w)
<1>1. s \in Seq(V) /\ Len(s) = 1 /\ s[1] = u  OBVIOUS
<1>2. z_of(w, u, x) = a \o x  BY DEF z_of
<1> HIDE DEF s
<1>3. /\ a \in Seq(V) /\ Len(a) = L + 1
      /\ \A j \in 1 .. L + 1 : a[j] = IF j <= L THEN w[j] ELSE s[j - L]
  BY <1>1, ConcatProperties
<1> HIDE DEF a
<1>4. \A j \in 1 .. Len(a) + Len(x) : (a \o x)[j] = IF j <= Len(a) THEN a[j] ELSE x[j - Len(a)]
  BY <1>3, ConcatProperties
<1>5. L \in Nat /\ Len(x) \in Nat  BY LenProperties
<1> DEFINE z == a \o x
<1>6. z_of(w, u, x) = z /\ \A j \in 1 .. (L + 1) + Len(x) :
         z[j] = IF j <= L + 1 THEN a[j] ELSE x[j - (L + 1)]
  BY <1>2, <1>3, <1>4
<1> HIDE DEF z
<1>7. SUFFICES ASSUME NEW j \in 1 .. L + 1 + Len(x)
      PROVE  z[j] = IF j <= L THEN w[j] ELSE IF j = L + 1 THEN u ELSE x[j - (L + 1)]
  BY <1>6
<1> HIDE DEF L
<1>8. CASE j <= L
  <2>1. j \in 1 .. L + 1 /\ j <= L + 1 /\ j \in 1 .. (L + 1) + Len(x)  BY <1>5, <1>8
  <2>. QED BY <2>1, <1>3, <1>6, <1>8
<1>9. CASE j = L + 1
  <2>1. j \in 1 .. L + 1 /\ ~ (j <= L) /\ j - L = 1 /\ j \in 1 .. (L + 1) + Len(x)
    BY <1>5, <1>9
  <2>2. a[j] = s[1]  BY <2>1, <1>3
  <2>. QED BY <2>1, <2>2, <1>1, <1>6, <1>9
<1>10. CASE j > L + 1
  <2>1. ~ (j <= L) /\ j # L + 1 /\ ~ (j <= L + 1) /\ j \in 1 .. (L + 1) + Len(x)
    BY <1>5, <1>10
  <2>. QED BY <2>1, <1>6
<1>11. j <= L \/ j = L + 1 \/ j > L + 1  BY <1>5
<1>. QED BY <1>8, <1>9, <1>10, <1>11

\* Where position j of a vector is once d elements are put behind the first l.
moved(j, l, d) == IF j > l THEN j + d ELSE j

(* A padded vector holds what it held, u and the public values further on. *)
LEMMA ZPadded ==
  ASSUME NEW V, 0 \in V, NEW w \in Seq(V), NEW u \in V, NEW x \in Seq(V), NEW d \in Nat,
         NEW j \in 1 .. Len(w) + 1 + Len(x)
  PROVE  z_of(w \o zeros(d), u, x)[moved(j, Len(w), d)] = z_of(w, u, x)[j]
<1> DEFINE o == zeros(d)
           y == w \o o
           L == Len(w)
           K == Len(x)
<1>1. o \in Seq(V) /\ Len(o) = d  BY ZerosSeq
<1> HIDE DEF o
<1>2. /\ y \in Seq(V) /\ Len(y) = L + d
      /\ \A i \in 1 .. L + d : y[i] = IF i <= L THEN w[i] ELSE o[i - L]
  BY <1>1, ConcatProperties
<1> HIDE DEF y
<1>3. L \in Nat /\ K \in Nat  BY LenProperties
<1> DEFINE z == z_of(w, u, x)
           g == z_of(y, u, x)
<1>4. \A i \in 1 .. L + 1 + K :
         z[i] = IF i <= L THEN w[i] ELSE IF i = L + 1 THEN u ELSE x[i - (L + 1)]
  BY ZAt
<1>5. \A i \in 1 .. (L + d) + 1 + K :
         g[i] = IF i <= L + d THEN y[i] ELSE IF i = (L + d) + 1 THEN u ELSE x[i - ((L + d) + 1)]
  <2> DEFINE Q == Len(y)
  <2>1. \A i \in 1 .. Q + 1 + K :
           g[i] = IF i <= Q THEN y[i] ELSE IF i = Q + 1 THEN u ELSE x[i - (Q + 1)]
    <3>1. y \in Seq(V)  BY <1>2
    <3>. QED BY <3>1, ZAt
  <2>2. Q = L + d  BY <1>2
  <2> HIDE DEF Q, g, L, K
  <2>. QED BY <2>1, <2>2
<1> HIDE DEF z, g
<1>6. g[IF j > L THEN j + d ELSE j] = z[j]
  <2> HIDE DEF L, K
  <2>1. j \in Nat /\ j \in 1 .. L + 1 + K  BY <1>3 DEF L, K
  <2>2. CASE j <= L
    <3>1. j \in 1 .. L + d /\ j <= L + d /\ j \in 1 .. (L + d) + 1 + K /\ ~ (j > L)
      BY <2>1, <2>2, <1>3
    <3>. QED BY <3>1, <2>1, <2>2, <1>2, <1>4, <1>5
  <2>3. CASE j = L + 1
    <3>1. /\ j + d \in 1 .. (L + d) + 1 + K /\ ~ (j + d <= L + d) /\ j + d = (L + d) + 1
          /\ j > L /\ ~ (j <= L)
      BY <2>1, <2>3, <1>3
    <3>2. g[j + d] = u  BY <3>1, <1>5
    <3>3. z[j] = u  BY <3>1, <2>1, <2>3, <1>4
    <3>. QED BY <3>1, <3>2, <3>3
  <2>4. CASE j > L + 1
    <3>1. /\ j + d \in 1 .. (L + d) + 1 + K /\ ~ (j + d <= L + d) /\ j + d # (L + d) + 1
          /\ (j + d) - ((L + d) + 1) = j - (L + 1) /\ j > L /\ ~ (j <= L) /\ j # L + 1
      BY <2>1, <2>4, <1>3
    <3>2. g[j + d] = x[j - (L + 1)]  BY <3>1, <1>5
    <3>3. z[j] = x[j - (L + 1)]  BY <3>1, <2>1, <1>4
    <3>. QED BY <3>1, <3>2, <3>3
  <2>5. j <= L \/ j = L + 1 \/ j > L + 1  BY <2>1, <1>3
  <2>. QED BY <2>2, <2>3, <2>4, <2>5
<1>. QED BY <1>6 DEF g, z, y, o, moved

\* What the proofs about padding use of a matrix of n rows and l items.
Shaped(M, n, l) ==
    /\ M.indices \in Seq(Nat) /\ Len(M.indices) = l
    /\ M.indptr \in Seq(Nat) /\ Len(M.indptr) = n + 1
    /\ \A k \in 1 .. n : M.indptr[k] <= M.indptr[k + 1] /\ M.indptr[k + 1] <= l

LEMMA MatrixShaped ==
  ASSUME NEW n \in Nat, NEW e \in Seq(Entry(n)), NEW cols
  PROVE  /\ Shaped(SparseMatrix(e, n, cols), n, Len(e))
         /\ SparseMatrix(e, n, cols).cols = cols
<1> DEFINE m == pushed(e, n)
           M == SparseMatrix(e, n, cols)
           I == joined(m, n)
           ptr == starts(m, n)
<1>1. m \in Rows(n) /\ \A t : Sizes(t, m, n) => t[n] = Len(e)  BY PushedExact
<1>2. M = [indices |-> I, indptr |-> ptr, cols |-> cols]  BY DEF SparseMatrix
<1> HIDE DEF m
<1>3. PICK t : Sizes(t, m, n) /\ ptr = [k \in 1 .. n + 1 |-> t[k - 1]]
  BY <1>1, SizesTable
<1>4. I \in Seq(Nat) /\ Len(I) = t[n]  BY <1>1, <1>3, JoinedLaid DEF Laid
<1>5. t[n] = Len(e)  BY <1>1, <1>3
<1>6. M.indices = I /\ M.indptr = ptr /\ M.cols = cols  BY <1>2
<1> HIDE DEF M, I, ptr
<1>7. ptr \in Seq(Nat) /\ Len(ptr) = n + 1
  <2> DEFINE N == n + 1
  <2>1. N \in Nat /\ \A k \in 1 .. N : k - 1 \in 0 .. n  OBVIOUS
  <2>2. ptr \in [1 .. N -> Nat]  BY <2>1, <1>3 DEF Sizes
  <2> HIDE DEF N
  <2>3. ptr \in Seq(Nat) /\ DOMAIN ptr = 1 .. N  BY <2>1, <2>2, SeqDef
  <2>. QED BY <2>1, <2>3, LenProperties DEF N
<1>8. ASSUME NEW k \in 1 .. n  PROVE ptr[k] <= ptr[k + 1] /\ ptr[k + 1] <= Len(e)
  <2>1. /\ k \in 1 .. n + 1 /\ k + 1 \in 1 .. n + 1 /\ (k + 1) - 1 = k
        /\ k - 1 \in 0 .. k /\ k \in 0 .. n /\ n \in 0 .. n
    OBVIOUS
  <2>2. ptr[k] = t[k - 1] /\ ptr[k + 1] = t[k]  BY <2>1, <1>3
  <2>3. t[k - 1] <= t[k] /\ t[k] <= t[n]  BY <2>1, <1>1, <1>3, SizesGrow
  <2>. QED BY <2>2, <2>3, <1>5
<1>9. Shaped(M, n, Len(e))  BY <1>4, <1>5, <1>6, <1>7, <1>8 DEF Shaped
<1>. QED BY <1>6, <1>9 DEF M

(* The columns of a matrix are those of its entries.                       *)
LEMMA ColumnsBound ==
  ASSUME NEW n \in Nat, NEW e \in Seq(Entry(n)), NEW cols, NEW b,
         \A y \in ToSet(e) : y[2] <= b
  PROVE  \A i \in 1 .. Len(e) : SparseMatrix(e, n, cols).indices[i] <= b
<1> DEFINE M == SparseMatrix(e, n, cols)
           it == iter(M)
           Is(g) == g = [i \in 0 .. Len(M.indices) |->
                           IF i = 0 THEN 1 ELSE skip(M.indptr, g[i - 1], i - 1)]
           at == CHOOSE g : Is(g)
<1>1. it = [i \in 1 .. Len(M.indices) |-> <<at[i] - 1, M.indices[i]>>]
  <2> HIDE DEF M
  <2>. QED BY DEF iter
<1> HIDE DEF at
<1>2. Len(M.indices) = Len(e)  BY MatrixShaped DEF Shaped
<1>3. ToSet(it) = ToSet(e)  BY IterExact
<1> HIDE DEF M, it
<1>4. ASSUME NEW i \in 1 .. Len(e)  PROVE M.indices[i] <= b
  <2>1. i \in DOMAIN it /\ it[i] = <<at[i] - 1, M.indices[i]>>  BY <1>1, <1>2
  <2>2. it[i] \in ToSet(it)  BY <2>1 DEF ToSet
  <2>3. it[i][2] <= b  BY <2>2, <1>3
  <2>. QED BY <2>1, <2>3
<1>. QED BY <1>4 DEF M

LEMMA EmptySum ==
  ASSUME NEW f, f = [i \in 1 .. 0 |-> f[i]]
  PROVE  sum(f) = 0
<1> DEFINE Is(g) == g = [i \in 0 .. Len(f) |-> IF i = 0 THEN 0 ELSE g[i - 1] + f[i]]
           G == CHOOSE g : Is(g)
           h == [i \in 0 .. 0 |-> 0]
<1>1. Len(f) = 0
  <2>1. 0 \in Nat  OBVIOUS
  <2>. QED BY <2>1, TableLen
<1>2. sum(f) = G[Len(f)]  BY DEF sum
<1>3. Is(h)
  <2>1. \A i \in 0 .. 0 : i = 0  OBVIOUS
  <2>2. h = [i \in 0 .. 0 |-> IF i = 0 THEN 0 ELSE h[i - 1] + f[i]]  BY <2>1
  <2> HIDE DEF h
  <2>. QED BY <2>2, <1>1
<1>4. Is(G)  BY <1>3
<1> HIDE DEF G
<1>5. 0 \in 0 .. Len(f)  BY <1>1
<1>6. G[0] = 0  BY <1>4, <1>5
<1>. QED BY <1>1, <1>2, <1>6

\* The row_terms of row k of M z.
row_terms(M, z, k) ==
    [i \in 1 .. M.indptr[k + 1] - M.indptr[k] |-> z[M.indices[M.indptr[k] + i] + 1]]

LEMMA Products ==
  ASSUME NEW M, NEW n \in Nat, Len(M.indptr) = n + 1, NEW z
  PROVE  /\ Len(multiply_vec(M, z)) = n /\ DOMAIN multiply_vec(M, z) = 1 .. n
         /\ \A k \in 1 .. n : multiply_vec(M, z)[k] = sum(row_terms(M, z, k))
<1> DEFINE v == multiply_vec(M, z)
<1>1. Len(M.indptr) - 1 = n  OBVIOUS
<1>2. v = [k \in 1 .. n |-> sum(row_terms(M, z, k))]  BY <1>1 DEF multiply_vec, row_terms
<1> HIDE DEF v
<1>3. DOMAIN v = 1 .. n /\ \A k \in 1 .. n : v[k] = sum(row_terms(M, z, k))  BY <1>2
<1>4. v = [k \in 1 .. n |-> v[k]]  BY <1>2
<1>5. Len(v) = n  BY <1>4, TableLen
<1>. QED BY <1>3, <1>5 DEF v

\* The matrix M of n rows and v variables padded to m of each.
Extended(N, M, n, v, m) ==
    /\ N.indices = [i \in DOMAIN M.indices |->
                      IF M.indices[i] >= v THEN M.indices[i] + (m - v) ELSE M.indices[i]]
    /\ N.indptr = M.indptr \o [k \in 1 .. m - n |-> M.indptr[Len(M.indptr)]]

LEMMA ExtendedRows ==
  ASSUME NEW n \in Nat, NEW v \in Nat, NEW m \in Nat, n <= m, v <= m, NEW l \in Nat,
         NEW M, Shaped(M, n, l), NEW N, Extended(N, M, n, v, m)
  PROVE  /\ Len(N.indptr) = m + 1
         /\ \A k \in 1 .. n + 1 : N.indptr[k] = M.indptr[k]
         /\ \A k \in n + 1 .. m + 1 : N.indptr[k] = M.indptr[n + 1]
<1> DEFINE ptr == M.indptr
           d == m - n
           q == [k \in 1 .. d |-> ptr[Len(ptr)]]
           R == ptr \o q
<1>1. ptr \in Seq(Nat) /\ Len(ptr) = n + 1  BY DEF Shaped
<1>2. N.indptr = R  BY DEF Extended
<1> HIDE DEF ptr
<1>3. d \in Nat /\ ptr[n + 1] \in Nat
  <2>1. d \in Nat  OBVIOUS
  <2>2. n + 1 \in 1 .. Len(ptr)  BY <1>1
  <2>. QED BY <2>1, <2>2, <1>1, ElementOfSeq
<1>4. \A k \in 1 .. d : q[k] = ptr[n + 1]  BY <1>1
<1>5. q \in Seq(Nat) /\ Len(q) = d
  <2>1. q \in [1 .. d -> Nat] /\ DOMAIN q = 1 .. d  BY <1>1, <1>3
  <2> HIDE DEF q, d
  <2>2. q \in Seq(Nat)  BY <2>1, <1>3, SeqDef
  <2>. QED BY <2>1, <2>2, <1>3, LenProperties
<1>6. d = m - n  OBVIOUS
<1> HIDE DEF q, d
<1>7. /\ Len(R) = (n + 1) + d
      /\ \A k \in 1 .. (n + 1) + d : R[k] = IF k <= n + 1 THEN ptr[k] ELSE q[k - (n + 1)]
  <2>1. /\ Len(R) = Len(ptr) + Len(q)
        /\ \A k \in 1 .. Len(ptr) + Len(q) : R[k] = IF k <= Len(ptr) THEN ptr[k] ELSE q[k - Len(ptr)]
    BY <1>1, <1>5, ConcatProperties
  <2> HIDE DEF R
  <2>. QED BY <2>1, <1>1, <1>5
<1> HIDE DEF R
<1>8. (n + 1) + d = m + 1  BY <1>3, <1>6
<1>9. \A k \in 1 .. n + 1 : R[k] = ptr[k]
  <2> TAKE k \in 1 .. n + 1
  <2>1. k \in 1 .. (n + 1) + d /\ k <= n + 1  BY <1>3
  <2>. QED BY <2>1, <1>7
<1>10. \A k \in n + 1 .. m + 1 : R[k] = ptr[n + 1]
  <2> TAKE k \in n + 1 .. m + 1
  <2>1. CASE k = n + 1  BY <2>1, <1>9
  <2>2. CASE k # n + 1
    <3>1. k \in 1 .. (n + 1) + d /\ ~ (k <= n + 1) /\ k - (n + 1) \in 1 .. d
      BY <2>2, <1>6, <1>8
    <3>. QED BY <3>1, <1>4, <1>7
  <2>. QED BY <2>1, <2>2
<1>. QED BY <1>2, <1>7, <1>8, <1>9, <1>10 DEF ptr

\* new is old, zeros behind it up to m elements.
Enlarged(old, new, n, m) ==
    /\ Len(old) = n /\ DOMAIN old = 1 .. n
    /\ Len(new) = m /\ DOMAIN new = 1 .. m
    /\ \A k \in 1 .. n : new[k] = old[k]
    /\ \A k \in n + 1 .. m : new[k] = 0

(* Padding the matrix and the vector changes no product of a row.          *)
LEMMA ExtendedProducts ==
  ASSUME NEW n \in Nat, NEW v \in Nat, NEW m \in Nat, n <= m, v <= m, NEW l \in Nat,
         NEW M, Shaped(M, n, l), NEW N, Extended(N, M, n, v, m),
         NEW V, 0 \in V, NEW w \in Seq(V), Len(w) = v, NEW u \in V, NEW x \in Seq(V),
         \A i \in 1 .. l : M.indices[i] <= Len(x) + v
  PROVE  Enlarged(multiply_vec(M, z_of(w, u, x)),
                  multiply_vec(N, z_of(w \o zeros(m - v), u, x)), n, m)
<1> DEFINE d == m - v
           z == z_of(w, u, x)
           y == z_of(w \o zeros(d), u, x)
           ptr == M.indptr
           I == M.indices
           Q == N.indptr
           J == N.indices
           old == multiply_vec(M, z)
           new == multiply_vec(N, y)
<1>1. /\ I \in Seq(Nat) /\ Len(I) = l /\ ptr \in Seq(Nat) /\ Len(ptr) = n + 1
      /\ \A k \in 1 .. n : ptr[k] <= ptr[k + 1] /\ ptr[k + 1] <= l
  BY DEF Shaped
<1>2. /\ Len(Q) = m + 1 /\ \A k \in 1 .. n + 1 : Q[k] = ptr[k]
      /\ \A k \in n + 1 .. m + 1 : Q[k] = ptr[n + 1]
  <2>1. /\ n \in Nat /\ v \in Nat /\ m \in Nat /\ n <= m /\ v <= m /\ l \in Nat
        /\ Shaped(M, n, l) /\ Extended(N, M, n, v, m)
    OBVIOUS
  <2>. QED BY ONLY <2>1, ExtendedRows
<1>3. \A i \in 1 .. l : J[i] = (IF I[i] >= v THEN I[i] + d ELSE I[i])
  <2>1. DOMAIN I = 1 .. l  BY <1>1, LenProperties
  <2>. QED BY <2>1 DEF Extended
<1>4. d \in Nat /\ v + d = m  OBVIOUS
<1>5. \A i \in 1 .. l : I[i] \in Nat /\ I[i] <= Len(x) + v  BY <1>1, ElementOfSeq
<1>6. Len(x) \in Nat  BY LenProperties
<1> DEFINE K == Len(x)
<1>7. \A j \in 1 .. v + 1 + K : y[IF j > v THEN j + d ELSE j] = z[j]
  <2> SUFFICES ASSUME NEW j \in 1 .. v + 1 + K
      PROVE  y[IF j > v THEN j + d ELSE j] = z[j]
    OBVIOUS
  <2>1. j \in 1 .. Len(w) + 1 + Len(x)  OBVIOUS
  <2> HIDE DEF d
  <2>2. y[moved(j, Len(w), d)] = z[j]
    <3>1. /\ 0 \in V /\ w \in Seq(V) /\ u \in V /\ x \in Seq(V) /\ d \in Nat
          /\ j \in 1 .. Len(w) + 1 + Len(x)
      BY <1>4, <2>1
    <3>. QED BY ONLY <3>1, ZPadded
  <2>3. Len(w) = v  OBVIOUS
  <2> HIDE DEF y, z
  <2>. QED BY <2>2, <2>3 DEF moved
<1> HIDE DEF y, z, d
<1>8. ASSUME NEW i \in 1 .. l  PROVE y[J[i] + 1] = z[I[i] + 1]
  <2> DEFINE a == I[i]
  <2>1. a \in Nat /\ a <= K + v /\ J[i] = (IF a >= v THEN a + d ELSE a)
    BY <1>3, <1>5
  <2> HIDE DEF a, K
  <2>2. a + 1 \in 1 .. v + 1 + K  BY <2>1, <1>6 DEF K
  <2>3. y[IF a + 1 > v THEN (a + 1) + d ELSE a + 1] = z[a + 1]  BY <2>2, <1>7
  <2>4. CASE a >= v
    <3>1. a + 1 > v /\ J[i] + 1 = (a + 1) + d  BY <2>1, <2>4, <1>4
    <3>. QED BY <3>1, <2>3 DEF a
  <2>5. CASE ~ (a >= v)
    <3>1. ~ (a + 1 > v) /\ J[i] + 1 = a + 1  BY <2>1, <2>5
    <3>. QED BY <3>1, <2>3 DEF a
  <2>. QED BY <2>4, <2>5
<1>9. /\ Len(old) = n /\ DOMAIN old = 1 .. n
      /\ \A k \in 1 .. n : old[k] = sum(row_terms(M, z, k))
  BY <1>1, Products
<1>10. /\ Len(new) = m /\ DOMAIN new = 1 .. m
       /\ \A k \in 1 .. m : new[k] = sum(row_terms(N, y, k))
  BY <1>2, Products
<1> HIDE DEF old, new
<1>11. ASSUME NEW k \in 1 .. n  PROVE new[k] = old[k]
  <2> DEFINE a == ptr[k]
             b == ptr[k + 1]
             L == 1 .. b - a
  <2>1. a \in Nat /\ b \in Nat /\ a <= b /\ b <= l
    <3>1. k \in 1 .. Len(ptr) /\ k + 1 \in 1 .. Len(ptr)  BY <1>1
    <3>. QED BY <3>1, <1>1, ElementOfSeq
  <2>2. k \in 1 .. n + 1 /\ k + 1 \in 1 .. n + 1 /\ k \in 1 .. m  OBVIOUS
  <2>3. Q[k] = a /\ Q[k + 1] = b  BY <2>2, <1>2
  <2> HIDE DEF a, b
  <2>4. row_terms(M, z, k) = [i \in L |-> z[I[a + i] + 1]]  BY DEF row_terms, a, b
  <2>5. row_terms(N, y, k) = [i \in L |-> y[J[a + i] + 1]]  BY <2>3 DEF row_terms
  <2>6. \A i \in L : a + i \in 1 .. l  BY <2>1
  <2> HIDE DEF L, I, J
  <2>7. \A i \in L : y[J[a + i] + 1] = z[I[a + i] + 1]  BY <2>6, <1>8
  <2>8. row_terms(N, y, k) = row_terms(M, z, k)  BY <2>4, <2>5, <2>7
  <2>. QED BY <2>2, <2>8, <1>9, <1>10
<1>12. ASSUME NEW k \in n + 1 .. m  PROVE new[k] = 0
  <2>1. k \in n + 1 .. m + 1 /\ k + 1 \in n + 1 .. m + 1 /\ k \in 1 .. m  OBVIOUS
  <2> DEFINE b == ptr[n + 1]
             f == row_terms(N, y, k)
  <2>2. b \in Nat
    <3>1. n + 1 \in 1 .. Len(ptr)  BY <1>1
    <3>. QED BY <3>1, <1>1, ElementOfSeq
  <2>3. Q[k] = b /\ Q[k + 1] = b  BY <2>1, <1>2
  <2>4. Q[k + 1] - Q[k] = 0  BY <2>2, <2>3
  <2>5. f = [i \in 1 .. 0 |-> y[J[Q[k] + i] + 1]]  BY <2>4 DEF row_terms
  <2> HIDE DEF f
  <2>6. f = [i \in 1 .. 0 |-> f[i]]  BY <2>5
  <2>7. sum(f) = 0  BY <2>6, EmptySum
  <2>. QED BY <2>1, <2>7, <1>10 DEF f
<1>13. Enlarged(old, new, n, m)  BY <1>9, <1>10, <1>11, <1>12 DEF Enlarged
<1>. QED BY <1>13 DEF old, new, z, y, d

LEMMA IInvRegular == IInv => PadRegular
<1> SUFFICES ASSUME IInv, stage = "padded"
    PROVE  is_regular_shape(padded) <=> shape.num_io # Size(shape)
  BY DEF PadRegular, Size
<1>1. /\ padded = pad(shape)
      /\ shape.num_cons \in Nat /\ shape.num_vars \in Nat /\ shape.num_io \in Nat
  BY DEF IInv, Typed, Paddings
<1>. QED BY <1>1, RegularExact

Powers == {2 ^ i : i \in Nat} \cup {0}

LEMMA VectorTyped ==
  ASSUME shape.num_vars \in Nat, shape.num_io \in Nat
  PROVE  /\ 0 \in Powers /\ U \in Powers
         /\ W \in Seq(Powers) /\ Len(W) = shape.num_vars
         /\ X \in Seq(Powers) /\ Len(X) = shape.num_io
<1> DEFINE v == shape.num_vars
           x == shape.num_io
<1>1. \A i \in Nat : 2 ^ i \in Powers  BY DEF Powers
<1>2. v \in Nat /\ x \in Nat  OBVIOUS
<1> HIDE DEF v, x
<1>3. 0 \in Powers  BY DEF Powers
<1>4. v + 1 \in Nat /\ \A i \in 1 .. x : v + 1 + i \in Nat  BY <1>2
<1>5. U \in Powers  BY <1>1, <1>4 DEF U, v
<1>6. W \in Seq(Powers) /\ Len(W) = v
  <2>1. W = [i \in 1 .. v |-> 2 ^ i]  BY DEF W, v
  <2>2. \A i \in 1 .. v : i \in Nat  BY <1>2
  <2>3. W \in [1 .. v -> Powers] /\ DOMAIN W = 1 .. v  BY <2>1, <2>2, <1>1
  <2>4. W \in Seq(Powers)  BY <2>3, <1>2, SeqDef
  <2>. QED BY <2>3, <2>4, <1>2, LenProperties
<1>7. X \in Seq(Powers) /\ Len(X) = x
  <2>1. X = [i \in 1 .. x |-> 2 ^ (v + 1 + i)]  BY DEF X, v, x
  <2>2. X \in [1 .. x -> Powers] /\ DOMAIN X = 1 .. x  BY <2>1, <1>1, <1>4
  <2>3. X \in Seq(Powers)  BY <2>2, <1>2, SeqDef
  <2>. QED BY <2>2, <2>3, <1>2, LenProperties
<1>. QED BY <1>3, <1>5, <1>6, <1>7 DEF v, x

LEMMA IInvKeeps == IInv => PadKeepsConstraints
<1> SUFFICES ASSUME IInv, stage = "padded", Declared  PROVE PadKeepsConstraints
  BY DEF PadKeepsConstraints
<1> DEFINE n == shape.num_cons
           v == shape.num_vars
           x == shape.num_io
           m == Size(shape)
           M == shape.M
           l == Len(coo)
           w == pad_witness(W, padded)
           old == multiply_vec(M, z_of(W, U, X))
           new == multiply_vec(padded.M, z_of(w, U, X))
           Goal == /\ padded.M.cols = padded.num_vars + 1 + padded.num_io
                   /\ Len(new) >= Len(old)
                   /\ \A k \in DOMAIN new : new[k] = IF k \in DOMAIN old THEN old[k] ELSE 0
<1>1. SUFFICES Goal
  BY DEF PadKeepsConstraints
<1>2. n \in Nat /\ v \in Nat /\ x \in Nat /\ coo \in Seq(Entry(n))
  BY DEF IInv, Typed, Declared
<1>3. M = SparseMatrix(coo, n, v + x + 1)  BY DEF IInv, Made, matrix, Declared
<1>4. padded = pad(shape)  BY DEF IInv, Paddings
<1>5. m \in Nat /\ n <= m /\ v <= m /\ x <= m
  <2>1. m \in Nat /\ m >= n /\ m >= v /\ m >= x  BY <1>2, SizeExact
  <2> HIDE DEF m, n, v, x
  <2>. QED BY <2>1, <1>2
<1>6. /\ 0 \in Powers /\ U \in Powers /\ W \in Seq(Powers) /\ Len(W) = v
      /\ X \in Seq(Powers) /\ Len(X) = x
  BY <1>2, VectorTyped
<1>7. l \in Nat  BY <1>2, LenProperties
<1>8. Shaped(M, n, l) /\ M.cols = v + x + 1
  <2> HIDE DEF n, M, v, x
  <2>. QED BY <1>2, <1>3, MatrixShaped
<1>9. \A i \in 1 .. l : M.indices[i] <= Len(X) + v
  <2> DEFINE b == x + v
  <2>1. \A y \in ToSet(coo) : y[2] <= b  BY DEF IInv, Made, Fits
  <2> HIDE DEF n, M, v, x, b
  <2>2. \A i \in 1 .. l : M.indices[i] <= b  BY <2>1, <1>2, <1>3, ColumnsBound
  <2>. QED BY <2>2, <1>6 DEF b
<1>10. pad(shape) = IF is_regular_shape(shape) THEN shape
                    ELSE [num_cons |-> m, num_vars |-> m, num_io |-> x,
                          M |-> IF v = m THEN M ELSE apply_pad(shape, m)]
  BY DEF pad, Size
<1>11. w = W \o zeros(padded.num_vars - v)
  BY <1>6 DEF pad_witness, zeros
<1>12. CASE padded.M = M /\ padded.num_vars = v /\ padded.num_io = x
  <2>1. w = W
    <3>1. padded.num_vars - v = 0  BY <1>2, <1>12
    <3>2. zeros(0) = <<>>
      <4>1. 0 \in Nat  OBVIOUS
      <4>2. zeros(0) \in Seq(Powers) /\ Len(zeros(0)) = 0  BY <4>1, <1>6, ZerosSeq
      <4>. QED BY <4>2, EmptySeq
    <3>3. w = W \o <<>>  BY <3>1, <3>2, <1>11
    <3>. QED BY <3>3, <1>6, ConcatEmptySeq
  <2>2. new = old  BY <2>1, <1>12
  <2>3. Len(old) = n
    <3>1. Len(M.indptr) = n + 1  BY <1>8 DEF Shaped
    <3> HIDE DEF M, n
    <3>. QED BY <3>1, <1>2, Products
  <2>4. padded.M.cols = padded.num_vars + 1 + padded.num_io
    <3> HIDE DEF M, n, v, x
    <3>. QED BY <1>2, <1>8, <1>12
  <2> HIDE DEF new, old
  <2>5. Len(new) >= Len(old)  BY <2>2, <2>3, <1>2
  <2>6. \A k \in DOMAIN new : new[k] = IF k \in DOMAIN old THEN old[k] ELSE 0  BY <2>2
  <2>. QED BY <2>4, <2>5, <2>6
<1>13. CASE padded = [num_cons |-> m, num_vars |-> m, num_io |-> x, M |-> apply_pad(shape, m)]
  <2> DEFINE N == apply_pad(shape, m)
  <2>1. padded.M = N /\ padded.num_vars = m /\ padded.num_io = x  BY <1>13
  <2>2. Extended(N, M, n, v, m) /\ N.cols = M.cols + (m - v)  BY DEF apply_pad, Extended
  <2>3. new = multiply_vec(N, z_of(W \o zeros(m - v), U, X))  BY <2>1, <1>11
  <2> HIDE DEF N, M, n, v, m, x, l
  <2>4. Enlarged(multiply_vec(M, z_of(W, U, X)),
                 multiply_vec(N, z_of(W \o zeros(m - v), U, X)), n, m)
    <3>1. /\ n \in Nat /\ v \in Nat /\ m \in Nat /\ n <= m /\ v <= m /\ l \in Nat
          /\ Shaped(M, n, l) /\ Extended(N, M, n, v, m)
          /\ 0 \in Powers /\ W \in Seq(Powers) /\ Len(W) = v /\ U \in Powers
          /\ X \in Seq(Powers) /\ \A i \in 1 .. l : M.indices[i] <= Len(X) + v
      BY <1>2, <1>5, <1>6, <1>7, <1>8, <1>9, <2>2
    <3>. QED BY ONLY <3>1, ExtendedProducts
  <2>5. /\ Len(old) = n /\ DOMAIN old = 1 .. n
        /\ Len(new) = m /\ DOMAIN new = 1 .. m
        /\ \A k \in 1 .. n : new[k] = old[k]
        /\ \A k \in n + 1 .. m : new[k] = 0
    BY <2>3, <2>4 DEF Enlarged
  <2> HIDE DEF new, old
  <2>6. padded.M.cols = padded.num_vars + 1 + padded.num_io
    BY <2>1, <2>2, <1>2, <1>5, <1>8
  <2>7. Len(new) >= Len(old)  BY <2>5, <1>2, <1>5
  <2>8. ASSUME NEW k \in DOMAIN new
        PROVE  new[k] = IF k \in DOMAIN old THEN old[k] ELSE 0
    <3>1. k \in 1 .. m  BY <2>5
    <3>2. CASE k \in 1 .. n  BY <3>2, <2>5
    <3>3. CASE k \notin 1 .. n
      <4>1. k \in n + 1 .. m  BY <3>1, <3>3, <1>2, <1>5
      <4>. QED BY <4>1, <3>3, <2>5
    <3>. QED BY <3>2, <3>3
  <2>. QED BY <2>6, <2>7, <2>8
<1>14. \/ padded.M = M /\ padded.num_vars = v /\ padded.num_io = x
       \/ padded = [num_cons |-> m, num_vars |-> m, num_io |-> x, M |-> apply_pad(shape, m)]
  <2>1. CASE is_regular_shape(shape)  BY <2>1, <1>4, <1>10
  <2>2. CASE ~ is_regular_shape(shape) /\ v = m  BY <2>2, <1>4, <1>10
  <2>3. CASE ~ is_regular_shape(shape) /\ v # m  BY <2>3, <1>4, <1>10
  <2>. QED BY <2>1, <2>2, <2>3
<1>. QED
  <2> HIDE DEF Goal
  <2>. QED BY <1>12, <1>13, <1>14

(* Padding a shape and its witness changes no constraint, for shapes of    *)
(* any size: the rows that were there give the same products, the new ones *)
(* are empty; and the result is regular unless the public values alone     *)
(* fill the size it pads to.                                               *)
THEOREM SpecPadExact == Spec => []PadExact
<1>1. IInv => PadExact  BY IInvKeeps, IInvRegular DEF PadExact
<1>. QED BY <1>1, SpecIInv, PTL
----------------------------------------------------------------------------
(* Numbers modulo P.                                                       *)

Cong(a, b) == a % P = b % P

LEMMA Modulus ==
    ASSUME NEW a \in Int
    PROVE  a % P \in F /\ \E k \in Int : a = (a % P) + k * P
<1>1. P \in Nat \ {0}  BY ModulusAssumption
<1>2. a % P \in 0 .. P - 1 /\ a \div P \in Int /\ a = P * (a \div P) + (a % P)
  BY <1>1
<1> DEFINE q == a \div P  e == a % P
<1>3. q \in Int /\ e \in Int /\ a = P * q + e  BY <1>1, <1>2
<1>4. a = e + q * P
  <2> HIDE DEF q, e
  <2>. QED BY <1>1, <1>3
<1>. QED BY <1>2, <1>3, <1>4 DEF F

LEMMA Residue ==
    ASSUME NEW r \in F, NEW k \in Int
    PROVE  (r + k * P) % P = r
<1> DEFINE a == r + k * P
<1>1. P \in Nat \ {0} /\ r \in Int /\ 0 <= r /\ r < P  BY ModulusAssumption DEF F
<1>2. a \in Int  BY <1>1
<1>3. PICK j \in Int : a = (a % P) + j * P  BY <1>2, Modulus
<1> DEFINE e == a % P
<1>4. e \in Int /\ 0 <= e /\ e < P  BY <1>1, <1>2, Modulus DEF F
<1>5. r + k * P = e + j * P  BY <1>3
<1> HIDE DEF a, e
<1>6. j = k
  <2>1. ASSUME j > k  PROVE FALSE
    <3>1. PICK m \in Nat : j = k + 1 + m  BY <2>1
    <3>2. j * P = k * P + P + m * P /\ m * P \in Nat /\ k * P \in Int  BY <3>1, <1>1
    <3>. QED BY <3>2, <1>1, <1>4, <1>5
  <2>2. ASSUME k > j  PROVE FALSE
    <3>1. PICK m \in Nat : k = j + 1 + m  BY <2>2
    <3>2. k * P = j * P + P + m * P /\ m * P \in Nat /\ j * P \in Int  BY <3>1, <1>1
    <3>. QED BY <3>2, <1>1, <1>4, <1>5
  <2>. QED BY <2>1, <2>2
<1>7. k * P \in Int  BY <1>1
<1>. QED BY <1>1, <1>4, <1>5, <1>6, <1>7 DEF a, e

\* Congruent numbers differ by a multiple of P.
LEMMA CongMultiple ==
    ASSUME NEW a \in Int, NEW b \in Int
    PROVE  Cong(a, b) <=> \E k \in Int : a = b + k * P
<1>1. P \in Nat  BY ModulusAssumption
<1>2. PICK i \in Int : a = (a % P) + i * P  BY Modulus
<1>3. PICK j \in Int : b = (b % P) + j * P  BY Modulus
<1>4. a % P \in F /\ b % P \in F  BY Modulus
<1> DEFINE x == a % P  y == b % P
<1>5. x \in F /\ y \in F /\ x \in Int /\ y \in Int /\ a = x + i * P /\ b = y + j * P
  BY <1>2, <1>3, <1>4, <1>1 DEF F
<1>6. ASSUME x = y  PROVE \E k \in Int : a = b + k * P
  <2> HIDE DEF x, y
  <2>1. a = b + (i - j) * P  BY <1>5, <1>6, <1>1
  <2>. QED BY <2>1
<1>7. ASSUME NEW k \in Int, a = b + k * P  PROVE x = y
  <2>1. a = y + (j + k) * P
    <3> HIDE DEF x, y
    <3>. QED BY <1>5, <1>7, <1>1
  <2>2. (y + (j + k) * P) % P = y
    <3> HIDE DEF x, y
    <3>. QED BY <1>5, Residue
  <2>. QED BY <2>1, <2>2
<1>. QED BY <1>6, <1>7 DEF Cong

LEMMA CongSum ==
    ASSUME NEW a \in Int, NEW b \in Int, NEW c \in Int, NEW d \in Int,
           Cong(a, b), Cong(c, d)
    PROVE  Cong(a + c, b + d)
<1>1. PICK i \in Int : a = b + i * P  BY CongMultiple
<1>2. PICK j \in Int : c = d + j * P  BY CongMultiple
<1>3. a + c = (b + d) + (i + j) * P  BY <1>1, <1>2, ModulusAssumption
<1>4. a + c \in Int /\ b + d \in Int /\ i + j \in Int  OBVIOUS
<1>. QED BY <1>3, <1>4, CongMultiple

LEMMA CongProduct ==
    ASSUME NEW a \in Int, NEW b \in Int, NEW c \in Int, Cong(a, b)
    PROVE  Cong(c * a, c * b)
<1>1. PICK i \in Int : a = b + i * P  BY CongMultiple
<1>2. c * a = c * b + (c * i) * P  BY <1>1, ModulusAssumption
<1>3. c * a \in Int /\ c * b \in Int /\ c * i \in Int  OBVIOUS
<1>. QED BY <1>2, <1>3, CongMultiple

LEMMA CongResidue ==
    ASSUME NEW a \in Int
    PROVE  Cong(a % P, a) /\ a % P \in F /\ a % P \in Int
<1>1. a % P \in F  BY Modulus
<1>2. a % P \in Int  BY <1>1, ModulusAssumption DEF F
<1>3. PICK k \in Int : a = (a % P) + k * P  BY Modulus
<1>4. Cong(a, a % P)  BY <1>2, <1>3, CongMultiple
<1>. QED BY <1>1, <1>2, <1>4 DEF Cong
----------------------------------------------------------------------------
(* Sums of integers.                                                       *)

\* t adds up the elements of s, one after the other.
Runs(t, s) ==
    /\ t \in [0 .. Len(s) -> Int] /\ t[0] = 0
    /\ \A k \in 1 .. Len(s) : t[k] = t[k - 1] + s[k]
Isum(s) == (CHOOSE t : Runs(t, s))[Len(s)]

LEMMA RunsUnique ==
    ASSUME NEW s, Len(s) \in Nat, NEW t, Runs(t, s), NEW u, Runs(u, s)
    PROVE  \A k \in 0 .. Len(s) : t[k] = u[k]
<1> DEFINE T == {k \in 0 .. Len(s) : t[k] = u[k]}
<1>1. 0 \in T  BY DEF Runs
<1>2. ASSUME NEW k \in 0 .. Len(s) - 1, k \in T  PROVE k + 1 \in T
  <2>1. k + 1 \in 1 .. Len(s) /\ k + 1 \in 0 .. Len(s) /\ (k + 1) - 1 = k  BY <1>2
  <2>2. t[k + 1] = t[k] + s[k + 1] /\ u[k + 1] = u[k] + s[k + 1]  BY <2>1 DEF Runs
  <2>. QED BY <2>1, <2>2, <1>2
<1>3. \A k \in 0 .. Len(s) : k \in T
  <2> HIDE DEF T
  <2>. QED BY <1>1, <1>2, InductionTo
<1>. QED BY <1>3

LEMMA SumIs ==
    ASSUME NEW s, Len(s) \in Nat, NEW t, Runs(t, s)
    PROVE  Isum(s) = t[Len(s)] /\ Isum(s) \in Int
<1> DEFINE u == CHOOSE v : Runs(v, s)
<1>1. Runs(u, s)  OBVIOUS
<1>2. Isum(s) = u[Len(s)]  BY DEF Isum
<1> HIDE DEF u
<1>3. u[Len(s)] = t[Len(s)]  BY <1>1, RunsUnique
<1>4. t[Len(s)] \in Int  BY DEF Runs
<1>. QED BY <1>2, <1>3, <1>4

LEMMA SumRuns ==
    ASSUME NEW s, Len(s) \in Nat, \A k \in 1 .. Len(s) : s[k] \in Int
    PROVE  \E t : Runs(t, s)
<1> DEFINE n == Len(s)
           G == [k \in 0 .. n - 1 |-> [x \in Int |-> x + s[k + 1]]]
<1>1. StepsIn(G, n, Int)
  <2>1. ASSUME NEW k \in 0 .. n - 1, NEW x \in Int  PROVE G[k][x] \in Int
    <3>1. s[k + 1] \in Int  OBVIOUS
    <3>. QED BY <3>1
  <2> HIDE DEF G
  <2>. QED BY <2>1 DEF StepsIn
<1>2. PICK t : Recursion(t, n, Int, 0, G)
  <2>1. 0 \in Int  OBVIOUS
  <2> HIDE DEF G
  <2>. QED BY <1>1, <2>1, RecursionTo
<1>3. /\ t \in [0 .. n -> Int] /\ t[0] = 0
      /\ \A k \in 0 .. n - 1 : t[k + 1] = G[k][t[k]]
  BY <1>2 DEF Recursion
<1>4. ASSUME NEW k \in 1 .. n  PROVE t[k] = t[k - 1] + s[k]
  <2>1. k - 1 \in 0 .. n - 1 /\ k - 1 \in 0 .. n /\ (k - 1) + 1 = k  OBVIOUS
  <2>2. t[k] = G[k - 1][t[k - 1]] /\ t[k - 1] \in Int
    <3> HIDE DEF G
    <3>. QED BY <2>1, <1>3
  <2>. QED BY <2>1, <2>2
<1>. QED BY <1>3, <1>4 DEF Runs

\* total is the sum modulo P.
LEMMA TotalIsSum ==
    ASSUME NEW s, Len(s) \in Nat, \A k \in 1 .. Len(s) : s[k] \in Int
    PROVE  total(s) = Isum(s) % P /\ total(s) \in F /\ Isum(s) \in Int
<1> DEFINE n == Len(s)
           Is(g) == g = [k \in 0 .. Len(s) |-> IF k = 0 THEN 0 ELSE (g[k - 1] + s[k]) % P]
           D == CHOOSE g : Is(g)
<1>1. total(s) = D[Len(s)]  BY DEF total
<1>2. PICK t : Runs(t, s)  BY SumRuns
<1>3. Isum(s) = t[n] /\ Isum(s) \in Int  BY <1>2, SumIs
<1> DEFINE h == [k \in 0 .. n |-> t[k] % P]
<1>4. \A k \in 0 .. n : t[k] \in Int  BY <1>2 DEF Runs
<1>5. Is(h)
  <2> DEFINE v(k) == IF k = 0 THEN 0 ELSE (h[k - 1] + s[k]) % P
  <2>1. ASSUME NEW k \in 0 .. n  PROVE h[k] = v(k)
    <3>1. CASE k = 0
      <4>1. t[0] = 0 /\ 0 \in F  BY <1>2, ModulusAssumption DEF Runs, F
      <4>2. 0 % P = 0  BY ModulusAssumption
      <4>. QED BY <3>1, <4>1, <4>2
    <3>2. CASE k # 0
      <4>1. k \in 1 .. n /\ k - 1 \in 0 .. n  BY <3>2
      <4>2. t[k] = t[k - 1] + s[k] /\ t[k - 1] \in Int /\ s[k] \in Int
        BY <4>1, <1>2, <1>4 DEF Runs
      <4>3. h[k] = t[k] % P /\ h[k - 1] = t[k - 1] % P  BY <4>1
      <4>4. Cong(t[k - 1] % P, t[k - 1]) /\ t[k - 1] % P \in Int
        BY <4>2, CongResidue
      <4> DEFINE x == t[k - 1]  y == x % P
      <4>5. x \in Int /\ y \in Int /\ Cong(y, x) /\ s[k] \in Int /\ Cong(s[k], s[k])
        BY <4>2, <4>4 DEF Cong
      <4>6. Cong(y + s[k], x + s[k])
        <5> HIDE DEF x, y
        <5>. QED BY <4>5, CongSum
      <4>7. h[k] = (h[k - 1] + s[k]) % P  BY <4>2, <4>3, <4>6 DEF Cong
      <4>. QED BY <3>2, <4>7
    <3>. QED BY <3>1, <3>2
  <2>2. h = [k \in 0 .. n |-> v(k)]
    <3>1. h = [k \in 0 .. n |-> h[k]]  OBVIOUS
    <3> HIDE DEF h, v
    <3>. QED BY <2>1, <3>1
  <2>. QED BY <2>2
<1>6. Is(D)  BY <1>5
<1>7. \A k \in 0 .. n : D[k] = h[k]
  <2> HIDE DEF D, h
  <2> DEFINE T == {k \in 0 .. n : D[k] = h[k]}
  <2>1. 0 \in T  BY <1>5, <1>6
  <2>2. ASSUME NEW k \in 0 .. n - 1, k \in T  PROVE k + 1 \in T
    <3>1. k + 1 \in 0 .. n /\ k + 1 # 0 /\ (k + 1) - 1 = k  BY <2>2
    <3>2. D[k + 1] = (D[k] + s[k + 1]) % P  BY <3>1, <1>6
    <3>3. h[k + 1] = (h[k] + s[k + 1]) % P  BY <3>1, <1>5
    <3>. QED BY <3>1, <3>2, <3>3, <2>2
  <2>3. \A k \in 0 .. n : k \in T
    <3> HIDE DEF T
    <3>. QED BY <2>1, <2>2, InductionTo
  <2>. QED BY <2>3
<1>8. total(s) = t[n] % P
  <2>1. n \in 0 .. n  OBVIOUS
  <2>2. D[n] = h[n]
    <3> HIDE DEF D, h
    <3>. QED BY <2>1, <1>7
  <2>3. h[n] = t[n] % P  BY <2>1
  <2>4. total(s) = D[n]
    <3> HIDE DEF D
    <3>. QED BY <1>1
  <2> HIDE DEF D, h
  <2>. QED BY <2>2, <2>3, <2>4
<1>. QED BY <1>3, <1>8, Modulus
\* A sequence of integers, whose elements are all there is to know of it.
Integers(s) == Len(s) \in Nat /\ \A k \in 1 .. Len(s) : s[k] \in Int

LEMMA SumInteger == ASSUME NEW s, Integers(s) PROVE Isum(s) \in Int
<1>1. PICK t : Runs(t, s)  BY SumRuns DEF Integers
<1>. QED BY <1>1, SumIs DEF Integers

LEMMA SumEmpty == ASSUME NEW s, Integers(s), Len(s) = 0 PROVE Isum(s) = 0
<1>1. PICK t : Runs(t, s)  BY SumRuns DEF Integers
<1>2. Isum(s) = t[Len(s)]  BY <1>1, SumIs DEF Integers
<1>3. t[0] = 0  BY <1>1 DEF Runs
<1>. QED BY <1>2, <1>3

\* w has the elements of s and, at i, x.
Inserted(w, s, i, x) ==
    /\ Len(w) = Len(s) + 1
    /\ \A k \in 1 .. i - 1 : w[k] = s[k]
    /\ w[i] = x
    /\ \A k \in i + 1 .. Len(w) : w[k] = s[k - 1]

LEMMA SumInserted ==
    ASSUME NEW s, Integers(s), NEW w, NEW i \in 1 .. Len(s) + 1, NEW x \in Int,
           Inserted(w, s, i, x)
    PROVE  Isum(w) = Isum(s) + x
<1>1. Len(s) \in Nat /\ Len(w) = Len(s) + 1 /\ Len(w) \in Nat  BY DEF Integers, Inserted
<1>2. PICK t : Runs(t, s)  BY SumRuns DEF Integers
<1>3. Isum(s) = t[Len(s)]  BY <1>1, <1>2, SumIs
<1>4. /\ \A k \in 0 .. Len(s) : t[k] \in Int
      /\ \A k \in 1 .. Len(s) : t[k] = t[k - 1] + s[k] /\ s[k] \in Int
  BY <1>2 DEF Runs, Integers
<1> DEFINE u == [k \in 0 .. Len(w) |-> IF k < i THEN t[k] ELSE t[k - 1] + x]
<1>5. u \in [0 .. Len(w) -> Int]
  <2>1. ASSUME NEW k \in 0 .. Len(w)  PROVE (IF k < i THEN t[k] ELSE t[k - 1] + x) \in Int
    <3>1. CASE k < i
      <4>1. k \in 0 .. Len(s)  BY <3>1, <1>1
      <4>. QED BY <3>1, <4>1, <1>4
    <3>2. CASE ~ (k < i)
      <4>1. k - 1 \in 0 .. Len(s)  BY <3>2, <1>1
      <4>. QED BY <3>2, <4>1, <1>4
    <3>. QED BY <3>1, <3>2
  <2>. QED BY <2>1
<1>6. u[0] = 0
  <2>1. 0 < i /\ 0 \in 0 .. Len(w)  BY <1>1
  <2>. QED BY <2>1, <1>2 DEF Runs
<1>7. ASSUME NEW k \in 1 .. Len(w)  PROVE u[k] = u[k - 1] + w[k]
  <2>1. k \in 0 .. Len(w) /\ k - 1 \in 0 .. Len(w) /\ k \in Int /\ i \in Int  BY <1>1
  <2>2. CASE k < i
    <3>1. k \in 1 .. i - 1 /\ k - 1 < i /\ k \in 1 .. Len(s)  BY <2>1, <2>2, <1>1
    <3>2. u[k] = t[k] /\ u[k - 1] = t[k - 1]  BY <3>1, <2>1, <2>2
    <3>3. w[k] = s[k]  BY <3>1 DEF Inserted
    <3>4. t[k] = t[k - 1] + s[k]  BY <3>1, <1>4
    <3> HIDE DEF u
    <3>. QED BY <3>2, <3>3, <3>4
  <2>3. CASE k = i
    <3>1. k - 1 < i /\ ~ (k < i)  BY <2>1, <2>3
    <3>2. u[k] = t[k - 1] + x /\ u[k - 1] = t[k - 1]  BY <3>1, <2>1
    <3>3. w[k] = x  BY <2>3 DEF Inserted
    <3> HIDE DEF u
    <3>. QED BY <3>2, <3>3
  <2>4. CASE k > i
    <3>1. /\ ~ (k < i) /\ ~ (k - 1 < i) /\ k \in i + 1 .. Len(w) /\ k - 1 \in 1 .. Len(s)
          /\ (k - 1) - 1 \in 0 .. Len(s)
      BY <2>1, <2>4, <1>1
    <3>2. u[k] = t[k - 1] + x /\ u[k - 1] = t[(k - 1) - 1] + x  BY <3>1, <2>1
    <3>3. w[k] = s[k - 1]  BY <3>1 DEF Inserted
    <3>4. t[k - 1] = t[(k - 1) - 1] + s[k - 1] /\ s[k - 1] \in Int
          /\ t[(k - 1) - 1] \in Int
      BY <3>1, <1>4
    <3> DEFINE a == t[(k - 1) - 1]  b == s[k - 1]
    <3>5. (a + b) + x = (a + x) + b  BY <3>4
    <3> HIDE DEF u
    <3>. QED BY <3>2, <3>3, <3>4, <3>5
  <2>. QED BY <2>1, <2>2, <2>3, <2>4
<1>8. Runs(u, w)  BY <1>5, <1>6, <1>7 DEF Runs
<1>9. Isum(w) = u[Len(w)]
  <2> HIDE DEF u
  <2>. QED BY <1>1, <1>8, SumIs
<1>10. u[Len(w)] = t[Len(s)] + x
  <2>1. Len(w) \in 0 .. Len(w) /\ ~ (Len(w) < i) /\ Len(w) - 1 = Len(s)  BY <1>1
  <2>. QED BY <2>1
<1>. QED BY <1>3, <1>9, <1>10

\* One element is changed by d.
LEMMA SumUpdated ==
    ASSUME NEW s, Integers(s), NEW w, Len(w) = Len(s), NEW i \in 1 .. Len(s), NEW d \in Int,
           \A k \in 1 .. Len(s) : w[k] = IF k = i THEN s[k] + d ELSE s[k]
    PROVE  Isum(w) = Isum(s) + d
<1>1. Len(s) \in Nat  BY DEF Integers
<1>2. PICK t : Runs(t, s)  BY SumRuns DEF Integers
<1>3. Isum(s) = t[Len(s)]  BY <1>1, <1>2, SumIs
<1>4. /\ \A k \in 0 .. Len(s) : t[k] \in Int
      /\ \A k \in 1 .. Len(s) : t[k] = t[k - 1] + s[k] /\ s[k] \in Int
  BY <1>2 DEF Runs, Integers
<1> DEFINE u == [k \in 0 .. Len(s) |-> IF k < i THEN t[k] ELSE t[k] + d]
<1>5. u \in [0 .. Len(s) -> Int]  BY <1>4
<1>6. u[0] = 0
  <2>1. 0 < i /\ 0 \in 0 .. Len(s)  BY <1>1
  <2>. QED BY <2>1, <1>2 DEF Runs
<1>7. ASSUME NEW k \in 1 .. Len(s)  PROVE u[k] = u[k - 1] + w[k]
  <2>1. k \in 0 .. Len(s) /\ k - 1 \in 0 .. Len(s) /\ k \in Int /\ i \in Int  BY <1>1
  <2>2. /\ t[k] = t[k - 1] + s[k] /\ t[k - 1] \in Int /\ s[k] \in Int
        /\ w[k] = IF k = i THEN s[k] + d ELSE s[k]
    BY <2>1, <1>4
  <2>3. /\ u[k] = IF k < i THEN t[k] ELSE t[k] + d
        /\ u[k - 1] = IF k - 1 < i THEN t[k - 1] ELSE t[k - 1] + d
    BY <2>1
  <2> HIDE DEF u
  <2>4. CASE k < i  BY <2>1, <2>2, <2>3, <2>4
  <2>5. CASE k = i  BY <2>1, <2>2, <2>3, <2>5
  <2>6. CASE k > i  BY <2>1, <2>2, <2>3, <2>6
  <2>. QED BY <2>1, <2>4, <2>5, <2>6
<1>8. Runs(u, w)  BY <1>5, <1>6, <1>7 DEF Runs
<1>9. Isum(w) = u[Len(s)]
  <2> HIDE DEF u
  <2>. QED BY <1>1, <1>8, SumIs
<1>10. u[Len(s)] = t[Len(s)] + d
  <2>1. Len(s) \in 0 .. Len(s) /\ ~ (Len(s) < i)  BY <1>1
  <2>. QED BY <2>1
<1>. QED BY <1>3, <1>9, <1>10

\* w is a followed by b.
Joined(w, a, b) ==
    /\ Len(w) = Len(a) + Len(b)
    /\ \A k \in 1 .. Len(a) : w[k] = a[k]
    /\ \A k \in 1 .. Len(b) : w[Len(a) + k] = b[k]

LEMMA SumJoined ==
    ASSUME NEW a, Integers(a), NEW b, Integers(b), NEW w, Joined(w, a, b)
    PROVE  Isum(w) = Isum(a) + Isum(b)
<1> DEFINE n == Len(a)
           m == Len(b)
<1>1. n \in Nat /\ m \in Nat /\ Len(w) = n + m  BY DEF Integers, Joined
<1>2. PICK t : Runs(t, a)  BY SumRuns DEF Integers
<1>3. PICK u : Runs(u, b)  BY SumRuns DEF Integers
<1>4. Isum(a) = t[n] /\ Isum(b) = u[m]  BY <1>1, <1>2, <1>3, SumIs
<1>5. /\ t[0] = 0 /\ u[0] = 0
      /\ \A k \in 0 .. n : t[k] \in Int
      /\ \A k \in 0 .. m : u[k] \in Int
      /\ \A k \in 1 .. n : t[k] = t[k - 1] + a[k] /\ a[k] \in Int
      /\ \A k \in 1 .. m : u[k] = u[k - 1] + b[k] /\ b[k] \in Int
  BY <1>2, <1>3 DEF Runs, Integers
<1>6. /\ \A k \in 1 .. n : w[k] = a[k]
      /\ \A k \in 1 .. m : w[n + k] = b[k]
  BY DEF Joined
<1> DEFINE v == [k \in 0 .. Len(w) |-> IF k <= n THEN t[k] ELSE t[n] + u[k - n]]
<1> HIDE DEF n, m
<1>7. v \in [0 .. Len(w) -> Int]
  <2>1. ASSUME NEW k \in 0 .. Len(w)  PROVE (IF k <= n THEN t[k] ELSE t[n] + u[k - n]) \in Int
    <3>1. CASE k <= n
      <4>1. k \in 0 .. n  BY <3>1, <1>1
      <4>. QED BY <3>1, <4>1, <1>5
    <3>2. CASE ~ (k <= n)
      <4>1. k - n \in 0 .. m /\ n \in 0 .. n  BY <3>2, <1>1
      <4>. QED BY <3>2, <4>1, <1>5
    <3>. QED BY <3>1, <3>2
  <2>. QED BY <2>1
<1>8. v[0] = 0
  <2>1. 0 <= n /\ 0 \in 0 .. Len(w)  BY <1>1
  <2>. QED BY <2>1, <1>5
<1>9. ASSUME NEW k \in 1 .. Len(w)  PROVE v[k] = v[k - 1] + w[k]
  <2>1. k \in 0 .. Len(w) /\ k - 1 \in 0 .. Len(w) /\ k \in Int  BY <1>1
  <2>2. /\ v[k] = IF k <= n THEN t[k] ELSE t[n] + u[k - n]
        /\ v[k - 1] = IF k - 1 <= n THEN t[k - 1] ELSE t[n] + u[(k - 1) - n]
    BY <2>1
  <2> HIDE DEF v
  <2>3. CASE k <= n
    <3>1. k \in 1 .. n /\ k - 1 <= n  BY <2>1, <2>3, <1>1
    <3>. QED BY <3>1, <2>2, <2>3, <1>5, <1>6
  <2>4. CASE k = n + 1
    <3>1. /\ ~ (k <= n) /\ k - 1 <= n /\ k - 1 = n /\ k - n = 1 /\ 1 \in 1 .. m
      BY <2>1, <2>4, <1>1
    <3>2. w[n + 1] = b[1] /\ u[1] = u[1 - 1] + b[1] /\ b[1] \in Int
      BY <3>1, <1>5, <1>6
    <3>3. u[1] = b[1] /\ w[k] = b[1]  BY <3>2, <2>4, <1>5
    <3>. QED BY <3>1, <3>3, <2>2
  <2>5. CASE k > n + 1
    <3> DEFINE j == k - n
    <3>1. /\ ~ (k <= n) /\ ~ (k - 1 <= n) /\ (k - 1) - n = j - 1 /\ n + j = k
          /\ j \in 1 .. m /\ j - 1 \in 0 .. m
      BY <2>1, <2>5, <1>1
    <3> HIDE DEF j
    <3>2. w[n + j] = b[j] /\ u[j] = u[j - 1] + b[j] /\ b[j] \in Int /\ u[j - 1] \in Int
      BY <3>1, <1>5, <1>6
    <3>3. t[n] \in Int  BY <1>1, <1>5
    <3>4. v[k] = t[n] + u[j] /\ v[k - 1] = t[n] + u[j - 1] /\ w[k] = b[j]
      BY <3>1, <3>2, <2>2 DEF j
    <3>. QED BY <3>2, <3>3, <3>4
  <2>. QED BY <2>1, <2>3, <2>4, <2>5, <1>1
<1>10. Runs(v, w)  BY <1>7, <1>8, <1>9 DEF Runs
<1>11. Isum(w) = v[Len(w)]
  <2> HIDE DEF v
  <2>. QED BY <1>1, <1>10, SumIs
<1>12. v[Len(w)] = t[n] + u[m]
  <2>1. Len(w) \in 0 .. Len(w) /\ Len(w) = n + m /\ (Len(w) <= n <=> m = 0)  BY <1>1
  <2>2. v[Len(w)] = IF Len(w) <= n THEN t[Len(w)] ELSE t[n] + u[Len(w) - n]  BY <2>1
  <2>3. CASE m = 0
    <3>1. Len(w) <= n /\ Len(w) = n  BY <2>1, <2>3, <1>1
    <3>2. t[n] \in Int  BY <1>1, <1>5
    <3> HIDE DEF v
    <3>. QED BY <2>2, <2>3, <3>1, <3>2, <1>5
  <2>4. CASE m # 0
    <3>1. ~ (Len(w) <= n) /\ Len(w) - n = m  BY <2>1, <2>4, <1>1
    <3> HIDE DEF v
    <3>. QED BY <2>2, <3>1
  <2>. QED BY <2>3, <2>4
<1>. QED BY <1>4, <1>11, <1>12

LEMMA SumScaled ==
    ASSUME NEW s, Integers(s), NEW w, Integers(w), Len(w) = Len(s), NEW c \in Int,
           \A k \in 1 .. Len(s) : Cong(w[k], c * s[k])
    PROVE  Cong(Isum(w), c * Isum(s))
<1> DEFINE n == Len(s)
<1>1. n \in Nat  BY DEF Integers
<1>2. PICK t : Runs(t, s)  BY SumRuns DEF Integers
<1>3. PICK u : Runs(u, w)  BY SumRuns DEF Integers
<1>4. Isum(s) = t[n] /\ Isum(w) = u[n]  BY <1>1, <1>2, <1>3, SumIs
<1>5. /\ t[0] = 0 /\ u[0] = 0
      /\ \A k \in 0 .. n : t[k] \in Int /\ u[k] \in Int
      /\ \A k \in 1 .. n : t[k] = t[k - 1] + s[k] /\ u[k] = u[k - 1] + w[k]
      /\ \A k \in 1 .. n : s[k] \in Int /\ w[k] \in Int
  BY <1>2, <1>3 DEF Runs, Integers
<1> DEFINE T == {k \in 0 .. n : Cong(u[k], c * t[k])}
<1> HIDE DEF n
<1>6. 0 \in T
  <2>1. c * 0 = 0  OBVIOUS
  <2>. QED BY <2>1, <1>1, <1>5 DEF Cong
<1>7. ASSUME NEW k \in 0 .. n - 1, k \in T  PROVE k + 1 \in T
  <2>1. k + 1 \in 1 .. n /\ k + 1 \in 0 .. n /\ (k + 1) - 1 = k /\ k \in 0 .. n
    BY <1>1
  <2> DEFINE a == t[k]  b == u[k]  x == s[k + 1]  y == w[k + 1]
  <2>2. /\ a \in Int /\ b \in Int /\ x \in Int /\ y \in Int
        /\ t[k + 1] = a + x /\ u[k + 1] = b + y
        /\ Cong(b, c * a)
    BY <2>1, <1>5, <1>7
  <2>3. Cong(y, c * x)  BY <2>1 DEF n
  <2>4. Cong(b + y, c * (a + x))
    <3> HIDE DEF a, b, x, y
    <3>1. c * a \in Int /\ c * x \in Int /\ c * (a + x) = c * a + c * x  BY <2>2
    <3>2. Cong(b + y, c * a + c * x)  BY <2>2, <2>3, <3>1, CongSum
    <3>. QED BY <3>1, <3>2
  <2>. QED BY <2>1, <2>2, <2>4
<1>8. n \in T
  <2>1. \A k \in 0 .. n : k \in T
    <3> HIDE DEF T
    <3>. QED BY <1>1, <1>6, <1>7, InductionTo
  <2>. QED BY <2>1, <1>1
<1>. QED BY <1>4, <1>8

----------------------------------------------------------------------------
(* Indexers.                                                               *)

Assignments == [Nat -> F]
Entries == Nat \X F

IxProducts(w, V) == [k \in 1 .. Len(w) |-> w[k][2] * V[w[k][1]]]
IxSum(w, V) == Isum(IxProducts(w, V))

Below(w, n) == \A k \in 1 .. Len(w) : w[k][1] < n
Sorted(w) == \A j, k \in 1 .. Len(w) : j < k => w[j][1] < w[k][1]

GoodIx(ix, n) ==
    /\ ix \in [values : Seq(Entries), last : Int \X Int]
    /\ Below(ix.values, n) /\ Sorted(ix.values)
    /\ ix.last # NoInsertion =>
          /\ ix.last[1] \in 1 .. Len(ix.values)
          /\ ix.values[ix.last[1]][1] = ix.last[2]

\* What an insertion of c at key promises.
Adds(jx, ix, n, key, c) ==
    /\ GoodIx(jx, n)
    /\ \A V \in Assignments :
          Cong(IxSum(jx.values, V), IxSum(ix.values, V) + c * V[key])

LEMMA EntryAt ==
    ASSUME NEW w \in Seq(Entries), NEW k \in 1 .. Len(w)
    PROVE  /\ w[k] \in Entries /\ w[k] = <<w[k][1], w[k][2]>>
           /\ w[k][1] \in Nat /\ w[k][2] \in F /\ w[k][2] \in Int
<1>1. w[k] \in Nat \X F  BY ElementOfSeq DEF Entries
<1>2. F \subseteq Int  BY ModulusAssumption DEF F
<1>3. w[k] = <<w[k][1], w[k][2]>> /\ w[k][1] \in Nat /\ w[k][2] \in F  BY <1>1
<1>. QED BY <1>1, <1>2, <1>3 DEF Entries

LEMMA AssignmentAt ==
    ASSUME NEW V \in Assignments, NEW k \in Nat
    PROVE  V[k] \in F /\ V[k] \in Int
BY ModulusAssumption DEF Assignments, F

LEMMA IxProductsAre ==
    ASSUME NEW w \in Seq(Entries), NEW V \in Assignments
    PROVE  /\ Integers(IxProducts(w, V)) /\ Len(IxProducts(w, V)) = Len(w)
           /\ \A k \in 1 .. Len(w) : IxProducts(w, V)[k] = w[k][2] * V[w[k][1]]
<1> DEFINE p == IxProducts(w, V)
<1>1. Len(w) \in Nat  BY LenProperties
<1>2. \A k \in 1 .. Len(w) : p[k] = w[k][2] * V[w[k][1]]  BY DEF IxProducts
<1>3. Len(p) = Len(w)  BY <1>1 DEF IxProducts
<1>4. ASSUME NEW k \in 1 .. Len(w)  PROVE p[k] \in Int
  <2>1. w[k][2] \in Int /\ w[k][1] \in Nat  BY EntryAt
  <2>2. V[w[k][1]] \in Int  BY <2>1, AssignmentAt
  <2> HIDE DEF p
  <2>. QED BY <1>2, <2>1, <2>2
<1> HIDE DEF p
<1>5. Integers(p)  BY <1>1, <1>3, <1>4 DEF Integers
<1>. QED BY <1>2, <1>3, <1>5 DEF p

LEMMA UpdateAdds ==
    ASSUME NEW n \in Nat, NEW ix, GoodIx(ix, n), NEW i \in 1 .. Len(ix.values), NEW c \in F
    PROVE  Adds(update(ix, i, c), ix, n, ix.values[i][1], c)
<1> DEFINE w == ix.values
           a == w[i][2]
           key == w[i][1]
           e == (a + c) % P
           x == <<key, e>>
           u == [w EXCEPT ![i] = x]
           jx == update(ix, i, c)
<1>1. w \in Seq(Entries) /\ Len(w) \in Nat /\ ix.last \in Int \X Int
  BY LenProperties DEF GoodIx
<1>2. key \in Nat /\ a \in F /\ a \in Int /\ c \in Int
  BY <1>1, EntryAt, ModulusAssumption DEF F
<1>3. e \in F /\ e \in Int /\ Cong(e, a + c)
  <2>1. a + c \in Int  BY <1>2
  <2>. QED BY <2>1, CongResidue
<1>4. jx = [ix EXCEPT !.values = u]  BY DEF update
<1>5. jx = [values |-> u, last |-> ix.last]  BY <1>4 DEF GoodIx
<1>6. x \in Entries
  <2> HIDE DEF e, key
  <2>. QED BY <1>2, <1>3 DEF Entries
<1>7. /\ u \in Seq(Entries) /\ Len(u) = Len(w)
      /\ \A k \in 1 .. Len(w) : u[k] = IF k = i THEN x ELSE w[k]
  <2> HIDE DEF x, w
  <2>. QED BY <1>1, <1>6, ExceptSeq DEF w
<1>8. x[1] = key /\ x[2] = e  OBVIOUS
<1> HIDE DEF x, e, u, jx
<1>9. \A k \in 1 .. Len(w) : u[k][1] = w[k][1]
  BY <1>7, <1>8
<1>10. GoodIx(jx, n)
  <2>1. jx.values = u /\ jx.last = ix.last  BY <1>5
  <2>2. jx \in [values : Seq(Entries), last : Int \X Int]  BY <1>5, <1>7, <1>1
  <2>3. Below(u, n) /\ Sorted(u)
    <3>1. Below(w, n) /\ Sorted(w)  BY DEF GoodIx
    <3> HIDE DEF w
    <3>. QED BY <3>1, <1>7, <1>9 DEF Below, Sorted
  <2>4. ix.last # NoInsertion => ix.last[1] \in 1 .. Len(w) /\ w[ix.last[1]][1] = ix.last[2]
    BY DEF GoodIx
  <2>5. ix.last # NoInsertion => ix.last[1] \in 1 .. Len(u) /\ u[ix.last[1]][1] = ix.last[2]
    <3> HIDE DEF w
    <3>. QED BY <2>4, <1>7, <1>9
  <2> HIDE DEF w
  <2>. QED BY <2>1, <2>2, <2>3, <2>5 DEF GoodIx
<1>11. ASSUME NEW V \in Assignments
       PROVE  Cong(IxSum(u, V), IxSum(w, V) + c * V[key])
  <2> DEFINE s == IxProducts(w, V)  t == IxProducts(u, V)
             v == V[key]
             d == e * v - a * v
  <2>1. v \in Int  BY <1>2, AssignmentAt
  <2>2. /\ Integers(s) /\ Len(s) = Len(w)
        /\ \A k \in 1 .. Len(w) : s[k] = w[k][2] * V[w[k][1]]
    <3> HIDE DEF w
    <3>. QED BY <1>1, IxProductsAre
  <2>3. /\ Integers(t) /\ Len(t) = Len(u)
        /\ \A k \in 1 .. Len(u) : t[k] = u[k][2] * V[u[k][1]]
    BY <1>7, IxProductsAre
  <2>4. d \in Int
    <3> HIDE DEF v, a
    <3>. QED BY <1>2, <1>3, <2>1
  <2> HIDE DEF s, t
  <2>5. \A k \in 1 .. Len(s) : t[k] = IF k = i THEN s[k] + d ELSE s[k]
    <3> TAKE k \in 1 .. Len(s)
    <3>1. CASE k = i
      <4>1. s[k] = a * v  BY <3>1, <2>2
      <4>2. t[k] = e * v  BY <3>1, <2>2, <2>3, <1>7, <1>8, <1>9
      <4>3. a * v \in Int /\ e * v \in Int
        <5> HIDE DEF a, v
        <5>. QED BY <1>2, <1>3, <2>1
      <4>. QED BY <3>1, <4>1, <4>2, <4>3
    <3>2. CASE k # i
      <4>1. u[k] = w[k]  BY <3>2, <1>7, <2>2
      <4>2. t[k] = s[k]  BY <4>1, <2>2, <2>3, <1>7
      <4>. QED BY <3>2, <4>2
    <3>. QED BY <3>1, <3>2
  <2>6. Isum(t) = Isum(s) + d
    <3>1. i \in 1 .. Len(s) /\ Len(t) = Len(s)  BY <2>2, <2>3, <1>7
    <3> HIDE DEF d
    <3>. QED BY <2>2, <2>4, <2>5, <3>1, SumUpdated
  <2>7. Isum(s) \in Int  BY <2>2, SumInteger
  <2>8. PICK k \in Int : e = (a + c) + k * P
    <3>1. a + c \in Int  BY <1>2
    <3> HIDE DEF a
    <3>. QED BY <3>1, <1>3, CongMultiple
  <2>9. Isum(s) + d = (Isum(s) + c * v) + (k * v) * P
    <3> HIDE DEF a, v
    <3>1. e * v = a * v + c * v + (k * v) * P
      BY <2>8, <1>2, <2>1, ModulusAssumption
    <3>2. /\ a * v \in Int /\ c * v \in Int /\ (k * v) * P \in Int /\ e * v \in Int
      BY <1>2, <1>3, <2>1, ModulusAssumption
    <3> DEFINE A == a * v  C == c * v  K == (k * v) * P  E == e * v
    <3>3. d = E - A /\ E = A + C + K /\ A \in Int /\ C \in Int /\ K \in Int
      BY <3>1, <3>2
    <3> HIDE DEF A, C, K, E, d
    <3>4. Isum(s) + d = (Isum(s) + C) + K  BY <3>3, <2>7
    <3>. QED BY <3>4 DEF C, K
  <2>10. Cong(Isum(s) + d, Isum(s) + c * v)
    <3>1. k * v \in Int /\ c * v \in Int  BY <2>1, <1>2
    <3> HIDE DEF d, v
    <3>2. Isum(s) + d \in Int /\ Isum(s) + c * v \in Int  BY <3>1, <2>4, <2>7
    <3>. QED BY <2>9, <3>1, <3>2, CongMultiple
  <2>. QED BY <2>6, <2>10 DEF IxSum, s, t
<1>12. jx.values = u  BY <1>5
<1>. QED BY <1>10, <1>11, <1>12 DEF Adds, jx

\* InsertAt, by its elements.
LEMMA InsertAtIs ==
    ASSUME NEW S, NEW w \in Seq(S), NEW i \in 1 .. Len(w) + 1, NEW x \in S
    PROVE  InsertAt(w, i, x) \in Seq(S) /\ Inserted(InsertAt(w, i, x), w, i, x)
<1> DEFINE a == SubSeq(w, 1, i - 1)
           b == SubSeq(w, i, Len(w))
           one == <<x>>
           h == a \o one
           u == h \o b
<1>1. u = InsertAt(w, i, x)  BY DEF InsertAt
<1>2. Len(w) \in Nat /\ i \in Int /\ 1 <= i /\ i <= Len(w) + 1  BY LenProperties
<1>3. \A k \in 1 .. Len(w) : w[k] \in S  BY ElementOfSeq
<1>4. /\ a \in Seq(S) /\ Len(a) = i - 1
      /\ \A k \in 1 .. i - 1 : a[k] = w[k]
  <2>1. 1 \in Int /\ i - 1 \in Int /\ \A k \in 1 .. i - 1 : w[k] \in S  BY <1>2, <1>3
  <2>2. /\ a \in Seq(S) /\ Len(a) = IF 1 <= i - 1 THEN (i - 1) - 1 + 1 ELSE 0
        /\ \A k \in 1 .. (i - 1) - 1 + 1 : a[k] = w[1 + k - 1]
    BY <2>1, SubSeqProperties
  <2> HIDE DEF a
  <2>3. \A k \in 1 .. i - 1 : k \in 1 .. (i - 1) - 1 + 1 /\ 1 + k - 1 = k  BY <1>2
  <2>4. Len(a) = i - 1  BY <2>2, <1>2
  <2>. QED BY <2>2, <2>3, <2>4
<1>5. /\ b \in Seq(S) /\ Len(b) = Len(w) - i + 1
      /\ \A k \in 1 .. Len(w) - i + 1 : b[k] = w[i + k - 1]
  <2>1. Len(w) \in Int /\ \A k \in i .. Len(w) : w[k] \in S  BY <1>2, <1>3
  <2>2. /\ b \in Seq(S) /\ Len(b) = IF i <= Len(w) THEN Len(w) - i + 1 ELSE 0
        /\ \A k \in 1 .. Len(w) - i + 1 : b[k] = w[i + k - 1]
    BY <2>1, <1>2, SubSeqProperties
  <2> HIDE DEF b
  <2>. QED BY <2>2, <1>2
<1>6. one \in Seq(S) /\ Len(one) = 1 /\ one[1] = x  OBVIOUS
<1> HIDE DEF a, b, one
<1>7. /\ h \in Seq(S) /\ Len(h) = i
      /\ \A k \in 1 .. i - 1 : h[k] = w[k]
      /\ h[i] = x
  <2>1. /\ h \in Seq(S) /\ Len(h) = Len(a) + Len(one)
        /\ \A k \in 1 .. Len(a) + Len(one) : h[k] = IF k <= Len(a) THEN a[k] ELSE one[k - Len(a)]
    BY <1>4, <1>6, ConcatProperties
  <2> HIDE DEF h
  <2>2. \A k \in 1 .. i - 1 : h[k] = w[k]  BY <2>1, <1>2, <1>4, <1>6
  <2>3. h[i] = x
    <3>1. i \in 1 .. Len(a) + Len(one) /\ ~ (i <= Len(a)) /\ i - Len(a) = 1  BY <1>2, <1>4, <1>6
    <3>. QED BY <3>1, <2>1, <1>6
  <2>. QED BY <2>1, <2>2, <2>3, <1>2, <1>4, <1>6
<1> HIDE DEF h
<1>8. /\ u \in Seq(S) /\ Len(u) = Len(h) + Len(b)
      /\ \A k \in 1 .. Len(h) + Len(b) : u[k] = IF k <= Len(h) THEN h[k] ELSE b[k - Len(h)]
  BY <1>5, <1>7, ConcatProperties
<1> HIDE DEF u
<1>9. Len(u) = Len(w) + 1  BY <1>8, <1>7, <1>5, <1>2
<1>10. \A k \in 1 .. i - 1 : u[k] = w[k]  BY <1>8, <1>7, <1>5, <1>2
<1>11. u[i] = x  BY <1>8, <1>7, <1>5, <1>2
<1>12. ASSUME NEW k \in i + 1 .. Len(u)  PROVE u[k] = w[k - 1]
  <2>1. /\ k \in 1 .. Len(h) + Len(b) /\ ~ (k <= Len(h)) /\ k - Len(h) = k - i
        /\ k - i \in 1 .. Len(w) - i + 1 /\ i + (k - i) - 1 = k - 1
    BY <1>9, <1>7, <1>5, <1>2
  <2>2. u[k] = b[k - i]  BY <2>1, <1>8
  <2>3. b[k - i] = w[i + (k - i) - 1]  BY <2>1, <1>5
  <2>. QED BY <2>1, <2>2, <2>3
<1>13. Inserted(u, w, i, x)  BY <1>9, <1>10, <1>11, <1>12 DEF Inserted
<1>. QED BY <1>1, <1>8, <1>13

\* key belongs at i.
Belongs(w, i, key) ==
    /\ \A j \in 1 .. i - 1 : w[j][1] < key
    /\ \A j \in i .. Len(w) : w[j][1] > key

LEMMA InsertAdds ==
    ASSUME NEW n \in Nat, NEW ix, GoodIx(ix, n), NEW i \in 1 .. Len(ix.values) + 1,
           NEW c \in F, NEW key \in 0 .. n - 1, Belongs(ix.values, i, key)
    PROVE  Adds(insert(ix, i, key, c), ix, n, key, c)
<1> DEFINE w == ix.values
           x == <<key, c>>
           u == InsertAt(w, i, x)
           here == <<i, key>>
           jx == insert(ix, i, key, c)
<1>1. w \in Seq(Entries) /\ Len(w) \in Nat
  BY LenProperties DEF GoodIx
<1>2. key \in Nat /\ c \in Int /\ x \in Entries
  BY ModulusAssumption DEF F, Entries
<1>3. jx = [values |-> u, last |-> here]  BY DEF insert
<1>4. x[1] = key /\ x[2] = c /\ here[1] = i /\ here[2] = key /\ here \in Int \X Int
  BY <1>1
<1>5. Below(w, n) /\ Sorted(w)  BY DEF GoodIx
<1>6. /\ \A j \in 1 .. i - 1 : w[j][1] < key
      /\ \A j \in i .. Len(w) : w[j][1] > key
  BY DEF Belongs
<1>7. i \in 1 .. Len(w) + 1  OBVIOUS
<1> HIDE DEF x, w, here
<1>8. u \in Seq(Entries) /\ Inserted(u, w, i, x)
  BY <1>1, <1>2, <1>7, InsertAtIs
<1> HIDE DEF u
<1>9. \A k \in 1 .. Len(w) : w[k][1] \in Nat  BY <1>1, EntryAt
<1>10. /\ Len(u) = Len(w) + 1 /\ u[i][1] = key
       /\ \A k \in 1 .. i - 1 : u[k][1] = w[k][1]
       /\ \A k \in i + 1 .. Len(u) : u[k][1] = w[k - 1][1]
  BY <1>8, <1>4 DEF Inserted
<1>11. Below(u, n)
  <2> SUFFICES ASSUME NEW k \in 1 .. Len(u)  PROVE u[k][1] < n
    BY DEF Below
  <2>1. CASE k < i
    <3>1. k \in 1 .. i - 1 /\ k \in 1 .. Len(w)  BY <2>1, <1>1, <1>7, <1>10
    <3>. QED BY <3>1, <1>5, <1>10 DEF Below
  <2>2. CASE k = i  BY <2>2, <1>10
  <2>3. CASE k > i
    <3>1. k \in i + 1 .. Len(u) /\ k - 1 \in 1 .. Len(w)  BY <2>3, <1>1, <1>7, <1>10
    <3>. QED BY <3>1, <1>5, <1>10 DEF Below
  <2>. QED BY <2>1, <2>2, <2>3, <1>1, <1>7, <1>10
<1>12. Sorted(u)
  <2> SUFFICES ASSUME NEW j \in 1 .. Len(u), NEW k \in 1 .. Len(u), j < k
               PROVE  u[j][1] < u[k][1]
    BY DEF Sorted
  <2>1. CASE k < i
    <3>1. /\ j \in 1 .. i - 1 /\ k \in 1 .. i - 1 /\ j \in 1 .. Len(w) /\ k \in 1 .. Len(w)
      BY <2>1, <1>1, <1>7, <1>10
    <3>. QED BY <3>1, <1>5, <1>10 DEF Sorted
  <2>2. CASE k = i
    <3>1. j \in 1 .. i - 1  BY <2>2, <1>1, <1>7, <1>10
    <3>. QED BY <3>1, <2>2, <1>6, <1>10
  <2>3. CASE k > i /\ j < i
    <3>1. /\ j \in 1 .. i - 1 /\ k \in i + 1 .. Len(u) /\ k - 1 \in i .. Len(w)
          /\ j \in 1 .. Len(w) /\ k - 1 \in 1 .. Len(w) /\ j < k - 1
      BY <2>3, <1>1, <1>7, <1>10
    <3>. QED BY <3>1, <1>5, <1>10 DEF Sorted
  <2>4. CASE k > i /\ j = i
    <3>1. /\ k \in i + 1 .. Len(u) /\ k - 1 \in i .. Len(w) /\ k - 1 \in 1 .. Len(w)
      BY <2>4, <1>1, <1>7, <1>10
    <3>2. w[k - 1][1] > key /\ w[k - 1][1] \in Nat  BY <3>1, <1>6, <1>9
    <3>. QED BY <3>1, <3>2, <2>4, <1>10, <1>2
  <2>5. CASE j > i
    <3>1. /\ j \in i + 1 .. Len(u) /\ k \in i + 1 .. Len(u)
          /\ j - 1 \in 1 .. Len(w) /\ k - 1 \in 1 .. Len(w) /\ j - 1 < k - 1
      BY <2>5, <1>1, <1>7, <1>10
    <3>. QED BY <3>1, <1>5, <1>10 DEF Sorted
  <2>. QED BY <2>1, <2>2, <2>3, <2>4, <2>5, <1>1, <1>7, <1>10
<1>13. GoodIx(jx, n)
  <2>1. jx.values = u /\ jx.last = here  BY <1>3
  <2>2. jx \in [values : Seq(Entries), last : Int \X Int]  BY <1>3, <1>4, <1>8
  <2>3. here[1] \in 1 .. Len(u) /\ u[here[1]][1] = here[2]  BY <1>4, <1>7, <1>10, <1>1
  <2>. QED BY <2>1, <2>2, <2>3, <1>11, <1>12 DEF GoodIx
<1>14. ASSUME NEW V \in Assignments
       PROVE  Cong(IxSum(u, V), IxSum(w, V) + c * V[key])
  <2> DEFINE s == IxProducts(w, V)  t == IxProducts(u, V)  y == c * V[key]
  <2>1. /\ Integers(s) /\ Len(s) = Len(w)
        /\ \A k \in 1 .. Len(w) : s[k] = w[k][2] * V[w[k][1]]
    BY <1>1, IxProductsAre
  <2>2. /\ Integers(t) /\ Len(t) = Len(u)
        /\ \A k \in 1 .. Len(u) : t[k] = u[k][2] * V[u[k][1]]
    BY <1>8, IxProductsAre
  <2>3. y \in Int
    <3>1. V[key] \in Int  BY <1>2, AssignmentAt
    <3>. QED BY <3>1, <1>2
  <2> HIDE DEF s, t
  <2>4. Inserted(t, s, i, y)
    <3>1. Len(t) = Len(s) + 1  BY <2>1, <2>2, <1>10
    <3>2. ASSUME NEW k \in 1 .. i - 1  PROVE t[k] = s[k]
      <4>1. k \in 1 .. Len(u) /\ k \in 1 .. Len(w)  BY <1>1, <1>7, <1>10
      <4>2. u[k] = w[k]  BY <1>8 DEF Inserted
      <4>. QED BY <4>1, <4>2, <2>1, <2>2
    <3>3. t[i] = y
      <4>1. i \in 1 .. Len(u)  BY <1>1, <1>7, <1>10
      <4>2. u[i] = x  BY <1>8 DEF Inserted
      <4>. QED BY <4>1, <4>2, <2>2, <1>4
    <3>4. ASSUME NEW k \in i + 1 .. Len(t)  PROVE t[k] = s[k - 1]
      <4>1. k \in 1 .. Len(u) /\ k \in i + 1 .. Len(u) /\ k - 1 \in 1 .. Len(w)
        BY <1>1, <1>7, <1>10, <2>2
      <4>2. u[k] = w[k - 1]  BY <4>1, <1>8 DEF Inserted
      <4>. QED BY <4>1, <4>2, <2>1, <2>2
    <3> HIDE DEF y
    <3>. QED BY <3>1, <3>2, <3>3, <3>4 DEF Inserted
  <2>5. Isum(t) = Isum(s) + y
    <3>1. i \in 1 .. Len(s) + 1  BY <1>7, <2>1
    <3> HIDE DEF y
    <3>. QED BY <3>1, <2>1, <2>3, <2>4, SumInserted
  <2>. QED BY <2>5 DEF IxSum, Cong, s, t
<1>15. jx.values = u  BY <1>3
<1>. QED BY <1>13, <1>14, <1>15 DEF Adds, jx, w

\* The place that the binary search finds.
Place(w, i, key) ==
    /\ i \in 1 .. Len(w) + 1
    /\ \A j \in 1 .. i - 1 : w[j][1] < key
    /\ \A j \in i .. Len(w) : w[j][1] >= key

LEMMA SearchFinds ==
    ASSUME NEW n \in Nat, NEW ix, GoodIx(ix, n), NEW key \in Nat
    PROVE  Place(ix.values, binary_search(ix, key), key)
<1> DEFINE w == ix.values
           T == {k \in 1 .. Len(w) + 1 : k = Len(w) + 1 \/ w[k][1] >= key}
<1>1. w \in Seq(Entries) /\ Len(w) \in Nat /\ Sorted(w)
  BY LenProperties DEF GoodIx
<1>2. \A k \in 1 .. Len(w) : w[k][1] \in Nat
  <2> HIDE DEF w
  <2>. QED BY <1>1, EntryAt
<1>3. PICK i \in T : \A k \in T : i <= k
  <2>1. T \subseteq Nat /\ Len(w) + 1 \in T
    <3> HIDE DEF w
    <3>. QED BY <1>1
  <2> HIDE DEF T
  <2>. QED BY <2>1, LeastNumber
<1>4. Place(w, i, key)
  <2> HIDE DEF w
  <2>1. i \in 1 .. Len(w) + 1  BY <1>1
  <2>2. ASSUME NEW j \in 1 .. i - 1  PROVE w[j][1] < key
    <3>1. j \in 1 .. Len(w) /\ j \in 1 .. Len(w) + 1 /\ ~ (i <= j)  BY <2>1, <1>1
    <3>2. j \notin T
      <4> HIDE DEF T
      <4>. QED BY <3>1, <1>3
    <3>3. ~ (w[j][1] >= key)  BY <3>1, <3>2
    <3>. QED BY <3>1, <3>3, <1>2
  <2>3. ASSUME NEW j \in i .. Len(w)  PROVE w[j][1] >= key
    <3>1. /\ i \in 1 .. Len(w) /\ i # Len(w) + 1 /\ j \in 1 .. Len(w) /\ i \in Int /\ j \in Int
      BY <2>1, <1>1
    <3>2. w[i][1] >= key  BY <3>1
    <3>3. CASE j = i  BY <3>2, <3>3
    <3>4. CASE j # i
      <4>1. i < j  BY <3>1, <3>4
      <4>2. w[i][1] < w[j][1]  BY <4>1, <3>1, <1>1 DEF Sorted
      <4>. QED BY <4>2, <3>1, <3>2, <1>2
    <3>. QED BY <3>3, <3>4
  <2>. QED BY <2>1, <2>2, <2>3 DEF Place
<1> DEFINE f == binary_search(ix, key)
<1>5. /\ f \in 1 .. Len(w) + 1
      /\ \A j \in 1 .. f - 1 : w[j][1] < key
      /\ \A j \in f .. Len(w) : w[j][1] >= key
  BY <1>4 DEF Place, binary_search
<1>. QED BY <1>5 DEF Place

LEMMA InsertOrUpdateAdds ==
    ASSUME NEW n \in Nat, NEW ix, GoodIx(ix, n), NEW c \in F, NEW key \in 0 .. n - 1
    PROVE  Adds(insert_or_update(ix, key, c), ix, n, key, c)
<1> DEFINE w == ix.values
           i == ix.last[1]
           next == i + 1
           found == binary_search(ix, key)
           at(k) == k \in DOMAIN w /\ w[k][1] = key
           jx == insert_or_update(ix, key, c)
<1>1. w \in Seq(Entries) /\ Len(w) \in Nat /\ DOMAIN w = 1 .. Len(w) /\ Sorted(w) /\ key \in Nat
  BY LenProperties DEF GoodIx
<1>2. \A k \in 1 .. Len(w) : w[k][1] \in Nat
  <2> HIDE DEF w
  <2>. QED BY <1>1, EntryAt
<1>3. ix.last # NoInsertion => i \in 1 .. Len(w) /\ w[i][1] = ix.last[2]
  BY DEF GoodIx
<1>4. CASE ix.last # NoInsertion /\ ix.last[2] = key
  <2>1. jx = update(ix, i, c)  BY <1>4 DEF insert_or_update
  <2>2. i \in 1 .. Len(ix.values) /\ ix.values[i][1] = key  BY <1>3, <1>4
  <2> HIDE DEF w, i, jx
  <2>3. Adds(update(ix, i, c), ix, n, ix.values[i][1], c)  BY <2>2, UpdateAdds
  <2>. QED BY <2>1, <2>2, <2>3 DEF jx
<1>5. CASE ix.last # NoInsertion /\ ix.last[2] + 1 = key
  <2>0. ~ (ix.last # NoInsertion /\ ix.last[2] = key)
    <3>1. i \in 1 .. Len(w) /\ w[i][1] = ix.last[2]  BY <1>3, <1>5
    <3>2. ix.last[2] \in Nat  BY <3>1, <1>2
    <3>. QED BY <3>2, <1>5
  <2>1. i \in 1 .. Len(w) /\ w[i][1] + 1 = key /\ next \in 1 .. Len(w) + 1  BY <1>3, <1>5, <1>1
  <2>2. CASE at(next)
    <3>1. jx = update(ix, next, c)  BY <1>5, <2>0, <2>2 DEF insert_or_update
    <3>2. next \in 1 .. Len(ix.values) /\ ix.values[next][1] = key  BY <2>2, <1>1
    <3> HIDE DEF w, next, jx
    <3>3. Adds(update(ix, next, c), ix, n, ix.values[next][1], c)  BY <3>2, UpdateAdds
    <3>. QED BY <3>1, <3>2, <3>3 DEF jx
  <2>3. CASE ~ at(next)
    <3>1. jx = insert(ix, next, key, c)  BY <1>5, <2>0, <2>3 DEF insert_or_update
    <3>2. next \in 1 .. Len(w) => w[next][1] # key  BY <2>3, <1>1
    <3>3. Belongs(w, next, key)
      <4> HIDE DEF w, jx
      <4>1. ASSUME NEW j \in 1 .. next - 1  PROVE w[j][1] < key
        <5>1. j \in 1 .. Len(w) /\ (j = i \/ j < i)  BY <2>1, <1>1
        <5>2. w[j][1] <= w[i][1]
          <6>1. w[j][1] \in Nat /\ w[i][1] \in Nat  BY <5>1, <2>1, <1>2
          <6>2. CASE j = i  BY <6>1, <6>2
          <6>3. CASE j < i
            <7>1. w[j][1] < w[i][1]  BY <6>3, <5>1, <2>1, <1>1 DEF Sorted
            <7>. QED BY <6>1, <7>1
          <6>. QED BY <5>1, <6>2, <6>3
        <5>. QED BY <5>1, <5>2, <2>1, <1>2, <1>1
      <4>2. ASSUME NEW j \in next .. Len(w)  PROVE w[j][1] > key
        <5>1. j \in 1 .. Len(w) /\ i < j /\ next \in 1 .. Len(w) /\ i < next /\ (j = next \/ next < j)
          BY <2>1, <1>1
        <5>2. w[i][1] < w[next][1] /\ w[next][1] \in Nat /\ w[i][1] \in Nat
          BY <5>1, <2>1, <1>1, <1>2 DEF Sorted
        <5>3. w[next][1] > key  BY <5>1, <5>2, <2>1, <3>2, <1>1
        <5>4. w[next][1] <= w[j][1]
          <6>1. CASE j = next  BY <6>1, <5>2
          <6>2. CASE next < j
            <7>1. w[next][1] < w[j][1] /\ w[j][1] \in Nat  BY <6>2, <5>1, <1>1, <1>2 DEF Sorted
            <7>. QED BY <7>1, <5>2
          <6>. QED BY <6>1, <6>2, <5>1
        <5>5. w[j][1] \in Nat  BY <5>1, <1>2
        <5> HIDE DEF next
        <5>. QED BY <5>2, <5>3, <5>4, <5>5, <1>1
      <4>. QED BY <4>1, <4>2 DEF Belongs
    <3>4. next \in 1 .. Len(ix.values) + 1 /\ Belongs(ix.values, next, key)
      BY <2>1, <3>3
    <3> HIDE DEF w, next, jx
    <3>5. Adds(insert(ix, next, key, c), ix, n, key, c)  BY <3>4, InsertAdds
    <3>. QED BY <3>1, <3>5 DEF jx
  <2> HIDE DEF at, jx
  <2>. QED BY <2>2, <2>3
<1>6. CASE /\ ~ (ix.last # NoInsertion /\ ix.last[2] = key)
           /\ ~ (ix.last # NoInsertion /\ ix.last[2] + 1 = key)
  <2>1. jx = IF at(found) THEN update(ix, found, c) ELSE insert(ix, found, key, c)
    <3>1. CASE at(found)  BY <1>6, <3>1 DEF insert_or_update
    <3>2. CASE ~ at(found)  BY <1>6, <3>2 DEF insert_or_update
    <3> HIDE DEF at, jx, found
    <3>. QED BY <3>1, <3>2
  <2>2. Place(w, found, key)
    <3>1. key \in Nat  BY <1>1
    <3>. QED BY <3>1, SearchFinds
  <2> HIDE DEF found
  <2>3. CASE at(found)
    <3>1. jx = update(ix, found, c)  BY <2>1, <2>3
    <3>2. found \in 1 .. Len(ix.values) /\ ix.values[found][1] = key  BY <2>3, <1>1
    <3> HIDE DEF w, jx
    <3>3. Adds(update(ix, found, c), ix, n, ix.values[found][1], c)  BY <3>2, UpdateAdds
    <3>. QED BY <3>1, <3>2, <3>3 DEF jx
  <2>4. CASE ~ at(found)
    <3>1. jx = insert(ix, found, key, c)  BY <2>1, <2>4
    <3>2. found \in 1 .. Len(w) => w[found][1] # key  BY <2>4, <1>1
    <3>3. /\ found \in 1 .. Len(w) + 1
          /\ \A j \in 1 .. found - 1 : w[j][1] < key
          /\ \A j \in found .. Len(w) : w[j][1] >= key
      BY <2>2 DEF Place
    <3>4. ASSUME NEW j \in found .. Len(w)  PROVE w[j][1] > key
      <4> HIDE DEF w, jx
      <4>1. /\ found \in 1 .. Len(w) /\ j \in 1 .. Len(w) /\ (j = found \/ found < j)
        BY <3>3, <1>1
      <4>2. w[found][1] > key /\ w[found][1] \in Nat
        <5>1. found \in found .. Len(w)  BY <4>1, <1>1
        <5>2. w[found][1] >= key /\ w[found][1] # key /\ w[found][1] \in Nat
          BY <5>1, <4>1, <3>2, <3>3, <1>2
        <5>. QED BY <5>2, <1>1
      <4>3. CASE j = found  BY <4>2, <4>3
      <4>4. CASE found < j
        <5>1. w[found][1] < w[j][1] /\ w[j][1] \in Nat  BY <4>4, <4>1, <1>1, <1>2 DEF Sorted
        <5>. QED BY <5>1, <4>2, <1>1
      <4>. QED BY <4>1, <4>3, <4>4
    <3>5. Belongs(w, found, key)
      <4> HIDE DEF w, jx
      <4>. QED BY <3>3, <3>4 DEF Belongs
    <3>6. found \in 1 .. Len(ix.values) + 1 /\ Belongs(ix.values, found, key)
      BY <3>3, <3>5
    <3> HIDE DEF w, jx
    <3>7. Adds(insert(ix, found, key, c), ix, n, key, c)  BY <3>6, InsertAdds
    <3>. QED BY <3>1, <3>7 DEF jx
  <2> HIDE DEF at, jx
  <2>. QED BY <2>3, <2>4
<1> HIDE DEF jx
<1>. QED BY <1>4, <1>5, <1>6 DEF jx

----------------------------------------------------------------------------
(* Linear combinations of m inputs and n auxiliary variables.              *)

Indexers == [values : Seq(Entries), last : Int \X Int]
Lcs == [input : Indexers, aux : Indexers]

Vars(m, n) == {<<"input", k>> : k \in 0 .. m - 1} \cup {<<"aux", k>> : k \in 0 .. n - 1}
Val(v, I, Y) == IF v[1] = "input" THEN I[v[2]] ELSE Y[v[2]]

GoodLc(l, m, n) == l \in Lcs /\ GoodIx(l.input, m) /\ GoodIx(l.aux, n)
LcSum(l, I, Y) == IxSum(l.input.values, I) + IxSum(l.aux.values, Y)

\* What adding c times v promises.
AddsTerm(h, l, m, n, c, v) ==
    /\ GoodLc(h, m, n)
    /\ \A I \in Assignments, Y \in Assignments :
          Cong(LcSum(h, I, Y), LcSum(l, I, Y) + c * Val(v, I, Y))

LEMMA VarIs ==
    ASSUME NEW m \in Nat, NEW n \in Nat, NEW v \in Vars(m, n)
    PROVE  /\ v = <<v[1], v[2]>>
           /\ \/ v[1] = "input" /\ v[2] \in 0 .. m - 1
              \/ v[1] = "aux" /\ v[2] \in 0 .. n - 1
BY DEF Vars

LEMMA ValInt ==
    ASSUME NEW m \in Nat, NEW n \in Nat, NEW v \in Vars(m, n),
           NEW I \in Assignments, NEW Y \in Assignments
    PROVE  Val(v, I, Y) \in F /\ Val(v, I, Y) \in Int
<1>1. v[2] \in Nat  BY VarIs
<1>2. I[v[2]] \in F /\ Y[v[2]] \in F /\ I[v[2]] \in Int /\ Y[v[2]] \in Int
  BY <1>1, AssignmentAt
<1>. QED BY <1>2 DEF Val

LEMMA IxSumInt ==
    ASSUME NEW n, NEW ix, GoodIx(ix, n), NEW V \in Assignments
    PROVE  IxSum(ix.values, V) \in Int
<1>1. ix.values \in Seq(Entries)  BY DEF GoodIx
<1>2. Integers(IxProducts(ix.values, V))  BY <1>1, IxProductsAre
<1>. QED BY <1>2, SumInteger DEF IxSum

LEMMA LcSumInt ==
    ASSUME NEW m, NEW n, NEW l, GoodLc(l, m, n), NEW I \in Assignments, NEW Y \in Assignments
    PROVE  LcSum(l, I, Y) \in Int
<1>1. IxSum(l.input.values, I) \in Int /\ IxSum(l.aux.values, Y) \in Int
  BY IxSumInt DEF GoodLc
<1>. QED BY <1>1 DEF LcSum

LEMMA AddAdds ==
    ASSUME NEW m \in Nat, NEW n \in Nat, NEW l, GoodLc(l, m, n), NEW c \in F,
           NEW v \in Vars(m, n)
    PROVE  AddsTerm(add(l, c, v), l, m, n, c, v)
<1> DEFINE h == add(l, c, v)
           jx == insert_or_update(l[v[1]], v[2], c)
           key == v[2]
<1>1. l \in Lcs /\ GoodIx(l.input, m) /\ GoodIx(l.aux, n)  BY DEF GoodLc
<1>2. l = [input |-> l.input, aux |-> l.aux]  BY <1>1 DEF Lcs
<1>3. CASE v[1] = "input" /\ v[2] \in 0 .. m - 1
  <2> DEFINE ix == l.input
  <2>1. jx = insert_or_update(ix, key, c)  BY <1>3
  <2>2. Adds(insert_or_update(ix, key, c), ix, m, key, c)
    <3> HIDE DEF ix
    <3>. QED BY <1>1, <1>3, InsertOrUpdateAdds DEF ix
  <2>3. Adds(jx, ix, m, key, c)
    <3> HIDE DEF ix, jx
    <3>. QED BY <2>1, <2>2
  <2>4. h = [l EXCEPT !["input"] = jx]  BY <1>3 DEF add
  <2> HIDE DEF jx
  <2>5. h = [input |-> jx, aux |-> l.aux]  BY <2>4, <1>2
  <2>6. h.input = jx /\ h.aux = l.aux
    <3> HIDE DEF h
    <3>. QED BY <2>5
  <2>7. GoodIx(jx, m)  BY <2>3 DEF Adds
  <2>8. jx \in Indexers /\ l.aux \in Indexers  BY <2>7, <1>1 DEF GoodIx, Indexers
  <2> HIDE DEF h
  <2>9. h \in Lcs  BY <2>5, <2>8 DEF Lcs
  <2>10. GoodLc(h, m, n)  BY <2>6, <2>7, <2>9, <1>1 DEF GoodLc
  <2>11. ASSUME NEW I \in Assignments, NEW Y \in Assignments
         PROVE  Cong(LcSum(h, I, Y), LcSum(l, I, Y) + c * Val(v, I, Y))
    <3> DEFINE a == IxSum(jx.values, I)  b == IxSum(l.input.values, I)  y == I[key]
               z == IxSum(l.aux.values, Y)
    <3>1. a \in Int /\ b \in Int /\ z \in Int  BY <2>7, <1>1, IxSumInt
    <3>2. y \in Int /\ c \in Int  BY <1>3, AssignmentAt, ModulusAssumption DEF F
    <3>3. Cong(a, b + c * y)  BY <2>3 DEF Adds
    <3>4. LcSum(h, I, Y) = a + z /\ LcSum(l, I, Y) = b + z  BY <2>6 DEF LcSum
    <3>5. Val(v, I, Y) = y  BY <1>3 DEF Val
    <3> HIDE DEF a, b, y, z
    <3>6. b + c * y \in Int /\ (b + z) + c * y = (b + c * y) + z  BY <3>1, <3>2
    <3>7. Cong(z, z)  BY DEF Cong
    <3>8. Cong(a + z, (b + c * y) + z)  BY <3>1, <3>3, <3>6, <3>7, CongSum
    <3>. QED BY <3>4, <3>5, <3>6, <3>8
  <2>. QED BY <2>10, <2>11 DEF AddsTerm, h
<1>4. CASE v[1] = "aux" /\ v[2] \in 0 .. n - 1
  <2> DEFINE ix == l.aux
  <2>1. jx = insert_or_update(ix, key, c)  BY <1>4
  <2>2. Adds(insert_or_update(ix, key, c), ix, n, key, c)
    <3> HIDE DEF ix
    <3>. QED BY <1>1, <1>4, InsertOrUpdateAdds DEF ix
  <2>3. Adds(jx, ix, n, key, c)
    <3> HIDE DEF ix, jx
    <3>. QED BY <2>1, <2>2
  <2>4. h = [l EXCEPT !["aux"] = jx]  BY <1>4 DEF add
  <2> HIDE DEF jx
  <2>5. h = [input |-> l.input, aux |-> jx]  BY <2>4, <1>2
  <2>6. h.input = l.input /\ h.aux = jx
    <3> HIDE DEF h
    <3>. QED BY <2>5
  <2>7. GoodIx(jx, n)  BY <2>3 DEF Adds
  <2>8. jx \in Indexers /\ l.input \in Indexers  BY <2>7, <1>1 DEF GoodIx, Indexers
  <2> HIDE DEF h
  <2>9. h \in Lcs  BY <2>5, <2>8 DEF Lcs
  <2>10. GoodLc(h, m, n)  BY <2>6, <2>7, <2>9, <1>1 DEF GoodLc
  <2>11. ASSUME NEW I \in Assignments, NEW Y \in Assignments
         PROVE  Cong(LcSum(h, I, Y), LcSum(l, I, Y) + c * Val(v, I, Y))
    <3> DEFINE a == IxSum(jx.values, Y)  b == IxSum(l.aux.values, Y)  y == Y[key]
               z == IxSum(l.input.values, I)
    <3>1. a \in Int /\ b \in Int /\ z \in Int  BY <2>7, <1>1, IxSumInt
    <3>2. y \in Int /\ c \in Int  BY <1>4, AssignmentAt, ModulusAssumption DEF F
    <3>3. Cong(a, b + c * y)  BY <2>3 DEF Adds
    <3>4. LcSum(h, I, Y) = z + a /\ LcSum(l, I, Y) = z + b  BY <2>6 DEF LcSum
    <3>5. Val(v, I, Y) = y  BY <1>4 DEF Val
    <3> HIDE DEF a, b, y, z
    <3>6. b + c * y \in Int /\ (z + b) + c * y = z + (b + c * y)  BY <3>1, <3>2
    <3>7. Cong(z, z)  BY DEF Cong
    <3>8. Cong(z + a, z + (b + c * y))  BY <3>1, <3>3, <3>6, <3>7, CongSum
    <3>. QED BY <3>4, <3>5, <3>6, <3>8
  <2>. QED BY <2>10, <2>11 DEF AddsTerm, h
<1>. QED BY <1>3, <1>4, VarIs

LEMMA ZeroGood ==
    ASSUME NEW m \in Nat, NEW n \in Nat
    PROVE  /\ GoodLc(zero, m, n)
           /\ \A I \in Assignments, Y \in Assignments : LcSum(zero, I, Y) = 0
<1> DEFINE none == <<>>
<1>1. none \in Seq(Entries) /\ Len(none) = 0  OBVIOUS
<1>2. zero.input = Empty /\ zero.aux = Empty /\ zero = [input |-> Empty, aux |-> Empty]
  BY DEF zero
<1>3. Empty.values = none /\ Empty.last = NoInsertion /\ Empty = [values |-> none, last |-> NoInsertion]
  BY DEF Empty
<1>4. NoInsertion \in Int \X Int  BY DEF NoInsertion
<1> HIDE DEF none
<1>5. Empty \in Indexers  BY <1>1, <1>3, <1>4 DEF Indexers
<1>6. ASSUME NEW k \in Nat  PROVE GoodIx(Empty, k)
  <2>1. Below(none, k) /\ Sorted(none)  BY <1>1 DEF Below, Sorted
  <2>. QED BY <2>1, <1>3, <1>5 DEF GoodIx, Indexers
<1>7. zero \in Lcs  BY <1>2, <1>5 DEF Lcs
<1>8. GoodLc(zero, m, n)  BY <1>2, <1>6, <1>7 DEF GoodLc
<1>9. ASSUME NEW V \in Assignments  PROVE IxSum(none, V) = 0
  <2> DEFINE p == IxProducts(none, V)
  <2>1. Integers(p) /\ Len(p) = 0  BY <1>1, IxProductsAre
  <2> HIDE DEF p
  <2>2. Isum(p) = 0  BY <2>1, SumEmpty
  <2>. QED BY <2>2 DEF IxSum, p
<1>10. ASSUME NEW I \in Assignments, NEW Y \in Assignments  PROVE LcSum(zero, I, Y) = 0
  <2>1. IxSum(none, I) = 0 /\ IxSum(none, Y) = 0  BY <1>9
  <2>. QED BY <2>1, <1>2, <1>3 DEF LcSum
<1>. QED BY <1>8, <1>10
----------------------------------------------------------------------------
(* The entries of a combination in their order.                            *)

Terms(it, I, Y) == [k \in 1 .. Len(it) |-> it[k][2] * Val(it[k][1], I, Y)]
Pairs(m, n) == Vars(m, n) \X F

LEMMA TermsAre ==
    ASSUME NEW m \in Nat, NEW n \in Nat, NEW it \in Seq(Pairs(m, n)),
           NEW I \in Assignments, NEW Y \in Assignments
    PROVE  /\ Integers(Terms(it, I, Y)) /\ Len(Terms(it, I, Y)) = Len(it)
           /\ \A k \in 1 .. Len(it) : Terms(it, I, Y)[k] = it[k][2] * Val(it[k][1], I, Y)
           /\ \A k \in 1 .. Len(it) : it[k][1] \in Vars(m, n) /\ it[k][2] \in F
<1> DEFINE p == Terms(it, I, Y)
<1>1. Len(it) \in Nat  BY LenProperties
<1>2. \A k \in 1 .. Len(it) : p[k] = it[k][2] * Val(it[k][1], I, Y)  BY DEF Terms
<1>3. Len(p) = Len(it)  BY <1>1 DEF Terms
<1>4. ASSUME NEW k \in 1 .. Len(it)  PROVE it[k][1] \in Vars(m, n) /\ it[k][2] \in F
  <2>1. it[k] \in Vars(m, n) \X F  BY ElementOfSeq DEF Pairs
  <2>. QED BY <2>1
<1> HIDE DEF p
<1>5. ASSUME NEW k \in 1 .. Len(it)  PROVE p[k] \in Int
  <2>1. it[k][2] \in Int  BY <1>4, ModulusAssumption DEF F
  <2>2. Val(it[k][1], I, Y) \in Int  BY <1>4, ValInt
  <2>. QED BY <1>2, <2>1, <2>2
<1>6. Integers(p)  BY <1>1, <1>3, <1>5 DEF Integers
<1>. QED BY <1>2, <1>3, <1>4, <1>6 DEF p

LEMMA IterIs ==
    ASSUME NEW m \in Nat, NEW n \in Nat, NEW l, GoodLc(l, m, n)
    PROVE  /\ lc_iter(l) \in Seq(Pairs(m, n))
           /\ \A I \in Assignments, Y \in Assignments :
                 Isum(Terms(lc_iter(l), I, Y)) = LcSum(l, I, Y)
<1> DEFINE w == l.input.values
           u == l.aux.values
           a == [k \in DOMAIN w |-> <<<<"input", w[k][1]>>, w[k][2]>>]
           b == [k \in DOMAIN u |-> <<<<"aux", u[k][1]>>, u[k][2]>>]
           it == lc_iter(l)
<1>1. it = a \o b  BY DEF lc_iter
<1>2. /\ w \in Seq(Entries) /\ Len(w) \in Nat /\ DOMAIN w = 1 .. Len(w) /\ Below(w, m)
      /\ u \in Seq(Entries) /\ Len(u) \in Nat /\ DOMAIN u = 1 .. Len(u) /\ Below(u, n)
  BY LenProperties DEF GoodLc, GoodIx
<1> HIDE DEF w, u
<1>3. /\ a \in Seq(Pairs(m, n)) /\ Len(a) = Len(w)
      /\ \A k \in 1 .. Len(w) : a[k] = <<<<"input", w[k][1]>>, w[k][2]>>
  <2>1. ASSUME NEW k \in 1 .. Len(w)  PROVE a[k] \in Pairs(m, n)
    <3>1. w[k][1] \in Nat /\ w[k][2] \in F /\ w[k][1] < m  BY <1>2, EntryAt DEF Below
    <3>2. <<"input", w[k][1]>> \in Vars(m, n)  BY <3>1 DEF Vars
    <3>. QED BY <3>1, <3>2, <1>2 DEF Pairs
  <2>2. a \in [1 .. Len(w) -> Pairs(m, n)]  BY <2>1, <1>2
  <2>. QED BY <2>2, <1>2
<1>4. /\ b \in Seq(Pairs(m, n)) /\ Len(b) = Len(u)
      /\ \A k \in 1 .. Len(u) : b[k] = <<<<"aux", u[k][1]>>, u[k][2]>>
  <2>1. ASSUME NEW k \in 1 .. Len(u)  PROVE b[k] \in Pairs(m, n)
    <3>1. u[k][1] \in Nat /\ u[k][2] \in F /\ u[k][1] < n  BY <1>2, EntryAt DEF Below
    <3>2. <<"aux", u[k][1]>> \in Vars(m, n)  BY <3>1 DEF Vars
    <3>. QED BY <3>1, <3>2, <1>2 DEF Pairs
  <2>2. b \in [1 .. Len(u) -> Pairs(m, n)]  BY <2>1, <1>2
  <2>. QED BY <2>2, <1>2
<1> HIDE DEF a, b, it
<1>5. /\ it \in Seq(Pairs(m, n)) /\ Len(it) = Len(a) + Len(b)
      /\ \A k \in 1 .. Len(a) + Len(b) : it[k] = IF k <= Len(a) THEN a[k] ELSE b[k - Len(a)]
  <2> DEFINE S == Pairs(m, n)  h == a \o b
  <2>1. a \in Seq(S) /\ b \in Seq(S)  BY <1>3, <1>4
  <2> HIDE DEF S
  <2>2. /\ h \in Seq(S) /\ Len(h) = Len(a) + Len(b)
        /\ \A k \in 1 .. Len(a) + Len(b) : h[k] = IF k <= Len(a) THEN a[k] ELSE b[k - Len(a)]
    BY <2>1, ConcatProperties
  <2>3. it = h  BY <1>1
  <2> HIDE DEF h
  <2>. QED BY <2>2, <2>3 DEF S
<1>6. ASSUME NEW I \in Assignments, NEW Y \in Assignments
      PROVE  Isum(Terms(it, I, Y)) = LcSum(l, I, Y)
  <2> DEFINE p == IxProducts(w, I)  q == IxProducts(u, Y)  r == Terms(it, I, Y)
  <2>1. /\ Integers(p) /\ Len(p) = Len(w)
        /\ \A k \in 1 .. Len(w) : p[k] = w[k][2] * I[w[k][1]]
    BY <1>2, IxProductsAre
  <2>2. /\ Integers(q) /\ Len(q) = Len(u)
        /\ \A k \in 1 .. Len(u) : q[k] = u[k][2] * Y[u[k][1]]
    BY <1>2, IxProductsAre
  <2>3. /\ Len(r) = Len(it)
        /\ \A k \in 1 .. Len(it) : r[k] = it[k][2] * Val(it[k][1], I, Y)
    BY <1>5, TermsAre
  <2> HIDE DEF p, q, r
  <2>4. ASSUME NEW k \in 1 .. Len(p)  PROVE r[k] = p[k]
    <3>1. k \in 1 .. Len(it) /\ k \in 1 .. Len(w) /\ k <= Len(a) /\ k \in 1 .. Len(a) + Len(b)
      BY <1>2, <1>3, <1>4, <1>5, <2>1
    <3>2. it[k] = <<<<"input", w[k][1]>>, w[k][2]>>  BY <3>1, <1>3, <1>5
    <3>3. Val(it[k][1], I, Y) = I[w[k][1]] /\ it[k][2] = w[k][2]  BY <3>2 DEF Val
    <3>. QED BY <3>1, <3>3, <2>1, <2>3
  <2>5. ASSUME NEW k \in 1 .. Len(q)  PROVE r[Len(p) + k] = q[k]
    <3> DEFINE j == Len(p) + k
    <3>1. /\ j \in 1 .. Len(it) /\ k \in 1 .. Len(u) /\ ~ (j <= Len(a)) /\ j - Len(a) = k
          /\ j \in 1 .. Len(a) + Len(b)
      BY <1>2, <1>3, <1>4, <1>5, <2>1, <2>2
    <3> HIDE DEF j
    <3>2. it[j] = <<<<"aux", u[k][1]>>, u[k][2]>>  BY <3>1, <1>4, <1>5
    <3>3. Val(it[j][1], I, Y) = Y[u[k][1]] /\ it[j][2] = u[k][2]  BY <3>2 DEF Val
    <3>. QED BY <3>1, <3>3, <2>2, <2>3 DEF j
  <2>6. Len(r) = Len(p) + Len(q)  BY <2>1, <2>2, <2>3, <1>3, <1>4, <1>5
  <2>7. Joined(r, p, q)  BY <2>4, <2>5, <2>6 DEF Joined
  <2>8. Isum(r) = Isum(p) + Isum(q)  BY <2>1, <2>2, <2>7, SumJoined
  <2>. QED BY <2>8 DEF p, q, r, w, u, LcSum, IxSum
<1>. QED BY <1>5, <1>6 DEF it

----------------------------------------------------------------------------
(* Adding c times another combination.                                     *)

\* What adding c times o promises.
AddsScaled(h, l, m, n, c, o) ==
    /\ GoodLc(h, m, n)
    /\ \A I \in Assignments, Y \in Assignments :
          Cong(LcSum(h, I, Y), LcSum(l, I, Y) + c * LcSum(o, I, Y))

\* h adds the pairs of it, each times c, one after the other.
Adding(h, l, m, n, c, it) ==
    /\ h[0] = l
    /\ \A k \in 0 .. Len(it) : GoodLc(h[k], m, n)
    /\ \A k \in 0 .. Len(it) - 1 : h[k + 1] = add(h[k], (c * it[k + 1][2]) % P, it[k + 1][1])

LEMMA AddingTable ==
    ASSUME NEW m \in Nat, NEW n \in Nat, NEW l, GoodLc(l, m, n), NEW c \in F,
           NEW o, GoodLc(o, m, n)
    PROVE  \E h : Adding(h, l, m, n, c, lc_iter(o)) /\ add_scaled(l, c, o) = h[Len(lc_iter(o))]
<1> DEFINE it == lc_iter(o)
           N == Len(it)
           Is(g) == g = [k \in 0 .. Len(it) |->
                            IF k = 0 THEN l ELSE add(g[k - 1], (c * it[k][2]) % P, it[k][1])]
           D == CHOOSE g : Is(g)
           S == {h \in Lcs : GoodLc(h, m, n)}
           G == [k \in 0 .. N - 1 |-> [h \in S |-> add(h, (c * it[k + 1][2]) % P, it[k + 1][1])]]
<1>1. add_scaled(l, c, o) = D[Len(it)]  BY DEF add_scaled
<1>2. it \in Seq(Pairs(m, n))  BY IterIs
<1> HIDE DEF it
<1>3. N \in Nat  BY <1>2, LenProperties
<1>4. \A k \in 1 .. N : it[k][1] \in Vars(m, n) /\ it[k][2] \in F
  <2> TAKE k \in 1 .. N
  <2>1. it[k] \in Vars(m, n) \X F  BY <1>2, ElementOfSeq DEF Pairs
  <2>. QED BY <2>1
<1>5. \A k \in 1 .. N : (c * it[k][2]) % P \in F
  <2> TAKE k \in 1 .. N
  <2>1. c * it[k][2] \in Int  BY <1>4, ModulusAssumption DEF F
  <2>. QED BY <2>1, Modulus
<1>6. ASSUME NEW k \in 0 .. N - 1, NEW h \in S  PROVE G[k][h] \in S
  <2>1. k + 1 \in 1 .. N  BY <1>3
  <2>2. (c * it[k + 1][2]) % P \in F /\ it[k + 1][1] \in Vars(m, n)  BY <2>1, <1>4, <1>5
  <2> DEFINE e == (c * it[k + 1][2]) % P  v == it[k + 1][1]
  <2>3. G[k][h] = add(h, e, v)  OBVIOUS
  <2>4. GoodLc(h, m, n)  OBVIOUS
  <2>5. e \in F /\ v \in Vars(m, n)  BY <2>2
  <2> HIDE DEF e, v, G
  <2>6. GoodLc(add(h, e, v), m, n)  BY <2>4, <2>5, AddAdds DEF AddsTerm
  <2>7. add(h, e, v) \in Lcs  BY <2>6 DEF GoodLc
  <2>. QED BY <2>3, <2>6, <2>7
<1>7. PICK h : Recursion(h, N, S, l, G)
  <2>1. l \in S  BY DEF GoodLc
  <2>2. StepsIn(G, N, S)
    <3> HIDE DEF G, S
    <3>. QED BY <1>6 DEF StepsIn
  <2> HIDE DEF G, S, N
  <2>. QED BY <2>1, <2>2, <1>3, RecursionTo
<1>8. h \in [0 .. N -> S] /\ h[0] = l
  <2> HIDE DEF G, S
  <2>. QED BY <1>7 DEF Recursion
<1>9. \A k \in 0 .. N - 1 : h[k + 1] = add(h[k], (c * it[k + 1][2]) % P, it[k + 1][1])
  <2> TAKE k \in 0 .. N - 1
  <2>1. h[k + 1] = G[k][h[k]]
    <3> HIDE DEF G, S
    <3>. QED BY <1>7 DEF Recursion
  <2>2. h[k] \in S
    <3>1. k \in 0 .. N  BY <1>3
    <3> HIDE DEF S
    <3>. QED BY <3>1, <1>8
  <2>3. G[k] = [x \in S |-> add(x, (c * it[k + 1][2]) % P, it[k + 1][1])]  OBVIOUS
  <2>4. G[k][h[k]] = add(h[k], (c * it[k + 1][2]) % P, it[k + 1][1])
    <3> HIDE DEF G, S
    <3>. QED BY <2>2, <2>3
  <2>. QED BY <2>1, <2>4
<1>10. Adding(h, l, m, n, c, it)
  <2>1. \A k \in 0 .. N : GoodLc(h[k], m, n)  BY <1>8
  <2> HIDE DEF S, G
  <2>. QED BY <2>1, <1>8, <1>9 DEF Adding
<1> DEFINE v(k) == IF k = 0 THEN l ELSE add(h[k - 1], (c * it[k][2]) % P, it[k][1])
<1>11. \A k \in 0 .. N : h[k] = v(k)
  <2> TAKE k \in 0 .. N
  <2>1. CASE k = 0  BY <2>1, <1>8
  <2>2. CASE k # 0
    <3>1. k - 1 \in 0 .. N - 1 /\ (k - 1) + 1 = k  BY <2>2, <1>3
    <3>2. h[(k - 1) + 1] = add(h[k - 1], (c * it[(k - 1) + 1][2]) % P, it[(k - 1) + 1][1])
      BY <3>1, <1>9
    <3>3. h[k] = add(h[k - 1], (c * it[k][2]) % P, it[k][1])  BY <3>1, <3>2
    <3>. QED BY <2>2, <3>3
  <2>. QED BY <2>1, <2>2
<1>12. Is(h)
  <2>1. h = [k \in 0 .. N |-> h[k]]
    <3> HIDE DEF S
    <3>. QED BY <1>8
  <2>2. h = [k \in 0 .. N |-> v(k)]
    <3> HIDE DEF v
    <3>. QED BY <1>11, <2>1
  <2>. QED BY <2>2
<1>13. Is(D)  BY <1>12
<1> HIDE DEF D
<1>14. \A k \in 0 .. N : D[k] = h[k]
  <2> DEFINE T == {k \in 0 .. N : D[k] = h[k]}
  <2>1. 0 \in T
    <3>1. D[0] = l  BY <1>3, <1>13
    <3>. QED BY <3>1, <1>8, <1>3
  <2>2. ASSUME NEW k \in 0 .. N - 1, k \in T  PROVE k + 1 \in T
    <3>1. k + 1 \in 0 .. N /\ k + 1 # 0 /\ (k + 1) - 1 = k  BY <1>3
    <3>2. D[k + 1] = add(D[k], (c * it[k + 1][2]) % P, it[k + 1][1])  BY <3>1, <1>13
    <3>. QED BY <3>1, <3>2, <1>9, <2>2
  <2> HIDE DEF T, N
  <2>3. \A k \in 0 .. N : k \in T  BY <1>3, <2>1, <2>2, InductionTo
  <2>. QED BY <2>3 DEF T
<1>15. add_scaled(l, c, o) = h[N]  BY <1>1, <1>3, <1>14
<1> HIDE DEF N
<1>. QED BY <1>10, <1>15 DEF it, N

LEMMA AddScaledAdds ==
    ASSUME NEW m \in Nat, NEW n \in Nat, NEW l, GoodLc(l, m, n), NEW c \in F,
           NEW o, GoodLc(o, m, n)
    PROVE  AddsScaled(add_scaled(l, c, o), l, m, n, c, o)
<1> DEFINE it == lc_iter(o)
           N == Len(it)
<1>1. /\ it \in Seq(Pairs(m, n))
      /\ \A I \in Assignments, Y \in Assignments : Isum(Terms(it, I, Y)) = LcSum(o, I, Y)
  BY IterIs
<1>2. PICK h : Adding(h, l, m, n, c, it) /\ add_scaled(l, c, o) = h[N]
  BY AddingTable
<1> HIDE DEF it
<1>3. N \in Nat /\ N \in 0 .. N  BY <1>1, LenProperties
<1>4. /\ h[0] = l
      /\ \A k \in 0 .. N : GoodLc(h[k], m, n)
      /\ \A k \in 0 .. N - 1 : h[k + 1] = add(h[k], (c * it[k + 1][2]) % P, it[k + 1][1])
  BY <1>2 DEF Adding
<1>5. ASSUME NEW I \in Assignments, NEW Y \in Assignments
      PROVE  Cong(LcSum(h[N], I, Y), LcSum(l, I, Y) + c * LcSum(o, I, Y))
  <2> DEFINE p == Terms(it, I, Y)
             a == LcSum(l, I, Y)
  <2>1. /\ Integers(p) /\ Len(p) = N
        /\ \A k \in 1 .. N : p[k] = it[k][2] * Val(it[k][1], I, Y)
        /\ \A k \in 1 .. N : it[k][1] \in Vars(m, n) /\ it[k][2] \in F
    BY <1>1, TermsAre
  <2>2. PICK t : Runs(t, p)  BY <2>1, SumRuns DEF Integers
  <2> HIDE DEF p
  <2>3. Isum(p) = t[N]  BY <1>3, <2>1, <2>2, SumIs
  <2>4. /\ t[0] = 0 /\ \A k \in 0 .. N : t[k] \in Int
        /\ \A k \in 1 .. N : t[k] = t[k - 1] + p[k]
    BY <2>1, <2>2 DEF Runs
  <2>5. a \in Int /\ c \in Int  BY LcSumInt, ModulusAssumption DEF F
  <2> HIDE DEF a
  <2> DEFINE T == {k \in 0 .. N : Cong(LcSum(h[k], I, Y), a + c * t[k])}
  <2> HIDE DEF N
  <2>6. 0 \in T
    <3>1. a + c * t[0] = a  BY <2>4, <2>5
    <3>2. LcSum(h[0], I, Y) = a  BY <1>4 DEF a
    <3>. QED BY <3>1, <3>2, <1>3 DEF Cong
  <2>7. ASSUME NEW k \in 0 .. N - 1, k \in T  PROVE k + 1 \in T
    <3>1. k + 1 \in 1 .. N /\ k + 1 \in 0 .. N /\ k \in 0 .. N /\ (k + 1) - 1 = k  BY <1>3
    <3> DEFINE e == it[k + 1][2]  v == it[k + 1][1]  y == Val(v, I, Y)
               r == (c * e) % P
               before == LcSum(h[k], I, Y)  after == LcSum(h[k + 1], I, Y)
               s == t[k]
    <3>2. e \in F /\ v \in Vars(m, n) /\ e \in Int  BY <3>1, <2>1, ModulusAssumption DEF F
    <3>3. y \in Int
      <4> HIDE DEF v
      <4>. QED BY <3>2, ValInt
    <3>4. c * e \in Int
      <4> HIDE DEF e
      <4>. QED BY <3>2, <2>5
    <3>5. r \in F /\ r \in Int /\ Cong(r, c * e)
      <4> HIDE DEF e
      <4>. QED BY <3>4, CongResidue
    <3>6. h[k + 1] = add(h[k], r, v)  BY <1>4
    <3>7. GoodLc(h[k], m, n)  BY <3>1, <1>4
    <3>8. AddsTerm(add(h[k], r, v), h[k], m, n, r, v)
      <4> HIDE DEF r, v
      <4>. QED BY <3>2, <3>5, <3>7, AddAdds
    <3>9. AddsTerm(h[k + 1], h[k], m, n, r, v)
      <4> HIDE DEF r, v
      <4>. QED BY <3>6, <3>8
    <3>10. Cong(after, before + r * y)
      <4> HIDE DEF r, v
      <4>. QED BY <3>9 DEF AddsTerm
    <3>11. before \in Int /\ after \in Int
      <4>1. GoodLc(h[k + 1], m, n)  BY <3>1, <1>4
      <4>. QED BY <4>1, <3>7, LcSumInt
    <3>12. Cong(before, a + c * s)  BY <2>7
    <3>13. s \in Int /\ t[k + 1] = s + e * y  BY <3>1, <2>1, <2>4
    <3> HIDE DEF r, e, v, y, before, after, s
    <3>14. Cong(y * r, y * (c * e))  BY <3>3, <3>4, <3>5, CongProduct
    <3>15. /\ y * r = r * y /\ y * r \in Int
           /\ y * (c * e) = c * (e * y) /\ c * (e * y) \in Int
           /\ a + c * s \in Int
           /\ (a + c * s) + c * (e * y) = a + c * (s + e * y)
      <4>1. e * y \in Int /\ c * s \in Int  BY <3>2, <3>3, <3>13, <2>5
      <4>2. y * r = r * y /\ y * r \in Int  BY <3>3, <3>5
      <4>3. y * (c * e) = c * (e * y) /\ c * (e * y) \in Int
        BY <3>2, <3>3, <2>5
      <4>4. c * (s + e * y) = c * s + c * (e * y)
        <5> DEFINE q == e * y
        <5>1. q \in Int  BY <4>1
        <5> HIDE DEF q
        <5>2. c * (s + q) = c * s + c * q  BY <5>1, <3>13, <2>5
        <5>. QED BY <5>2 DEF q
      <4> DEFINE u == c * s  w == c * (e * y)
      <4>5. a + u \in Int /\ (a + u) + w = a + (u + w)  BY <4>1, <4>3, <2>5
      <4>. QED BY <4>2, <4>3, <4>4, <4>5
    <3>16. Cong(before + y * r, (a + c * s) + c * (e * y))
      BY <3>11, <3>12, <3>14, <3>15, CongSum
    <3>17. Cong(after, a + c * t[k + 1])
      BY <3>10, <3>13, <3>15, <3>16 DEF Cong
    <3>. QED BY <3>1, <3>17 DEF after
  <2>8. N \in T
    <3> HIDE DEF T
    <3>1. \A k \in 0 .. N : k \in T  BY <1>3, <2>6, <2>7, InductionTo
    <3>. QED BY <3>1, <1>3
  <2>9. Cong(LcSum(h[N], I, Y), a + c * t[N])  BY <2>8
  <2>10. t[N] = LcSum(o, I, Y)  BY <2>3, <1>1 DEF p
  <2>. QED BY <2>9, <2>10 DEF a
<1>6. GoodLc(h[N], m, n)  BY <1>3, <1>4
<1>. QED BY <1>2, <1>5, <1>6 DEF AddsScaled

----------------------------------------------------------------------------
(* The row of a combination.                                               *)

\* z has at the column of each variable its value.
LaidOut(z, m, n, I, Y) == \A v \in Vars(m, n) : column(v, n) \in Nat /\ z[column(v, n) + 1] = Val(v, I, Y)

Cells(row, z) == [k \in 1 .. Len(row) |-> row[k][2] * z[row[k][1] + 1]]
\* The entries whose column holds a number.
Columns(z) == {e \in Entries : z[e[1] + 1] \in Int}

LEMMA CellsAre ==
    ASSUME NEW z, NEW row \in Seq(Columns(z))
    PROVE  /\ Integers(Cells(row, z)) /\ Len(Cells(row, z)) = Len(row)
           /\ \A k \in 1 .. Len(row) : Cells(row, z)[k] = row[k][2] * z[row[k][1] + 1]
<1> DEFINE p == Cells(row, z)
<1>1. Len(row) \in Nat  BY LenProperties
<1>2. \A k \in 1 .. Len(row) : p[k] = row[k][2] * z[row[k][1] + 1]  BY DEF Cells
<1>3. Len(p) = Len(row)  BY <1>1 DEF Cells
<1>4. ASSUME NEW k \in 1 .. Len(row)  PROVE p[k] \in Int
  <2>1. row[k] \in Columns(z)  BY ElementOfSeq
  <2>2. row[k] \in Nat \X F /\ z[row[k][1] + 1] \in Int  BY <2>1 DEF Columns, Entries
  <2>3. row[k][2] \in Int  BY <2>2, ModulusAssumption DEF F
  <2> HIDE DEF p
  <2>. QED BY <1>2, <2>2, <2>3
<1> HIDE DEF p
<1>5. Integers(p)  BY <1>1, <1>3, <1>4 DEF Integers
<1>. QED BY <1>2, <1>3, <1>5 DEF p

\* h lays out the pairs of it, those that are not zero.
Laying(h, n, it, z) ==
    /\ h[0] = <<>>
    /\ \A k \in 0 .. Len(it) : h[k] \in Seq(Columns(z))
    /\ \A k \in 0 .. Len(it) - 1 :
          h[k + 1] = IF it[k + 1][2] = 0 THEN h[k]
                     ELSE Append(h[k], <<column(it[k + 1][1], n), it[k + 1][2]>>)

LEMMA LayingTable ==
    ASSUME NEW m \in Nat, NEW n \in Nat, NEW l, GoodLc(l, m, n),
           NEW I \in Assignments, NEW Y \in Assignments, NEW z, LaidOut(z, m, n, I, Y)
    PROVE  \E h : Laying(h, n, lc_iter(l), z)
                  /\ add_constraint_component(l, n) = h[Len(lc_iter(l))]
<1> DEFINE it == lc_iter(l)
           N == Len(it)
           Is(g) == g = [k \in 0 .. Len(it) |->
                            IF k = 0 THEN <<>>
                            ELSE IF it[k][2] = 0 THEN g[k - 1]
                            ELSE Append(g[k - 1], <<column(it[k][1], n), it[k][2]>>)]
           D == CHOOSE g : Is(g)
           S == Seq(Columns(z))
           step(k, r) == IF it[k + 1][2] = 0 THEN r
                         ELSE Append(r, <<column(it[k + 1][1], n), it[k + 1][2]>>)
           G == [k \in 0 .. N - 1 |-> [r \in S |-> step(k, r)]]
<1>1. add_constraint_component(l, n) = D[Len(it)]  BY DEF add_constraint_component
<1>2. it \in Seq(Pairs(m, n))  BY IterIs
<1> HIDE DEF it
<1>3. N \in Nat  BY <1>2, LenProperties
<1>4. \A k \in 1 .. N : it[k][1] \in Vars(m, n) /\ it[k][2] \in F
  <2> TAKE k \in 1 .. N
  <2>1. it[k] \in Vars(m, n) \X F  BY <1>2, ElementOfSeq DEF Pairs
  <2>. QED BY <2>1
<1>5. \A k \in 1 .. N : <<column(it[k][1], n), it[k][2]>> \in Columns(z)
  <2> TAKE k \in 1 .. N
  <2> DEFINE v == it[k][1]  e == it[k][2]  x == <<column(v, n), e>>
  <2>1. v \in Vars(m, n) /\ e \in F  BY <1>4
  <2> HIDE DEF v, e
  <2>2. column(v, n) \in Nat /\ z[column(v, n) + 1] = Val(v, I, Y)  BY <2>1 DEF LaidOut
  <2>3. Val(v, I, Y) \in Int  BY <2>1, ValInt
  <2>4. x \in Columns(z)  BY <2>1, <2>2, <2>3 DEF Columns, Entries
  <2>. QED BY <2>4 DEF v, e
<1>6. ASSUME NEW k \in 0 .. N - 1, NEW r \in S  PROVE G[k][r] \in S
  <2> DEFINE x == <<column(it[k + 1][1], n), it[k + 1][2]>>
  <2>1. k + 1 \in 1 .. N  BY <1>3
  <2>2. x \in Columns(z)  BY <2>1, <1>5
  <2>3. Append(r, x) \in S
    <3> HIDE DEF x
    <3>. QED BY <2>2, AppendProperties
  <2>4. G[k][r] = step(k, r)  OBVIOUS
  <2>5. step(k, r) = r \/ step(k, r) = Append(r, x)  OBVIOUS
  <2> HIDE DEF x, G, step, S
  <2>. QED BY <2>3, <2>4, <2>5
<1>7. PICK h : Recursion(h, N, S, <<>>, G)
  <2>1. <<>> \in S  OBVIOUS
  <2>2. StepsIn(G, N, S)
    <3> HIDE DEF G, S
    <3>. QED BY <1>6 DEF StepsIn
  <2> DEFINE none == <<>>
  <2>3. none \in S  BY <2>1
  <2> HIDE DEF G, S, N, none
  <2>4. \E h : Recursion(h, N, S, none, G)  BY <2>2, <2>3, <1>3, RecursionTo
  <2>. QED BY <2>4 DEF none
<1>8. h \in [0 .. N -> S] /\ h[0] = <<>>
  <2> HIDE DEF G, S
  <2>. QED BY <1>7 DEF Recursion
<1>9. \A k \in 0 .. N - 1 : h[k + 1] = step(k, h[k])
  <2> TAKE k \in 0 .. N - 1
  <2>1. h[k + 1] = G[k][h[k]]
    <3> HIDE DEF G, S
    <3>. QED BY <1>7 DEF Recursion
  <2>2. h[k] \in S
    <3>1. k \in 0 .. N  BY <1>3
    <3> HIDE DEF S
    <3>. QED BY <3>1, <1>8
  <2>3. G[k] = [r \in S |-> step(k, r)]  OBVIOUS
  <2>4. G[k][h[k]] = step(k, h[k])
    <3> HIDE DEF G, S, step
    <3>. QED BY <2>2, <2>3
  <2>. QED BY <2>1, <2>4
<1>10. Laying(h, n, it, z)
  <2>1. \A k \in 0 .. N : h[k] \in S
    <3> HIDE DEF S
    <3>. QED BY <1>8
  <2> HIDE DEF G
  <2>. QED BY <2>1, <1>8, <1>9 DEF Laying
<1> DEFINE v(k) == IF k = 0 THEN <<>>
                   ELSE IF it[k][2] = 0 THEN h[k - 1]
                   ELSE Append(h[k - 1], <<column(it[k][1], n), it[k][2]>>)
<1>11. \A k \in 0 .. N : h[k] = v(k)
  <2> TAKE k \in 0 .. N
  <2>1. CASE k = 0  BY <2>1, <1>8
  <2>2. CASE k # 0
    <3>1. k - 1 \in 0 .. N - 1 /\ (k - 1) + 1 = k  BY <2>2, <1>3
    <3>2. h[(k - 1) + 1] = step(k - 1, h[k - 1])
      <4> HIDE DEF step
      <4>. QED BY <3>1, <1>9
    <3>3. step(k - 1, h[k - 1]) = v(k)  BY <3>1, <2>2
    <3> HIDE DEF step, v
    <3>. QED BY <3>1, <3>2, <3>3
  <2>. QED BY <2>1, <2>2
<1>12. Is(h)
  <2>1. h = [k \in 0 .. N |-> h[k]]
    <3> HIDE DEF S
    <3>. QED BY <1>8
  <2>2. h = [k \in 0 .. N |-> v(k)]
    <3> HIDE DEF v
    <3>. QED BY <1>11, <2>1
  <2>. QED BY <2>2
<1>13. Is(D)  BY <1>12
<1> HIDE DEF D
<1>14. \A k \in 0 .. N : D[k] = h[k]
  <2> DEFINE T == {k \in 0 .. N : D[k] = h[k]}
  <2>1. 0 \in T
    <3>1. D[0] = <<>>  BY <1>3, <1>13
    <3>. QED BY <3>1, <1>8, <1>3
  <2>2. ASSUME NEW k \in 0 .. N - 1, k \in T  PROVE k + 1 \in T
    <3>1. k + 1 \in 0 .. N /\ k + 1 # 0 /\ (k + 1) - 1 = k  BY <1>3
    <3>2. D[k + 1] = step(k, D[k])  BY <3>1, <1>13
    <3>3. D[k] = h[k] /\ h[k + 1] = step(k, h[k])  BY <2>2, <1>9
    <3> HIDE DEF step
    <3>. QED BY <3>1, <3>2, <3>3
  <2> HIDE DEF T, N
  <2>3. \A k \in 0 .. N : k \in T  BY <1>3, <2>1, <2>2, InductionTo
  <2>. QED BY <2>3 DEF T
<1>15. add_constraint_component(l, n) = h[N]  BY <1>1, <1>3, <1>14
<1> HIDE DEF N
<1>. QED BY <1>10, <1>15 DEF it, N

\* The row of a combination times z is its value.
LEMMA RowIs ==
    ASSUME NEW m \in Nat, NEW n \in Nat, NEW l, GoodLc(l, m, n),
           NEW I \in Assignments, NEW Y \in Assignments, NEW z, LaidOut(z, m, n, I, Y)
    PROVE  multiply(add_constraint_component(l, n), z) = LcSum(l, I, Y) % P
<1> DEFINE it == lc_iter(l)
           N == Len(it)
<1>1. it \in Seq(Pairs(m, n)) /\ Isum(Terms(it, I, Y)) = LcSum(l, I, Y)
  BY IterIs
<1>2. PICK h : Laying(h, n, it, z) /\ add_constraint_component(l, n) = h[N]
  BY LayingTable
<1> HIDE DEF it
<1>3. N \in Nat /\ N \in 0 .. N  BY <1>1, LenProperties
<1>4. /\ h[0] = <<>>
      /\ \A k \in 0 .. N : h[k] \in Seq(Columns(z))
      /\ \A k \in 0 .. N - 1 :
            h[k + 1] = IF it[k + 1][2] = 0 THEN h[k]
                       ELSE Append(h[k], <<column(it[k + 1][1], n), it[k + 1][2]>>)
  BY <1>2 DEF Laying
<1> DEFINE p == Terms(it, I, Y)
<1>5. /\ Integers(p) /\ Len(p) = N
      /\ \A k \in 1 .. N : p[k] = it[k][2] * Val(it[k][1], I, Y)
      /\ \A k \in 1 .. N : it[k][1] \in Vars(m, n) /\ it[k][2] \in F
  BY <1>1, TermsAre
<1>6. PICK t : Runs(t, p)  BY <1>5, SumRuns DEF Integers
<1> HIDE DEF p
<1>7. Isum(p) = t[N]  BY <1>3, <1>5, <1>6, SumIs
<1>8. /\ t[0] = 0 /\ \A k \in 0 .. N : t[k] \in Int
      /\ \A k \in 1 .. N : t[k] = t[k - 1] + p[k]
  BY <1>5, <1>6 DEF Runs
<1> DEFINE T == {k \in 0 .. N : Isum(Cells(h[k], z)) = t[k]}
<1> HIDE DEF N
<1>9. 0 \in T
  <2> DEFINE q == Cells(h[0], z)
  <2>1. Integers(q) /\ Len(q) = Len(h[0])
    <3>1. h[0] \in Seq(Columns(z))  BY <1>3, <1>4
    <3>. QED BY <3>1, CellsAre
  <2>2. Len(q) = 0  BY <2>1, <1>4
  <2> HIDE DEF q
  <2>4. Isum(q) = 0  BY <2>1, <2>2, SumEmpty
  <2>. QED BY <2>4, <1>3, <1>8 DEF q
<1>10. ASSUME NEW k \in 0 .. N - 1, k \in T  PROVE k + 1 \in T
  <2>1. k + 1 \in 1 .. N /\ k + 1 \in 0 .. N /\ k \in 0 .. N /\ (k + 1) - 1 = k  BY <1>3
  <2> DEFINE e == it[k + 1][2]  v == it[k + 1][1]  y == Val(v, I, Y)
             x == <<column(v, n), e>>  r == h[k]  s == h[k + 1]
  <2>2. e \in F /\ v \in Vars(m, n) /\ e \in Int  BY <2>1, <1>5, ModulusAssumption DEF F
  <2>3. t[k + 1] = t[k] + e * y /\ t[k] \in Int  BY <2>1, <1>5, <1>8
  <2>4. s = IF e = 0 THEN r ELSE Append(r, x)  BY <1>4
  <2>5. Isum(Cells(r, z)) = t[k]  BY <1>10
  <2>6. r \in Seq(Columns(z)) /\ s \in Seq(Columns(z))  BY <2>1, <1>4
  <2> HIDE DEF e, v, r, s
  <2>7. y \in Int  BY <2>2, ValInt
  <2>8. CASE e = 0
    <3>1. e * y = 0
      <4> HIDE DEF y
      <4>. QED BY <2>7, <2>8
    <3>. QED BY <3>1, <2>1, <2>3, <2>4, <2>5, <2>8 DEF s
  <2>9. CASE e # 0
    <3> DEFINE a == Cells(r, z)  b == Cells(s, z)
    <3>1. x \in Columns(z) /\ z[x[1] + 1] = y
      <4>1. column(v, n) \in Nat /\ z[column(v, n) + 1] = y  BY <2>2 DEF LaidOut
      <4>. QED BY <4>1, <2>2, <2>7 DEF Columns, Entries
    <3>2. x[2] = e  OBVIOUS
    <3> HIDE DEF x
    <3>3. s = Append(r, x)  BY <2>4, <2>9
    <3>4. /\ Len(s) = Len(r) + 1 /\ s[Len(r) + 1] = x
          /\ \A j \in 1 .. Len(r) : s[j] = r[j]
      BY <3>1, <3>3, <2>6, AppendProperties
    <3>5. Len(r) \in Nat  BY <2>6, LenProperties
    <3>6. /\ Integers(a) /\ Len(a) = Len(r)
          /\ \A j \in 1 .. Len(r) : a[j] = r[j][2] * z[r[j][1] + 1]
      BY <2>6, CellsAre
    <3>7. /\ Integers(b) /\ Len(b) = Len(s)
          /\ \A j \in 1 .. Len(s) : b[j] = s[j][2] * z[s[j][1] + 1]
      BY <2>6, CellsAre
    <3> DEFINE i == Len(a) + 1  d == e * y
    <3> HIDE DEF a, b
    <3>8. d \in Int /\ i \in 1 .. Len(a) + 1
      <4>1. i \in 1 .. Len(a) + 1  BY <3>5, <3>6
      <4> HIDE DEF y
      <4>. QED BY <4>1, <2>2, <2>7
    <3>9. Inserted(b, a, i, d)
      <4>1. Len(b) = Len(a) + 1  BY <3>4, <3>6, <3>7
      <4>2. \A j \in 1 .. i - 1 : b[j] = a[j]
        <5> TAKE j \in 1 .. i - 1
        <5>1. j \in 1 .. Len(r) /\ j \in 1 .. Len(s)  BY <3>4, <3>5, <3>6
        <5>. QED BY <5>1, <3>4, <3>6, <3>7
      <4>3. b[i] = d
        <5>1. i \in 1 .. Len(s) /\ i = Len(r) + 1  BY <3>4, <3>5, <3>6
        <5>2. s[i] = x  BY <5>1, <3>4
        <5>. QED BY <5>1, <5>2, <3>1, <3>2, <3>7
      <4>4. \A j \in i + 1 .. Len(b) : b[j] = a[j - 1]  BY <4>1, <3>5, <3>6
      <4> HIDE DEF i, d
      <4>. QED BY <4>1, <4>2, <4>3, <4>4 DEF Inserted
    <3>10. Isum(b) = Isum(a) + d
      <4> HIDE DEF i, d
      <4>. QED BY <3>6, <3>8, <3>9, SumInserted
    <3>. QED BY <3>10, <2>1, <2>3, <2>5 DEF a, b, s
  <2>. QED BY <2>8, <2>9
<1>11. N \in T
  <2> HIDE DEF T
  <2>1. \A k \in 0 .. N : k \in T  BY <1>3, <1>9, <1>10, InductionTo
  <2>. QED BY <2>1, <1>3
<1> DEFINE row == h[N]  q == Cells(row, z)
<1>12. Isum(q) = LcSum(l, I, Y)  BY <1>11, <1>7, <1>1 DEF p
<1>13. row \in Seq(Columns(z))  BY <1>3, <1>4
<1>14. multiply(row, z) = total(q)
  <2> HIDE DEF row
  <2>1. DOMAIN row = 1 .. Len(row)  BY <1>13, LenProperties
  <2>. QED BY <2>1 DEF multiply, Cells
<1>15. total(q) = Isum(q) % P
  <2>1. Integers(q)
    <3> HIDE DEF row
    <3>. QED BY <1>13, CellsAre
  <2> HIDE DEF q
  <2>. QED BY <2>1, TotalIsSum DEF Integers
<1>. QED BY <1>2, <1>12, <1>14, <1>15

----------------------------------------------------------------------------
(* The terms a combination was built from.                                 *)

Coefs(m, n) == F \X Vars(m, n)
Written(ts, I, Y) == [k \in 1 .. Len(ts) |-> ts[k][1] * Val(ts[k][2], I, Y)]
TermSum(ts, I, Y) == Isum(Written(ts, I, Y))

\* l is, whatever the variables stand for, the sum of the terms ts.
Means(l, ts, m, n) ==
    /\ GoodLc(l, m, n)
    /\ ts \in Seq(Coefs(m, n))
    /\ \A I \in Assignments, Y \in Assignments : Cong(LcSum(l, I, Y), TermSum(ts, I, Y))

LEMMA CoefAt ==
    ASSUME NEW m \in Nat, NEW n \in Nat, NEW ts \in Seq(Coefs(m, n)), NEW k \in 1 .. Len(ts)
    PROVE  ts[k][1] \in F /\ ts[k][1] \in Int /\ ts[k][2] \in Vars(m, n)
<1>1. ts[k] \in F \X Vars(m, n)  BY ElementOfSeq DEF Coefs
<1>. QED BY <1>1, ModulusAssumption DEF F

LEMMA WrittenAre ==
    ASSUME NEW m \in Nat, NEW n \in Nat, NEW ts \in Seq(Coefs(m, n)),
           NEW I \in Assignments, NEW Y \in Assignments
    PROVE  /\ Integers(Written(ts, I, Y)) /\ Len(Written(ts, I, Y)) = Len(ts)
           /\ \A k \in 1 .. Len(ts) : Written(ts, I, Y)[k] = ts[k][1] * Val(ts[k][2], I, Y)
           /\ TermSum(ts, I, Y) \in Int
<1> DEFINE p == Written(ts, I, Y)
<1>1. Len(ts) \in Nat  BY LenProperties
<1>2. \A k \in 1 .. Len(ts) : p[k] = ts[k][1] * Val(ts[k][2], I, Y)  BY DEF Written
<1>3. Len(p) = Len(ts)  BY <1>1 DEF Written
<1> HIDE DEF p
<1>4. ASSUME NEW k \in 1 .. Len(ts)  PROVE p[k] \in Int
  <2>1. ts[k][1] \in Int /\ ts[k][2] \in Vars(m, n)  BY CoefAt
  <2>2. Val(ts[k][2], I, Y) \in Int  BY <2>1, ValInt
  <2>. QED BY <1>2, <2>1, <2>2
<1>5. Integers(p)  BY <1>1, <1>3, <1>4 DEF Integers
<1>6. Isum(p) \in Int  BY <1>5, SumInteger
<1>. QED BY <1>2, <1>3, <1>5, <1>6 DEF p, TermSum

LEMMA MeansNothing ==
    ASSUME NEW m \in Nat, NEW n \in Nat
    PROVE  Means(zero, <<>>, m, n)
<1> DEFINE none == <<>>
<1>1. none \in Seq(Coefs(m, n)) /\ Len(none) = 0  OBVIOUS
<1>2. /\ GoodLc(zero, m, n)
      /\ \A I \in Assignments, Y \in Assignments : LcSum(zero, I, Y) = 0
  BY ZeroGood
<1> HIDE DEF none
<1>3. ASSUME NEW I \in Assignments, NEW Y \in Assignments
      PROVE  Cong(LcSum(zero, I, Y), TermSum(none, I, Y))
  <2> DEFINE p == Written(none, I, Y)
  <2>1. Integers(p) /\ Len(p) = 0  BY <1>1, WrittenAre
  <2> HIDE DEF p
  <2>2. Isum(p) = 0  BY <2>1, SumEmpty
  <2>3. TermSum(none, I, Y) = 0  BY <2>2 DEF TermSum, p
  <2>. QED BY <2>3, <1>2 DEF Cong
<1>4. Means(zero, none, m, n)  BY <1>1, <1>2, <1>3 DEF Means
<1>. QED BY <1>4 DEF none

LEMMA MeansAppend ==
    ASSUME NEW m \in Nat, NEW n \in Nat, NEW l, NEW ts, Means(l, ts, m, n),
           NEW c \in F, NEW v \in Vars(m, n)
    PROVE  Means(add(l, c, v), Append(ts, <<c, v>>), m, n)
<1> DEFINE x == <<c, v>>
           us == Append(ts, x)
           h == add(l, c, v)
           S == Coefs(m, n)
<1>1. GoodLc(l, m, n) /\ ts \in Seq(S)  BY DEF Means
<1>2. x \in S /\ x[1] = c /\ x[2] = v  BY DEF Coefs
<1> HIDE DEF x, S
<1>3. /\ us \in Seq(S) /\ Len(us) = Len(ts) + 1
      /\ \A k \in 1 .. Len(ts) : us[k] = ts[k]
      /\ us[Len(ts) + 1] = x
  BY <1>1, <1>2, AppendProperties
<1>4. Len(ts) \in Nat  BY <1>1, LenProperties
<1>5. AddsTerm(h, l, m, n, c, v)  BY <1>1, AddAdds
<1>6. GoodLc(h, m, n)  BY <1>5 DEF AddsTerm
<1> HIDE DEF h, us
<1>7. ASSUME NEW I \in Assignments, NEW Y \in Assignments
      PROVE  Cong(LcSum(h, I, Y), TermSum(us, I, Y))
  <2> DEFINE a == Written(ts, I, Y)  b == Written(us, I, Y)
             i == Len(a) + 1  y == Val(v, I, Y)  d == c * y
  <2>1. /\ Integers(a) /\ Len(a) = Len(ts)
        /\ \A k \in 1 .. Len(ts) : a[k] = ts[k][1] * Val(ts[k][2], I, Y)
        /\ TermSum(ts, I, Y) \in Int
    BY <1>1, WrittenAre DEF S
  <2>2. /\ Integers(b) /\ Len(b) = Len(us)
        /\ \A k \in 1 .. Len(us) : b[k] = us[k][1] * Val(us[k][2], I, Y)
    BY <1>3, WrittenAre DEF S
  <2> HIDE DEF a, b
  <2>3. y \in Int /\ c \in Int  BY ValInt, ModulusAssumption DEF F
  <2>4. d \in Int
    <3> HIDE DEF y
    <3>. QED BY <2>3
  <2>5. i \in 1 .. Len(a) + 1  BY <1>4, <2>1
  <2>6. Inserted(b, a, i, d)
    <3>1. Len(b) = Len(a) + 1  BY <1>3, <2>1, <2>2
    <3>2. \A k \in 1 .. i - 1 : b[k] = a[k]
      <4> TAKE k \in 1 .. i - 1
      <4>1. k \in 1 .. Len(ts) /\ k \in 1 .. Len(us)  BY <1>3, <1>4, <2>1
      <4>. QED BY <4>1, <1>3, <2>1, <2>2
    <3>3. b[i] = d
      <4>1. i \in 1 .. Len(us) /\ i = Len(ts) + 1  BY <1>3, <1>4, <2>1
      <4>2. us[i] = x  BY <4>1, <1>3
      <4>. QED BY <4>1, <4>2, <1>2, <2>2
    <3>4. \A k \in i + 1 .. Len(b) : b[k] = a[k - 1]  BY <3>1, <1>4, <2>1
    <3> HIDE DEF i, d
    <3>. QED BY <3>1, <3>2, <3>3, <3>4 DEF Inserted
  <2>7. Isum(b) = Isum(a) + d
    <3> HIDE DEF i, d
    <3>. QED BY <2>1, <2>4, <2>5, <2>6, SumInserted
  <2> DEFINE g == LcSum(h, I, Y)  s == LcSum(l, I, Y)  r == TermSum(ts, I, Y)
  <2>8. Cong(g, s + d)  BY <1>5 DEF AddsTerm
  <2>9. Cong(s, r)  BY DEF Means
  <2>10. g \in Int /\ s \in Int /\ r \in Int  BY <1>1, <1>6, <2>1, LcSumInt
  <2>11. TermSum(us, I, Y) = r + d  BY <2>7 DEF TermSum, a, b
  <2> HIDE DEF g, s, r, d
  <2>12. Cong(s + d, r + d)
    <3>1. Cong(d, d)  BY DEF Cong
    <3>. QED BY <3>1, <2>4, <2>9, <2>10, CongSum
  <2>13. Cong(g, r + d)  BY <2>8, <2>12 DEF Cong
  <2>. QED BY <2>11, <2>13 DEF g
<1>8. Means(h, us, m, n)  BY <1>3, <1>6, <1>7 DEF Means, S
<1>. QED BY <1>8 DEF h, us, x

\* The terms us, each times c.
Scaled(us, c) == [j \in DOMAIN us |-> <<(c * us[j][1]) % P, us[j][2]>>]

LEMMA MeansScaled ==
    ASSUME NEW m \in Nat, NEW n \in Nat, NEW l, NEW ts, Means(l, ts, m, n),
           NEW o, NEW us, Means(o, us, m, n), NEW c \in F
    PROVE  Means(add_scaled(l, c, o), ts \o Scaled(us, c), m, n)
<1> DEFINE S == Coefs(m, n)
           ws == Scaled(us, c)
           js == ts \o ws
           h == add_scaled(l, c, o)
<1>1. GoodLc(l, m, n) /\ ts \in Seq(S) /\ GoodLc(o, m, n) /\ us \in Seq(S)  BY DEF Means
<1>2. Len(ts) \in Nat /\ Len(us) \in Nat /\ DOMAIN us = 1 .. Len(us) /\ c \in Int
  BY <1>1, LenProperties, ModulusAssumption DEF F
<1>3. \A k \in 1 .. Len(us) : us[k][1] \in F /\ us[k][1] \in Int /\ us[k][2] \in Vars(m, n)
  <2> TAKE k \in 1 .. Len(us)
  <2>. QED BY <1>1, CoefAt
<1>4. \A k \in 1 .. Len(us) :
          /\ (c * us[k][1]) % P \in F /\ (c * us[k][1]) % P \in Int
          /\ Cong((c * us[k][1]) % P, c * us[k][1]) /\ c * us[k][1] \in Int
  <2> TAKE k \in 1 .. Len(us)
  <2> DEFINE e == us[k][1]
  <2>1. e \in Int  BY <1>3
  <2> HIDE DEF e
  <2>2. c * e \in Int  BY <2>1, <1>2
  <2>3. (c * e) % P \in F /\ (c * e) % P \in Int /\ Cong((c * e) % P, c * e)
    BY <2>2, CongResidue
  <2>. QED BY <2>2, <2>3 DEF e
<1>5. /\ ws \in Seq(S) /\ Len(ws) = Len(us)
      /\ \A k \in 1 .. Len(us) : ws[k] = <<(c * us[k][1]) % P, us[k][2]>>
  <2>1. ws = [j \in 1 .. Len(us) |-> <<(c * us[j][1]) % P, us[j][2]>>]  BY <1>2 DEF Scaled
  <2>2. \A k \in 1 .. Len(us) : <<(c * us[k][1]) % P, us[k][2]>> \in S
    BY <1>3, <1>4 DEF Coefs
  <2> DEFINE x(j) == <<(c * us[j][1]) % P, us[j][2]>>  N == Len(us)
  <2>3. ws = [j \in 1 .. N |-> x(j)] /\ N \in Nat /\ \A k \in 1 .. N : x(k) \in S
    BY <2>1, <2>2, <1>2
  <2> HIDE DEF ws, S, x, N
  <2>4. ws \in [1 .. N -> S]  BY <2>3
  <2>5. ws \in Seq(S) /\ Len(ws) = N  BY <2>3, <2>4
  <2>6. \A k \in 1 .. N : ws[k] = x(k)  BY <2>3
  <2>. QED BY <2>5, <2>6 DEF x, N
<1> HIDE DEF S, ws
<1>6. /\ js \in Seq(S) /\ Len(js) = Len(ts) + Len(ws)
      /\ \A k \in 1 .. Len(ts) + Len(ws) : js[k] = IF k <= Len(ts) THEN ts[k] ELSE ws[k - Len(ts)]
  BY <1>1, <1>5, ConcatProperties
<1>7. AddsScaled(h, l, m, n, c, o)  BY <1>1, AddScaledAdds
<1>8. GoodLc(h, m, n)  BY <1>7 DEF AddsScaled
<1> HIDE DEF js, h
<1>9. ASSUME NEW I \in Assignments, NEW Y \in Assignments
      PROVE  Cong(LcSum(h, I, Y), TermSum(js, I, Y))
  <2> DEFINE p == Written(ts, I, Y)  q == Written(us, I, Y)
             r == Written(ws, I, Y)  t == Written(js, I, Y)
  <2>1. /\ Integers(p) /\ Len(p) = Len(ts)
        /\ \A k \in 1 .. Len(ts) : p[k] = ts[k][1] * Val(ts[k][2], I, Y)
    BY <1>1, WrittenAre DEF S
  <2>2. /\ Integers(q) /\ Len(q) = Len(us)
        /\ \A k \in 1 .. Len(us) : q[k] = us[k][1] * Val(us[k][2], I, Y)
    BY <1>1, WrittenAre DEF S
  <2>3. /\ Integers(r) /\ Len(r) = Len(ws)
        /\ \A k \in 1 .. Len(ws) : r[k] = ws[k][1] * Val(ws[k][2], I, Y)
    BY <1>5, WrittenAre DEF S
  <2>4. /\ Integers(t) /\ Len(t) = Len(js)
        /\ \A k \in 1 .. Len(js) : t[k] = js[k][1] * Val(js[k][2], I, Y)
    BY <1>6, WrittenAre DEF S
  <2> HIDE DEF p, q, r, t
  <2>5. Joined(t, p, r)
    <3>1. Len(t) = Len(p) + Len(r)  BY <2>1, <2>3, <2>4, <1>6
    <3>2. \A k \in 1 .. Len(p) : t[k] = p[k]
      <4> TAKE k \in 1 .. Len(p)
      <4>1. k \in 1 .. Len(ts) /\ k \in 1 .. Len(js) /\ k <= Len(ts) /\ k \in 1 .. Len(ts) + Len(ws)
        BY <1>2, <1>5, <1>6, <2>1
      <4>. QED BY <4>1, <1>6, <2>1, <2>4
    <3>3. \A k \in 1 .. Len(r) : t[Len(p) + k] = r[k]
      <4> TAKE k \in 1 .. Len(r)
      <4> DEFINE j == Len(p) + k
      <4>1. /\ k \in 1 .. Len(ws) /\ j \in 1 .. Len(js) /\ ~ (j <= Len(ts))
            /\ j \in 1 .. Len(ts) + Len(ws) /\ j - Len(ts) = k
        BY <1>2, <1>5, <1>6, <2>1, <2>3
      <4> HIDE DEF j
      <4>2. js[j] = ws[k]  BY <4>1, <1>6
      <4>3. t[j] = r[k]  BY <4>1, <4>2, <2>3, <2>4
      <4>. QED BY <4>3 DEF j
    <3>. QED BY <3>1, <3>2, <3>3 DEF Joined
  <2>6. Isum(t) = Isum(p) + Isum(r)  BY <2>1, <2>3, <2>5, SumJoined
  <2>7. \A k \in 1 .. Len(q) : Cong(r[k], c * q[k])
    <3> TAKE k \in 1 .. Len(q)
    <3>1. k \in 1 .. Len(us) /\ k \in 1 .. Len(ws)  BY <2>2, <1>5
    <3> DEFINE e == us[k][1]  y == Val(us[k][2], I, Y)  z == (c * e) % P
    <3>2. q[k] = e * y  BY <3>1, <2>2
    <3>3. r[k] = z * y
      <4>1. ws[k] = <<z, us[k][2]>>  BY <3>1, <1>5
      <4>2. r[k] = ws[k][1] * Val(ws[k][2], I, Y)  BY <3>1, <2>3
      <4> HIDE DEF z
      <4>. QED BY <4>1, <4>2
    <3>4. e \in Int /\ z \in Int /\ Cong(z, c * e) /\ c * e \in Int  BY <3>1, <1>3, <1>4
    <3>5. y \in Int
      <4>1. us[k][2] \in Vars(m, n)  BY <3>1, <1>3
      <4>. QED BY <4>1, ValInt
    <3> HIDE DEF e, y, z
    <3>6. Cong(y * z, y * (c * e))  BY <3>4, <3>5, CongProduct
    <3>7. y * z = z * y /\ y * (c * e) = c * (e * y)  BY <3>4, <3>5, <1>2
    <3>. QED BY <3>2, <3>3, <3>6, <3>7
  <2>8. Cong(Isum(r), c * Isum(q))
    <3>1. Len(r) = Len(q)  BY <2>2, <2>3, <1>5
    <3>. QED BY <3>1, <2>2, <2>3, <2>7, <1>2, SumScaled
  <2> DEFINE g == LcSum(h, I, Y)  a == LcSum(l, I, Y)  b == LcSum(o, I, Y)
             A == Isum(p)  B == Isum(q)  C == Isum(r)
  <2>9. Cong(g, a + c * b)  BY <1>7 DEF AddsScaled
  <2>10. Cong(a, A) /\ Cong(b, B)  BY DEF Means, TermSum, p, q
  <2>11. g \in Int /\ a \in Int /\ b \in Int /\ A \in Int /\ B \in Int /\ C \in Int
    BY <1>1, <1>8, <2>1, <2>2, <2>3, LcSumInt, SumInteger
  <2>12. TermSum(js, I, Y) = A + C  BY <2>6 DEF TermSum, t
  <2>13. Cong(C, c * B)  BY <2>8
  <2> HIDE DEF g, a, b, A, B, C
  <2>14. Cong(c * b, c * B)  BY <2>10, <2>11, <1>2, CongProduct
  <2>15. c * b \in Int /\ c * B \in Int  BY <2>11, <1>2
  <2>16. Cong(c * b, C)  BY <2>13, <2>14 DEF Cong
  <2>17. Cong(a + c * b, A + C)  BY <2>10, <2>11, <2>15, <2>16, CongSum
  <2>18. Cong(g, A + C)  BY <2>9, <2>17 DEF Cong
  <2>. QED BY <2>12, <2>18 DEF g
<1>10. Means(h, js, m, n)  BY <1>6, <1>8, <1>9 DEF Means, S
<1>. QED BY <1>10 DEF h, js, ws

\* What a combination means is not changed by more variables.
LEMMA MeansGrows ==
    ASSUME NEW m \in Nat, NEW n \in Nat, NEW l, NEW ts, Means(l, ts, m, n),
           NEW i \in Nat, m <= i, NEW j \in Nat, n <= j
    PROVE  Means(l, ts, i, j)
<1>1. GoodLc(l, m, n) /\ ts \in Seq(Coefs(m, n))  BY DEF Means
<1>2. ASSUME NEW ix, NEW a \in Nat, NEW b \in Nat, a <= b, GoodIx(ix, a)
      PROVE  GoodIx(ix, b)
  <2>1. ix.values \in Seq(Entries) /\ Below(ix.values, a)  BY <1>2 DEF GoodIx
  <2> DEFINE w == ix.values
  <2>2. \A k \in 1 .. Len(w) : w[k][1] \in Nat
    <3> HIDE DEF w
    <3>. QED BY <2>1, EntryAt DEF w
  <2>3. Below(w, b)
    <3> HIDE DEF w
    <3>1. Below(w, a)  BY <2>1 DEF w
    <3>. QED BY <3>1, <2>2, <1>2 DEF Below
  <2>. QED BY <2>3, <1>2 DEF GoodIx
<1>3. GoodLc(l, i, j)  BY <1>1, <1>2 DEF GoodLc
<1>4. Coefs(m, n) \subseteq Coefs(i, j)
  <2>1. Vars(m, n) \subseteq Vars(i, j)  BY DEF Vars
  <2>. QED BY <2>1 DEF Coefs
<1>5. ts \in Seq(Coefs(i, j))  BY <1>1, <1>4, SeqMonotonic
<1>. QED BY <1>3, <1>5 DEF Means

----------------------------------------------------------------------------
(* The assignment of the constraint systems, and what is evaluated on it.  *)

Inputs0 == [k \in Nat |-> IF k < Len(inputs) THEN inputs[k + 1] ELSE 0]
Aux0 == [k \in Nat |-> IF k < Len(aux) THEN aux[k + 1] ELSE 0]

Assignment == /\ inputs \in Seq(F) /\ Len(inputs) >= 1 /\ inputs[1] = 1
              /\ aux \in Seq(F)

LEMMA AssignmentIs ==
    ASSUME Assignment
    PROVE  /\ Len(inputs) \in Nat /\ Len(aux) \in Nat
           /\ Inputs0 \in Assignments /\ Aux0 \in Assignments
           /\ \A v \in Vars(Len(inputs), Len(aux)) : value(v) = Val(v, Inputs0, Aux0)
<1>1. /\ Len(inputs) \in Nat /\ Len(aux) \in Nat
      /\ \A k \in 1 .. Len(inputs) : inputs[k] \in F
      /\ \A k \in 1 .. Len(aux) : aux[k] \in F
  BY LenProperties, ElementOfSeq DEF Assignment
<1>2. 0 \in F  BY ModulusAssumption DEF F
<1>3. Inputs0 \in Assignments
  <2>1. ASSUME NEW k \in Nat
        PROVE  (IF k < Len(inputs) THEN inputs[k + 1] ELSE 0) \in F
    <3>1. CASE k < Len(inputs)
      <4>1. k + 1 \in 1 .. Len(inputs)  BY <3>1, <1>1
      <4>. QED BY <3>1, <4>1, <1>1
    <3>2. CASE ~ (k < Len(inputs))  BY <3>2, <1>2
    <3>. QED BY <3>1, <3>2
  <2>. QED BY <2>1 DEF Inputs0, Assignments
<1>4. Aux0 \in Assignments
  <2>1. ASSUME NEW k \in Nat
        PROVE  (IF k < Len(aux) THEN aux[k + 1] ELSE 0) \in F
    <3>1. CASE k < Len(aux)
      <4>1. k + 1 \in 1 .. Len(aux)  BY <3>1, <1>1
      <4>. QED BY <3>1, <4>1, <1>1
    <3>2. CASE ~ (k < Len(aux))  BY <3>2, <1>2
    <3>. QED BY <3>1, <3>2
  <2>. QED BY <2>1 DEF Aux0, Assignments
<1>5. ASSUME NEW v \in Vars(Len(inputs), Len(aux))
      PROVE  value(v) = Val(v, Inputs0, Aux0)
  <2>1. CASE v[1] = "input" /\ v[2] \in 0 .. Len(inputs) - 1
    <3>1. v[2] \in Nat /\ v[2] < Len(inputs)  BY <2>1, <1>1
    <3>2. Inputs0[v[2]] = inputs[v[2] + 1]  BY <3>1 DEF Inputs0
    <3>. QED BY <3>2, <2>1 DEF value, Val
  <2>2. CASE v[1] = "aux" /\ v[2] \in 0 .. Len(aux) - 1
    <3>1. v[2] \in Nat /\ v[2] < Len(aux)  BY <2>2, <1>1
    <3>2. Aux0[v[2]] = aux[v[2] + 1]  BY <3>1 DEF Aux0
    <3>. QED BY <3>2, <2>2 DEF value, Val
  <2>. QED BY <2>1, <2>2, <1>1, VarIs
<1>. QED BY <1>1, <1>3, <1>4, <1>5

\* z is the vector of the R1CS.
FullZ == r1cs_instance_and_witness.W \o <<1>> \o r1cs_instance_and_witness.X

LEMMA FullZLaid ==
    ASSUME Assignment
    PROVE  LaidOut(FullZ, Len(inputs), Len(aux), Inputs0, Aux0)
<1> DEFINE m == Len(inputs)
           n == Len(aux)
           rest == Tail(inputs)
           one == <<1>>
           h == aux \o one
           z == h \o rest
<1>1. FullZ = z  BY DEF FullZ, r1cs_instance_and_witness
<1>2. /\ inputs \in Seq(F) /\ aux \in Seq(F) /\ m \in Nat /\ n \in Nat /\ m >= 1
      /\ inputs[1] = 1
  BY AssignmentIs DEF Assignment
<1>3. inputs # <<>>  BY <1>2
<1>4. /\ rest \in Seq(F) /\ Len(rest) = m - 1
      /\ \A k \in 1 .. Len(rest) : rest[k] = inputs[k + 1]
  BY <1>2, <1>3, HeadTailProperties
<1>5. one \in Seq(F) /\ Len(one) = 1 /\ one[1] = 1
  <2>1. 1 \in F  BY ModulusAssumption DEF F
  <2>. QED BY <2>1
<1> HIDE DEF rest, one
<1>6. /\ h \in Seq(F) /\ Len(h) = n + 1
      /\ \A k \in 1 .. n + 1 : h[k] = IF k <= n THEN aux[k] ELSE one[k - n]
  <2>1. aux \in Seq(F) /\ one \in Seq(F)  BY <1>2, <1>5
  <2>2. /\ h \in Seq(F) /\ Len(h) = Len(aux) + Len(one)
        /\ \A k \in 1 .. Len(aux) + Len(one) : h[k] = IF k <= Len(aux) THEN aux[k] ELSE one[k - Len(aux)]
    BY ONLY <2>1, ConcatProperties
  <2> HIDE DEF h
  <2>. QED BY <2>2, <1>5
<1> HIDE DEF h
<1>7. /\ z \in Seq(F) /\ Len(z) = Len(h) + Len(rest)
      /\ \A k \in 1 .. Len(h) + Len(rest) : z[k] = IF k <= Len(h) THEN h[k] ELSE rest[k - Len(h)]
  BY <1>4, <1>6, ConcatProperties
<1> HIDE DEF z
<1>8. ASSUME NEW v \in Vars(m, n)
      PROVE  column(v, n) \in Nat /\ z[column(v, n) + 1] = Val(v, Inputs0, Aux0)
  <2> DEFINE j == column(v, n) + 1
  <2>1. value(v) = Val(v, Inputs0, Aux0)  BY AssignmentIs
  <2>2. CASE v[1] = "input" /\ v[2] \in 0 .. m - 1
    <3>1. column(v, n) = v[2] + n /\ value(v) = inputs[v[2] + 1]  BY <2>2 DEF column, value
    <3>2. CASE v[2] = 0
      <4>1. j = n + 1 /\ ~ (j <= n) /\ j \in 1 .. n + 1 /\ j - n = 1  BY <3>1, <3>2, <1>2
      <4>2. h[j] = 1  BY <4>1, <1>5, <1>6
      <4>3. j <= Len(h) /\ j \in 1 .. Len(h) + Len(rest)  BY <4>1, <1>2, <1>4, <1>6
      <4>4. z[j] = 1
        <5> HIDE DEF j
        <5>. QED BY <4>2, <4>3, <1>7
      <4>. QED BY <4>4, <3>1, <3>2, <2>1, <1>2
    <3>3. CASE v[2] # 0
      <4> DEFINE k == v[2]
      <4>1. k \in 1 .. Len(rest) /\ j = (n + 1) + k /\ column(v, n) \in Nat
        BY <2>2, <3>1, <3>3, <1>2, <1>4
      <4>2. rest[k] = inputs[k + 1]  BY <4>1, <1>4
      <4> HIDE DEF k, j
      <4>3. /\ ~ (j <= Len(h)) /\ j - Len(h) = k /\ j \in 1 .. Len(h) + Len(rest)
        BY <4>1, <1>2, <1>4, <1>6
      <4>4. z[j] = rest[k]  BY <4>3, <1>7
      <4>. QED BY <4>1, <4>2, <4>4, <3>1, <2>1 DEF j, k
    <3>. QED BY <3>2, <3>3
  <2>3. CASE v[1] = "aux" /\ v[2] \in 0 .. n - 1
    <3>1. column(v, n) = v[2] /\ value(v) = aux[v[2] + 1]  BY <2>3 DEF column, value
    <3>2. /\ j \in 1 .. n /\ j = v[2] + 1 /\ column(v, n) \in Nat  BY <2>3, <3>1, <1>2
    <3> HIDE DEF j
    <3>3. j \in 1 .. n + 1 /\ j <= n /\ j <= Len(h) /\ j \in 1 .. Len(h) + Len(rest)
      BY <3>2, <1>2, <1>4, <1>6
    <3>4. h[j] = aux[j]  BY <3>3, <1>6
    <3>5. z[j] = aux[j]  BY <3>3, <3>4, <1>7
    <3>. QED BY <3>1, <3>2, <3>5, <2>1 DEF j
  <2>. QED BY <2>2, <2>3, <1>2, VarIs
<1>. QED BY <1>1, <1>8 DEF LaidOut, m, n

\* The combination, its row and its terms have one value.
LEMMA MeansAgree ==
    ASSUME Assignment, NEW l, NEW ts, Means(l, ts, Len(inputs), Len(aux))
    PROVE  /\ eval(l) = eval_terms(ts)
           /\ multiply(add_constraint_component(l, Len(aux)), FullZ) = eval_terms(ts)
<1> DEFINE m == Len(inputs)
           n == Len(aux)
           it == lc_iter(l)
           r == Terms(it, Inputs0, Aux0)
           w == Written(ts, Inputs0, Aux0)
<1>1. /\ m \in Nat /\ n \in Nat /\ Inputs0 \in Assignments /\ Aux0 \in Assignments
      /\ \A v \in Vars(m, n) : value(v) = Val(v, Inputs0, Aux0)
  BY AssignmentIs
<1>2. /\ GoodLc(l, m, n) /\ ts \in Seq(Coefs(m, n))
      /\ Cong(LcSum(l, Inputs0, Aux0), TermSum(ts, Inputs0, Aux0))
  BY <1>1 DEF Means
<1> HIDE DEF m, n
<1>3. it \in Seq(Pairs(m, n)) /\ Isum(r) = LcSum(l, Inputs0, Aux0)
  BY <1>1, <1>2, IterIs
<1> HIDE DEF it
<1>4. /\ Integers(r)
      /\ \A k \in 1 .. Len(it) : it[k][1] \in Vars(m, n)
  BY <1>1, <1>3, TermsAre
<1>5. [k \in DOMAIN it |-> it[k][2] * value(it[k][1])] = r
  <2>1. DOMAIN it = 1 .. Len(it)  BY <1>3, LenProperties
  <2>2. \A k \in 1 .. Len(it) : value(it[k][1]) = Val(it[k][1], Inputs0, Aux0)  BY <1>1, <1>4
  <2>. QED BY <2>1, <2>2 DEF Terms
<1>6. eval(l) = total(r)  BY <1>5 DEF eval, it
<1>7. total(r) = Isum(r) % P
  <2> HIDE DEF r
  <2>. QED BY <1>4, TotalIsSum DEF Integers
<1>8. /\ Integers(w) /\ \A k \in 1 .. Len(ts) : ts[k][2] \in Vars(m, n)
  BY <1>1, <1>2, WrittenAre, CoefAt
<1>9. [k \in DOMAIN ts |-> ts[k][1] * value(ts[k][2])] = w
  <2>1. DOMAIN ts = 1 .. Len(ts)  BY <1>2, LenProperties
  <2>2. \A k \in 1 .. Len(ts) : value(ts[k][2]) = Val(ts[k][2], Inputs0, Aux0)  BY <1>1, <1>8
  <2>. QED BY <2>1, <2>2 DEF Written
<1>10. eval_terms(ts) = total(w)  BY <1>9 DEF eval_terms
<1>11. total(w) = Isum(w) % P
  <2> HIDE DEF w
  <2>. QED BY <1>8, TotalIsSum DEF Integers
<1>12. Isum(r) % P = Isum(w) % P
  <2> HIDE DEF r
  <2>. QED BY <1>2, <1>3 DEF Cong, TermSum
<1>13. multiply(add_constraint_component(l, n), FullZ) = LcSum(l, Inputs0, Aux0) % P
  <2>1. LaidOut(FullZ, m, n, Inputs0, Aux0)  BY FullZLaid DEF m, n
  <2>. QED BY <2>1, <1>1, <1>2, RowIs
<1> HIDE DEF r, w
<1>. QED BY <1>3, <1>6, <1>7, <1>10, <1>11, <1>12, <1>13 DEF n
----------------------------------------------------------------------------
(* The invariant.                                                          *)

AnyVar == {"input", "aux"} \X Nat
Texts == Seq(F \X AnyVar)

\* A combination and its terms, with the variables allocated so far.
Agree(l, ts) == Means(l, ts, Len(inputs), Len(aux))

Counted ==
    /\ synthesized \in [inputs : Nat, aux : Nat, constraints : Seq(Lcs \X Lcs \X Lcs)]
    /\ synthesized.inputs = Len(inputs) /\ synthesized.aux = Len(aux)
Constrained ==
    /\ plain \in Seq(Texts \X Texts \X Texts)
    /\ Len(synthesized.constraints) = Len(plain)
    /\ \A k \in 1 .. Len(plain), p \in 1 .. 3 : Agree(synthesized.constraints[k][p], plain[k][p])
SynthInv == Assignment /\ Counted /\ Agree(lc, terms) /\ Constrained

LEMMA InitSynthInv == FrontendInit => SynthInv
<1> SUFFICES ASSUME FrontendInit  PROVE SynthInv
  OBVIOUS
<1> DEFINE one == <<1>>  none == <<>>
<1>1. one \in Seq(F) /\ Len(one) = 1 /\ one[1] = 1
  <2>1. 1 \in F  BY ModulusAssumption DEF F
  <2>. QED BY <2>1
<1>2. /\ none \in Seq(F) /\ none \in Seq(Lcs \X Lcs \X Lcs) /\ none \in Seq(Texts \X Texts \X Texts)
      /\ Len(none) = 0
  OBVIOUS
<1>3. /\ inputs = one /\ aux = none /\ lc = zero /\ terms = none /\ plain = none
      /\ synthesized = [inputs |-> 1, aux |-> 0, constraints |-> none]
  BY DEF FrontendInit
<1>4. Means(zero, none, 1, 0)
  <2>1. 1 \in Nat /\ 0 \in Nat  OBVIOUS
  <2>. QED BY <2>1, MeansNothing
<1> HIDE DEF one, none
<1>5. Assignment  BY <1>1, <1>2, <1>3 DEF Assignment
<1>6. Counted  BY <1>1, <1>2, <1>3 DEF Counted
<1>7. Agree(lc, terms)  BY <1>1, <1>2, <1>3, <1>4 DEF Agree
<1>8. Constrained  BY <1>2, <1>3 DEF Constrained
<1>. QED BY <1>5, <1>6, <1>7, <1>8 DEF SynthInv

\* More variables: everything else is as before.
Allocated(i, j) ==
    /\ inputs' \in Seq(F) /\ Len(inputs') = Len(inputs) + i /\ inputs'[1] = inputs[1]
    /\ aux' \in Seq(F) /\ Len(aux') = Len(aux) + j
    /\ synthesized' = [inputs |-> synthesized.inputs + i, aux |-> synthesized.aux + j,
                       constraints |-> synthesized.constraints]
    /\ lc' = lc /\ terms' = terms /\ plain' = plain

LEMMA AllocatedInv ==
    ASSUME SynthInv, NEW i \in Nat, NEW j \in Nat, Allocated(i, j)
    PROVE  SynthInv'
<1>1. Len(inputs) \in Nat /\ Len(aux) \in Nat  BY AssignmentIs DEF SynthInv
<1>2. /\ Len(inputs) <= Len(inputs') /\ Len(aux) <= Len(aux')
      /\ Len(inputs') \in Nat /\ Len(aux') \in Nat
  BY <1>1 DEF Allocated
<1>3. Assignment'  BY <1>1, <1>2 DEF Assignment, SynthInv, Allocated
<1>4. synthesized'.constraints = synthesized.constraints  BY DEF Allocated
<1>5. Counted'
  <2>1. /\ synthesized'.inputs = synthesized.inputs + i
        /\ synthesized'.aux = synthesized.aux + j
        /\ synthesized.constraints \in Seq(Lcs \X Lcs \X Lcs)
        /\ synthesized.inputs = Len(inputs) /\ synthesized.aux = Len(aux)
    BY DEF Allocated, SynthInv, Counted
  <2>2. synthesized' \in [inputs : Nat, aux : Nat, constraints : Seq(Lcs \X Lcs \X Lcs)]
    <3>1. synthesized.inputs + i \in Nat /\ synthesized.aux + j \in Nat  BY <2>1, <1>1
    <3>. QED BY <2>1, <3>1 DEF Allocated
  <2>. QED BY <2>1, <2>2 DEF Counted, Allocated
<1>6. ASSUME NEW l, NEW ts, Agree(l, ts)  PROVE Means(l, ts, Len(inputs'), Len(aux'))
  BY <1>1, <1>2, <1>6, MeansGrows DEF Agree
<1>7. Agree(lc, terms)'
  <2>1. Means(lc, terms, Len(inputs'), Len(aux'))  BY <1>6 DEF SynthInv
  <2>. QED BY <2>1 DEF Agree, Allocated
<1>8. Constrained'
  <2>1. \A k \in 1 .. Len(plain), p \in 1 .. 3 :
            Means(synthesized.constraints[k][p], plain[k][p], Len(inputs'), Len(aux'))
    <3> TAKE k \in 1 .. Len(plain), p \in 1 .. 3
    <3>1. Agree(synthesized.constraints[k][p], plain[k][p])  BY DEF SynthInv, Constrained
    <3>. QED BY <3>1, <1>6
  <2>2. plain' = plain  BY DEF Allocated
  <2>. QED BY <2>1, <2>2, <1>4 DEF Constrained, Agree, SynthInv
<1>. QED BY <1>3, <1>5, <1>7, <1>8 DEF SynthInv

LEMMA AssignedInF == \A k \in Nat : Assigned(k) \in F
<1> TAKE k \in Nat
<1>1. k * k + 1 \in Int  OBVIOUS
<1>2. (k * k + 1) % P \in F
  <2> DEFINE e == k * k + 1
  <2>1. e \in Int  BY <1>1
  <2> HIDE DEF e
  <2>2. e % P \in F  BY <2>1, Modulus
  <2>. QED BY <2>2 DEF e
<1>. QED BY <1>2 DEF Assigned

LEMMA InputValueInF == InputValue \in F
BY ModulusAssumption DEF InputValue, F

\* An element is appended.
LEMMA AppendField ==
    ASSUME NEW s \in Seq(F), NEW x \in F
    PROVE  /\ Append(s, x) \in Seq(F) /\ Len(Append(s, x)) = Len(s) + 1
           /\ (Len(s) >= 1 => Append(s, x)[1] = s[1])
<1> DEFINE t == Append(s, x)
<1>1. /\ t \in Seq(F) /\ Len(t) = Len(s) + 1
      /\ \A i \in 1 .. Len(s) : t[i] = s[i]
  BY AppendProperties
<1> HIDE DEF t
<1>2. Len(s) >= 1 => 1 \in 1 .. Len(s)
  <2>1. Len(s) \in Nat  BY LenProperties
  <2>. QED BY <2>1
<1>. QED BY <1>1, <1>2 DEF t

LEMMA AllocInv == SynthInv /\ alloc => SynthInv'
<1> SUFFICES ASSUME SynthInv, alloc  PROVE SynthInv'
  OBVIOUS
<1>1. inputs \in Seq(F) /\ aux \in Seq(F) /\ Len(aux) \in Nat /\ Len(inputs) \in Nat
  BY AssignmentIs DEF SynthInv, Assignment
<1>2. Assigned(Len(aux)) \in F  BY <1>1, AssignedInF
<1>3. aux' \in Seq(F) /\ Len(aux') = Len(aux) + 1
  <2>1. aux' = Append(aux, Assigned(Len(aux)))  BY DEF alloc
  <2>. QED BY <2>1, <1>1, <1>2, AppendField
<1>4. synthesized' = [inputs |-> synthesized.inputs + 0, aux |-> synthesized.aux + 1,
                      constraints |-> synthesized.constraints]
  <2>1. synthesized \in [inputs : Nat, aux : Nat, constraints : Seq(Lcs \X Lcs \X Lcs)]
    BY DEF SynthInv, Counted
  <2>. QED BY <2>1 DEF alloc
<1>5. Allocated(0, 1)
  <2>1. Len(inputs) = Len(inputs) + 0  BY <1>1
  <2>. QED BY <2>1, <1>1, <1>3, <1>4 DEF alloc, Allocated
<1>6. 0 \in Nat /\ 1 \in Nat  OBVIOUS
<1>. QED BY <1>5, <1>6, AllocatedInv

LEMMA AllocInputInv == SynthInv /\ alloc_input => SynthInv'
<1> SUFFICES ASSUME SynthInv, alloc_input  PROVE SynthInv'
  OBVIOUS
<1>1. /\ inputs \in Seq(F) /\ aux \in Seq(F) /\ Len(aux) \in Nat /\ Len(inputs) \in Nat
      /\ Len(inputs) >= 1
  BY AssignmentIs DEF SynthInv, Assignment
<1>2. inputs' \in Seq(F) /\ Len(inputs') = Len(inputs) + 1 /\ inputs'[1] = inputs[1]
  <2>1. inputs' = Append(inputs, InputValue)  BY DEF alloc_input
  <2>. QED BY <2>1, <1>1, InputValueInF, AppendField
<1>3. synthesized' = [inputs |-> synthesized.inputs + 1, aux |-> synthesized.aux + 0,
                      constraints |-> synthesized.constraints]
  <2>1. synthesized \in [inputs : Nat, aux : Nat, constraints : Seq(Lcs \X Lcs \X Lcs)]
    BY DEF SynthInv, Counted
  <2>. QED BY <2>1 DEF alloc_input
<1>4. Allocated(1, 0)
  <2>1. Len(aux) = Len(aux) + 0  BY <1>1
  <2>. QED BY <2>1, <1>1, <1>2, <1>3 DEF alloc_input, Allocated
<1>5. 0 \in Nat /\ 1 \in Nat  OBVIOUS
<1>. QED BY <1>4, <1>5, AllocatedInv

LEMMA ExtendInv == SynthInv /\ extend => SynthInv'
<1> SUFFICES ASSUME SynthInv, extend  PROVE SynthInv'
  OBVIOUS
<1> DEFINE x == Assigned(Len(aux))
           a == <<x>>  b == <<InputValue>>  c == <<1, InputValue>>
<1>1. /\ inputs \in Seq(F) /\ aux \in Seq(F) /\ Len(aux) \in Nat /\ Len(inputs) \in Nat
      /\ Len(inputs) >= 1
  BY AssignmentIs DEF SynthInv, Assignment
<1>2. x \in F /\ InputValue \in F  BY <1>1, AssignedInF, InputValueInF
<1>3. inputs' = inputs \o Tail(c) /\ aux' = aux \o a
  BY DEF extend
<1>4. Tail(c) = b  OBVIOUS
<1>5. inputs' = Append(inputs, InputValue)
  <2>1. Append(inputs, InputValue) = inputs \o b  BY <1>1, <1>2, AppendIsConcat
  <2> HIDE DEF b, c
  <2>. QED BY <2>1, <1>3, <1>4
<1>6. aux' = Append(aux, x)
  <2> HIDE DEF x
  <2>1. Append(aux, x) = aux \o a  BY <1>1, <1>2, AppendIsConcat
  <2>. QED BY <2>1, <1>3
<1>7. /\ inputs' \in Seq(F) /\ Len(inputs') = Len(inputs) + 1 /\ inputs'[1] = inputs[1]
      /\ aux' \in Seq(F) /\ Len(aux') = Len(aux) + 1
  <2> HIDE DEF x
  <2>. QED BY <1>1, <1>2, <1>5, <1>6, AppendField
<1>8. synthesized' = [inputs |-> synthesized.inputs + 1, aux |-> synthesized.aux + 1,
                      constraints |-> synthesized.constraints]
  <2>1. synthesized \in [inputs : Nat, aux : Nat, constraints : Seq(Lcs \X Lcs \X Lcs)]
    BY DEF SynthInv, Counted
  <2>2. synthesized' = [synthesized EXCEPT !.aux = @ + 1, !.inputs = @ + 1]  BY DEF extend
  <2>. QED BY <2>1, <2>2
<1>9. lc' = lc /\ terms' = terms /\ plain' = plain  BY DEF extend
<1>10. Allocated(1, 1)
  <2> HIDE DEF x, a, b, c
  <2>. QED BY <1>7, <1>8, <1>9 DEF Allocated
<1>11. 1 \in Nat  OBVIOUS
<1>. QED BY <1>10, <1>11, AllocatedInv

\* The combination under construction: everything else is as before.
LEMMA BuiltInv ==
    ASSUME SynthInv, UNCHANGED <<inputs, aux, synthesized, plain>>,
           Means(lc', terms', Len(inputs), Len(aux))
    PROVE  SynthInv'
<1>1. Assignment' /\ Counted' /\ Constrained'
  BY DEF SynthInv, Assignment, Counted, Constrained, Agree
<1>2. Agree(lc, terms)'  BY DEF Agree
<1>. QED BY <1>1, <1>2 DEF SynthInv

LEMMA AddTermInv == SynthInv /\ AddTerm => SynthInv'
<1> SUFFICES ASSUME SynthInv, AddTerm  PROVE SynthInv'
  OBVIOUS
<1>1. PICK c \in Coefficients, v \in Variables :
          /\ lc' = add(lc, c, v) /\ terms' = Append(terms, <<c, v>>)
          /\ UNCHANGED <<inputs, aux, synthesized, plain>>
  BY DEF AddTerm
<1>1a. c \in F  BY CoefficientsAssumption DEF F
<1>2. v \in Vars(Len(inputs), Len(aux))  BY DEF Variables, Vars
<1>3. Len(aux) \in Nat /\ Len(inputs) \in Nat  BY AssignmentIs DEF SynthInv
<1>4. Means(lc, terms, Len(inputs), Len(aux))  BY DEF SynthInv, Agree
<1>5. Means(add(lc, c, v), Append(terms, <<c, v>>), Len(inputs), Len(aux))
  BY <1>1a, <1>2, <1>3, <1>4, MeansAppend
<1>6. Means(lc', terms', Len(inputs), Len(aux))  BY <1>1, <1>5
<1>. QED BY <1>1, <1>6, BuiltInv

LEMMA AddCombinationInv == SynthInv /\ AddCombination => SynthInv'
<1> SUFFICES ASSUME SynthInv, AddCombination  PROVE SynthInv'
  OBVIOUS
<1>1. PICK c \in Coefficients \ {0}, k \in DOMAIN plain :
          /\ lc' = add_scaled(lc, c, synthesized.constraints[k][1])
          /\ terms' = terms \o [j \in DOMAIN plain[k][1] |->
                                   <<(c * plain[k][1][j][1]) % P, plain[k][1][j][2]>>]
          /\ UNCHANGED <<inputs, aux, synthesized, plain>>
  BY DEF AddCombination
<1>1a. c \in F  BY CoefficientsAssumption DEF F
<1> DEFINE o == synthesized.constraints[k][1]  us == plain[k][1]
<1>2. k \in 1 .. Len(plain)
  <2>1. plain \in Seq(Texts \X Texts \X Texts)  BY DEF SynthInv, Constrained
  <2>. QED BY <2>1, LenProperties
<1>3. Len(aux) \in Nat /\ Len(inputs) \in Nat  BY AssignmentIs DEF SynthInv
<1>4. Means(lc, terms, Len(inputs), Len(aux))  BY DEF SynthInv, Agree
<1>5. Means(o, us, Len(inputs), Len(aux))
  <2>1. 1 \in 1 .. 3  OBVIOUS
  <2>. QED BY <1>2, <2>1 DEF SynthInv, Constrained, Agree
<1>6. terms' = terms \o Scaled(us, c)  BY <1>1 DEF Scaled
<1>7. lc' = add_scaled(lc, c, o)  BY <1>1
<1> HIDE DEF o, us
<1>8. Means(add_scaled(lc, c, o), terms \o Scaled(us, c), Len(inputs), Len(aux))
  BY <1>1a, <1>3, <1>4, <1>5, MeansScaled
<1>9. Means(lc', terms', Len(inputs), Len(aux))  BY <1>6, <1>7, <1>8
<1>. QED BY <1>1, <1>9, BuiltInv

LEMMA MeansTyped ==
    ASSUME NEW m \in Nat, NEW n \in Nat, NEW l, NEW ts, Means(l, ts, m, n)
    PROVE  l \in Lcs /\ ts \in Texts
<1>1. l \in Lcs /\ ts \in Seq(Coefs(m, n))  BY DEF Means, GoodLc
<1>2. Coefs(m, n) \subseteq F \X AnyVar
  <2>1. Vars(m, n) \subseteq AnyVar  BY DEF Vars, AnyVar
  <2>. QED BY <2>1 DEF Coefs
<1>. QED BY <1>1, <1>2, SeqMonotonic DEF Texts

LEMMA EnforceInv == SynthInv /\ enforce => SynthInv'
<1> SUFFICES ASSUME SynthInv, enforce  PROVE SynthInv'
  OBVIOUS
<1> DEFINE one == add(zero, 1, ONE)  none == <<>>  unit == <<<<1, ONE>>>>
           m == Len(inputs)  n == Len(aux)
           C == synthesized.constraints
           LLL == Lcs \X Lcs \X Lcs
           TTT == Texts \X Texts \X Texts
<1>1. PICK b \in {<<one, unit>>, <<lc, terms>>}, c \in {<<zero, none>>, <<lc, terms>>} :
          /\ synthesized' = [synthesized EXCEPT !.constraints = Append(@, <<lc, b[1], c[1]>>)]
          /\ plain' = Append(plain, <<terms, b[2], c[2]>>)
          /\ lc' = zero /\ terms' = none
          /\ UNCHANGED <<inputs, aux>>
  BY DEF enforce
<1>2. m \in Nat /\ n \in Nat /\ m >= 1  BY AssignmentIs DEF SynthInv, Assignment
<1>3. Means(lc, terms, m, n)  BY DEF SynthInv, Agree
<1>4. Means(zero, none, m, n)  BY <1>2, MeansNothing
<1>5. Means(one, unit, m, n)
  <2> DEFINE x == <<1, ONE>>
  <2>1. 1 \in F /\ ONE \in Vars(m, n)
    <3>1. 1 \in F  BY ModulusAssumption DEF F
    <3>2. 0 \in 0 .. m - 1  BY <1>2
    <3> HIDE DEF m, n
    <3>. QED BY <3>1, <3>2 DEF ONE, Vars
  <2>2. Means(add(zero, 1, ONE), Append(<<>>, <<1, ONE>>), m, n)
    <3> HIDE DEF m, n
    <3>. QED BY <2>1, <1>2, <1>4, MeansAppend
  <2>3. Append(<<>>, x) = <<x>>
    <3> HIDE DEF x
    <3>. QED OBVIOUS
  <2> HIDE DEF m, n
  <2>. QED BY <2>2, <2>3
<1> HIDE DEF one, none, unit, m, n
<1>6. Means(b[1], b[2], m, n)
  <2>1. b = <<one, unit>> \/ b = <<lc, terms>>  BY <1>1
  <2>2. CASE b = <<one, unit>>
    <3>1. b[1] = one /\ b[2] = unit  BY <2>2
    <3>. QED BY <3>1, <1>5
  <2>3. CASE b = <<lc, terms>>
    <3>1. b[1] = lc /\ b[2] = terms  BY <2>3
    <3>. QED BY <3>1, <1>3
  <2>. QED BY <2>1, <2>2, <2>3
<1>7. Means(c[1], c[2], m, n)
  <2>1. c = <<zero, none>> \/ c = <<lc, terms>>  BY <1>1
  <2>2. CASE c = <<zero, none>>
    <3>1. c[1] = zero /\ c[2] = none  BY <2>2
    <3>. QED BY <3>1, <1>4
  <2>3. CASE c = <<lc, terms>>
    <3>1. c[1] = lc /\ c[2] = terms  BY <2>3
    <3>. QED BY <3>1, <1>3
  <2>. QED BY <2>1, <2>2, <2>3
<1> DEFINE b1 == b[1]  b2 == b[2]  c1 == c[1]  c2 == c[2]
           x == <<lc, b1, c1>>  y == <<terms, b2, c2>>
<1>8. /\ synthesized' = [synthesized EXCEPT !.constraints = Append(@, x)]
      /\ plain' = Append(plain, y) /\ lc' = zero /\ terms' = none
      /\ inputs' = inputs /\ aux' = aux
  BY <1>1
<1>9. Means(b1, b2, m, n) /\ Means(c1, c2, m, n)  BY <1>6, <1>7
<1> HIDE DEF b1, b2, c1, c2
<1>10. x \in LLL /\ y \in TTT
  <2>1. /\ lc \in Lcs /\ b1 \in Lcs /\ c1 \in Lcs
        /\ terms \in Texts /\ b2 \in Texts /\ c2 \in Texts
    BY <1>2, <1>3, <1>9, MeansTyped
  <2>. QED BY <2>1
<1>11. \A p \in 1 .. 3 : Means(x[p], y[p], m, n)
  <2> TAKE p \in 1 .. 3
  <2>1. CASE p = 1
    <3>1. x[p] = lc /\ y[p] = terms  BY <2>1
    <3>. QED BY <3>1, <1>3
  <2>2. CASE p = 2
    <3>1. x[p] = b1 /\ y[p] = b2  BY <2>2
    <3>. QED BY <3>1, <1>9
  <2>3. CASE p = 3
    <3>1. x[p] = c1 /\ y[p] = c2  BY <2>3
    <3>. QED BY <3>1, <1>9
  <2>. QED BY <2>1, <2>2, <2>3
<1>12. /\ synthesized = [inputs |-> m, aux |-> n, constraints |-> C]
       /\ C \in Seq(LLL) /\ plain \in Seq(TTT) /\ Len(C) = Len(plain)
       /\ \A k \in 1 .. Len(plain), p \in 1 .. 3 : Means(C[k][p], plain[k][p], m, n)
  BY DEF SynthInv, Counted, Constrained, Agree, m, n
<1> DEFINE D == Append(C, x)  Q == Append(plain, y)
<1>13. synthesized' = [inputs |-> m, aux |-> n, constraints |-> D]
  <2>1. synthesized' = [synthesized EXCEPT !.constraints = D]  BY <1>8
  <2> HIDE DEF C, D
  <2>. QED BY <2>1, <1>12
<1> HIDE DEF x, y, LLL, TTT, C
<1>14. /\ D \in Seq(LLL) /\ Len(D) = Len(C) + 1 /\ D[Len(C) + 1] = x
       /\ \A k \in 1 .. Len(C) : D[k] = C[k]
  BY <1>10, <1>12, AppendProperties
<1>15. /\ Q \in Seq(TTT) /\ Len(Q) = Len(plain) + 1 /\ Q[Len(plain) + 1] = y
       /\ \A k \in 1 .. Len(plain) : Q[k] = plain[k]
  BY <1>10, <1>12, AppendProperties
<1>16. Len(plain) \in Nat /\ plain' = Q  BY <1>12, <1>8, LenProperties
<1> HIDE DEF D, Q
<1>17. \A k \in 1 .. Len(Q), p \in 1 .. 3 : Means(D[k][p], Q[k][p], m, n)
  <2> TAKE k \in 1 .. Len(Q), p \in 1 .. 3
  <2>1. CASE k = Len(plain) + 1
    <3>1. D[k] = x /\ Q[k] = y  BY <2>1, <1>12, <1>14, <1>15
    <3>. QED BY <3>1, <1>11
  <2>2. CASE k # Len(plain) + 1
    <3>1. k \in 1 .. Len(plain) /\ k \in 1 .. Len(C)  BY <2>2, <1>12, <1>15, <1>16
    <3>2. D[k] = C[k] /\ Q[k] = plain[k]  BY <3>1, <1>14, <1>15
    <3>. QED BY <3>1, <3>2, <1>12
  <2>. QED BY <2>1, <2>2
<1>18. Assignment'  BY <1>8 DEF SynthInv, Assignment
<1>19. synthesized'.constraints = D /\ synthesized'.inputs = m /\ synthesized'.aux = n
  BY <1>13
<1>20. Len(inputs') = m /\ Len(aux') = n  BY <1>8 DEF m, n
<1>21. Counted'
  <2>1. synthesized' \in [inputs : Nat, aux : Nat, constraints : Seq(LLL)]
    BY <1>2, <1>13, <1>14
  <2>. QED BY <2>1, <1>19, <1>20 DEF Counted, LLL
<1>22. Agree(lc, terms)'  BY <1>4, <1>8, <1>20 DEF Agree
<1>23. Constrained'
  <2>1. Len(D) = Len(Q)  BY <1>12, <1>14, <1>15
  <2>. QED BY <2>1, <1>15, <1>16, <1>17, <1>19, <1>20 DEF Constrained, Agree, TTT
<1>. QED BY <1>18, <1>21, <1>22, <1>23 DEF SynthInv

(* Whatever is allocated, added and enforced, the indexers stay sorted,    *)
(* with one entry for a variable and, if anything was inserted, its right  *)
(* place remembered, the shape counts the variables of the assignment, and *)
(* every combination stands for the sum of its terms under every           *)
(* assignment: lc.rs, shape_cs.rs, witness_cs.rs and test_cs.rs.           *)
THEOREM SpecSynthInv == FrontendSpec => []SynthInv
<1>1. SynthInv /\ [FrontendNext]_frontend_vars => SynthInv'
  <2> SUFFICES ASSUME SynthInv, [FrontendNext]_frontend_vars  PROVE SynthInv'
    OBVIOUS
  <2>1. CASE UNCHANGED frontend_vars
    BY <2>1 DEF frontend_vars, SynthInv, Assignment, Counted, Constrained, Agree
  <2>2. CASE FrontendNext
    BY <2>2, AllocInv, AllocInputInv, ExtendInv, AddTermInv, AddCombinationInv, EnforceInv
       DEF FrontendNext
  <2>. QED BY <2>1, <2>2
<1>. QED BY <1>1, InitSynthInv, PTL DEF FrontendSpec

LEMMA SynthInvAgrees == SynthInv => FrontendAgrees
<1> SUFFICES ASSUME SynthInv  PROVE FrontendAgrees
  OBVIOUS
<1>1. synthesized.inputs = Len(inputs) /\ synthesized.aux = Len(aux)
  BY DEF SynthInv, Counted
<1>2. Assignment  BY DEF SynthInv
<1>3. Means(lc, terms, Len(inputs), Len(aux))  BY DEF SynthInv, Agree
<1>4. ASSUME NEW ix \in {lc.input, lc.aux}, NEW k \in 2 .. Len(ix.values)
      PROVE  ix.values[k - 1][1] < ix.values[k][1]
  <2>1. ix.values \in Seq(Entries) /\ Sorted(ix.values)
    BY <1>3 DEF Means, GoodLc, GoodIx
  <2>2. Len(ix.values) \in Nat  BY <2>1, LenProperties
  <2>3. k - 1 \in 1 .. Len(ix.values) /\ k \in 1 .. Len(ix.values) /\ k - 1 < k  BY <2>2
  <2>. QED BY <2>1, <2>3 DEF Sorted
<1>5. eval(lc) = eval_terms(terms)  BY <1>2, <1>3, MeansAgree
<1>6. ASSUME NEW k \in DOMAIN plain
      PROVE  LET holds == (eval_terms(plain[k][1]) * eval_terms(plain[k][2])) % P
                          = eval_terms(plain[k][3])
                 l     == synthesized.constraints[k]
             IN  /\ row_satisfied(r1cs_shape[k], FullZ) = holds
                 /\ ((eval(l[1]) * eval(l[2])) % P = eval(l[3])) = holds
  <2> DEFINE C == synthesized.constraints
             row(p) == add_constraint_component(C[k][p], Len(aux))
  <2>1. /\ plain \in Seq(Texts \X Texts \X Texts) /\ C \in Seq(Lcs \X Lcs \X Lcs)
        /\ Len(C) = Len(plain)
    BY DEF SynthInv, Counted, Constrained
  <2>2. k \in 1 .. Len(plain) /\ k \in DOMAIN C
    <3> HIDE DEF C
    <3>. QED BY <2>1, LenProperties
  <2>3. \A p \in 1 .. 3 : Means(C[k][p], plain[k][p], Len(inputs), Len(aux))
    BY <2>2 DEF SynthInv, Constrained, Agree
  <2>4. \A p \in 1 .. 3 : /\ eval(C[k][p]) = eval_terms(plain[k][p])
                          /\ multiply(row(p), FullZ) = eval_terms(plain[k][p])
    <3> TAKE p \in 1 .. 3
    <3> DEFINE l == C[k][p]  ts == plain[k][p]
    <3>1. Means(l, ts, Len(inputs), Len(aux))  BY <2>3
    <3> HIDE DEF l, ts
    <3>2. /\ eval(l) = eval_terms(ts)
          /\ multiply(add_constraint_component(l, Len(aux)), FullZ) = eval_terms(ts)
      BY <3>1, <1>2, MeansAgree
    <3>. QED BY <3>2 DEF l, ts
  <2>5. r1cs_shape[k] = [p \in 1 .. 3 |-> row(p)]
    BY <2>2, <1>1 DEF r1cs_shape
  <2>6. r1cs_shape[k][1] = row(1) /\ r1cs_shape[k][2] = row(2) /\ r1cs_shape[k][3] = row(3)
    <3> HIDE DEF row
    <3>. QED BY <2>5
  <2> DEFINE x == eval_terms(plain[k][1])  y == eval_terms(plain[k][2])  z == eval_terms(plain[k][3])
             R == r1cs_shape[k]
  <2>7. eval(C[k][1]) = x /\ eval(C[k][2]) = y /\ eval(C[k][3]) = z
    <3>1. 1 \in 1 .. 3 /\ 2 \in 1 .. 3 /\ 3 \in 1 .. 3  OBVIOUS
    <3> HIDE DEF C, row
    <3>. QED BY <3>1, <2>4
  <2>8. multiply(R[1], FullZ) = x /\ multiply(R[2], FullZ) = y /\ multiply(R[3], FullZ) = z
    <3>1. 1 \in 1 .. 3 /\ 2 \in 1 .. 3 /\ 3 \in 1 .. 3  OBVIOUS
    <3> HIDE DEF C, row
    <3>. QED BY <3>1, <2>4, <2>6
  <2>9. row_satisfied(R, FullZ) = ((x * y) % P = z)
    <3> HIDE DEF R, x, y, z
    <3>. QED BY <2>8 DEF row_satisfied
  <2>10. ((eval(C[k][1]) * eval(C[k][2])) % P = eval(C[k][3])) = ((x * y) % P = z)
    <3> HIDE DEF C, x, y, z
    <3>. QED BY <2>7
  <2>. QED BY <2>9, <2>10
<1>. QED BY <1>1, <1>4, <1>5, <1>6 DEF FrontendAgrees, FullZ

(* The constraints of a circuit are satisfied in its R1CS, and in the test *)
(* system, exactly when the terms they were written with say so (lc.rs,    *)
(* r1cs.rs), for every modulus and circuits of any size.                   *)
THEOREM SpecFrontendAgrees == FrontendSpec => []FrontendAgrees
BY SpecSynthInv, SynthInvAgrees, PTL
----------------------------------------------------------------------------
(* The gadgets of BooleanGadgets, one call of each, over the modulus of the *)
(* synthesis.                                                               *)

OddPrime == Gadget!PrimeAssumption

LEMMA Odd ==
    ASSUME OddPrime
    PROVE  P \in Nat /\ P > 2 /\ Gadget!F = F /\ F = 0 .. P - 1
BY DEF OddPrime, Gadget!PrimeAssumption, Gadget!F, F
----------------------------------------------------------------------------
(* Booleans.                                                               *)

Computes(S, v) == \E r \in Gadget!Bools : S = {r} /\ Gadget!lc(r) = v

LEMMA BoolIs ==
    ASSUME NEW b \in Gadget!Bools
    PROVE  /\ b.kind \in {"const", "is", "not"} /\ b.v \in {0, 1}
           /\ b = [kind |-> b.kind, v |-> b.v]
BY DEF Gadget!Bools, Gadget!Boolean

LEMMA BoolMade ==
    ASSUME NEW k \in {"const", "is", "not"}, NEW x \in {0, 1}
    PROVE  Gadget!Boolean(k, x) \in Gadget!Bools
BY DEF Gadget!Bools

LEMMA LcIs ==
    ASSUME OddPrime, NEW b \in Gadget!Bools
    PROVE  /\ Gadget!lc(b) = IF b.kind = "not" THEN 1 - b.v ELSE b.v
           /\ Gadget!lc(b) \in {0, 1}
<1>1. (1 - b.v) % P = 1 - b.v  BY BoolIs, Odd
<1>. QED BY <1>1, BoolIs DEF Gadget!lc

LEMMA NotIs ==
    ASSUME OddPrime, NEW b \in Gadget!Bools
    PROVE  Gadget!not(b) \in Gadget!Bools /\ Gadget!lc(Gadget!not(b)) = 1 - Gadget!lc(b)
<1> DEFINE n(k, x) == [kind |-> k, v |-> x]
<1>1. b.kind \in {"const", "is", "not"} /\ b.v \in {0, 1}  BY BoolIs
<1>2. CASE b.kind = "const"
  <2>1. Gadget!not(b) = n("const", 1 - b.v)  BY <1>2 DEF Gadget!not, Gadget!Boolean
  <2>. QED BY <2>1, <1>1, <1>2, LcIs, BoolMade DEF Gadget!Boolean
<1>3. CASE b.kind = "is"
  <2>1. Gadget!not(b) = n("not", b.v)  BY <1>3 DEF Gadget!not, Gadget!Boolean
  <2>. QED BY <2>1, <1>1, <1>3, LcIs, BoolMade DEF Gadget!Boolean
<1>4. CASE b.kind = "not"
  <2>1. Gadget!not(b) = n("is", b.v)  BY <1>4 DEF Gadget!not, Gadget!Boolean
  <2>. QED BY <2>1, <1>1, <1>4, LcIs, BoolMade DEF Gadget!Boolean
<1>. QED BY <1>1, <1>2, <1>3, <1>4

LEMMA NotsIs ==
    ASSUME OddPrime, NEW S, NEW x, Computes(S, x)
    PROVE  Computes(Gadget!Nots(S), 1 - x)
<1>1. PICK r \in Gadget!Bools : S = {r} /\ Gadget!lc(r) = x  BY DEF Computes
<1>2. Gadget!Nots(S) = {Gadget!not(r)}  BY <1>1 DEF Gadget!Nots
<1>. QED BY <1>1, <1>2, NotIs DEF Computes

LEMMA IsIs ==
    ASSUME OddPrime, NEW x \in {0, 1}
    PROVE  Computes(Gadget!Is({x}), x)
<1>1. Gadget!Is({x}) = {Gadget!Boolean("is", x)}  BY DEF Gadget!Is
<1>2. Gadget!Boolean("is", x) \in Gadget!Bools  BY BoolMade
<1>3. Gadget!lc(Gadget!Boolean("is", x)) = x  BY DEF Gadget!lc, Gadget!Boolean
<1>. QED BY <1>1, <1>2, <1>3 DEF Computes

LEMMA BitGates ==
    ASSUME OddPrime, NEW x \in {0, 1}, NEW y \in {0, 1}
    PROVE  /\ Gadget!bit_xor(x, y) = {IF x = y THEN 0 ELSE 1}
           /\ Gadget!bit_and(x, y) = {x * y}
           /\ Gadget!bit_and_not(x, y) = {x * (1 - y)}
           /\ Gadget!bit_nor(x, y) = {(1 - x) * (1 - y)}
BY Odd DEF Gadget!bit_xor, Gadget!bit_and, Gadget!bit_and_not, Gadget!bit_nor, Gadget!Solves

LEMMA OtherIs ==
    ASSUME OddPrime, NEW a \in Gadget!Bools, NEW b \in Gadget!Bools, NEW x \in {0, 1},
           Gadget!const(a, x) \/ Gadget!const(b, x)
    PROVE  LET o == Gadget!other(a, b, x)
           IN  /\ o \in Gadget!Bools
               /\ \/ o = b /\ Gadget!lc(a) = x
                  \/ o = a /\ Gadget!lc(b) = x
BY LcIs, BoolIs DEF Gadget!const, Gadget!other

LEMMA XorIs ==
    ASSUME OddPrime, NEW a \in Gadget!Bools, NEW b \in Gadget!Bools
    PROVE  Computes(Gadget!xor(a, b), IF Gadget!lc(a) = Gadget!lc(b) THEN 0 ELSE 1)
<1> DEFINE x == Gadget!lc(a)  y == Gadget!lc(b)  w == IF a.v = b.v THEN 0 ELSE 1
<1>1. x \in {0, 1} /\ y \in {0, 1}  BY LcIs
<1>2. a.kind \in {"const", "is", "not"} /\ a.v \in {0, 1}
      /\ b.kind \in {"const", "is", "not"} /\ b.v \in {0, 1}
  BY BoolIs
<1>3. x = (IF a.kind = "not" THEN 1 - a.v ELSE a.v) /\ y = (IF b.kind = "not" THEN 1 - b.v ELSE b.v)
  BY LcIs
<1>4. CASE Gadget!const(a, 0) \/ Gadget!const(b, 0)
  <2>1. Gadget!xor(a, b) = {Gadget!other(a, b, 0)}  BY <1>4 DEF Gadget!xor
  <2>. QED BY <2>1, <1>1, <1>4, OtherIs DEF Computes
<1>5. CASE ~ (Gadget!const(a, 0) \/ Gadget!const(b, 0)) /\ (Gadget!const(a, 1) \/ Gadget!const(b, 1))
  <2> DEFINE o == Gadget!other(a, b, 1)
  <2>1. Gadget!xor(a, b) = {Gadget!not(o)}  BY <1>5 DEF Gadget!xor
  <2>2. o \in Gadget!Bools /\ ((o = b /\ x = 1) \/ (o = a /\ y = 1))  BY <1>5, OtherIs
  <2>3. Gadget!not(o) \in Gadget!Bools /\ Gadget!lc(Gadget!not(o)) = 1 - Gadget!lc(o)
    BY <2>2, NotIs
  <2>. QED BY <2>1, <2>2, <2>3, <1>1 DEF Computes
<1>6. CASE /\ ~ (Gadget!const(a, 0) \/ Gadget!const(b, 0))
           /\ ~ (Gadget!const(a, 1) \/ Gadget!const(b, 1))
  <2>1. a.kind # "const" /\ b.kind # "const"  BY <1>6, <1>2 DEF Gadget!const
  <2>2. Gadget!bit_xor(a.v, b.v) = {w} /\ w \in {0, 1}  BY <1>2, BitGates
  <2>3. Computes(Gadget!Is({w}), w)  BY <2>2, IsIs
  <2>4. Computes(Gadget!Nots(Gadget!Is({w})), 1 - w)  BY <2>3, NotsIs
  <2>5. CASE a.kind = b.kind
    <3>1. Gadget!xor(a, b) = Gadget!Is({w})  BY <1>6, <2>2, <2>5 DEF Gadget!xor
    <3>2. w = (IF x = y THEN 0 ELSE 1)  BY <1>2, <1>3, <2>5
    <3>. QED BY <3>1, <3>2, <2>3
  <2>6. CASE a.kind # b.kind
    <3>1. Gadget!xor(a, b) = Gadget!Nots(Gadget!Is({w}))  BY <1>6, <2>2, <2>6 DEF Gadget!xor
    <3>2. 1 - w = (IF x = y THEN 0 ELSE 1)  BY <1>2, <1>3, <2>1, <2>6
    <3>. QED BY <3>1, <3>2, <2>4
  <2>. QED BY <2>5, <2>6
<1>. QED BY <1>4, <1>5, <1>6

LEMMA AndIs ==
    ASSUME OddPrime, NEW a \in Gadget!Bools, NEW b \in Gadget!Bools
    PROVE  Computes(Gadget!and(a, b), Gadget!lc(a) * Gadget!lc(b))
<1> DEFINE x == Gadget!lc(a)  y == Gadget!lc(b)
<1>1. x \in {0, 1} /\ y \in {0, 1}  BY LcIs
<1>2. a.kind \in {"const", "is", "not"} /\ a.v \in {0, 1}
      /\ b.kind \in {"const", "is", "not"} /\ b.v \in {0, 1}
  BY BoolIs
<1>3. x = (IF a.kind = "not" THEN 1 - a.v ELSE a.v) /\ y = (IF b.kind = "not" THEN 1 - b.v ELSE b.v)
  BY LcIs
<1>4. CASE Gadget!const(a, 0) \/ Gadget!const(b, 0)
  <2> DEFINE o == Gadget!Boolean("const", 0)
  <2>1. Gadget!and(a, b) = {o}  BY <1>4 DEF Gadget!and
  <2>2. o \in Gadget!Bools  BY BoolMade
  <2>3. Gadget!lc(o) = 0  BY DEF Gadget!lc, Gadget!Boolean
  <2>4. x = 0 \/ y = 0  BY <1>3, <1>4 DEF Gadget!const
  <2>. QED BY <2>1, <2>2, <2>3, <2>4, <1>1 DEF Computes
<1>5. CASE ~ (Gadget!const(a, 0) \/ Gadget!const(b, 0)) /\ (Gadget!const(a, 1) \/ Gadget!const(b, 1))
  <2>1. Gadget!and(a, b) = {Gadget!other(a, b, 1)}  BY <1>5 DEF Gadget!and
  <2>. QED BY <2>1, <1>1, <1>5, OtherIs DEF Computes
<1>6. CASE /\ ~ (Gadget!const(a, 0) \/ Gadget!const(b, 0))
           /\ ~ (Gadget!const(a, 1) \/ Gadget!const(b, 1))
  <2>1. a.kind # "const" /\ b.kind # "const"  BY <1>6, <1>2 DEF Gadget!const
  <2>2. x * y \in {0, 1} /\ Computes(Gadget!Is({x * y}), x * y)  BY <1>1, IsIs
  <2>3. Gadget!and(a, b) = Gadget!Is({x * y})
    <3>1. CASE a.kind = "is" /\ b.kind = "not"
      <4>1. Gadget!and(a, b) = Gadget!Is(Gadget!bit_and_not(a.v, b.v))
        BY <1>6, <3>1 DEF Gadget!and
      <4>. QED BY <4>1, <3>1, <1>2, <1>3, BitGates
    <3>2. CASE a.kind = "not" /\ b.kind = "is"
      <4>1. Gadget!and(a, b) = Gadget!Is(Gadget!bit_and_not(b.v, a.v))
        BY <1>6, <3>2 DEF Gadget!and
      <4>2. y * x = x * y  BY <1>1
      <4>. QED BY <4>1, <4>2, <3>2, <1>2, <1>3, BitGates
    <3>3. CASE a.kind = "not" /\ b.kind = "not"
      <4>1. Gadget!and(a, b) = Gadget!Is(Gadget!bit_nor(a.v, b.v))
        BY <1>6, <3>3 DEF Gadget!and
      <4>. QED BY <4>1, <3>3, <1>2, <1>3, BitGates
    <3>4. CASE a.kind = "is" /\ b.kind = "is"
      <4>1. Gadget!and(a, b) = Gadget!Is(Gadget!bit_and(a.v, b.v))
        BY <1>6, <3>4 DEF Gadget!and
      <4>. QED BY <4>1, <3>4, <1>2, <1>3, BitGates
    <3>. QED BY <2>1, <1>2, <3>1, <3>2, <3>3, <3>4
  <2>. QED BY <2>2, <2>3
<1>. QED BY <1>4, <1>5, <1>6

LEMMA NotAndIs ==
    ASSUME OddPrime, NEW a \in Gadget!Bools, NEW b \in Gadget!Bools
    PROVE  Computes(Gadget!Nots(Gadget!and(a, b)), 1 - Gadget!lc(a) * Gadget!lc(b))
BY AndIs, NotsIs

LEMMA OrIs ==
    ASSUME OddPrime, NEW a \in Gadget!Bools, NEW b \in Gadget!Bools
    PROVE  Computes(Gadget!or(a, b), IF Gadget!lc(a) + Gadget!lc(b) > 0 THEN 1 ELSE 0)
<1> DEFINE x == Gadget!lc(a)  y == Gadget!lc(b)
<1>1. x \in {0, 1} /\ y \in {0, 1}  BY LcIs
<1>2. Computes(Gadget!or(a, b), 1 - (1 - x) * (1 - y))
  <2>1. Gadget!or(a, b) = Gadget!Nots(Gadget!and(Gadget!not(a), Gadget!not(b)))
    BY DEF Gadget!or
  <2>2. /\ Gadget!not(a) \in Gadget!Bools /\ Gadget!lc(Gadget!not(a)) = 1 - x
        /\ Gadget!not(b) \in Gadget!Bools /\ Gadget!lc(Gadget!not(b)) = 1 - y
    BY NotIs
  <2>. QED BY <2>1, <2>2, NotAndIs
<1>3. 1 - (1 - x) * (1 - y) = (IF x + y > 0 THEN 1 ELSE 0)  BY <1>1
<1>. QED BY <1>2, <1>3

LEMMA EqualIs ==
    ASSUME OddPrime, NEW a \in Gadget!Bools, NEW b \in Gadget!Bools
    PROVE  Gadget!enforce_equal(a, b) <=> Gadget!lc(a) = Gadget!lc(b)
<1> DEFINE x == Gadget!lc(a)  y == Gadget!lc(b)
<1>1. x \in {0, 1} /\ y \in {0, 1}  BY LcIs
<1>2. P \in Nat /\ P > 2  BY Odd
<1>3. x = (IF a.kind = "not" THEN 1 - a.v ELSE a.v) /\ y = (IF b.kind = "not" THEN 1 - b.v ELSE b.v)
  BY LcIs
<1>4. ((x - y) % P = 0 <=> x = y) /\ ((1 - x) % P = 0 <=> x = 1) /\ ((1 - y) % P = 0 <=> y = 1)
  <2>1. 0 % P = 0 /\ 1 % P = 1 /\ (-1) % P = P - 1  BY <1>2
  <2> HIDE DEF x, y
  <2>2. /\ x - y = 0 \/ x - y = 1 \/ x - y = -1
        /\ x - y = 0 <=> x = y
        /\ 1 - x = 0 \/ 1 - x = 1
        /\ 1 - x = 0 <=> x = 1
        /\ 1 - y = 0 \/ 1 - y = 1
        /\ 1 - y = 0 <=> y = 1
    BY <1>1
  <2>. QED BY <2>1, <2>2, <1>2
<1>5. CASE a.kind = "const" /\ b.kind = "const"
  <2>1. Gadget!enforce_equal(a, b) <=> a.v = b.v  BY <1>5 DEF Gadget!enforce_equal
  <2>. QED BY <2>1, <1>3, <1>5
<1>6. ASSUME ~ (a.kind = "const" /\ b.kind = "const")
      PROVE  Gadget!enforce_equal(a, b) <=>
                IF Gadget!const(a, 1) \/ Gadget!const(b, 1)
                THEN (1 - Gadget!lc(Gadget!other(a, b, 1))) % P = 0
                ELSE IF Gadget!const(a, 0) \/ Gadget!const(b, 0)
                THEN Gadget!lc(Gadget!other(a, b, 0)) = 0
                ELSE (x - y) % P = 0
  BY <1>6 DEF Gadget!enforce_equal
<1>7. CASE ~ (a.kind = "const" /\ b.kind = "const") /\ (Gadget!const(a, 1) \/ Gadget!const(b, 1))
  <2>1. Gadget!enforce_equal(a, b) <=> (1 - Gadget!lc(Gadget!other(a, b, 1))) % P = 0
    BY <1>6, <1>7
  <2>2. \/ Gadget!other(a, b, 1) = b /\ x = 1
        \/ Gadget!other(a, b, 1) = a /\ y = 1
    BY <1>7, OtherIs
  <2>. QED BY <2>1, <2>2, <1>4
<1>8. CASE /\ ~ (a.kind = "const" /\ b.kind = "const")
           /\ ~ (Gadget!const(a, 1) \/ Gadget!const(b, 1))
  <2>1. CASE Gadget!const(a, 0) \/ Gadget!const(b, 0)
    <3>1. Gadget!enforce_equal(a, b) <=> Gadget!lc(Gadget!other(a, b, 0)) = 0
      BY <1>6, <1>8, <2>1
    <3>2. \/ Gadget!other(a, b, 0) = b /\ x = 0
          \/ Gadget!other(a, b, 0) = a /\ y = 0
      BY <2>1, OtherIs
    <3>. QED BY <3>1, <3>2
  <2>2. CASE ~ (Gadget!const(a, 0) \/ Gadget!const(b, 0))
    BY <1>6, <1>8, <1>4, <2>2
  <2>. QED BY <2>1, <2>2
<1>. QED BY <1>5, <1>7, <1>8

LEMMA SolvesBit ==
    ASSUME OddPrime, NEW x \in Int, NEW y \in Int, NEW z \in Int, x * y + z \in {0, 1}
    PROVE  Computes(Gadget!Is(Gadget!Solves(x, y, z)), x * y + z)
<1> DEFINE w == x * y + z
<1>1. w \in {0, 1}  OBVIOUS
<1>2. w % P = w
  <2> HIDE DEF w
  <2>. QED BY <1>1, Odd
<1>3. Gadget!Solves(x, y, z) = {w}  BY <1>2 DEF Gadget!Solves
<1> HIDE DEF w
<1>4. Computes(Gadget!Is({w}), w)  BY <1>1, IsIs
<1>. QED BY <1>3, <1>4 DEF w

\* Products of bits.
LEMMA BitProducts ==
    ASSUME NEW x \in {0, 1}, NEW y \in Int
    PROVE  /\ x = 0 => x * y = 0 /\ y * x = 0 /\ (1 - x) * y = y
           /\ x = 1 => x * y = y /\ y * x = y /\ (1 - x) * y = 0
<1>1. CASE x = 0  BY <1>1
<1>2. CASE x = 1  BY <1>2
<1>. QED BY <1>1, <1>2

Either(x, y)    == 1 - (1 - x) * (1 - y)
Implies(x, y)   == 1 - x * (1 - y)
ChSum(x, y, z)  == (y - z) * x + z
MajSum(x, y, z) == (y + z - 2 * (y * z)) * x + y * z

LEMMA ChValue ==
    ASSUME NEW x \in {0, 1}, NEW y \in {0, 1}, NEW z \in {0, 1}
    PROVE  LET r == IF x = 1 THEN y ELSE z
           IN  /\ r \in {0, 1} /\ ChSum(x, y, z) = r
               /\ x = 0 => r = z
               /\ y = 0 => r = (1 - x) * z
               /\ z = 0 => r = x * y
               /\ z = 1 => r = Implies(x, y)
               /\ y = 1 => r = Either(x, z)
<1>1. CASE x = 0  BY <1>1, BitProducts DEF ChSum, Either, Implies
<1>2. CASE x = 1  BY <1>2, BitProducts DEF ChSum, Either, Implies
<1>. QED BY <1>1, <1>2

LEMMA MajValue ==
    ASSUME NEW x \in {0, 1}, NEW y \in {0, 1}, NEW z \in {0, 1}
    PROVE  LET r == IF x + y + z > 1 THEN 1 ELSE 0
           IN  /\ MajSum(x, y, z) = r
               /\ x = 0 => r = y * z
               /\ y = 0 => r = x * z
               /\ z = 0 => r = x * y
               /\ z = 1 => r = Either(x, y)
               /\ y = 1 => r = Either(x, z)
               /\ x = 1 => r = Either(y, z)
<1>1. CASE x = 0 /\ y = 0  BY <1>1, BitProducts DEF MajSum, Either
<1>2. CASE x = 0 /\ y = 1  BY <1>2, BitProducts DEF MajSum, Either
<1>3. CASE x = 1 /\ y = 0  BY <1>3, BitProducts DEF MajSum, Either
<1>4. CASE x = 1 /\ y = 1  BY <1>4, BitProducts DEF MajSum, Either
<1>. QED BY <1>1, <1>2, <1>3, <1>4

LEMMA ChIs ==
    ASSUME OddPrime, NEW a \in Gadget!Bools, NEW b \in Gadget!Bools, NEW c \in Gadget!Bools
    PROVE  Computes(Gadget!sha256_ch(a, b, c), Gadget!ch(Gadget!lc(a), Gadget!lc(b), Gadget!lc(c)))
<1> DEFINE x == Gadget!lc(a)  y == Gadget!lc(b)  z == Gadget!lc(c)  r == Gadget!ch(x, y, z)
           S == Gadget!sha256_ch(a, b, c)
<1>1. /\ x \in {0, 1} /\ x = IF a.kind = "not" THEN 1 - a.v ELSE a.v
      /\ y \in {0, 1} /\ y = IF b.kind = "not" THEN 1 - b.v ELSE b.v
      /\ z \in {0, 1} /\ z = IF c.kind = "not" THEN 1 - c.v ELSE c.v
  BY LcIs
<1>2. r = IF x = 1 THEN y ELSE z  BY DEF Gadget!ch
<1>3. a.v \in {0, 1} /\ b.v \in {0, 1} /\ c.v \in {0, 1}  BY BoolIs
<1>4. /\ Gadget!not(a) \in Gadget!Bools /\ Gadget!lc(Gadget!not(a)) = 1 - x
      /\ Gadget!not(b) \in Gadget!Bools /\ Gadget!lc(Gadget!not(b)) = 1 - y
      /\ Gadget!not(c) \in Gadget!Bools /\ Gadget!lc(Gadget!not(c)) = 1 - z
  BY NotIs
<1> DEFINE ca0 == Gadget!const(a, 0)  cb0 == Gadget!const(b, 0)  cc0 == Gadget!const(c, 0)
           cb1 == Gadget!const(b, 1)  cc1 == Gadget!const(c, 1)
           all == Gadget!constants(a, b, c)
<1>5. S = IF all THEN {Gadget!Boolean("const", Gadget!ch(a.v, b.v, c.v))}
          ELSE IF ca0 THEN {c}
          ELSE IF cb0 THEN Gadget!and(Gadget!not(a), c)
          ELSE IF cc0 THEN Gadget!and(a, b)
          ELSE IF cc1 THEN Gadget!Nots(Gadget!and(a, Gadget!not(b)))
          ELSE IF cb1 THEN Gadget!Nots(Gadget!and(Gadget!not(a), Gadget!not(c)))
          ELSE Gadget!Is(Gadget!Solves(y - z, x, z))
  BY DEF Gadget!sha256_ch
<1>6. (ca0 => x = 0) /\ (cb0 => y = 0) /\ (cc0 => z = 0) /\ (cb1 => y = 1) /\ (cc1 => z = 1)
  BY <1>1 DEF Gadget!const
<1>7. ASSUME all  PROVE Computes(S, r)
  <2> DEFINE o == Gadget!Boolean("const", r)
  <2>1. a.kind = "const" /\ b.kind = "const" /\ c.kind = "const"
    BY <1>7 DEF Gadget!constants
  <2>2. x = a.v /\ y = b.v /\ z = c.v  BY <1>1, <2>1
  <2>3. S = {o}  BY <1>5, <1>7, <2>2
  <2>4. r \in {0, 1}  BY <1>1, <1>2
  <2>5. o \in Gadget!Bools /\ Gadget!lc(o) = r  BY <2>4, BoolMade DEF Gadget!lc, Gadget!Boolean
  <2>. QED BY <2>3, <2>5 DEF Computes
<1>8. /\ Computes({c}, z)
      /\ Computes(Gadget!and(Gadget!not(a), c), (1 - x) * z)
      /\ Computes(Gadget!and(a, b), x * y)
      /\ Computes(Gadget!Nots(Gadget!and(a, Gadget!not(b))), Implies(x, y))
      /\ Computes(Gadget!Nots(Gadget!and(Gadget!not(a), Gadget!not(c))), Either(x, z))
  <2>1. Computes({c}, z)  BY DEF Computes
  <2>. QED BY <2>1, <1>4, AndIs, NotAndIs DEF Either, Implies
<1>9. Computes(Gadget!Is(Gadget!Solves(y - z, x, z)), ChSum(x, y, z))
  <2>1. x \in Int /\ z \in Int /\ y - z \in Int
    <3>1. x \in {0, 1} /\ y \in {0, 1} /\ z \in {0, 1}  BY <1>1
    <3> HIDE DEF x, y, z
    <3>. QED BY <3>1
  <2>2. ChSum(x, y, z) \in {0, 1}
    <3> HIDE DEF x, y, z
    <3>. QED BY <1>1, ChValue
  <2>. QED BY <2>1, <2>2, SolvesBit DEF ChSum
<1> HIDE DEF x, y, z, r, S, ca0, cb0, cc0, cb1, cc1, all
<1>10. ChSum(x, y, z) = r  BY <1>1, <1>2, ChValue
<1>11. ASSUME ~ all, ca0  PROVE Computes(S, r)
  <2>1. r = z  BY <1>2, <1>6, <1>11
  <2>. QED BY <1>5, <1>8, <1>11, <2>1
<1>12. ASSUME ~ all, ~ ca0, cb0  PROVE Computes(S, r)
  <2>1. r = (1 - x) * z  BY <1>1, <1>2, <1>6, <1>12, ChValue
  <2>. QED BY <1>5, <1>8, <1>12, <2>1
<1>13. ASSUME ~ all, ~ ca0, ~ cb0, cc0  PROVE Computes(S, r)
  <2>1. r = x * y  BY <1>1, <1>2, <1>6, <1>13, ChValue
  <2>. QED BY <1>5, <1>8, <1>13, <2>1
<1>14. ASSUME ~ all, ~ ca0, ~ cb0, ~ cc0, cc1  PROVE Computes(S, r)
  <2>1. r = Implies(x, y)  BY <1>1, <1>2, <1>6, <1>14, ChValue
  <2>. QED BY <1>5, <1>8, <1>14, <2>1
<1>15. ASSUME ~ all, ~ ca0, ~ cb0, ~ cc0, ~ cc1, cb1  PROVE Computes(S, r)
  <2>1. r = Either(x, z)  BY <1>1, <1>2, <1>6, <1>15, ChValue
  <2>. QED BY <1>5, <1>8, <1>15, <2>1
<1>16. ASSUME ~ all, ~ ca0, ~ cb0, ~ cc0, ~ cc1, ~ cb1  PROVE Computes(S, r)
  BY <1>5, <1>9, <1>10, <1>16
<1>17. Computes(S, r)  BY <1>7, <1>11, <1>12, <1>13, <1>14, <1>15, <1>16
<1>. QED BY <1>17 DEF S, r, x, y, z

LEMMA MajIs ==
    ASSUME OddPrime, NEW a \in Gadget!Bools, NEW b \in Gadget!Bools, NEW c \in Gadget!Bools
    PROVE  Computes(Gadget!sha256_maj(a, b, c), Gadget!maj(Gadget!lc(a), Gadget!lc(b), Gadget!lc(c)))
<1> DEFINE x == Gadget!lc(a)  y == Gadget!lc(b)  z == Gadget!lc(c)  r == Gadget!maj(x, y, z)
           S == Gadget!sha256_maj(a, b, c)
<1>1. /\ x \in {0, 1} /\ x = IF a.kind = "not" THEN 1 - a.v ELSE a.v
      /\ y \in {0, 1} /\ y = IF b.kind = "not" THEN 1 - b.v ELSE b.v
      /\ z \in {0, 1} /\ z = IF c.kind = "not" THEN 1 - c.v ELSE c.v
  BY LcIs
<1>2. r = IF x + y + z > 1 THEN 1 ELSE 0  BY DEF Gadget!maj
<1>3. a.v \in {0, 1} /\ b.v \in {0, 1} /\ c.v \in {0, 1}  BY BoolIs
<1>4. /\ Gadget!not(a) \in Gadget!Bools /\ Gadget!lc(Gadget!not(a)) = 1 - x
      /\ Gadget!not(b) \in Gadget!Bools /\ Gadget!lc(Gadget!not(b)) = 1 - y
      /\ Gadget!not(c) \in Gadget!Bools /\ Gadget!lc(Gadget!not(c)) = 1 - z
  BY NotIs
<1>5. PICK bc \in Gadget!Bools : Gadget!and(b, c) = {bc} /\ Gadget!lc(bc) = y * z
  BY AndIs DEF Computes
<1> DEFINE ca0 == Gadget!const(a, 0)  cb0 == Gadget!const(b, 0)  cc0 == Gadget!const(c, 0)
           ca1 == Gadget!const(a, 1)  cb1 == Gadget!const(b, 1)  cc1 == Gadget!const(c, 1)
           all == Gadget!constants(a, b, c)
<1>6. S = IF all THEN {Gadget!Boolean("const", Gadget!maj(a.v, b.v, c.v))}
          ELSE IF ca0 THEN Gadget!and(b, c)
          ELSE IF cb0 THEN Gadget!and(a, c)
          ELSE IF cc0 THEN Gadget!and(a, b)
          ELSE IF cc1 THEN Gadget!Nots(Gadget!and(Gadget!not(a), Gadget!not(b)))
          ELSE IF cb1 THEN Gadget!Nots(Gadget!and(Gadget!not(a), Gadget!not(c)))
          ELSE IF ca1 THEN Gadget!Nots(Gadget!and(Gadget!not(b), Gadget!not(c)))
          ELSE Gadget!Is(Gadget!Solves(y + z - 2 * (y * z), x, y * z))
  <2>1. UNION {Gadget!Is(Gadget!Solves(y + z - 2 * Gadget!lc(d), x, Gadget!lc(d))) : d \in {bc}}
        = Gadget!Is(Gadget!Solves(y + z - 2 * (y * z), x, y * z))
    BY <1>5
  <2>. QED BY <1>5, <2>1 DEF Gadget!sha256_maj
<1>7. /\ (ca0 => x = 0) /\ (cb0 => y = 0) /\ (cc0 => z = 0)
      /\ (ca1 => x = 1) /\ (cb1 => y = 1) /\ (cc1 => z = 1)
  BY <1>1 DEF Gadget!const
<1>8. ASSUME all  PROVE Computes(S, r)
  <2> DEFINE o == Gadget!Boolean("const", r)
  <2>1. a.kind = "const" /\ b.kind = "const" /\ c.kind = "const"
    BY <1>8 DEF Gadget!constants
  <2>2. x = a.v /\ y = b.v /\ z = c.v  BY <1>1, <2>1
  <2>3. S = {o}  BY <1>6, <1>8, <2>2
  <2>4. r \in {0, 1}  BY <1>1, <1>2
  <2>5. o \in Gadget!Bools /\ Gadget!lc(o) = r  BY <2>4, BoolMade DEF Gadget!lc, Gadget!Boolean
  <2>. QED BY <2>3, <2>5 DEF Computes
<1>9. /\ Computes(Gadget!and(b, c), y * z)
      /\ Computes(Gadget!and(a, c), x * z)
      /\ Computes(Gadget!and(a, b), x * y)
      /\ Computes(Gadget!Nots(Gadget!and(Gadget!not(a), Gadget!not(b))), Either(x, y))
      /\ Computes(Gadget!Nots(Gadget!and(Gadget!not(a), Gadget!not(c))), Either(x, z))
      /\ Computes(Gadget!Nots(Gadget!and(Gadget!not(b), Gadget!not(c))), Either(y, z))
  BY <1>4, AndIs, NotAndIs DEF Either
<1>10. Computes(Gadget!Is(Gadget!Solves(y + z - 2 * (y * z), x, y * z)),
                MajSum(x, y, z))
  <2> DEFINE m == y * z  n == y + z - 2 * m
  <2>1. MajSum(x, y, z) \in {0, 1}
    <3> HIDE DEF x, y, z, m, n
    <3>. QED BY <1>1, MajValue
  <2>2. x \in Int /\ m \in Int /\ n \in Int
    <3>1. x \in {0, 1} /\ y \in {0, 1} /\ z \in {0, 1}  BY <1>1
    <3> HIDE DEF x, y, z
    <3>. QED BY <3>1
  <2>3. MajSum(x, y, z) = n * x + m  BY DEF MajSum
  <2> HIDE DEF m, n
  <2>4. Computes(Gadget!Is(Gadget!Solves(n, x, m)), n * x + m)  BY <2>1, <2>2, <2>3, SolvesBit
  <2>. QED BY <2>3, <2>4 DEF m, n
<1> HIDE DEF x, y, z, r, S, ca0, cb0, cc0, ca1, cb1, cc1, all
<1>11. MajSum(x, y, z) = r  BY <1>1, <1>2, MajValue
<1>12. ASSUME ~ all, ca0  PROVE Computes(S, r)
  <2>1. r = y * z  BY <1>1, <1>2, <1>7, <1>12, MajValue
  <2>. QED BY <1>6, <1>9, <1>12, <2>1
<1>13. ASSUME ~ all, ~ ca0, cb0  PROVE Computes(S, r)
  <2>1. r = x * z  BY <1>1, <1>2, <1>7, <1>13, MajValue
  <2>. QED BY <1>6, <1>9, <1>13, <2>1
<1>14. ASSUME ~ all, ~ ca0, ~ cb0, cc0  PROVE Computes(S, r)
  <2>1. r = x * y  BY <1>1, <1>2, <1>7, <1>14, MajValue
  <2>. QED BY <1>6, <1>9, <1>14, <2>1
<1>15. ASSUME ~ all, ~ ca0, ~ cb0, ~ cc0, cc1  PROVE Computes(S, r)
  <2>1. r = Either(x, y)  BY <1>1, <1>2, <1>7, <1>15, MajValue
  <2>. QED BY <1>6, <1>9, <1>15, <2>1
<1>16. ASSUME ~ all, ~ ca0, ~ cb0, ~ cc0, ~ cc1, cb1  PROVE Computes(S, r)
  <2>1. r = Either(x, z)  BY <1>1, <1>2, <1>7, <1>16, MajValue
  <2>. QED BY <1>6, <1>9, <1>16, <2>1
<1>17. ASSUME ~ all, ~ ca0, ~ cb0, ~ cc0, ~ cc1, ~ cb1, ca1  PROVE Computes(S, r)
  <2>1. r = Either(y, z)  BY <1>1, <1>2, <1>7, <1>17, MajValue
  <2>. QED BY <1>6, <1>9, <1>17, <2>1
<1>18. ASSUME ~ all, ~ ca0, ~ cb0, ~ cc0, ~ cc1, ~ cb1, ~ ca1  PROVE Computes(S, r)
  BY <1>6, <1>10, <1>11, <1>18
<1>19. Computes(S, r)  BY <1>8, <1>12, <1>13, <1>14, <1>15, <1>16, <1>17, <1>18
<1>. QED BY <1>19 DEF S, r, x, y, z

----------------------------------------------------------------------------
(* Numbers.                                                                *)

LEMMA InField ==
    ASSUME NEW x \in F
    PROVE  x \in Int /\ 0 <= x /\ x < P /\ x % P = x /\ Cong(x, x)
<1>1. x \in Int /\ 0 <= x /\ x < P  BY ModulusAssumption DEF F
<1>2. (x + 0 * P) % P = x  BY Residue
<1>3. x + 0 * P = x  BY <1>1, ModulusAssumption
<1>. QED BY <1>1, <1>2, <1>3 DEF Cong

LEMMA SameResidue ==
    ASSUME NEW x \in F, NEW y \in F, NEW a \in Int, (a - x) % P = (a - y) % P
    PROVE  x = y
<1>1. x \in Int /\ y \in Int /\ x % P = x /\ y % P = y  BY InField
<1>2. PICK k \in Int : a - x = (a - y) + k * P
  <2>1. Cong(a - x, a - y) /\ a - x \in Int /\ a - y \in Int  BY <1>1 DEF Cong
  <2>. QED BY <2>1, CongMultiple
<1>3. y = x + k * P
  <2>1. k * P \in Int  BY ModulusAssumption
  <2>. QED BY <1>1, <1>2, <2>1
<1>4. Cong(y, x)  BY <1>1, <1>3, CongMultiple
<1>. QED BY <1>1, <1>4 DEF Cong

LEMMA ZeroMultiple ==
    ASSUME NEW a \in Int, a % P = 0, NEW c \in Int
    PROVE  (c * a) % P = 0
<1>1. 0 % P = 0 /\ 0 \in Int  BY ModulusAssumption
<1>2. Cong(c * a, c * 0)  BY <1>1, CongProduct DEF Cong
<1>. QED BY <1>1, <1>2 DEF Cong

LEMMA HasInverse ==
    ASSUME OddPrime, NEW a \in Int, a % P # 0
    PROVE  \E u \in F : (a * u) % P = 1
<1> DEFINE r == a % P
<1>1. r \in F /\ r # 0 /\ r \in Int /\ Cong(r, a)  BY CongResidue
<1>2. r \in 1 .. P - 1  BY <1>1, Odd
<1>3. PICK u \in F : (r * u) % P = 1
  <2> HIDE DEF r
  <2>. QED BY <1>2, Odd DEF OddPrime, Gadget!PrimeAssumption
<1>4. u \in Int  BY InField
<1> HIDE DEF r
<1>5. Cong(u * r, u * a)  BY <1>1, <1>4, CongProduct
<1>6. u * r = r * u /\ u * a = a * u  BY <1>1, <1>4
<1>. QED BY <1>3, <1>5, <1>6 DEF Cong

LEMMA ZeroProduct ==
    ASSUME OddPrime, NEW a \in Int, NEW b \in Int, (a * b) % P = 0, a % P # 0
    PROVE  b % P = 0
<1>1. PICK u \in F : (a * u) % P = 1  BY HasInverse
<1>2. u \in Int  BY InField
<1>3. (u * (a * b)) % P = 0  BY <1>2, ZeroMultiple
<1>4. u * (a * b) = b * (a * u)  BY <1>2
<1>5. Cong(b * (a * u), b * 1)
  <2> DEFINE e == a * u  o == 1
  <2>1. 1 % P = 1 /\ e \in Int /\ o \in Int  BY <1>2, Odd
  <2>2. Cong(e, o)  BY <1>1, <2>1 DEF Cong
  <2> HIDE DEF e, o
  <2>3. Cong(b * e, b * o)  BY <2>1, <2>2, CongProduct
  <2>. QED BY <2>3 DEF e, o
<1>. QED BY <1>3, <1>4, <1>5 DEF Cong

LEMMA Small ==
    ASSUME OddPrime
    PROVE  0 \in F /\ 1 \in F /\ 0 % P = 0 /\ 1 % P = 1
BY Odd

LEMMA AllocBit ==
    ASSUME OddPrime
    PROVE  Gadget!alloc_bit = {0, 1}
<1>1. ASSUME NEW a \in F, ((1 - a) * a) % P = 0  PROVE a \in {0, 1}
  <2>1. a \in Int /\ a % P = a  BY InField
  <2>2. CASE (1 - a) % P = 0
    <3>1. (1 - a) % P = (1 - 1) % P  BY <2>2, Small
    <3>. QED BY <3>1, Small, SameResidue
  <2>3. CASE (1 - a) % P # 0
    <3>1. 1 - a \in Int  BY <2>1
    <3>. QED BY <1>1, <2>1, <2>3, <3>1, ZeroProduct
  <2>. QED BY <2>2, <2>3
<1>2. ((1 - 0) * 0) % P = 0 /\ ((1 - 1) * 1) % P = 0  BY Small
<1>. QED BY <1>1, <1>2, Small, Odd DEF Gadget!alloc_bit

LEMMA AllocConditionally ==
    ASSUME OddPrime, NEW r \in {0, 1}
    PROVE  Gadget!alloc_conditionally(r) = IF r = 1 THEN {0} ELSE {0, 1}
<1>1. CASE r = 0
  <2>1. \A a \in F : 1 - 0 - a = 1 - a  BY InField
  <2>2. Gadget!alloc_conditionally(0) = Gadget!alloc_bit
    BY <2>1, Odd DEF Gadget!alloc_conditionally, Gadget!alloc_bit
  <2>. QED BY <1>1, <2>2, AllocBit
<1>2. CASE r = 1
  <2>1. ASSUME NEW a \in F, ((1 - 1 - a) * a) % P = 0  PROVE a = 0
    <3>1. a \in Int /\ a % P = a /\ 1 - 1 - a \in Int  BY InField
    <3>2. CASE (1 - 1 - a) % P = 0
      <4>1. 1 - 1 - a = 0 - a /\ 0 - 0 = 0  BY <3>1
      <4>2. (0 - a) % P = (0 - 0) % P  BY <3>2, <4>1, Small
      <4>. QED BY <4>2, Small, SameResidue
    <3>3. CASE (1 - 1 - a) % P # 0
      BY <2>1, <3>1, <3>3, ZeroProduct
    <3>. QED BY <3>2, <3>3
  <2>2. ((1 - 1 - 0) * 0) % P = 0  BY Small
  <2>. QED BY <1>2, <2>1, <2>2, Small, Odd DEF Gadget!alloc_conditionally
<1>. QED BY <1>1, <1>2

LEMMA NumGates ==
    ASSUME OddPrime, NEW x \in F, NEW y \in F
    PROVE  /\ Gadget!num_add(x, y) = {(x + y) % P}
           /\ Gadget!num_mul(x, y) = {(x * y) % P}
           /\ Gadget!square(x) = {(x * x) % P}
           /\ Gadget!inputize(x) = {x}
<1>1. x \in Int /\ y \in Int /\ x % P = x  BY InField
<1>2. (x + y) * 1 + 0 = x + y /\ x * y + 0 = x * y /\ x * x + 0 = x * x /\ x * 1 + 0 = x
  BY <1>1
<1>. QED BY <1>1, <1>2
     DEF Gadget!num_add, Gadget!num_mul, Gadget!square, Gadget!inputize, Gadget!Solves

LEMMA Selections ==
    ASSUME OddPrime, NEW x \in F, NEW y \in F, NEW c \in {0, 1}
    PROVE  /\ Gadget!conditionally_select(x, y, c) = {IF c = 1 THEN x ELSE y}
           /\ Gadget!select_zero_or_num2(x, c) = {IF c = 1 THEN 0 ELSE x}
           /\ Gadget!select_num_or_zero(x, c) = {IF c = 1 THEN x ELSE 0}
           /\ Gadget!select_one_or_num2(x, c) = {IF c = 1 THEN 1 ELSE x}
           /\ Gadget!select_one_or_diff2(x, y, c) = {IF c = 1 THEN 1 ELSE (x - y) % P}
           /\ Gadget!select_num_or_one(x, c) = {IF c = 1 THEN x ELSE 1}
<1>1. x \in Int /\ y \in Int /\ x % P = x /\ y % P = y  BY InField
<1>2. CASE c = 0
  <2>1. /\ (x - y) * 0 + y = y /\ x * (1 - 0) + 0 = x /\ x * 0 + 0 = 0 /\ (1 - x) * 0 + x = x
        /\ (1 - x + y) * 0 + (x - y) = x - y /\ (x - 1) * 0 + 1 = 1
    BY <1>1
  <2>. QED BY <1>1, <1>2, <2>1, Small
       DEF Gadget!conditionally_select, Gadget!select_zero_or_num2, Gadget!select_num_or_zero,
           Gadget!select_one_or_num2, Gadget!select_one_or_diff2, Gadget!select_num_or_one,
           Gadget!Solves
<1>3. CASE c = 1
  <2>1. /\ (x - y) * 1 + y = x /\ x * (1 - 1) + 0 = 0 /\ x * 1 + 0 = x /\ (1 - x) * 1 + x = 1
        /\ (1 - x + y) * 1 + (x - y) = 1 /\ (x - 1) * 1 + 1 = x
    BY <1>1
  <2>. QED BY <1>1, <1>3, <2>1, Small
       DEF Gadget!conditionally_select, Gadget!select_zero_or_num2, Gadget!select_num_or_zero,
           Gadget!select_one_or_num2, Gadget!select_one_or_diff2, Gadget!select_num_or_one,
           Gadget!Solves
<1>. QED BY <1>2, <1>3

LEMMA NonZero ==
    ASSUME OddPrime, NEW x \in F
    PROVE  Gadget!assert_nonzero(x) = IF x = 0 THEN {} ELSE {Gadget!inv[x]}
<1>1. x \in Int /\ x % P = x  BY InField
<1>2. CASE x = 0
  <2>1. ASSUME NEW i \in F  PROVE (x * i) % P # 1
    <3>1. x * i = 0  BY <1>2, InField
    <3>. QED BY <3>1, Small
  <2>. QED BY <1>2, <2>1, Odd DEF Gadget!assert_nonzero
<1>3. CASE x # 0
  <2> DEFINE Inv(i) == (x * i) % P = 1
  <2>1. \E i \in F : Inv(i)  BY <1>1, <1>3, HasInverse
  <2>2. ASSUME NEW i \in F, NEW j \in F, Inv(i), Inv(j)  PROVE i = j
    <3>1. i \in Int /\ j \in Int /\ i - j \in Int /\ x * i \in Int /\ x * j \in Int
      BY <1>1, InField
    <3>2. PICK k \in Int : x * i = x * j + k * P
      BY <2>2, <3>1, CongMultiple DEF Cong
    <3>3. x * (i - j) = 0 + k * P
      <4>1. x * (i - j) = x * i - x * j  BY <1>1, <3>1
      <4>2. k * P \in Int  BY Odd
      <4>. QED BY <3>1, <3>2, <4>1, <4>2
    <3>4. (x * (i - j)) % P = 0  BY <3>3, Small, Residue
    <3>5. (i - j) % P = 0  BY <1>1, <1>3, <3>1, <3>4, ZeroProduct
    <3>6. (i - j) % P = (i - i) % P  BY <3>1, <3>5, Small
    <3>. QED BY <3>1, <3>6, SameResidue
  <2>3. Gadget!inv[x] = CHOOSE i \in F : Inv(i)  BY <1>3, Odd DEF Gadget!inv
  <2>4. Gadget!assert_nonzero(x) = {i \in F : Inv(i)}  BY Odd DEF Gadget!assert_nonzero
  <2> HIDE DEF Inv
  <2>5. Gadget!inv[x] \in F /\ Inv(Gadget!inv[x])  BY <2>1, <2>3
  <2>. QED BY <1>3, <2>2, <2>4, <2>5
<1>. QED BY <1>2, <1>3

LEMMA Equals ==
    ASSUME OddPrime, NEW x \in F, NEW y \in F
    PROVE  Gadget!alloc_num_equals(x, y) = {IF x = y THEN 1 ELSE 0}
<1> DEFINE d == x - y
           Right(r) == (\E t \in F : (t * d) % P = (1 - r) % P) /\ (r * d) % P = 0
<1>1. x \in Int /\ y \in Int /\ d \in Int  BY InField
<1>2. Gadget!alloc_num_equals(x, y) = {r \in {0, 1} : Right(r)}
  BY AllocBit, Odd DEF Gadget!alloc_num_equals
<1>3. CASE x = y
  <2>1. d = 0  BY <1>1, <1>3
  <2>2. \A t \in F : t * 0 = 0  BY InField
  <2>3. (0 * 0) % P = (1 - 1) % P /\ (1 * 0) % P = 0 /\ 0 % P # (1 - 0) % P  BY Small
  <2> HIDE DEF d
  <2>4. Right(1) /\ ~ Right(0)  BY <2>1, <2>2, <2>3, Small
  <2> HIDE DEF Right
  <2>. QED BY <1>2, <1>3, <2>4
<1>4. CASE x # y
  <2>1. d % P # 0
    <3>1. ASSUME d % P = 0  PROVE FALSE
      <4>1. (x - y) % P = (x - x) % P  BY <1>1, <3>1, Small
      <4>. QED BY <1>1, <1>4, <4>1, SameResidue
    <3>. QED BY <3>1
  <2>2. PICK u \in F : (d * u) % P = 1  BY <1>1, <2>1, HasInverse
  <2>3. d * u = u * d /\ 1 * d = d /\ 0 * d = 0 /\ (1 - 0) % P = 1  BY <1>1, InField, Small
  <2> HIDE DEF d
  <2>4. Right(0) /\ ~ Right(1)  BY <2>1, <2>2, <2>3, Small
  <2> HIDE DEF Right
  <2>. QED BY <1>2, <1>4, <2>4
<1>. QED BY <1>3, <1>4

LEMMA Reverses ==
    ASSUME OddPrime, NEW x \in F, NEW y \in F, NEW cond \in Gadget!Bools
    PROVE  Gadget!conditionally_reverse(x, y, cond) =
              {IF Gadget!lc(cond) = 1 THEN <<y, x>> ELSE <<x, y>>}
<1> DEFINE c == Gadget!lc(cond)
           Right(r) == ((x - y) * c) % P = (x - r[1]) % P /\ ((y - x) * c) % P = (y - r[2]) % P
<1>1. c \in {0, 1}  BY LcIs
<1>2. Gadget!conditionally_reverse(x, y, cond) = {r \in F \X F : Right(r)}
  BY Odd DEF Gadget!conditionally_reverse
<1>3. x \in Int /\ y \in Int /\ x - x = 0 /\ y - y = 0  BY InField
<1> HIDE DEF c
<1>6. \A a \in Int, p \in F, q \in F : (a - p) % P = (a - q) % P <=> q = p  BY SameResidue
<1>4. CASE c = 0
  <2>1. (x - y) * 0 = x - x /\ (y - x) * 0 = y - y  BY <1>3
  <2>2. \A r \in F \X F : Right(r) <=> r[1] = x /\ r[2] = y
    <3> TAKE r \in F \X F
    <3>1. r[1] \in F /\ r[2] \in F  OBVIOUS
    <3>2. (x - x) % P = (x - r[1]) % P <=> r[1] = x  BY <1>3, <1>6, <3>1
    <3>3. (y - y) % P = (y - r[2]) % P <=> r[2] = y  BY <1>3, <1>6, <3>1
    <3>. QED BY <1>4, <2>1, <3>2, <3>3
  <2> HIDE DEF Right
  <2>. QED BY <1>2, <1>4, <2>2 DEF c
<1>5. CASE c = 1
  <2>1. (x - y) * 1 = x - y /\ (y - x) * 1 = y - x  BY <1>3
  <2>2. \A r \in F \X F : Right(r) <=> r[1] = y /\ r[2] = x
    <3> TAKE r \in F \X F
    <3>1. r[1] \in F /\ r[2] \in F  OBVIOUS
    <3>2. (x - y) % P = (x - r[1]) % P <=> r[1] = y  BY <1>3, <1>6, <3>1
    <3>3. (y - x) % P = (y - r[2]) % P <=> r[2] = x  BY <1>3, <1>6, <3>1
    <3>. QED BY <1>5, <2>1, <3>2, <3>3
  <2> HIDE DEF Right
  <2>. QED BY <1>2, <1>5, <2>2 DEF c
<1>. QED BY <1>1, <1>4, <1>5

----------------------------------------------------------------------------
(* The bits of a number.                                                   *)

\* h halves x, m times.
Halves(h, x, m) ==
    /\ h \in [0 .. m -> Nat] /\ h[0] = x
    /\ \A k \in 0 .. m - 1 : h[k + 1] = h[k] \div 2

LEMMA Halving ==
    ASSUME NEW x \in Nat
    PROVE  x \div 2 \in Nat /\ x % 2 \in {0, 1} /\ x = 2 * (x \div 2) + (x % 2)
OBVIOUS

LEMMA HalvesExist ==
    ASSUME NEW x \in Nat, NEW m \in Nat
    PROVE  \E h : Halves(h, x, m)
<1> DEFINE H == [k \in 0 .. m - 1 |-> [y \in Nat |-> y \div 2]]
<1>1. StepsIn(H, m, Nat)
  <2>1. \A k \in 0 .. m - 1 : \A y \in Nat : H[k][y] = y \div 2  OBVIOUS
  <2> HIDE DEF H
  <2>. QED BY <2>1, Halving DEF StepsIn
<1>2. PICK h : Recursion(h, m, Nat, x, H)
  <2> HIDE DEF H
  <2>. QED BY <1>1, RecursionTo
<1>3. /\ h \in [0 .. m -> Nat] /\ h[0] = x
      /\ \A k \in 0 .. m - 1 : h[k + 1] = H[k][h[k]]
  BY <1>2 DEF Recursion
<1>4. \A k \in 0 .. m - 1 : h[k + 1] = h[k] \div 2
  <2> TAKE k \in 0 .. m - 1
  <2>1. h[k] \in Nat  BY <1>3
  <2>. QED BY <1>3, <2>1
<1>. QED BY <1>3, <1>4 DEF Halves

\* The halves of a smaller number are smaller.
LEMMA HalvesBelow ==
    ASSUME NEW x \in Nat, NEW y \in Nat, x <= y, NEW m \in Nat, NEW n \in Nat,
           NEW g, Halves(g, x, m), NEW h, Halves(h, y, n), NEW k \in 0 .. m, k \in 0 .. n
    PROVE  g[k] <= h[k]
<1> DEFINE T == {j \in 0 .. k : g[j] <= h[j]}
<1>1. 0 \in T  BY DEF Halves
<1>2. ASSUME NEW j \in 0 .. k - 1, j \in T  PROVE j + 1 \in T
  <2>1. j \in 0 .. m - 1 /\ j \in 0 .. n - 1 /\ j \in 0 .. m /\ j \in 0 .. n /\ j + 1 \in 0 .. k
    OBVIOUS
  <2>2. g[j + 1] = g[j] \div 2 /\ h[j + 1] = h[j] \div 2 /\ g[j] \in Nat /\ h[j] \in Nat
    BY <2>1 DEF Halves
  <2>3. g[j] <= h[j]  BY <1>2
  <2> DEFINE a == g[j]  b == h[j]
  <2>4. a \div 2 <= b \div 2
    <3>1. a \in Nat /\ b \in Nat /\ a <= b  BY <2>2, <2>3
    <3> HIDE DEF a, b
    <3>. QED BY <3>1
  <2>. QED BY <2>1, <2>2, <2>4
<1>3. k \in T
  <2>1. k \in Nat /\ k \in 0 .. k  OBVIOUS
  <2> HIDE DEF T
  <2>. QED BY <1>1, <1>2, <2>1, InductionTo
<1>. QED BY <1>3

\* They end at zero.
LEMMA HalvesEnd ==
    ASSUME NEW x \in Nat, NEW h, Halves(h, x, x)
    PROVE  h[x] = 0
<1> DEFINE T == {k \in 0 .. x : h[k] = 0 \/ h[k] + k <= x}
<1>1. 0 \in T  BY DEF Halves
<1>2. ASSUME NEW k \in 0 .. x - 1, k \in T  PROVE k + 1 \in T
  <2>1. h[k + 1] = h[k] \div 2 /\ h[k] \in Nat /\ k + 1 \in 0 .. x  BY DEF Halves
  <2>2. h[k] = 0 \/ h[k] + k <= x  BY <1>2
  <2> DEFINE a == h[k]  b == h[k + 1]
  <2>3. b = 0 \/ b + (k + 1) <= x
    <3>1. b = a \div 2 /\ a \in Nat /\ (a = 0 \/ a + k <= x)  BY <2>1, <2>2
    <3> HIDE DEF a, b
    <3>. QED BY <3>1
  <2>. QED BY <2>1, <2>3
<1>3. \A k \in 0 .. x : k \in T
  <2> HIDE DEF T
  <2>. QED BY <1>1, <1>2, InductionTo
<1>4. h[x] = 0 \/ h[x] + x <= x  BY <1>3
<1>5. h[x] \in Nat  BY DEF Halves
<1>. QED BY <1>4, <1>5

\* The bits of x are those of its halves before they are zero.
Length(h, x, l) == l \in 0 .. x /\ h[l] = 0 /\ \A j \in 0 .. l - 1 : h[j] > 0

LEMMA LengthUnique ==
    ASSUME NEW x \in Nat, NEW y \in Nat, NEW h, NEW k, Length(h, x, k), NEW l, Length(h, y, l)
    PROVE  k = l
<1>1. k \in Nat /\ l \in Nat  BY DEF Length
<1>2. ~ (k < l) /\ ~ (l < k)
  <2>1. ASSUME k < l  PROVE FALSE
    <3>1. k \in 0 .. l - 1  BY <1>1, <2>1
    <3>. QED BY <3>1 DEF Length
  <2>2. ASSUME l < k  PROVE FALSE
    <3>1. l \in 0 .. k - 1  BY <1>1, <2>2
    <3>. QED BY <3>1 DEF Length
  <2>. QED BY <2>1, <2>2
<1>. QED BY <1>1, <1>2

LEMMA BitsOf ==
    ASSUME NEW x \in Nat
    PROVE  \E h, l : /\ Halves(h, x, x) /\ Length(h, x, l)
                     /\ Gadget!bits_of(x) = [k \in 1 .. l |-> h[k - 1] % 2]
<1> DEFINE Is(g) == g = [k \in 0 .. x |-> IF k = 0 THEN x ELSE g[k - 1] \div 2]
           G == CHOOSE g : Is(g)
           Ends(k) == G[k] = 0 /\ \A j \in 0 .. k - 1 : G[j] > 0
           len == CHOOSE k \in 0 .. x : Ends(k)
<1>1. Gadget!bits_of(x) = [k \in 1 .. len |-> G[k - 1] % 2]  BY DEF Gadget!bits_of
<1>2. PICK h : Halves(h, x, x)  BY HalvesExist
<1>3. h \in [0 .. x -> Nat] /\ h[0] = x /\ \A k \in 0 .. x - 1 : h[k + 1] = h[k] \div 2
  BY <1>2 DEF Halves
<1>4. Is(h)
  <2> DEFINE v(k) == IF k = 0 THEN x ELSE h[k - 1] \div 2
  <2>1. ASSUME NEW k \in 0 .. x  PROVE h[k] = v(k)
    <3>1. CASE k = 0  BY <3>1, <1>3
    <3>2. CASE k # 0
      <4>1. k - 1 \in 0 .. x - 1 /\ (k - 1) + 1 = k  BY <3>2
      <4>2. h[(k - 1) + 1] = h[k - 1] \div 2  BY <4>1, <1>3
      <4>. QED BY <4>1, <4>2, <3>2
    <3>. QED BY <3>1, <3>2
  <2>2. h = [k \in 0 .. x |-> h[k]]  BY <1>3
  <2>3. h = [k \in 0 .. x |-> v(k)]
    <3> HIDE DEF v
    <3>. QED BY <2>1, <2>2
  <2>. QED BY <2>3
<1>5. Is(G)  BY <1>4
<1> HIDE DEF G
<1>6. G[0] = x /\ DOMAIN G = 0 .. x  BY <1>5
<1>7. \A k \in 0 .. x - 1 : G[k + 1] = G[k] \div 2
  <2> TAKE k \in 0 .. x - 1
  <2>1. k + 1 \in 0 .. x /\ k + 1 # 0 /\ (k + 1) - 1 = k  OBVIOUS
  <2>2. G[k + 1] = G[(k + 1) - 1] \div 2  BY <2>1, <1>5
  <2>. QED BY <2>1, <2>2
<1>8. \A k \in 0 .. x : G[k] = h[k]
  <2> DEFINE T == {k \in 0 .. x : G[k] = h[k]}
  <2>1. 0 \in T  BY <1>3, <1>6
  <2>2. ASSUME NEW k \in 0 .. x - 1, k \in T  PROVE k + 1 \in T
    <3>1. k + 1 \in 0 .. x /\ G[k] = h[k]  BY <2>2
    <3>. QED BY <3>1, <1>3, <1>7
  <2>3. \A k \in 0 .. x : k \in T
    <3> HIDE DEF T
    <3>. QED BY <2>1, <2>2, InductionTo
  <2>. QED BY <2>3
<1>9. Halves(G, x, x)
  <2>1. G = [k \in 0 .. x |-> G[k]]  BY <1>5
  <2>2. \A k \in 0 .. x : G[k] \in Nat  BY <1>3, <1>8
  <2>3. G \in [0 .. x -> Nat]  BY <2>1, <2>2
  <2>. QED BY <2>3, <1>6, <1>7 DEF Halves
<1>10. len \in 0 .. x /\ Ends(len)
  <2> DEFINE Z == {k \in 0 .. x : G[k] = 0}
  <2>1. x \in Z  BY <1>9, HalvesEnd
  <2>2. PICK k \in Z : \A j \in Z : k <= j
    <3>1. Z \subseteq Nat /\ Z # {}  BY <2>1
    <3> HIDE DEF Z
    <3>. QED BY <3>1, LeastNumber
  <2>3. k \in 0 .. x /\ Ends(k)
    <3>1. ASSUME NEW j \in 0 .. k - 1  PROVE G[j] > 0
      <4>1. j \in 0 .. x /\ j \notin Z  BY <2>2
      <4>2. G[j] # 0 /\ G[j] \in Nat  BY <4>1, <1>9 DEF Halves
      <4>. QED BY <4>2
    <3>. QED BY <2>2, <3>1
  <2> HIDE DEF Ends
  <2>. QED BY <2>3
<1>. QED BY <1>1, <1>9, <1>10 DEF Length

----------------------------------------------------------------------------
(* Numbers made of bits.                                                   *)

Bits == {0, 1}
Strings(n) == [1 .. n -> Bits]

\* v packs the bits of s, the highest first.
Highs(v, s, n) ==
    /\ v \in [0 .. n -> Nat] /\ v[0] = 0
    /\ \A k \in 1 .. n : v[k] = s[k] + 2 * v[k - 1]

LEMMA HighsExist ==
    ASSUME NEW n \in Nat, NEW s \in Strings(n)
    PROVE  \E v : Highs(v, s, n)
<1> DEFINE H == [k \in 0 .. n - 1 |-> [x \in Nat |-> s[k + 1] + 2 * x]]
<1>1. \A k \in 1 .. n : s[k] \in Nat  BY DEF Strings, Bits
<1>2. \A k \in 0 .. n - 1 : \A x \in Nat : H[k][x] = s[k + 1] + 2 * x  OBVIOUS
<1> HIDE DEF H
<1>3. StepsIn(H, n, Nat)
  <2>1. ASSUME NEW k \in 0 .. n - 1, NEW x \in Nat  PROVE H[k][x] \in Nat
    <3>1. k + 1 \in 1 .. n  OBVIOUS
    <3>2. s[k + 1] \in Nat  BY <3>1, <1>1
    <3>. QED BY <3>2, <1>2
  <2>. QED BY <2>1 DEF StepsIn
<1>4. PICK v : Recursion(v, n, Nat, 0, H)  BY <1>3, RecursionTo
<1>5. /\ v \in [0 .. n -> Nat] /\ v[0] = 0
      /\ \A k \in 0 .. n - 1 : v[k + 1] = H[k][v[k]]
  BY <1>4 DEF Recursion
<1>6. ASSUME NEW k \in 1 .. n  PROVE v[k] = s[k] + 2 * v[k - 1]
  <2>1. k - 1 \in 0 .. n - 1 /\ k - 1 \in 0 .. n /\ (k - 1) + 1 = k  OBVIOUS
  <2>2. v[k - 1] \in Nat  BY <2>1, <1>5
  <2>3. v[(k - 1) + 1] = H[k - 1][v[k - 1]]  BY <2>1, <1>5
  <2>4. H[k - 1][v[k - 1]] = s[(k - 1) + 1] + 2 * v[k - 1]  BY <2>1, <2>2, <1>2
  <2>. QED BY <2>1, <2>3, <2>4
<1>. QED BY <1>5, <1>6 DEF Highs

\* Tables of strings that begin alike do.
LEMMA HighsAgree ==
    ASSUME NEW m \in Nat, NEW n \in Nat, NEW s, NEW t, NEW v, Highs(v, s, m), NEW w, Highs(w, t, n),
           NEW k \in 0 .. m, k \in 0 .. n, \A j \in 1 .. k : s[j] = t[j]
    PROVE  v[k] = w[k]
<1> DEFINE T == {j \in 0 .. k : v[j] = w[j]}
<1>1. 0 \in T  BY DEF Highs
<1>2. ASSUME NEW j \in 0 .. k - 1, j \in T  PROVE j + 1 \in T
  <2>1. j + 1 \in 1 .. m /\ j + 1 \in 1 .. n /\ j + 1 \in 1 .. k /\ j + 1 \in 0 .. k /\ (j + 1) - 1 = j
    OBVIOUS
  <2>2. v[j + 1] = s[j + 1] + 2 * v[j] /\ w[j + 1] = t[j + 1] + 2 * w[j]  BY <2>1 DEF Highs
  <2>3. v[j] = w[j] /\ s[j + 1] = t[j + 1]  BY <1>2, <2>1
  <2>. QED BY <2>1, <2>2, <2>3
<1>3. k \in T
  <2>1. k \in Nat /\ k \in 0 .. k  OBVIOUS
  <2> HIDE DEF T
  <2>. QED BY <1>1, <1>2, <2>1, InductionTo
<1>. QED BY <1>3

LEMMA ReverseIs ==
    ASSUME NEW n \in Nat, NEW s \in Strings(n)
    PROVE  /\ Len(s) = n /\ s \in Seq(Bits)
           /\ Reverse(s) \in Strings(n) /\ Reverse(Reverse(s)) = s
           /\ \A k \in 1 .. n : Reverse(s)[k] = s[n + 1 - k]
<1>1. Len(s) = n /\ s \in Seq(Bits)  BY DEF Strings
<1> DEFINE r == Reverse(s)
<1>2. r = [i \in 1 .. n |-> s[(n - i) + 1]]  BY <1>1 DEF Reverse
<1>3. \A i \in 1 .. n : (n - i) + 1 = n + 1 - i /\ (n - i) + 1 \in 1 .. n  OBVIOUS
<1>4. \A i \in 1 .. n : r[i] = s[n + 1 - i]  BY <1>2, <1>3
<1>5. r \in Strings(n)  BY <1>2, <1>3 DEF Strings
<1>6. Len(r) = n  BY <1>5 DEF Strings
<1>7. Reverse(r) = [i \in 1 .. n |-> r[(n - i) + 1]]  BY <1>6 DEF Reverse
<1>8. \A i \in 1 .. n : r[(n - i) + 1] = s[i]
  <2> TAKE i \in 1 .. n
  <2>1. (n - i) + 1 \in 1 .. n /\ n + 1 - ((n - i) + 1) = i  OBVIOUS
  <2>. QED BY <2>1, <1>4
<1>9. s = [i \in 1 .. n |-> s[i]]  BY DEF Strings
<1>10. Reverse(r) = s
  <2> HIDE DEF r
  <2>. QED BY <1>7, <1>8, <1>9
<1>. QED BY <1>1, <1>4, <1>5, <1>10

\* What bits are packed to, the lowest first.
LEMMA PackedIs ==
    ASSUME NEW n \in Nat, NEW s \in Strings(n), NEW v, Highs(v, Reverse(s), n)
    PROVE  Gadget!packed(s) = v[n]
<1> DEFINE Is(g) == g = [k \in 0 .. n |-> IF k = 0 THEN 0 ELSE s[n + 1 - k] + 2 * g[k - 1]]
           G == CHOOSE g : Is(g)
<1>1. Len(s) = n /\ \A k \in 1 .. n : Reverse(s)[k] = s[n + 1 - k]  BY ReverseIs
<1>2. Gadget!packed(s) = G[n]  BY <1>1 DEF Gadget!packed
<1>3. /\ v \in [0 .. n -> Nat] /\ v[0] = 0
      /\ \A k \in 1 .. n : v[k] = s[n + 1 - k] + 2 * v[k - 1]
  BY <1>1 DEF Highs
<1>4. Is(v)
  <2> DEFINE w(k) == IF k = 0 THEN 0 ELSE s[n + 1 - k] + 2 * v[k - 1]
  <2>1. ASSUME NEW k \in 0 .. n  PROVE v[k] = w(k)
    <3>1. CASE k = 0  BY <3>1, <1>3
    <3>2. CASE k # 0
      <4>1. k \in 1 .. n  BY <3>2
      <4>. QED BY <4>1, <3>2, <1>3
    <3>. QED BY <3>1, <3>2
  <2>2. v = [k \in 0 .. n |-> v[k]]  BY <1>3
  <2>3. v = [k \in 0 .. n |-> w(k)]
    <3> HIDE DEF w
    <3>. QED BY <2>1, <2>2
  <2>. QED BY <2>3
<1>5. Is(G)  BY <1>4
<1> HIDE DEF G
<1> DEFINE T == {k \in 0 .. n : G[k] = v[k]}
<1>6. 0 \in T  BY <1>3, <1>5
<1>7. ASSUME NEW k \in 0 .. n - 1, k \in T  PROVE k + 1 \in T
  <2>1. k + 1 \in 0 .. n /\ k + 1 \in 1 .. n /\ k + 1 # 0 /\ (k + 1) - 1 = k /\ G[k] = v[k]
    BY <1>7
  <2>2. G[k + 1] = s[n + 1 - (k + 1)] + 2 * G[(k + 1) - 1]  BY <2>1, <1>5
  <2>3. v[k + 1] = s[n + 1 - (k + 1)] + 2 * v[(k + 1) - 1]  BY <2>1, <1>3
  <2>. QED BY <2>1, <2>2, <2>3
<1>8. n \in T
  <2>1. n \in 0 .. n  OBVIOUS
  <2> HIDE DEF T
  <2>. QED BY <1>6, <1>7, <2>1, InductionTo
<1>. QED BY <1>2, <1>8

\* The bits of x, if there are enough, are packed to x, and to its halves on the way.
LEMMA HighsOfBits ==
    ASSUME NEW x \in Nat, NEW n \in Nat, NEW h, Halves(h, x, n), h[n] = 0
    PROVE  LET s == [k \in 1 .. n |-> h[k - 1] % 2]
           IN  s \in Strings(n) /\ Highs([k \in 0 .. n |-> h[n - k]], Reverse(s), n)
<1> DEFINE s == [k \in 1 .. n |-> h[k - 1] % 2]
           v == [k \in 0 .. n |-> h[n - k]]
<1>1. h \in [0 .. n -> Nat] /\ \A k \in 0 .. n - 1 : h[k + 1] = h[k] \div 2  BY DEF Halves
<1>2. s \in Strings(n)
  <2>1. ASSUME NEW k \in 1 .. n  PROVE h[k - 1] % 2 \in Bits
    <3>1. h[k - 1] \in Nat  BY <1>1
    <3>. QED BY <3>1, Halving DEF Bits
  <2>. QED BY <2>1 DEF Strings
<1>3. \A k \in 1 .. n : Reverse(s)[k] = s[n + 1 - k]
  <2> HIDE DEF s
  <2>. QED BY <1>2, ReverseIs
<1>4. v \in [0 .. n -> Nat] /\ v[0] = 0
  <2>1. \A k \in 0 .. n : h[n - k] \in Nat  BY <1>1
  <2>2. n - 0 = n /\ 0 \in 0 .. n  OBVIOUS
  <2>. QED BY <2>1, <2>2
<1>5. ASSUME NEW k \in 1 .. n  PROVE v[k] = Reverse(s)[k] + 2 * v[k - 1]
  <2> DEFINE m == n - k  a == h[m]  q == a \div 2  e == a % 2
  <2>1. /\ m \in 0 .. n - 1 /\ m \in 0 .. n /\ n + 1 - k = m + 1 /\ m + 1 \in 1 .. n
        /\ n - (k - 1) = m + 1 /\ (m + 1) - 1 = m /\ k - 1 \in 0 .. n /\ k \in 0 .. n
    OBVIOUS
  <2>2. a \in Nat /\ h[m + 1] = q  BY <2>1, <1>1
  <2>3. Reverse(s)[k] = s[m + 1]  BY <2>1, <1>3
  <2>4. s[m + 1] = e  BY <2>1
  <2>5. v[k] = a /\ v[k - 1] = h[m + 1]  BY <2>1
  <2>6. q \in Nat /\ e \in Nat /\ a = 2 * q + e  BY <2>2, Halving
  <2> HIDE DEF m, a, q, e, s, v
  <2>7. Reverse(s)[k] + 2 * v[k - 1] = e + 2 * q  BY <2>2, <2>3, <2>4, <2>5
  <2>. QED BY <2>5, <2>6, <2>7
<1>6. Highs(v, Reverse(s), n)
  <2> HIDE DEF v, s
  <2>. QED BY <1>4, <1>5 DEF Highs
<1>. QED BY <1>2, <1>6

----------------------------------------------------------------------------
(* The conjunction of bits.                                                *)

AllOnes(v, k) == IF \A j \in 1 .. k : v[j] = 1 THEN 1 ELSE 0

LEMMA AllOnesStep ==
    ASSUME OddPrime, NEW n \in Nat, NEW v \in Strings(n), NEW k \in 2 .. n
    PROVE  Gadget!bit_and(AllOnes(v, k - 1), v[k]) = {AllOnes(v, k)}
<1>1. v[k] \in {0, 1} /\ AllOnes(v, k - 1) \in {0, 1}  BY DEF Strings, Bits, AllOnes
<1>2. (\A j \in 1 .. k : v[j] = 1) <=> (\A j \in 1 .. k - 1 : v[j] = 1) /\ v[k] = 1
  <2>1. k \in 1 .. k /\ \A j \in 1 .. k - 1 : j \in 1 .. k  OBVIOUS
  <2>2. \A j \in 1 .. k : j \in 1 .. k - 1 \/ j = k  OBVIOUS
  <2>. QED BY <2>1, <2>2
<1> DEFINE x == AllOnes(v, k - 1)  y == v[k]
<1>3. AllOnes(v, k) = IF x = 1 /\ y = 1 THEN 1 ELSE 0  BY <1>2 DEF AllOnes
<1>4. Gadget!bit_and(x, y) = {x * y}  BY <1>1, BitGates
<1>5. x * y = IF x = 1 /\ y = 1 THEN 1 ELSE 0
  <2>1. x \in {0, 1} /\ y \in {0, 1}  BY <1>1
  <2> HIDE DEF x, y
  <2>. QED BY <2>1
<1>. QED BY <1>3, <1>4, <1>5

LEMMA KaryAnd ==
    ASSUME OddPrime, NEW n \in Nat \ {0}, NEW v \in Strings(n)
    PROVE  Gadget!kary_and(v) = {AllOnes(v, n)}
<1> DEFINE Is(g) == g = [k \in 1 .. n |->
                          IF k = 1 THEN {v[1]} ELSE UNION {Gadget!bit_and(a, v[k]) : a \in g[k - 1]}]
           G == CHOOSE g : Is(g)
           w == [k \in 1 .. n |-> {AllOnes(v, k)}]
<1>1. Len(v) = n  BY ReverseIs
<1>2. Gadget!kary_and(v) = G[n]  BY <1>1 DEF Gadget!kary_and
<1>3. AllOnes(v, 1) = v[1]  BY DEF AllOnes, Strings, Bits
<1>4. ASSUME NEW k \in 2 .. n, NEW S, S = {AllOnes(v, k - 1)}
      PROVE  UNION {Gadget!bit_and(a, v[k]) : a \in S} = {AllOnes(v, k)}
  <2>1. UNION {Gadget!bit_and(a, v[k]) : a \in S} = Gadget!bit_and(AllOnes(v, k - 1), v[k])
    BY <1>4
  <2>. QED BY <2>1, AllOnesStep
<1>5. Is(w)
  <2> DEFINE r(k) == IF k = 1 THEN {v[1]} ELSE UNION {Gadget!bit_and(a, v[k]) : a \in w[k - 1]}
  <2>1. ASSUME NEW k \in 1 .. n  PROVE w[k] = r(k)
    <3>1. CASE k = 1  BY <3>1, <1>3
    <3>2. CASE k # 1
      <4>1. k \in 2 .. n /\ k - 1 \in 1 .. n  BY <3>2
      <4>2. w[k - 1] = {AllOnes(v, k - 1)}  BY <4>1
      <4>3. UNION {Gadget!bit_and(a, v[k]) : a \in w[k - 1]} = {AllOnes(v, k)}
        <5> HIDE DEF w
        <5>. QED BY <4>1, <4>2, <1>4
      <4>. QED BY <3>2, <4>3
    <3>. QED BY <3>1, <3>2
  <2>2. w = [k \in 1 .. n |-> w[k]]  OBVIOUS
  <2>3. w = [k \in 1 .. n |-> r(k)]
    <3> HIDE DEF r, w
    <3>. QED BY <2>1, <2>2
  <2>. QED BY <2>3
<1>6. Is(G)
  <2> HIDE DEF w, Is
  <2>. QED BY <1>5
<1> HIDE DEF G
<1>11. \A k \in 1 .. n : k # 1 => G[k] = UNION {Gadget!bit_and(a, v[k]) : a \in G[k - 1]}
  BY <1>6
<1> DEFINE T == {k \in 0 .. n - 1 : G[k + 1] = {AllOnes(v, k + 1)}}
<1>7. 0 \in T
  <2>1. 1 \in 1 .. n /\ 0 \in 0 .. n - 1 /\ 0 + 1 = 1  OBVIOUS
  <2>2. G[1] = {v[1]}  BY <2>1, <1>6
  <2>. QED BY <2>1, <2>2, <1>3
<1>8. ASSUME NEW k \in 0 .. (n - 1) - 1, k \in T  PROVE k + 1 \in T
  <2> DEFINE j == k + 2
  <2>1. j \in 2 .. n /\ j \in 1 .. n /\ j # 1 /\ j - 1 = k + 1 /\ (k + 1) + 1 = j /\ k + 1 \in 0 .. n - 1
    OBVIOUS
  <2>2. G[j] = UNION {Gadget!bit_and(a, v[j]) : a \in G[j - 1]}
    <3> HIDE DEF j, T
    <3>. QED BY <2>1, <1>11
  <2>3. G[j - 1] = {AllOnes(v, j - 1)}  BY <1>8, <2>1
  <2>4. G[j] = {AllOnes(v, j)}
    <3> HIDE DEF j, Is, T
    <3>. QED BY <2>1, <2>2, <2>3, <1>4
  <2>. QED BY <2>1, <2>4
<1>9. n - 1 \in T
  <2>1. n - 1 \in Nat /\ n - 1 \in 0 .. n - 1  OBVIOUS
  <2> HIDE DEF T
  <2>. QED BY <1>7, <1>8, <2>1, InductionTo
<1>10. (n - 1) + 1 = n  OBVIOUS
<1>. QED BY <1>2, <1>9, <1>10

----------------------------------------------------------------------------
(* The number a string of bits writes, the highest bit first.              *)

Value(t) == CHOOSE x : \E v : Highs(v, t, Len(t)) /\ x = v[Len(t)]

LEMMA ValueIs ==
    ASSUME NEW n \in Nat, NEW t \in Strings(n), NEW v, Highs(v, t, n)
    PROVE  Value(t) = v[n] /\ Value(t) \in Nat
<1>1. Len(t) = n  BY ReverseIs
<1> DEFINE Is(x) == \E w : Highs(w, t, n) /\ x = w[n]
<1>2. Value(t) = CHOOSE x : Is(x)  BY <1>1 DEF Value
<1>3. Is(v[n])  OBVIOUS
<1>4. \A x : Is(x) => x = v[n]
  <2>1. ASSUME NEW w, Highs(w, t, n)  PROVE w[n] = v[n]
    <3>1. n \in 0 .. n  OBVIOUS
    <3>. QED BY <2>1, <3>1, HighsAgree
  <2>. QED BY <2>1
<1>5. v[n] \in Nat  BY DEF Highs
<1> HIDE DEF Is
<1>. QED BY <1>2, <1>3, <1>4, <1>5

LEMMA ValueStep ==
    ASSUME NEW n \in Nat, NEW t \in Strings(n), NEW a \in Bits
    PROVE  /\ Append(t, a) \in Strings(n + 1) /\ Value(t) \in Nat
           /\ Value(Append(t, a)) = a + 2 * Value(t)
<1> DEFINE s == Append(t, a)
<1>1. Len(t) = n /\ t \in Seq(Bits)  BY ReverseIs
<1>2. s \in Strings(n + 1) /\ s[n + 1] = a /\ \A k \in 1 .. n : s[k] = t[k]
  <2>1. s \in Seq(Bits) /\ Len(s) = n + 1 /\ s[n + 1] = a /\ \A k \in 1 .. n : s[k] = t[k]
    BY <1>1, AppendProperties
  <2> HIDE DEF s
  <2>2. s \in [1 .. Len(s) -> Bits]  BY <2>1, LenProperties
  <2>. QED BY <2>1, <2>2 DEF Strings
<1> HIDE DEF s
<1>3. PICK v : Highs(v, s, n + 1)  BY <1>2, HighsExist
<1>4. PICK w : Highs(w, t, n)  BY HighsExist
<1>5. v[n] = w[n]
  <2>1. n \in 0 .. n /\ n \in 0 .. n + 1 /\ n + 1 \in Nat  OBVIOUS
  <2>. QED BY <1>2, <1>3, <1>4, <2>1, HighsAgree
<1>6. Value(s) = v[n + 1] /\ Value(t) = w[n] /\ Value(t) \in Nat  BY <1>2, <1>3, <1>4, ValueIs
<1>7. v[n + 1] = s[n + 1] + 2 * v[n]
  <2>1. n + 1 \in 1 .. n + 1 /\ (n + 1) - 1 = n  OBVIOUS
  <2>. QED BY <1>3, <2>1 DEF Highs
<1>. QED BY <1>2, <1>5, <1>6, <1>7 DEF s

LEMMA PackedValue ==
    ASSUME NEW n \in Nat, NEW s \in Strings(n)
    PROVE  Gadget!packed(s) = Value(Reverse(s)) /\ Gadget!packed(s) \in Nat
<1>1. Reverse(s) \in Strings(n)  BY ReverseIs
<1>2. PICK v : Highs(v, Reverse(s), n)  BY <1>1, HighsExist
<1>. QED BY <1>1, <1>2, ValueIs, PackedIs

\* Only the empty string begins every string.
LEMMA ValueEmpty == <<>> \in Strings(0) /\ Value(<<>>) = 0
<1>1. <<>> \in Strings(0)  BY DEF Strings
<1>2. PICK v : Highs(v, <<>>, 0)  BY <1>1, HighsExist
<1>3. v[0] = 0  BY <1>2 DEF Highs
<1>. QED BY <1>1, <1>2, <1>3, ValueIs
----------------------------------------------------------------------------
(* The bits of the strict decomposition.                                   *)

Partial == [bits : Seq(Bits), run : Seq(Bits), last : Seq(Bits)]

\* Whether all the bits where -1 has a one are ones.
Full(s) == (\A j \in 1 .. Len(s.run) : s.run[j] = 1) /\ (\A j \in 1 .. Len(s.last) : s.last[j] = 1)

LEMMA RunBits ==
    ASSUME OddPrime, NEW s \in Partial, s.run # <<>>
    PROVE  LET v == s.run \o s.last IN Gadget!kary_and(v) = {AllOnes(v, Len(v))}
<1> DEFINE v == s.run \o s.last  n == Len(v)
<1>1. s.run \in Seq(Bits) /\ s.last \in Seq(Bits)  BY DEF Partial
<1>2. v \in Seq(Bits) /\ n \in Nat \ {0}
  <2>1. Len(s.run) \in Nat \ {0} /\ Len(s.last) \in Nat  BY <1>1, EmptySeq, LenProperties
  <2>2. v \in Seq(Bits) /\ n = Len(s.run) + Len(s.last)  BY <1>1, ConcatProperties
  <2>3. \A a \in Nat \ {0}, b \in Nat : a + b \in Nat \ {0}  OBVIOUS
  <2> HIDE DEF v, n
  <2>4. n \in Nat \ {0}  BY <2>1, <2>2, <2>3
  <2>. QED BY <2>2, <2>4
<1>3. v \in Strings(n)
  <2>1. v \in [1 .. n -> Bits]
    <3> HIDE DEF v
    <3>. QED BY <1>2, LenProperties
  <2>. QED BY <2>1 DEF Strings
<1> HIDE DEF v, n
<1>4. Gadget!kary_and(v) = {AllOnes(v, n)}  BY <1>2, <1>3, KaryAnd
<1>. QED BY <1>4 DEF v, n

LEMMA OnesSoFarBits ==
    ASSUME OddPrime, NEW s \in Partial
    PROVE  Gadget!ones_so_far(s) \subseteq {0, 1}
<1>1. CASE s.run = <<>>
  <2>1. s.last \in Seq(Bits)  BY DEF Partial
  <2>2. Gadget!ToSet(s.last) \subseteq Bits  BY <2>1, LenProperties, ElementOfSeq DEF Gadget!ToSet
  <2>. QED BY <1>1, <2>2 DEF Gadget!ones_so_far, Bits
<1>2. CASE s.run # <<>>
  <2> DEFINE v == s.run \o s.last
  <2>1. Gadget!ones_so_far(s) = Gadget!kary_and(v)  BY <1>2 DEF Gadget!ones_so_far
  <2>2. Gadget!kary_and(v) = {AllOnes(v, Len(v))}  BY <1>2, RunBits
  <2> HIDE DEF v
  <2>. QED BY <2>1, <2>2 DEF AllOnes
<1>. QED BY <1>1, <1>2

LEMMA OnesSoFar ==
    ASSUME OddPrime, NEW s \in Partial, s.last = <<>> \/ Len(s.last) = 1,
           s.run # <<>> \/ s.last # <<>>
    PROVE  Gadget!ones_so_far(s) = {IF Full(s) THEN 1 ELSE 0}
<1>1. s.run \in Seq(Bits) /\ s.last \in Seq(Bits)  BY DEF Partial
<1>2. CASE s.run = <<>>
  <2>1. Len(s.last) = 1 /\ DOMAIN s.last = 1 .. 1 /\ s.last[1] \in Bits
    <3>1. Len(s.last) = 1  BY <1>2
    <3>2. 1 \in 1 .. Len(s.last)  BY <3>1
    <3>. QED BY <1>1, <3>1, <3>2, LenProperties, ElementOfSeq
  <2>2. Gadget!ToSet(s.last) = {s.last[1]}  BY <2>1 DEF Gadget!ToSet
  <2>3. Len(s.run) = 0  BY <1>2
  <2>4. Full(s) <=> s.last[1] = 1  BY <2>1, <2>3 DEF Full
  <2>. QED BY <1>2, <2>1, <2>2, <2>4 DEF Gadget!ones_so_far, Bits
<1>3. CASE s.run # <<>>
  <2> DEFINE v == s.run \o s.last  m == Len(s.run)  n == Len(s.last)
  <2>1. /\ m \in Nat /\ n \in Nat /\ Len(v) = m + n
        /\ \A j \in 1 .. m : v[j] = s.run[j]
        /\ \A j \in 1 .. n : v[m + j] = s.last[j]
    <3>1. m \in Nat /\ n \in Nat  BY <1>1, LenProperties
    <3>2. Len(v) = m + n /\ \A i \in 1 .. m + n : v[i] = IF i <= m THEN s.run[i] ELSE s.last[i - m]
      BY <1>1, ConcatProperties
    <3> HIDE DEF v, m, n
    <3>3. ASSUME NEW j \in 1 .. m  PROVE v[j] = s.run[j]
      <4>1. j \in 1 .. m + n /\ j <= m  BY <3>1
      <4>. QED BY <3>2, <4>1
    <3>4. ASSUME NEW j \in 1 .. n  PROVE v[m + j] = s.last[j]
      <4>1. m + j \in 1 .. m + n /\ ~ (m + j <= m) /\ (m + j) - m = j  BY <3>1
      <4>. QED BY <3>2, <4>1
    <3>. QED BY <3>1, <3>2, <3>3, <3>4
  <2> HIDE DEF v, m, n
  <2>2. (\A j \in 1 .. m + n : v[j] = 1) <=> Full(s)
    <3>1. ASSUME \A j \in 1 .. m + n : v[j] = 1  PROVE Full(s)
      <4>1. \A j \in 1 .. m : j \in 1 .. m + n  BY <2>1
      <4>2. \A j \in 1 .. n : m + j \in 1 .. m + n  BY <2>1
      <4>. QED BY <2>1, <3>1, <4>1, <4>2 DEF Full, m, n
    <3>2. ASSUME Full(s), NEW j \in 1 .. m + n  PROVE v[j] = 1
      <4>1. CASE j \in 1 .. m  BY <2>1, <3>2, <4>1 DEF Full, m
      <4>2. CASE j \notin 1 .. m
        <5>1. j - m \in 1 .. n /\ m + (j - m) = j  BY <2>1, <4>2
        <5>2. v[m + (j - m)] = s.last[j - m]  BY <2>1, <5>1
        <5>. QED BY <2>1, <3>2, <5>1, <5>2 DEF Full, n
      <4>. QED BY <4>1, <4>2
    <3>. QED BY <3>1, <3>2
  <2>3. Gadget!ones_so_far(s) = {AllOnes(v, m + n)}
    <3>1. Gadget!ones_so_far(s) = Gadget!kary_and(v)  BY <1>3 DEF Gadget!ones_so_far, v
    <3>2. Gadget!kary_and(v) = {AllOnes(v, Len(v))}  BY <1>3, RunBits DEF v
    <3>. QED BY <3>1, <3>2, <2>1
  <2>. QED BY <2>2, <2>3 DEF AllOnes
<1>. QED BY <1>2, <1>3

----------------------------------------------------------------------------
(* After k bits: they write at most top, and top itself if all the bits     *)
(* where -1 has a one are ones.                                             *)
Strict(s, k, top) ==
    /\ s \in Partial /\ s.bits \in Strings(k)
    /\ s.last = <<>> \/ Len(s.last) = 1
    /\ k > 0 => s.run # <<>> \/ s.last # <<>>
    /\ IF Full(s) THEN Value(s.bits) = top ELSE Value(s.bits) < top

LEMMA FullAppend ==
    ASSUME NEW v \in Seq(Bits), NEW a \in Bits
    PROVE  /\ Append(v, a) \in Seq(Bits) /\ Append(v, a) # <<>>
           /\ (\A j \in 1 .. Len(Append(v, a)) : Append(v, a)[j] = 1)
                <=> (\A j \in 1 .. Len(v) : v[j] = 1) /\ a = 1
<1> DEFINE w == Append(v, a)  n == Len(v)
<1>1. w \in Seq(Bits) /\ w # <<>> /\ Len(w) = n + 1 /\ w[n + 1] = a /\ \A k \in 1 .. n : w[k] = v[k]
  BY AppendProperties
<1>2. n \in Nat  BY LenProperties
<1> HIDE DEF w, n
<1>3. n + 1 \in 1 .. n + 1 /\ \A j \in 1 .. n + 1 : j \in 1 .. n \/ j = n + 1  BY <1>2
<1>4. (\A j \in 1 .. n + 1 : w[j] = 1) <=> (\A j \in 1 .. n : v[j] = 1) /\ a = 1
  <2>1. \A j \in 1 .. n : j \in 1 .. n + 1  BY <1>2
  <2>. QED BY <1>1, <1>3, <2>1
<1>. QED BY <1>1, <1>4 DEF w, n

\* Where -1 has a one.
LEMMA StrictOne ==
    ASSUME OddPrime, NEW k \in Nat, NEW top \in Nat, NEW s, Strict(s, k, top), NEW a \in Bits
    PROVE  LET t == [s EXCEPT !.bits = Append(@, a), !.run = Append(@, a)]
           IN  t.bits = Append(s.bits, a) /\ Strict(t, k + 1, 1 + 2 * top)
<1> DEFINE t == [s EXCEPT !.bits = Append(@, a), !.run = Append(@, a)]
           x == Value(s.bits)
<1>1. /\ s \in Partial /\ s.bits \in Strings(k) /\ (s.last = <<>> \/ Len(s.last) = 1)
      /\ IF Full(s) THEN x = top ELSE x < top
  BY DEF Strict
<1>2. s.bits \in Seq(Bits) /\ s.run \in Seq(Bits) /\ s.last \in Seq(Bits)  BY <1>1 DEF Partial
<1>3. t.bits = Append(s.bits, a) /\ t.run = Append(s.run, a) /\ t.last = s.last  BY <1>1 DEF Partial
<1>4. t \in Partial
  <2>1. Append(s.bits, a) \in Seq(Bits) /\ Append(s.run, a) \in Seq(Bits)  BY <1>2, FullAppend
  <2>. QED BY <1>1, <2>1 DEF Partial
<1>5. t.bits \in Strings(k + 1) /\ Value(t.bits) = a + 2 * x /\ x \in Nat
  BY <1>1, <1>3, ValueStep
<1>6. Full(t) <=> Full(s) /\ a = 1
  <2>1. (\A j \in 1 .. Len(t.run) : t.run[j] = 1) <=> (\A j \in 1 .. Len(s.run) : s.run[j] = 1) /\ a = 1
    BY <1>2, <1>3, FullAppend
  <2> HIDE DEF t
  <2>. QED BY <2>1, <1>3 DEF Full
<1>7. t.run # <<>>  BY <1>2, <1>3, FullAppend
<1>8. IF Full(t) THEN Value(t.bits) = 1 + 2 * top ELSE Value(t.bits) < 1 + 2 * top
  <2> HIDE DEF t, x
  <2>. QED BY <1>1, <1>5, <1>6 DEF Bits
<1> HIDE DEF t
<1>9. Strict(t, k + 1, 1 + 2 * top)  BY <1>1, <1>3, <1>4, <1>5, <1>7, <1>8 DEF Strict
<1>. QED BY <1>3, <1>9 DEF t

\* Where -1 has a zero.
LEMMA StrictZero ==
    ASSUME OddPrime, NEW k \in Nat, NEW top \in Nat, NEW s, Strict(s, k, top),
           NEW r, r = IF Full(s) THEN 1 ELSE 0, NEW a \in IF r = 1 THEN {0} ELSE {0, 1}
    PROVE  LET t == [bits |-> Append(s.bits, a), run |-> <<>>, last |-> <<r>>]
           IN  t.bits = Append(s.bits, a) /\ Strict(t, k + 1, 2 * top)
<1> DEFINE t == [bits |-> Append(s.bits, a), run |-> <<>>, last |-> <<r>>]
           x == Value(s.bits)
<1>1. s \in Partial /\ s.bits \in Strings(k) /\ IF Full(s) THEN x = top ELSE x < top
  BY DEF Strict
<1>2. s.bits \in Seq(Bits)  BY <1>1 DEF Partial
<1>3. t.bits = Append(s.bits, a) /\ t.run = <<>> /\ t.last = <<r>>  OBVIOUS
<1>4. r \in Bits /\ a \in Bits  BY DEF Bits
<1>5. t \in Partial
  <2>1. Append(s.bits, a) \in Seq(Bits)  BY <1>2, <1>4, FullAppend
  <2>2. <<>> \in Seq(Bits) /\ <<r>> \in Seq(Bits)  BY <1>4
  <2>. QED BY <2>1, <2>2 DEF Partial
<1>6. t.bits \in Strings(k + 1) /\ Value(t.bits) = a + 2 * x /\ x \in Nat
  BY <1>1, <1>3, <1>4, ValueStep
<1>7. Len(t.last) = 1 /\ t.last # <<>> /\ t.last[1] = r /\ Len(t.run) = 0  OBVIOUS
<1>8. Full(t) <=> r = 1
  <2> HIDE DEF t
  <2>. QED BY <1>7 DEF Full
<1>9. IF Full(t) THEN Value(t.bits) = 2 * top ELSE Value(t.bits) < 2 * top
  <2> HIDE DEF t, x
  <2>1. CASE Full(s)
    <3>1. a = 0 /\ r = 1 /\ x = top  BY <1>1, <2>1
    <3>. QED BY <1>6, <1>8, <3>1
  <2>2. CASE ~ Full(s)
    <3>1. a \in {0, 1} /\ r = 0 /\ x < top  BY <1>1, <2>2
    <3>2. ~ Full(t)  BY <1>8, <3>1
    <3>3. a + 2 * x < 2 * top  BY <1>6, <3>1
    <3>. QED BY <1>6, <3>2, <3>3
  <2>. QED BY <2>1, <2>2
<1> HIDE DEF t
<1>10. Strict(t, k + 1, 2 * top)  BY <1>5, <1>6, <1>7, <1>9 DEF Strict
<1>. QED BY <1>3, <1>10 DEF t

LEMMA StrictBit ==
    ASSUME OddPrime, NEW s \in Partial
    PROVE  /\ Gadget!strict_bit(s, 1) =
                {[s EXCEPT !.bits = Append(@, a), !.run = Append(@, a)] : a \in Bits}
           /\ Gadget!strict_bit(s, 0) =
                UNION {{[bits |-> Append(s.bits, a), run |-> <<>>, last |-> <<r>>] :
                          a \in IF r = 1 THEN {0} ELSE {0, 1}} : r \in Gadget!ones_so_far(s)}
<1>1. Gadget!alloc_bit = Bits  BY AllocBit DEF Bits
<1>2. \A r \in Gadget!ones_so_far(s) :
         Gadget!alloc_conditionally(r) = IF r = 1 THEN {0} ELSE {0, 1}
  BY OnesSoFarBits, AllocConditionally
<1>. QED BY <1>1, <1>2 DEF Gadget!strict_bit

LEMMA StrictBitIn ==
    ASSUME OddPrime, NEW s \in Partial, NEW b \in Bits
    PROVE  Gadget!strict_bit(s, b) \subseteq Partial
<1>1. s.bits \in Seq(Bits) /\ s.run \in Seq(Bits) /\ s.last \in Seq(Bits)  BY DEF Partial
<1>2. CASE b = 1
  <2> DEFINE t(a) == [s EXCEPT !.bits = Append(@, a), !.run = Append(@, a)]
  <2>1. ASSUME NEW a \in Bits  PROVE t(a) \in Partial
    <3>1. Append(s.bits, a) \in Seq(Bits) /\ Append(s.run, a) \in Seq(Bits)  BY <1>1, FullAppend
    <3>. QED BY <3>1 DEF Partial
  <2>2. Gadget!strict_bit(s, b) = {t(a) : a \in Bits}  BY <1>2, StrictBit
  <2> HIDE DEF t
  <2>. QED BY <2>1, <2>2
<1>3. CASE b = 0
  <2> DEFINE t(r, a) == [bits |-> Append(s.bits, a), run |-> <<>>, last |-> <<r>>]
             A(r) == IF r = 1 THEN {0} ELSE {0, 1}
  <2>1. ASSUME NEW r \in Bits, NEW a \in Bits  PROVE t(r, a) \in Partial
    <3>1. Append(s.bits, a) \in Seq(Bits)  BY <1>1, FullAppend
    <3>2. <<>> \in Seq(Bits) /\ <<r>> \in Seq(Bits)  OBVIOUS
    <3>. QED BY <3>1, <3>2 DEF Partial
  <2>2. Gadget!ones_so_far(s) \subseteq Bits  BY OnesSoFarBits DEF Bits
  <2>3. \A r \in Bits : A(r) \subseteq Bits  BY DEF Bits
  <2>4. Gadget!strict_bit(s, b) = UNION {{t(r, a) : a \in A(r)} : r \in Gadget!ones_so_far(s)}
    BY <1>3, StrictBit
  <2> HIDE DEF t, A
  <2>. QED BY <2>1, <2>2, <2>3, <2>4
<1>. QED BY <1>2, <1>3 DEF Bits

\* A step keeps what is written at most -1, and any bit that does can be taken.
LEMMA StrictStep ==
    ASSUME OddPrime, NEW k \in Nat, NEW top \in Nat, NEW s, Strict(s, k, top),
           NEW b \in Bits, b = 0 => k > 0
    PROVE  /\ \A t \in Gadget!strict_bit(s, b) : Strict(t, k + 1, b + 2 * top)
           /\ \A a \in Bits : a + 2 * Value(s.bits) <= b + 2 * top =>
                 \E t \in Gadget!strict_bit(s, b) : t.bits = Append(s.bits, a)
<1>1. /\ s \in Partial /\ s.bits \in Strings(k)
      /\ (s.last = <<>> \/ Len(s.last) = 1)
      /\ (k > 0 => s.run # <<>> \/ s.last # <<>>)
      /\ IF Full(s) THEN Value(s.bits) = top ELSE Value(s.bits) < top
  BY DEF Strict
<1>2. CASE b = 1
  <2> DEFINE t(a) == [s EXCEPT !.bits = Append(@, a), !.run = Append(@, a)]
  <2>1. Gadget!strict_bit(s, b) = {t(a) : a \in Bits}  BY <1>1, <1>2, StrictBit
  <2>2. \A a \in Bits : t(a).bits = Append(s.bits, a) /\ Strict(t(a), k + 1, 1 + 2 * top)
    BY StrictOne
  <2> HIDE DEF t
  <2>. QED BY <1>2, <2>1, <2>2
<1>3. CASE b = 0
  <2> DEFINE r == IF Full(s) THEN 1 ELSE 0
             t(a) == [bits |-> Append(s.bits, a), run |-> <<>>, last |-> <<r>>]
             A == IF r = 1 THEN {0} ELSE {0, 1}
  <2>1. Gadget!ones_so_far(s) = {r}  BY <1>1, <1>3, OnesSoFar
  <2>2. Gadget!strict_bit(s, b) = {t(a) : a \in A}
    <3>1. Gadget!strict_bit(s, 0) =
            UNION {{[bits |-> Append(s.bits, a), run |-> <<>>, last |-> <<q>>] :
                      a \in IF q = 1 THEN {0} ELSE {0, 1}} : q \in {r}}
      BY <1>1, <2>1, StrictBit
    <3> HIDE DEF r
    <3>. QED BY <1>3, <3>1
  <2>3. \A a \in A : t(a).bits = Append(s.bits, a) /\ Strict(t(a), k + 1, 2 * top)
    BY StrictZero
  <2>4. 0 + 2 * top = 2 * top  OBVIOUS
  <2>5. ASSUME NEW a \in Bits, a + 2 * Value(s.bits) <= 0 + 2 * top  PROVE a \in A
    <3>1. CASE Full(s)
      <4>1. Value(s.bits) = top  BY <1>1, <3>1
      <4>2. a = 0  BY <2>5, <4>1 DEF Bits
      <4>. QED BY <4>2
    <3>2. CASE ~ Full(s)  BY <3>2 DEF Bits
    <3>. QED BY <3>1, <3>2
  <2> HIDE DEF t, A, r
  <2>. QED BY <1>3, <2>2, <2>3, <2>4, <2>5
<1>. QED BY <1>2, <1>3 DEF Bits

Start == [bits |-> <<>>, run |-> <<>>, last |-> <<>>]

LEMMA StrictStart == Start \in Partial /\ Strict(Start, 0, 0)
<1>1. Start \in Partial  BY DEF Start, Partial
<1>2. Start.bits = <<>> /\ Start.run = <<>> /\ Start.last = <<>>  BY DEF Start
<1>3. Full(Start)
  <2>1. Len(Start.run) = 0 /\ Len(Start.last) = 0  BY <1>2
  <2>. QED BY <2>1 DEF Full
<1>. QED BY <1>1, <1>2, <1>3, ValueEmpty DEF Strict

MinusOne == Gadget!Reverse(Gadget!bits_of(P - 1))

Reversed(S, x) == {bits \in {Gadget!Reverse(s.bits) : s \in S} : Gadget!packed(bits) % P = x}
After(S, b) == UNION {Gadget!strict_bit(s, b) : s \in S}

\* The results of the bits so far.
LEMMA StrictTable ==
    ASSUME OddPrime, NEW x, NEW n \in Nat, Len(MinusOne) = n, NEW m \in Strings(n), MinusOne = m
    PROVE  \E all :
             /\ all \in [0 .. n -> SUBSET Partial] /\ all[0] = {Start}
             /\ \A k \in 0 .. n - 1 : all[k + 1] = After(all[k], m[k + 1])
             /\ Gadget!to_bits_le_strict(x) = Reversed(all[n], x)
<1> DEFINE Is(g) == g = [k \in 0 .. n |->
                IF k = 0 THEN {Start} ELSE UNION {Gadget!strict_bit(s, m[k]) : s \in g[k - 1]}]
           G == CHOOSE g : Is(g)
           H == [k \in 0 .. n - 1 |-> [S \in SUBSET Partial |->
                    UNION {Gadget!strict_bit(s, m[k + 1]) : s \in S}]]
<1>1. Gadget!to_bits_le_strict(x) =
        LET all == CHOOSE g : g = [k \in 0 .. Len(MinusOne) |->
                       IF k = 0 THEN {Start}
                       ELSE UNION {Gadget!strict_bit(s, MinusOne[k]) : s \in g[k - 1]}]
        IN  {bits \in {Gadget!Reverse(s.bits) : s \in all[Len(MinusOne)]} : Gadget!packed(bits) % P = x}
  BY DEF Gadget!to_bits_le_strict, Start, MinusOne
<1>2. Gadget!to_bits_le_strict(x) =
        {bits \in {Gadget!Reverse(s.bits) : s \in G[n]} : Gadget!packed(bits) % P = x}
  BY ONLY <1>1, Len(MinusOne) = n, MinusOne = m
<1>3. \A k \in 0 .. n - 1 : \A S \in SUBSET Partial :
         H[k][S] = UNION {Gadget!strict_bit(s, m[k + 1]) : s \in S}
  OBVIOUS
<1> HIDE DEF H
<1>4. StepsIn(H, n, SUBSET Partial)
  <2>1. ASSUME NEW k \in 0 .. n - 1, NEW S \in SUBSET Partial  PROVE H[k][S] \in SUBSET Partial
    <3>1. m[k + 1] \in Bits  BY DEF Strings
    <3>2. \A s \in S : Gadget!strict_bit(s, m[k + 1]) \subseteq Partial  BY <3>1, StrictBitIn
    <3>. QED BY <1>3, <3>2
  <2>. QED BY <2>1 DEF StepsIn
<1>5. PICK g : Recursion(g, n, SUBSET Partial, {Start}, H)
  <2>1. {Start} \in SUBSET Partial  BY StrictStart
  <2>. QED BY <1>4, <2>1, RecursionTo
<1>6. /\ g \in [0 .. n -> SUBSET Partial] /\ g[0] = {Start}
      /\ \A k \in 0 .. n - 1 : g[k + 1] = H[k][g[k]]
  BY <1>5 DEF Recursion
<1>7. \A k \in 0 .. n - 1 : g[k + 1] = UNION {Gadget!strict_bit(s, m[k + 1]) : s \in g[k]}
  <2> TAKE k \in 0 .. n - 1
  <2>1. g[k] \in SUBSET Partial  BY <1>6
  <2>. QED BY <1>3, <1>6, <2>1
<1>8. Is(g)
  <2> DEFINE v(k) == IF k = 0 THEN {Start} ELSE UNION {Gadget!strict_bit(s, m[k]) : s \in g[k - 1]}
  <2>1. ASSUME NEW k \in 0 .. n  PROVE g[k] = v(k)
    <3>1. CASE k = 0  BY <3>1, <1>6
    <3>2. CASE k # 0
      <4>1. k - 1 \in 0 .. n - 1 /\ (k - 1) + 1 = k  BY <3>2
      <4>2. g[(k - 1) + 1] = UNION {Gadget!strict_bit(s, m[(k - 1) + 1]) : s \in g[k - 1]}  BY <4>1, <1>7
      <4>. QED BY <4>1, <4>2, <3>2
    <3>. QED BY <3>1, <3>2
  <2>2. g = [k \in 0 .. n |-> g[k]]  BY <1>6
  <2>3. g = [k \in 0 .. n |-> v(k)]
    <3> HIDE DEF v
    <3>. QED BY <2>1, <2>2
  <2>. QED BY <2>3
<1>9. Is(G)
  <2> HIDE DEF Is
  <2>. QED BY <1>8
<1> HIDE DEF G
<1>10. DOMAIN G = 0 .. n /\ G[0] = {Start}  BY <1>9
<1>11. \A k \in 0 .. n : k # 0 => G[k] = UNION {Gadget!strict_bit(s, m[k]) : s \in G[k - 1]}
  BY <1>9
<1>12. \A k \in 0 .. n - 1 : G[k + 1] = UNION {Gadget!strict_bit(s, m[k + 1]) : s \in G[k]}
  <2> TAKE k \in 0 .. n - 1
  <2>1. k + 1 \in 0 .. n /\ k + 1 # 0 /\ (k + 1) - 1 = k  OBVIOUS
  <2>2. G[k + 1] = UNION {Gadget!strict_bit(s, m[k + 1]) : s \in G[(k + 1) - 1]}  BY <2>1, <1>11
  <2>. QED BY <2>1, <2>2
<1> DEFINE T == {k \in 0 .. n : G[k] = g[k]}
<1>13. 0 \in T
  <2>1. 0 \in 0 .. n /\ G[0] = g[0]  BY <1>6, <1>10
  <2>. QED BY <2>1
<1>14. ASSUME NEW k \in 0 .. n - 1, k \in T  PROVE k + 1 \in T
  <2>1. k + 1 \in 0 .. n /\ G[k] = g[k]  BY <1>14
  <2>2. G[k + 1] = g[k + 1]  BY <2>1, <1>7, <1>12
  <2>. QED BY <2>1, <2>2
<1>15. n \in T
  <2>1. n \in 0 .. n  OBVIOUS
  <2> HIDE DEF T
  <2>. QED BY <1>13, <1>14, <2>1, InductionTo
<1>16. G[n] = g[n]  BY <1>15
<1>. QED BY <1>2, <1>6, <1>7, <1>16 DEF After, Reversed

----------------------------------------------------------------------------
(* The bits of the modulus.                                                *)

LEMMA HalvesPrefix ==
    ASSUME NEW x \in Nat, NEW m \in Nat, NEW h, Halves(h, x, m), NEW n \in 0 .. m
    PROVE  Halves([k \in 0 .. n |-> h[k]], x, n)
<1> DEFINE g == [k \in 0 .. n |-> h[k]]
<1>1. h \in [0 .. m -> Nat] /\ h[0] = x /\ \A k \in 0 .. m - 1 : h[k + 1] = h[k] \div 2
  BY DEF Halves
<1>2. \A k \in 0 .. n : g[k] = h[k] /\ k \in 0 .. m  OBVIOUS
<1>3. g \in [0 .. n -> Nat] /\ g[0] = x  BY <1>1, <1>2
<1>4. ASSUME NEW k \in 0 .. n - 1  PROVE g[k + 1] = g[k] \div 2
  <2>1. k \in 0 .. n /\ k + 1 \in 0 .. n /\ k \in 0 .. m - 1  OBVIOUS
  <2> HIDE DEF g
  <2>. QED BY <2>1, <1>1, <1>2
<1> HIDE DEF g
<1>5. Halves(g, x, n)  BY <1>3, <1>4 DEF Halves
<1>. QED BY <1>5 DEF g

LEMMA OddModulus ==
    ASSUME OddPrime
    PROVE  P % 2 = 1 /\ P \div 2 = (P - 1) \div 2
<1>1. P \in Nat /\ P > 2  BY Odd
<1>2. 2 % P # 0  BY <1>1
<1>3. PICK u \in F : (2 * u) % P = 1  BY <1>2, HasInverse
<1>4. u \in Int  BY InField
<1>5. PICK k \in Int : 2 * u = ((2 * u) % P) + k * P
  <2> DEFINE a == 2 * u
  <2>1. a \in Int  BY <1>4
  <2> HIDE DEF a
  <2>2. \E k \in Int : a = (a % P) + k * P  BY <2>1, Modulus
  <2>. QED BY <2>2 DEF a
<1>6. P % 2 # 0
  <2> SUFFICES ASSUME P % 2 = 0  PROVE FALSE  OBVIOUS
  <2> DEFINE q == P \div 2
  <2>1. q \in Int /\ P = 2 * q  BY <1>1
  <2> HIDE DEF q
  <2>2. 2 * u = 1 + k * P  BY <1>3, <1>5
  <2> DEFINE e == k * q
  <2>3. k * P = 2 * e /\ e \in Int  BY <2>1, <1>5
  <2> HIDE DEF e
  <2>4. 2 * u = 1 + 2 * e  BY <2>2, <2>3
  <2>. QED BY <1>4, <2>3, <2>4
<1>. QED BY <1>1, <1>6

LEMMA NumBits ==
    ASSUME OddPrime
    PROVE  /\ Gadget!NUM_BITS \in Nat /\ Len(MinusOne) = Gadget!NUM_BITS
           /\ MinusOne \in Strings(Gadget!NUM_BITS)
           /\ Gadget!NUM_BITS > 0 /\ MinusOne[1] = 1
           /\ \E d : Highs(d, MinusOne, Gadget!NUM_BITS) /\ d[Gadget!NUM_BITS] = P - 1
           /\ \E h : Halves(h, P, Gadget!NUM_BITS) /\ h[Gadget!NUM_BITS] = 0
<1>1. P \in Nat /\ P > 2 /\ P - 1 \in Nat  BY Odd
<1>2. PICK h, l : /\ Halves(h, P - 1, P - 1) /\ Length(h, P - 1, l)
                  /\ Gadget!bits_of(P - 1) = [k \in 1 .. l |-> h[k - 1] % 2]
  BY <1>1, BitsOf
<1>3. PICK g, n : /\ Halves(g, P, P) /\ Length(g, P, n)
                  /\ Gadget!bits_of(P) = [k \in 1 .. n |-> g[k - 1] % 2]
  BY <1>1, BitsOf
<1>4. /\ h \in [0 .. P - 1 -> Nat] /\ h[0] = P - 1
      /\ \A k \in 0 .. (P - 1) - 1 : h[k + 1] = h[k] \div 2
  BY <1>2 DEF Halves
<1>5. /\ g \in [0 .. P -> Nat] /\ g[0] = P
      /\ \A k \in 0 .. P - 1 : g[k + 1] = g[k] \div 2
  BY <1>3 DEF Halves
<1>6. l \in 0 .. P - 1 /\ h[l] = 0 /\ \A j \in 0 .. l - 1 : h[j] > 0  BY <1>2 DEF Length
<1>7. l \in Nat /\ l > 0  BY <1>1, <1>4, <1>6
<1>8. \A k \in 1 .. P - 1 : g[k] = h[k]
  <2> DEFINE T == {k \in 0 .. P - 2 : g[k + 1] = h[k + 1]}
  <2>1. 0 \in T
    <3>1. 0 \in 0 .. P - 2 /\ 0 \in 0 .. (P - 1) - 1 /\ 0 \in 0 .. P - 1  BY <1>1
    <3>2. g[0 + 1] = P \div 2 /\ h[0 + 1] = (P - 1) \div 2  BY <3>1, <1>4, <1>5
    <3>. QED BY <3>1, <3>2, OddModulus
  <2>2. ASSUME NEW k \in 0 .. (P - 2) - 1, k \in T  PROVE k + 1 \in T
    <3>1. k + 1 \in 0 .. P - 2 /\ k + 1 \in 0 .. P - 1 /\ k + 1 \in 0 .. (P - 1) - 1  BY <1>1
    <3>2. g[k + 1] = h[k + 1]  BY <2>2
    <3>3. g[(k + 1) + 1] = g[k + 1] \div 2 /\ h[(k + 1) + 1] = h[k + 1] \div 2
      BY <3>1, <1>4, <1>5
    <3>. QED BY <3>1, <3>2, <3>3
  <2>3. \A k \in 0 .. P - 2 : k \in T
    <3>1. P - 2 \in Nat  BY <1>1
    <3> HIDE DEF T
    <3>. QED BY <2>1, <2>2, <3>1, InductionTo
  <2> TAKE k \in 1 .. P - 1
  <2>4. k - 1 \in 0 .. P - 2 /\ (k - 1) + 1 = k  BY <1>1
  <2>5. k - 1 \in T  BY <2>3, <2>4
  <2>. QED BY <2>4, <2>5
<1>9. n = l
  <2>1. l \in 0 .. P /\ l \in 1 .. P - 1  BY <1>1, <1>6, <1>7
  <2>2. g[l] = 0  BY <1>6, <1>8, <2>1
  <2>3. ASSUME NEW j \in 0 .. l - 1  PROVE g[j] > 0
    <3>1. CASE j = 0  BY <3>1, <1>1, <1>5
    <3>2. CASE j # 0
      <4>1. j \in 1 .. P - 1  BY <1>1, <1>7, <2>1, <3>2
      <4>. QED BY <4>1, <1>6, <1>8
    <3>. QED BY <3>1, <3>2
  <2>4. Length(g, P, l)  BY <2>1, <2>2, <2>3 DEF Length
  <2>. QED BY <1>1, <1>3, <2>4, LengthUnique
<1>10. Gadget!NUM_BITS = l
  <2>1. Len([k \in 1 .. n |-> g[k - 1] % 2]) = n  BY <1>7, <1>9
  <2>. QED BY <1>3, <1>9, <2>1 DEF Gadget!NUM_BITS
<1> DEFINE f == [k \in 0 .. l |-> h[k]]
           s == [k \in 1 .. l |-> f[k - 1] % 2]
           d == [k \in 0 .. l |-> f[l - k]]
<1>11. Halves(f, P - 1, l) /\ f[l] = 0
  <2>1. l \in 0 .. l  BY <1>7
  <2>2. f[l] = 0  BY <1>6, <2>1
  <2>3. Halves(f, P - 1, l)  BY <1>1, <1>2, <1>6, HalvesPrefix
  <2>. QED BY <2>2, <2>3
<1>12. s \in Strings(l) /\ Highs(d, Reverse(s), l)
  <2> HIDE DEF f
  <2>. QED BY <1>1, <1>7, <1>11, HighsOfBits
<1>13. Gadget!bits_of(P - 1) = s
  <2>1. \A k \in 1 .. l : k - 1 \in 0 .. l /\ f[k - 1] = h[k - 1]  BY <1>7
  <2> HIDE DEF f
  <2>. QED BY <1>2, <2>1
<1> HIDE DEF s
<1>14. MinusOne = Reverse(s)  BY <1>13 DEF MinusOne, Gadget!Reverse, Reverse
<1>15. MinusOne \in Strings(l) /\ Len(MinusOne) = l
  <2>1. Reverse(s) \in Strings(l)  BY <1>7, <1>12, ReverseIs
  <2>. QED BY <1>7, <1>14, <2>1, ReverseIs
<1>16. d[l] = P - 1 /\ d[0] = 0 /\ d[1] = 1
  <2>1. f[0] = P - 1 /\ f[l] = 0  BY <1>4, <1>7, <1>11
  <2>2. l - 1 \in 0 .. (P - 1) - 1 /\ l - 1 \in 0 .. l - 1 /\ (l - 1) + 1 = l /\ l - 1 \in 0 .. l
    BY <1>1, <1>6, <1>7
  <2>3. h[(l - 1) + 1] = h[l - 1] \div 2 /\ h[l - 1] > 0 /\ h[l - 1] \in Nat
    BY <1>1, <1>4, <1>6, <2>2
  <2>4. h[l - 1] \div 2 = 0  BY <1>6, <2>2, <2>3
  <2>5. h[l - 1] = 1  BY <2>3, <2>4
  <2>6. f[l - 1] = 1  BY <2>2, <2>5
  <2>7. d[l] = f[l - l] /\ d[0] = f[l - 0] /\ d[1] = f[l - 1]  BY <1>7
  <2>8. l - l = 0 /\ l - 0 = l  BY <1>7
  <2> HIDE DEF d, f
  <2>. QED BY <2>1, <2>6, <2>7, <2>8
<1> HIDE DEF d
<1>17. MinusOne[1] = 1
  <2>1. 1 \in 1 .. l /\ 1 - 1 = 0  BY <1>7
  <2>2. d[1] = Reverse(s)[1] + 2 * d[1 - 1]  BY <1>12, <2>1 DEF Highs
  <2>3. Reverse(s)[1] \in Nat  BY <1>14, <1>15, <2>1 DEF Strings, Bits
  <2>. QED BY <1>14, <1>16, <2>1, <2>2, <2>3
<1>18. Highs(d, MinusOne, l)  BY <1>12, <1>14
<1>19. \E q : Halves(q, P, l) /\ q[l] = 0
  <2> DEFINE q == [k \in 0 .. l |-> g[k]]
  <2>1. l \in 0 .. P  BY <1>1, <1>6
  <2>2. Halves(q, P, l)  BY <1>1, <1>3, <2>1, HalvesPrefix
  <2>3. q[l] = g[l] /\ l \in 1 .. P - 1  BY <1>6, <1>7
  <2>4. q[l] = 0  BY <1>6, <1>8, <2>3
  <2> HIDE DEF q
  <2>. QED BY <2>2, <2>4
<1>. QED BY <1>7, <1>10, <1>15, <1>16, <1>17, <1>18, <1>19

----------------------------------------------------------------------------
(* Decompositions of a number.                                             *)

\* Every number of the field has bits.
LEMMA BitsExist ==
    ASSUME OddPrime, NEW x \in F
    PROVE  \E s \in Strings(Gadget!NUM_BITS) : Gadget!packed(s) = x
<1> DEFINE n == Gadget!NUM_BITS
<1>1. x \in Nat /\ P \in Nat /\ x <= P /\ n \in Nat  BY InField, Odd, NumBits
<1>2. PICK h : Halves(h, P, n) /\ h[n] = 0  BY NumBits
<1> HIDE DEF n
<1>3. PICK g : Halves(g, x, n)  BY <1>1, HalvesExist
<1>4. g[n] = 0 /\ g[0] = x
  <2>1. n \in 0 .. n  BY <1>1
  <2>2. g[n] <= h[n]  BY <1>1, <1>2, <1>3, <2>1, HalvesBelow
  <2>3. g[n] \in Nat /\ g[0] = x  BY <1>3, <2>1 DEF Halves
  <2>. QED BY <1>2, <2>2, <2>3
<1> DEFINE s == [k \in 1 .. n |-> g[k - 1] % 2]
           v == [k \in 0 .. n |-> g[n - k]]
<1>5. s \in Strings(n) /\ Highs(v, Reverse(s), n)  BY <1>1, <1>3, <1>4, HighsOfBits
<1>6. v[n] = x
  <2>1. v[n] = g[n - n] /\ n - n = 0  BY <1>1
  <2>. QED BY <1>4, <2>1
<1> HIDE DEF s, v
<1>7. Gadget!packed(s) = v[n]  BY <1>1, <1>5, PackedIs
<1>. QED BY <1>5, <1>6, <1>7 DEF n

\* A string that writes at most -1 does so bit after bit.
LEMMA AtMost ==
    ASSUME NEW n \in Nat, NEW m \in Strings(n), NEW d, Highs(d, m, n),
           NEW t \in Strings(n), NEW v, Highs(v, t, n), v[n] <= d[n], NEW k \in 0 .. n
    PROVE  v[k] <= d[k]
<1> DEFINE T == {j \in 0 .. n : v[n - j] <= d[n - j]}
<1>1. /\ v \in [0 .. n -> Nat] /\ d \in [0 .. n -> Nat]
      /\ \A j \in 1 .. n : v[j] = t[j] + 2 * v[j - 1]
      /\ \A j \in 1 .. n : d[j] = m[j] + 2 * d[j - 1]
  BY DEF Highs
<1>2. \A j \in 1 .. n : t[j] \in {0, 1} /\ m[j] \in {0, 1}  BY DEF Strings, Bits
<1>3. 0 \in T
  <2>1. n - 0 = n /\ 0 \in 0 .. n  OBVIOUS
  <2>. QED BY <2>1
<1>4. ASSUME NEW j \in 0 .. n - 1, j \in T  PROVE j + 1 \in T
  <2> DEFINE i == n - j
  <2>1. i \in 1 .. n /\ i - 1 = n - (j + 1) /\ i - 1 \in 0 .. n /\ j + 1 \in 0 .. n  OBVIOUS
  <2>2. v[i] <= d[i]  BY <1>4
  <2> HIDE DEF i
  <2>3. v[i] = t[i] + 2 * v[i - 1] /\ d[i] = m[i] + 2 * d[i - 1]  BY <1>1, <2>1
  <2>4. v[i - 1] \in Nat /\ d[i - 1] \in Nat /\ t[i] \in {0, 1} /\ m[i] \in {0, 1}
    BY <1>1, <1>2, <2>1
  <2>5. v[i - 1] <= d[i - 1]  BY <2>2, <2>3, <2>4
  <2>. QED BY <2>1, <2>5
<1>5. n - k \in 0 .. n /\ n - (n - k) = k  OBVIOUS
<1>6. n - k \in T
  <2> HIDE DEF T
  <2>. QED BY <1>3, <1>4, <1>5, InductionTo
<1>. QED BY <1>5, <1>6

\* The strings the strict decomposition allows write at most -1, and all that do are.
LEMMA StrictStrings ==
    ASSUME OddPrime, NEW n \in Nat, n > 0, NEW m \in Strings(n), m[1] = 1,
           NEW d, Highs(d, m, n), NEW all, all \in [0 .. n -> SUBSET Partial], all[0] = {Start},
           \A k \in 0 .. n - 1 : all[k + 1] = After(all[k], m[k + 1])
    PROVE  /\ \A s \in all[n] : s.bits \in Strings(n) /\ Value(s.bits) <= d[n]
           /\ \A t \in Strings(n) : Value(t) <= d[n] => \E s \in all[n] : s.bits = t
<1>1. /\ d \in [0 .. n -> Nat] /\ d[0] = 0
      /\ \A k \in 0 .. n - 1 : d[k + 1] = m[k + 1] + 2 * d[k]
  <2>1. ASSUME NEW k \in 0 .. n - 1  PROVE d[k + 1] = m[k + 1] + 2 * d[k]
    <3>1. k + 1 \in 1 .. n /\ (k + 1) - 1 = k  OBVIOUS
    <3>2. d[k + 1] = m[k + 1] + 2 * d[(k + 1) - 1]  BY <3>1 DEF Highs
    <3>. QED BY <3>1, <3>2
  <2>. QED BY <2>1 DEF Highs
<1>2. ASSUME NEW k \in 0 .. n - 1
      PROVE  k \in Nat /\ d[k] \in Nat /\ m[k + 1] \in Bits /\ (m[k + 1] = 0 => k > 0)
  <2>1. k \in 0 .. n /\ k + 1 \in 1 .. n  OBVIOUS
  <2>2. m[k + 1] \in Bits  BY <2>1 DEF Strings
  <2>3. k = 0 => m[k + 1] = 1  OBVIOUS
  <2>. QED BY <1>1, <2>1, <2>2, <2>3
<1> DEFINE T == {k \in 0 .. n : \A s \in all[k] : Strict(s, k, d[k])}
<1>3. 0 \in T
  <2>1. 0 \in 0 .. n  OBVIOUS
  <2>2. \A s \in all[0] : Strict(s, 0, d[0])  BY <1>1, StrictStart
  <2>. QED BY <2>1, <2>2
<1>4. ASSUME NEW k \in 0 .. n - 1, k \in T  PROVE k + 1 \in T
  <2>1. \A s \in all[k] : Strict(s, k, d[k])  BY <1>4
  <2>2. ASSUME NEW s \in all[k], NEW t \in Gadget!strict_bit(s, m[k + 1])
        PROVE  Strict(t, k + 1, d[k + 1])
    <3>1. Strict(t, k + 1, m[k + 1] + 2 * d[k])  BY <1>2, <2>1, <2>2, StrictStep
    <3>. QED BY <1>1, <3>1
  <2>3. all[k + 1] = UNION {Gadget!strict_bit(s, m[k + 1]) : s \in all[k]}  BY DEF After
  <2>4. k + 1 \in 0 .. n  OBVIOUS
  <2>. QED BY <2>2, <2>3, <2>4
<1>5. \A k \in 0 .. n : k \in T
  <2> HIDE DEF T
  <2>. QED BY <1>3, <1>4, InductionTo
<1>6. \A k \in 0 .. n : \A s \in all[k] : Strict(s, k, d[k])  BY <1>5
<1>7. ASSUME NEW s \in all[n]  PROVE s.bits \in Strings(n) /\ Value(s.bits) <= d[n]
  <2>1. n \in 0 .. n /\ d[n] \in Nat  BY <1>1
  <2>2. Strict(s, n, d[n])  BY <1>6, <2>1
  <2>3. s.bits \in Strings(n) /\ IF Full(s) THEN Value(s.bits) = d[n] ELSE Value(s.bits) < d[n]
    BY <2>2 DEF Strict
  <2>4. Value(s.bits) \in Nat
    <3>1. PICK v : Highs(v, s.bits, n)  BY <2>3, HighsExist
    <3>. QED BY <2>3, <3>1, ValueIs
  <2>. QED BY <2>1, <2>3, <2>4
<1>8. ASSUME NEW t \in Strings(n), Value(t) <= d[n]  PROVE \E s \in all[n] : s.bits = t
  <2> DEFINE first(k) == [j \in 1 .. k |-> t[j]]
             Kept == {k \in 0 .. n : \E s \in all[k] : s.bits = first(k)}
  <2>1. PICK v : Highs(v, t, n)  BY HighsExist
  <2>2. v[n] <= d[n]  BY <1>8, <2>1, ValueIs
  <2>3. ASSUME NEW k \in 0 .. n - 1
        PROVE  first(k) \in Strings(k) /\ Value(first(k)) = v[k] /\ t[k + 1] \in Bits
               /\ first(k + 1) = Append(first(k), t[k + 1]) /\ v[k + 1] = t[k + 1] + 2 * v[k]
    <3>1. k \in Nat /\ k \in 0 .. n /\ k \in 0 .. k /\ k + 1 \in 1 .. n /\ (k + 1) - 1 = k  OBVIOUS
    <3>2. first(k) \in Strings(k)
      <4>1. \A j \in 1 .. k : t[j] \in Bits  BY DEF Strings
      <4>. QED BY <4>1 DEF Strings
    <3>3. Value(first(k)) = v[k]
      <4>1. \A j \in 1 .. k : first(k)[j] = t[j]  OBVIOUS
      <4> HIDE DEF first
      <4>2. PICK w : Highs(w, first(k), k)  BY <3>1, <3>2, HighsExist
      <4>3. w[k] = v[k]  BY <2>1, <3>1, <4>1, <4>2, HighsAgree
      <4>. QED BY <3>1, <3>2, <4>2, <4>3, ValueIs
    <3>4. t[k + 1] \in Bits  BY <3>1 DEF Strings
    <3>5. first(k + 1) = Append(first(k), t[k + 1])
      <4> DEFINE a == t[k + 1]  s == Append(first(k), a)
      <4>1. Len(first(k)) = k /\ first(k) \in Seq(Bits)  BY <3>1, <3>2, ReverseIs
      <4>2. \A j \in 1 .. k : first(k)[j] = t[j]  OBVIOUS
      <4>3. first(k + 1) = [j \in 1 .. k + 1 |-> t[j]]  OBVIOUS
      <4> HIDE DEF first
      <4>4. s \in Strings(k + 1)  BY <3>1, <3>2, <3>4, ValueStep
      <4>5. s[k + 1] = a /\ \A j \in 1 .. k : s[j] = t[j]
        <5>1. s[k + 1] = a /\ \A j \in 1 .. k : s[j] = first(k)[j]
          BY <3>4, <4>1, AppendProperties
        <5>. QED BY <4>2, <5>1
      <4> HIDE DEF s
      <4>6. \A j \in 1 .. k + 1 : s[j] = t[j]
        <5>1. \A j \in 1 .. k + 1 : j \in 1 .. k \/ j = k + 1  BY <3>1
        <5>. QED BY <4>5, <5>1
      <4>7. s = first(k + 1)  BY <4>3, <4>4, <4>6 DEF Strings
      <4>. QED BY <4>7 DEF s
    <3>6. v[k + 1] = t[k + 1] + 2 * v[k]
      <4>1. v[k + 1] = t[k + 1] + 2 * v[(k + 1) - 1]  BY <2>1, <3>1 DEF Highs
      <4>. QED BY <3>1, <4>1
    <3>. QED BY <3>2, <3>3, <3>4, <3>5, <3>6
  <2>4. first(n) = t  BY DEF Strings
  <2>5. first(0) = <<>>  OBVIOUS
  <2> HIDE DEF first
  <2>6. 0 \in Kept
    <3>1. Start.bits = <<>>  BY DEF Start
    <3>2. 0 \in 0 .. n /\ Start \in all[0]  OBVIOUS
    <3>. QED BY <2>5, <3>1, <3>2
  <2>7. ASSUME NEW k \in 0 .. n - 1, k \in Kept  PROVE k + 1 \in Kept
    <3>1. PICK s \in all[k] : s.bits = first(k)  BY <2>7
    <3>2. k \in 0 .. n /\ k + 1 \in 0 .. n  OBVIOUS
    <3>3. Strict(s, k, d[k])  BY <1>6, <3>2
    <3>4. t[k + 1] \in Bits /\ Value(s.bits) = v[k] /\ first(k + 1) = Append(s.bits, t[k + 1])
          /\ v[k + 1] = t[k + 1] + 2 * v[k]
      BY <2>3, <3>1
    <3>5. v[k + 1] <= d[k + 1]  BY <2>1, <2>2, <3>2, AtMost
    <3>6. t[k + 1] + 2 * Value(s.bits) <= m[k + 1] + 2 * d[k]  BY <1>1, <3>4, <3>5
    <3>7. \E q \in Gadget!strict_bit(s, m[k + 1]) : q.bits = Append(s.bits, t[k + 1])
      <4> DEFINE b == m[k + 1]  a == t[k + 1]  top == d[k]
      <4>1. k \in Nat /\ top \in Nat /\ b \in Bits /\ (b = 0 => k > 0)  BY <1>2
      <4>2. Strict(s, k, top) /\ a \in Bits /\ a + 2 * Value(s.bits) <= b + 2 * top
        BY <3>3, <3>4, <3>6
      <4> HIDE DEF b, a, top
      <4>3. \E q \in Gadget!strict_bit(s, b) : q.bits = Append(s.bits, a)
        BY <4>1, <4>2, StrictStep
      <4>. QED BY <4>3 DEF a, b
    <3>8. all[k + 1] = UNION {Gadget!strict_bit(r, m[k + 1]) : r \in all[k]}  BY DEF After
    <3>9. \E q \in all[k + 1] : q.bits = first(k + 1)  BY <3>4, <3>7, <3>8
    <3>. QED BY <3>2, <3>9
  <2>8. n \in Kept
    <3>1. n \in 0 .. n  OBVIOUS
    <3> HIDE DEF Kept
    <3>. QED BY <2>6, <2>7, <3>1, InductionTo
  <2>. QED BY <2>4, <2>8
<1>. QED BY <1>7, <1>8

\* The strict decomposition allows the bits of x below the modulus, and those alone.
LEMMA StrictIs ==
    ASSUME OddPrime, NEW x \in F
    PROVE  Gadget!to_bits_le_strict(x) =
             {bits \in [1 .. Gadget!NUM_BITS -> {0, 1}] : Gadget!packed(bits) = x}
<1> DEFINE n == Gadget!NUM_BITS  m == MinusOne  R == Gadget!to_bits_le_strict(x)
<1>1. n \in Nat /\ n > 0 /\ m \in Strings(n) /\ m[1] = 1 /\ Len(MinusOne) = n
      /\ \E d : Highs(d, m, n) /\ d[n] = P - 1
  BY NumBits
<1>2. Strings(n) = [1 .. n -> {0, 1}]  BY DEF Strings, Bits
<1> HIDE DEF n, R
<1>3. PICK d : Highs(d, m, n) /\ d[n] = P - 1  BY <1>1
<1>4. PICK all : /\ all \in [0 .. n -> SUBSET Partial] /\ all[0] = {Start}
                 /\ \A k \in 0 .. n - 1 : all[k + 1] = After(all[k], m[k + 1])
                 /\ R = Reversed(all[n], x)
  BY <1>1, StrictTable DEF R
<1> HIDE DEF m
<1>5. /\ \A s \in all[n] : s.bits \in Strings(n) /\ Value(s.bits) <= d[n]
      /\ \A t \in Strings(n) : Value(t) <= d[n] => \E s \in all[n] : s.bits = t
  BY <1>1, <1>3, <1>4, StrictStrings
<1>6. \A y : y \in Nat /\ y <= P - 1 => y \in F /\ y % P = y
  <2> TAKE y
  <2> HAVE y \in Nat /\ y <= P - 1
  <2>1. y \in F  BY Odd
  <2>. QED BY <2>1, InField
<1>7. ASSUME NEW b \in R  PROVE b \in Strings(n) /\ Gadget!packed(b) = x
  <2>1. PICK s \in all[n] : b = Gadget!Reverse(s.bits) /\ Gadget!packed(b) % P = x  BY <1>4 DEF Reversed
  <2>2. s.bits \in Strings(n) /\ Value(s.bits) <= P - 1  BY <1>3, <1>5
  <2>3. b = Reverse(s.bits)  BY <2>1 DEF Gadget!Reverse, Reverse
  <2>4. b \in Strings(n) /\ Reverse(b) = s.bits  BY <1>1, <2>2, <2>3, ReverseIs
  <2>5. Gadget!packed(b) \in Nat /\ Gadget!packed(b) <= P - 1  BY <1>1, <2>2, <2>4, PackedValue
  <2>. QED BY <1>6, <2>1, <2>4, <2>5
<1>8. ASSUME NEW b \in Strings(n), Gadget!packed(b) = x  PROVE b \in R
  <2>1. Reverse(b) \in Strings(n) /\ Reverse(Reverse(b)) = b /\ Value(Reverse(b)) = x
    BY <1>1, <1>8, ReverseIs, PackedValue
  <2>2. x \in Int /\ x <= P - 1 /\ x % P = x  BY InField, Odd
  <2>3. PICK s \in all[n] : s.bits = Reverse(b)  BY <1>3, <1>5, <2>1, <2>2
  <2>4. Gadget!Reverse(s.bits) = b  BY <2>1, <2>3 DEF Gadget!Reverse, Reverse
  <2>. QED BY <1>4, <1>8, <2>2, <2>4 DEF Reversed
<1>9. R = {b \in Strings(n) : Gadget!packed(b) = x}  BY <1>7, <1>8
<1>. QED BY <1>2, <1>9 DEF R, n

LEMMA ToBits ==
    ASSUME OddPrime, NEW x \in F
    PROVE  /\ Gadget!to_bits_le(x) = {s \in Strings(Gadget!NUM_BITS) : Gadget!packed(s) % P = x}
           /\ {Gadget!packed(bits) % P : bits \in Gadget!to_bits_le(x)} = {x}
<1> DEFINE n == Gadget!NUM_BITS
<1>1. Gadget!to_bits_le(x) = {s \in Strings(n) : Gadget!packed(s) % P = x}
  BY AllocBit DEF Gadget!to_bits_le, Gadget!field_into_allocated_bits_le, Strings, Bits
<1>2. PICK s \in Strings(n) : Gadget!packed(s) = x  BY BitsExist
<1>3. s \in Gadget!to_bits_le(x) /\ Gadget!packed(s) % P = x  BY <1>1, <1>2, InField
<1> HIDE DEF n
<1>4. \A b \in Gadget!to_bits_le(x) : Gadget!packed(b) % P = x  BY <1>1
<1>5. {Gadget!packed(bits) % P : bits \in Gadget!to_bits_le(x)} = {x}  BY <1>3, <1>4
<1>. QED BY <1>1, <1>5 DEF n

LEMMA FromBits ==
    ASSUME OddPrime, NEW x \in F, NEW bits \in Gadget!to_bits_le(x)
    PROVE  Gadget!le_bits_to_num(bits) = {x}
<1> DEFINE y == Gadget!packed(bits)
<1>1. bits \in Strings(Gadget!NUM_BITS) /\ y % P = x  BY ToBits
<1>2. y \in Nat  BY <1>1, NumBits, PackedValue
<1>3. Gadget!le_bits_to_num(bits) = {i \in F : (y - i) % P = 0}
  BY Odd DEF Gadget!le_bits_to_num
<1> HIDE DEF y
<1>4. y \in Int  BY <1>2
<1>5. (y - x) % P = 0
  <2>1. PICK k \in Int : y = x + k * P  BY <1>1, <1>4, Modulus
  <2>2. (0 + k * P) % P = 0  BY Small, Residue
  <2> DEFINE e == k * P
  <2>3. e \in Int /\ x \in Int  BY InField, Odd
  <2> HIDE DEF e
  <2>4. y - x = 0 + e  BY <2>1, <2>3 DEF e
  <2>. QED BY <2>2, <2>4 DEF e
<1>6. \A i \in F : (y - i) % P = 0 => i = x  BY <1>4, <1>5, SameResidue
<1>. QED BY <1>3, <1>5, <1>6

----------------------------------------------------------------------------
(* The calls.                                                              *)

LEMMA Outputs ==
    ASSUME NEW S, NEW x, Computes(S, x)
    PROVE  {Gadget!lc(r) : r \in S} = {x}
BY DEF Computes

LEMMA LastIs ==
    /\ \A x, y : Gadget!Last(<<x, y>>) = y
    /\ \A x, y, c : Gadget!Last(<<x, y, c>>) = c
BY DEF Gadget!Last

LEMMA BooleanExact ==
    ASSUME OddPrime, Gadget!CallBoolean
    PROVE  Gadget!GadgetsExact'
<1>1. PICK a \in Gadget!Bools, b \in Gadget!Bools :
        \/ Gadget!Call("xor", <<Gadget!lc(a), Gadget!lc(b)>>, {Gadget!lc(r) : r \in Gadget!xor(a, b)})
        \/ Gadget!Call("and", <<Gadget!lc(a), Gadget!lc(b)>>, {Gadget!lc(r) : r \in Gadget!and(a, b)})
        \/ Gadget!Call("or",  <<Gadget!lc(a), Gadget!lc(b)>>, {Gadget!lc(r) : r \in Gadget!or(a, b)})
        \/ Gadget!Call("enforce_equal", <<Gadget!lc(a), Gadget!lc(b)>>,
                       {r \in {0} : Gadget!enforce_equal(a, b)})
        \/ \E c \in Gadget!Bools :
              \/ Gadget!Call("ch",  <<Gadget!lc(a), Gadget!lc(b), Gadget!lc(c)>>,
                             {Gadget!lc(r) : r \in Gadget!sha256_ch(a, b, c)})
              \/ Gadget!Call("maj", <<Gadget!lc(a), Gadget!lc(b), Gadget!lc(c)>>,
                             {Gadget!lc(r) : r \in Gadget!sha256_maj(a, b, c)})
  BY DEF Gadget!CallBoolean
<1> DEFINE x == Gadget!lc(a)  y == Gadget!lc(b)
<1>2. x \in {0, 1} /\ y \in {0, 1}  BY LcIs
<1>3. CASE Gadget!Call("xor", <<x, y>>, {Gadget!lc(r) : r \in Gadget!xor(a, b)})
  <2>1. {Gadget!lc(r) : r \in Gadget!xor(a, b)} = {IF x = y THEN 0 ELSE 1}  BY XorIs, Outputs
  <2> HIDE DEF x, y
  <2>2. gadget' = "xor" /\ args' = <<x, y>> /\ allowed' = {IF x = y THEN 0 ELSE 1}
    BY <1>3, <2>1 DEF Gadget!Call
  <2>3. Gadget!Expected' = {IF x # y THEN 1 ELSE 0}  BY <2>2 DEF Gadget!Expected
  <2>. QED BY <1>2, <2>2, <2>3 DEF Gadget!GadgetsExact
<1>4. CASE Gadget!Call("and", <<x, y>>, {Gadget!lc(r) : r \in Gadget!and(a, b)})
  <2>1. {Gadget!lc(r) : r \in Gadget!and(a, b)} = {x * y}  BY AndIs, Outputs
  <2> HIDE DEF x, y
  <2>2. gadget' = "and" /\ args' = <<x, y>> /\ allowed' = {x * y}
    BY <1>4, <2>1 DEF Gadget!Call
  <2>3. Gadget!Expected' = {x * y}  BY <2>2 DEF Gadget!Expected
  <2>. QED BY <1>2, <2>2, <2>3 DEF Gadget!GadgetsExact
<1>5. CASE Gadget!Call("or", <<x, y>>, {Gadget!lc(r) : r \in Gadget!or(a, b)})
  <2>1. {Gadget!lc(r) : r \in Gadget!or(a, b)} = {IF x + y > 0 THEN 1 ELSE 0}  BY OrIs, Outputs
  <2> HIDE DEF x, y
  <2>2. gadget' = "or" /\ args' = <<x, y>> /\ allowed' = {IF x + y > 0 THEN 1 ELSE 0}
    BY <1>5, <2>1 DEF Gadget!Call
  <2>3. Gadget!Expected' = {IF x + y > 0 THEN 1 ELSE 0}  BY <2>2 DEF Gadget!Expected
  <2>. QED BY <1>2, <2>2, <2>3 DEF Gadget!GadgetsExact
<1>6. CASE Gadget!Call("enforce_equal", <<x, y>>, {r \in {0} : Gadget!enforce_equal(a, b)})
  <2>1. {r \in {0} : Gadget!enforce_equal(a, b)} = IF x = y THEN {0} ELSE {}  BY EqualIs
  <2> HIDE DEF x, y
  <2>2. gadget' = "enforce_equal" /\ args' = <<x, y>> /\ allowed' = IF x = y THEN {0} ELSE {}
    BY <1>6, <2>1 DEF Gadget!Call
  <2>3. Gadget!Expected' = IF x = y THEN {0} ELSE {}  BY <2>2 DEF Gadget!Expected
  <2>. QED BY <1>2, <2>2, <2>3 DEF Gadget!GadgetsExact
<1>7. CASE \E c \in Gadget!Bools :
           \/ Gadget!Call("ch", <<x, y, Gadget!lc(c)>>, {Gadget!lc(r) : r \in Gadget!sha256_ch(a, b, c)})
           \/ Gadget!Call("maj", <<x, y, Gadget!lc(c)>>, {Gadget!lc(r) : r \in Gadget!sha256_maj(a, b, c)})
  <2>1. PICK c \in Gadget!Bools :
           \/ Gadget!Call("ch", <<x, y, Gadget!lc(c)>>, {Gadget!lc(r) : r \in Gadget!sha256_ch(a, b, c)})
           \/ Gadget!Call("maj", <<x, y, Gadget!lc(c)>>, {Gadget!lc(r) : r \in Gadget!sha256_maj(a, b, c)})
    BY <1>7
  <2> DEFINE z == Gadget!lc(c)
  <2>2. Gadget!Last(<<x, y, z>>) = z  BY LastIs
  <2>3. {Gadget!lc(r) : r \in Gadget!sha256_ch(a, b, c)} = {Gadget!ch(x, y, z)}  BY ChIs, Outputs
  <2>4. {Gadget!lc(r) : r \in Gadget!sha256_maj(a, b, c)} = {Gadget!maj(x, y, z)}  BY MajIs, Outputs
  <2>5. CASE Gadget!Call("ch", <<x, y, z>>, {Gadget!lc(r) : r \in Gadget!sha256_ch(a, b, c)})
    <3> HIDE DEF x, y, z
    <3>1. gadget' = "ch" /\ args' = <<x, y, z>> /\ allowed' = {Gadget!ch(x, y, z)}
      BY <2>3, <2>5 DEF Gadget!Call
    <3>2. Gadget!Expected' = {Gadget!ch(x, y, z)}  BY <2>2, <3>1 DEF Gadget!Expected
    <3>. QED BY <3>1, <3>2 DEF Gadget!GadgetsExact
  <2>6. CASE Gadget!Call("maj", <<x, y, z>>, {Gadget!lc(r) : r \in Gadget!sha256_maj(a, b, c)})
    <3> HIDE DEF x, y, z
    <3>1. gadget' = "maj" /\ args' = <<x, y, z>> /\ allowed' = {Gadget!maj(x, y, z)}
      BY <2>4, <2>6 DEF Gadget!Call
    <3>2. Gadget!Expected' = {Gadget!maj(x, y, z)}  BY <2>2, <3>1 DEF Gadget!Expected
    <3>. QED BY <3>1, <3>2 DEF Gadget!GadgetsExact
  <2>. QED BY <2>1, <2>5, <2>6
<1>. QED BY <1>1, <1>3, <1>4, <1>5, <1>6, <1>7

LEMMA NumberExact ==
    ASSUME OddPrime, Gadget!CallNumber
    PROVE  Gadget!GadgetsExact'
<1>1. PICK x \in F, y \in F :
        \/ Gadget!Call("add", <<x, y>>, Gadget!num_add(x, y))
        \/ Gadget!Call("mul", <<x, y>>, Gadget!num_mul(x, y))
        \/ Gadget!Call("equals", <<x, y>>, Gadget!alloc_num_equals(x, y))
        \/ \E cond \in Gadget!Bools :
              Gadget!Call("reverse", <<x, y, Gadget!lc(cond)>>, Gadget!conditionally_reverse(x, y, cond))
        \/ \E c \in {0, 1} :
              \/ Gadget!Call("select", <<x, y, c>>, Gadget!conditionally_select(x, y, c))
              \/ Gadget!Call("one_or_diff", <<x, y, c>>, Gadget!select_one_or_diff2(x, y, c))
  BY Odd DEF Gadget!CallNumber
<1>2. CASE Gadget!Call("add", <<x, y>>, Gadget!num_add(x, y))
  <2>1. Gadget!num_add(x, y) = {(x + y) % P}  BY NumGates
  <2>2. gadget' = "add" /\ args' = <<x, y>> /\ allowed' = {(x + y) % P}
    BY <1>2, <2>1 DEF Gadget!Call
  <2>3. Gadget!Expected' = {(x + y) % P}  BY <2>2 DEF Gadget!Expected
  <2>. QED BY <2>2, <2>3 DEF Gadget!GadgetsExact
<1>3. CASE Gadget!Call("mul", <<x, y>>, Gadget!num_mul(x, y))
  <2>1. Gadget!num_mul(x, y) = {(x * y) % P}  BY NumGates
  <2>2. gadget' = "mul" /\ args' = <<x, y>> /\ allowed' = {(x * y) % P}
    BY <1>3, <2>1 DEF Gadget!Call
  <2>3. Gadget!Expected' = {(x * y) % P}  BY <2>2 DEF Gadget!Expected
  <2>. QED BY <2>2, <2>3 DEF Gadget!GadgetsExact
<1>4. CASE Gadget!Call("equals", <<x, y>>, Gadget!alloc_num_equals(x, y))
  <2>1. Gadget!alloc_num_equals(x, y) = {IF x = y THEN 1 ELSE 0}  BY Equals
  <2>2. gadget' = "equals" /\ args' = <<x, y>> /\ allowed' = {IF x = y THEN 1 ELSE 0}
    BY <1>4, <2>1 DEF Gadget!Call
  <2>3. Gadget!Expected' = {IF x = y THEN 1 ELSE 0}  BY <2>2 DEF Gadget!Expected
  <2>. QED BY <2>2, <2>3 DEF Gadget!GadgetsExact
<1>5. CASE \E cond \in Gadget!Bools :
           Gadget!Call("reverse", <<x, y, Gadget!lc(cond)>>, Gadget!conditionally_reverse(x, y, cond))
  <2>1. PICK cond \in Gadget!Bools :
           Gadget!Call("reverse", <<x, y, Gadget!lc(cond)>>, Gadget!conditionally_reverse(x, y, cond))
    BY <1>5
  <2> DEFINE c == Gadget!lc(cond)
  <2>2. Gadget!conditionally_reverse(x, y, cond) = {IF c = 1 THEN <<y, x>> ELSE <<x, y>>}
    BY Reverses
  <2> HIDE DEF c
  <2>3. /\ gadget' = "reverse" /\ args' = <<x, y, c>>
        /\ allowed' = {IF c = 1 THEN <<y, x>> ELSE <<x, y>>}
    BY <2>1, <2>2 DEF Gadget!Call, c
  <2>4. Gadget!Expected' = {IF c = 1 THEN <<y, x>> ELSE <<x, y>>}
    BY <2>3, LastIs DEF Gadget!Expected
  <2>. QED BY <2>3, <2>4 DEF Gadget!GadgetsExact
<1>6. CASE \E c \in {0, 1} :
           \/ Gadget!Call("select", <<x, y, c>>, Gadget!conditionally_select(x, y, c))
           \/ Gadget!Call("one_or_diff", <<x, y, c>>, Gadget!select_one_or_diff2(x, y, c))
  <2>1. PICK c \in {0, 1} :
           \/ Gadget!Call("select", <<x, y, c>>, Gadget!conditionally_select(x, y, c))
           \/ Gadget!Call("one_or_diff", <<x, y, c>>, Gadget!select_one_or_diff2(x, y, c))
    BY <1>6
  <2>2. CASE Gadget!Call("select", <<x, y, c>>, Gadget!conditionally_select(x, y, c))
    <3>1. Gadget!conditionally_select(x, y, c) = {IF c = 1 THEN x ELSE y}  BY Selections
    <3>2. gadget' = "select" /\ args' = <<x, y, c>> /\ allowed' = {IF c = 1 THEN x ELSE y}
      BY <2>2, <3>1 DEF Gadget!Call
    <3>3. Gadget!Expected' = {IF c = 1 THEN x ELSE y}  BY <3>2, LastIs DEF Gadget!Expected
    <3>. QED BY <3>2, <3>3 DEF Gadget!GadgetsExact
  <2>3. CASE Gadget!Call("one_or_diff", <<x, y, c>>, Gadget!select_one_or_diff2(x, y, c))
    <3>1. Gadget!select_one_or_diff2(x, y, c) = {IF c = 1 THEN 1 ELSE (x - y) % P}  BY Selections
    <3>2. gadget' = "one_or_diff" /\ args' = <<x, y, c>> /\ allowed' = {IF c = 1 THEN 1 ELSE (x - y) % P}
      BY <2>3, <3>1 DEF Gadget!Call
    <3>3. Gadget!Expected' = {IF c = 1 THEN 1 ELSE (x - y) % P}  BY <3>2, LastIs DEF Gadget!Expected
    <3>. QED BY <3>2, <3>3 DEF Gadget!GadgetsExact
  <2>. QED BY <2>1, <2>2, <2>3
<1>. QED BY <1>1, <1>2, <1>3, <1>4, <1>5, <1>6

LEMMA UnaryExact ==
    ASSUME OddPrime, Gadget!CallUnary
    PROVE  Gadget!GadgetsExact'
<1>1. PICK x \in F :
        \/ Gadget!Call("square", <<x>>, Gadget!square(x))
        \/ Gadget!Call("inputize", <<x>>, Gadget!inputize(x))
        \/ Gadget!Call("assert_nonzero", <<x>>, Gadget!assert_nonzero(x))
        \/ Gadget!Call("to_bits_strict", <<x>>, Gadget!to_bits_le_strict(x))
        \/ Gadget!Call("to_bits", <<x>>, {Gadget!packed(bits) % P : bits \in Gadget!to_bits_le(x)})
        \/ \E bits \in Gadget!to_bits_le(x) :
              Gadget!Call("from_bits", <<x>>, Gadget!le_bits_to_num(bits))
        \/ \E c \in {0, 1} :
              \/ Gadget!Call("zero_or_num", <<x, c>>, Gadget!select_zero_or_num2(x, c))
              \/ Gadget!Call("num_or_zero", <<x, c>>, Gadget!select_num_or_zero(x, c))
              \/ Gadget!Call("one_or_num", <<x, c>>, Gadget!select_one_or_num2(x, c))
              \/ Gadget!Call("num_or_one", <<x, c>>, Gadget!select_num_or_one(x, c))
  BY Odd DEF Gadget!CallUnary
<1>2. CASE Gadget!Call("square", <<x>>, Gadget!square(x))
  <2>1. Gadget!square(x) = {(x * x) % P}  BY NumGates
  <2>2. gadget' = "square" /\ args' = <<x>> /\ allowed' = {(x * x) % P}
    BY <1>2, <2>1 DEF Gadget!Call
  <2>3. Gadget!Expected' = {(x * x) % P}  BY <2>2 DEF Gadget!Expected
  <2>. QED BY <2>2, <2>3 DEF Gadget!GadgetsExact
<1>3. CASE Gadget!Call("inputize", <<x>>, Gadget!inputize(x))
  <2>1. Gadget!inputize(x) = {x}  BY NumGates
  <2>2. gadget' = "inputize" /\ args' = <<x>> /\ allowed' = {x}
    BY <1>3, <2>1 DEF Gadget!Call
  <2>3. Gadget!Expected' = {x}  BY <2>2 DEF Gadget!Expected
  <2>. QED BY <2>2, <2>3 DEF Gadget!GadgetsExact
<1>4. CASE Gadget!Call("assert_nonzero", <<x>>, Gadget!assert_nonzero(x))
  <2>1. Gadget!assert_nonzero(x) = IF x = 0 THEN {} ELSE {Gadget!inv[x]}  BY NonZero
  <2>2. gadget' = "assert_nonzero" /\ args' = <<x>> /\ allowed' = IF x = 0 THEN {} ELSE {Gadget!inv[x]}
    BY <1>4, <2>1 DEF Gadget!Call
  <2>3. Gadget!Expected' = IF x = 0 THEN {} ELSE {Gadget!inv[x]}  BY <2>2 DEF Gadget!Expected
  <2>. QED BY <2>2, <2>3 DEF Gadget!GadgetsExact
<1>5. CASE Gadget!Call("to_bits_strict", <<x>>, Gadget!to_bits_le_strict(x))
  <2> DEFINE S == {bits \in [1 .. Gadget!NUM_BITS -> {0, 1}] : Gadget!packed(bits) = x}
  <2>1. Gadget!to_bits_le_strict(x) = S  BY StrictIs
  <2>2. gadget' = "to_bits_strict" /\ args' = <<x>> /\ allowed' = S
    BY <1>5, <2>1 DEF Gadget!Call
  <2>3. Gadget!Expected' = S  BY <2>2 DEF Gadget!Expected
  <2>. QED BY <2>2, <2>3 DEF Gadget!GadgetsExact
<1>6. CASE Gadget!Call("to_bits", <<x>>, {Gadget!packed(bits) % P : bits \in Gadget!to_bits_le(x)})
  <2>1. {Gadget!packed(bits) % P : bits \in Gadget!to_bits_le(x)} = {x}  BY ToBits
  <2>2. gadget' = "to_bits" /\ args' = <<x>> /\ allowed' = {x}
    BY <1>6, <2>1 DEF Gadget!Call
  <2>3. Gadget!Expected' = {x}  BY <2>2 DEF Gadget!Expected
  <2>. QED BY <2>2, <2>3 DEF Gadget!GadgetsExact
<1>7. CASE \E bits \in Gadget!to_bits_le(x) : Gadget!Call("from_bits", <<x>>, Gadget!le_bits_to_num(bits))
  <2>1. PICK bits \in Gadget!to_bits_le(x) : Gadget!Call("from_bits", <<x>>, Gadget!le_bits_to_num(bits))
    BY <1>7
  <2>2. Gadget!le_bits_to_num(bits) = {x}  BY FromBits
  <2>3. gadget' = "from_bits" /\ args' = <<x>> /\ allowed' = {x}  BY <2>1, <2>2 DEF Gadget!Call
  <2>4. Gadget!Expected' = {x}  BY <2>3 DEF Gadget!Expected
  <2>. QED BY <2>3, <2>4 DEF Gadget!GadgetsExact
<1>8. CASE \E c \in {0, 1} :
           \/ Gadget!Call("zero_or_num", <<x, c>>, Gadget!select_zero_or_num2(x, c))
           \/ Gadget!Call("num_or_zero", <<x, c>>, Gadget!select_num_or_zero(x, c))
           \/ Gadget!Call("one_or_num", <<x, c>>, Gadget!select_one_or_num2(x, c))
           \/ Gadget!Call("num_or_one", <<x, c>>, Gadget!select_num_or_one(x, c))
  <2>1. PICK c \in {0, 1} :
           \/ Gadget!Call("zero_or_num", <<x, c>>, Gadget!select_zero_or_num2(x, c))
           \/ Gadget!Call("num_or_zero", <<x, c>>, Gadget!select_num_or_zero(x, c))
           \/ Gadget!Call("one_or_num", <<x, c>>, Gadget!select_one_or_num2(x, c))
           \/ Gadget!Call("num_or_one", <<x, c>>, Gadget!select_num_or_one(x, c))
    BY <1>8
  <2>2. CASE Gadget!Call("zero_or_num", <<x, c>>, Gadget!select_zero_or_num2(x, c))
    <3>1. Gadget!select_zero_or_num2(x, c) = {IF c = 1 THEN 0 ELSE x}  BY Selections
    <3>2. gadget' = "zero_or_num" /\ args' = <<x, c>> /\ allowed' = {IF c = 1 THEN 0 ELSE x}
      BY <2>2, <3>1 DEF Gadget!Call
    <3>3. Gadget!Expected' = {IF c = 1 THEN 0 ELSE x}  BY <3>2, LastIs DEF Gadget!Expected
    <3>. QED BY <3>2, <3>3 DEF Gadget!GadgetsExact
  <2>3. CASE Gadget!Call("num_or_zero", <<x, c>>, Gadget!select_num_or_zero(x, c))
    <3>1. Gadget!select_num_or_zero(x, c) = {IF c = 1 THEN x ELSE 0}  BY Selections
    <3>2. gadget' = "num_or_zero" /\ args' = <<x, c>> /\ allowed' = {IF c = 1 THEN x ELSE 0}
      BY <2>3, <3>1 DEF Gadget!Call
    <3>3. Gadget!Expected' = {IF c = 1 THEN x ELSE 0}  BY <3>2, LastIs DEF Gadget!Expected
    <3>. QED BY <3>2, <3>3 DEF Gadget!GadgetsExact
  <2>4. CASE Gadget!Call("one_or_num", <<x, c>>, Gadget!select_one_or_num2(x, c))
    <3>1. Gadget!select_one_or_num2(x, c) = {IF c = 1 THEN 1 ELSE x}  BY Selections
    <3>2. gadget' = "one_or_num" /\ args' = <<x, c>> /\ allowed' = {IF c = 1 THEN 1 ELSE x}
      BY <2>4, <3>1 DEF Gadget!Call
    <3>3. Gadget!Expected' = {IF c = 1 THEN 1 ELSE x}  BY <3>2, LastIs DEF Gadget!Expected
    <3>. QED BY <3>2, <3>3 DEF Gadget!GadgetsExact
  <2>5. CASE Gadget!Call("num_or_one", <<x, c>>, Gadget!select_num_or_one(x, c))
    <3>1. Gadget!select_num_or_one(x, c) = {IF c = 1 THEN x ELSE 1}  BY Selections
    <3>2. gadget' = "num_or_one" /\ args' = <<x, c>> /\ allowed' = {IF c = 1 THEN x ELSE 1}
      BY <2>5, <3>1 DEF Gadget!Call
    <3>3. Gadget!Expected' = {IF c = 1 THEN x ELSE 1}  BY <3>2, LastIs DEF Gadget!Expected
    <3>. QED BY <3>2, <3>3 DEF Gadget!GadgetsExact
  <2>. QED BY <2>1, <2>2, <2>3, <2>4, <2>5
<1>. QED BY <1>1, <1>2, <1>3, <1>4, <1>5, <1>6, <1>7, <1>8

(* For every odd prime the constraints of a gadget leave exactly what it is *)
(* documented to compute, whatever the values of the variables it allocates:*)
(* the logic of Booleans, the selections, equality, the reversal of a pair, *)
(* the inverse, and the decomposition into bits, whose strict form is the   *)
(* one below the modulus alone (src/frontend/gadgets/boolean.rs and num.rs, *)
(* src/gadgets/utils.rs).                                                   *)
THEOREM SpecGadgetsExact ==
    ASSUME OddPrime
    PROVE  Gadget!Spec => []GadgetsExact
<1>1. Gadget!Init => Gadget!GadgetsExact  BY DEF Gadget!Init, Gadget!GadgetsExact
<1>2. Gadget!GadgetsExact /\ [Gadget!Next]_Gadget!vars => Gadget!GadgetsExact'
  <2> SUFFICES ASSUME Gadget!GadgetsExact, [Gadget!Next]_Gadget!vars
               PROVE  Gadget!GadgetsExact'
    OBVIOUS
  <2>1. CASE Gadget!CallBoolean  BY <2>1, BooleanExact
  <2>2. CASE Gadget!CallNumber  BY <2>2, NumberExact
  <2>3. CASE Gadget!CallUnary  BY <2>3, UnaryExact
  <2>4. CASE UNCHANGED Gadget!vars
    BY <2>4 DEF Gadget!vars, Gadget!GadgetsExact, Gadget!Expected
  <2>. QED BY <2>1, <2>2, <2>3, <2>4 DEF Gadget!Next
<1>3. Gadget!Spec => []Gadget!GadgetsExact  BY <1>1, <1>2, PTL DEF Gadget!Spec
<1>. QED BY <1>3 DEF GadgetsExact
=============================================================================
