--------------------------- MODULE HashingProofs ---------------------------
(***************************************************************************)
(* Theorems about the sponge of the random oracle (Sponge) and about the   *)
(* transcript (Transcript), one part each.                                 *)
(***************************************************************************)
EXTENDS Sponge, Transcript, InductionProofs, SequenceTheorems
----------------------------------------------------------------------------
(***************************************************************************)
(* Theorems about the sponge and the random oracle, for every rate, every  *)
(* pattern and every number of elements.                                   *)
(***************************************************************************)

\* Operations, outputs and sponges of any size.
AnyOp  == [absorb : BOOLEAN, count : Nat]
Output == [value : SUBSET Nat, from : Nat \X Nat]
SpongeState ==
    [mode : Modes, el : [Lanes -> SUBSET Nat], twin : [Lanes -> SUBSET Nat],
     absorb_pos : 0 .. Rate, squeeze_pos : 0 .. Rate, io_count : Nat,
     pattern : Seq(AnyOp), permutation_count : Nat, out : Seq(Output)]

\* What the lanes of a sponge depend on, taken together.
Content(s) == UNION {s.el[i] : i \in Lanes}
\* A witness generator's expressions have the values of its state.
Synced(s) == s.mode = "witness" => s.twin = s.el
\* Squeezing without a permutation gives what depends on everything.
Mixed(s) == s.squeeze_pos < Rate => \A i \in Lanes : s.el[i] = Content(s)
\* The lane was squeezed, or never will be.
Spent(s, from) ==
    \/ from[1] < s.permutation_count
    \/ from[1] = s.permutation_count /\ from[2] < s.squeeze_pos
\* Two sponges that only differ in the mode.
Same(s, t) ==
    /\ s.el = t.el /\ s.absorb_pos = t.absorb_pos /\ s.squeeze_pos = t.squeeze_pos
    /\ s.io_count = t.io_count /\ s.pattern = t.pattern /\ s.out = t.out
    /\ s.permutation_count = t.permutation_count
----------------------------------------------------------------------------
LEMMA RateLanes == Rate \in Nat /\ Rate > 0 /\ 0 \in Lanes /\ Lanes = 0 .. Rate
BY RateAssumption DEF Lanes

LEMMA ModeNames == {"native", "witness", "shape"} = Modes
BY DEF Modes

(* The record of a sponge after a permutation.                             *)
Permuted(s, el, twin) ==
    [s EXCEPT !.twin = twin, !.el = el, !.absorb_pos = 0,
              !.squeeze_pos = 0, !.permutation_count = s.permutation_count + 1]

LEMMA PermutedFields ==
  ASSUME NEW s \in SpongeState, NEW el \in [Lanes -> SUBSET Nat],
         NEW twin \in [Lanes -> SUBSET Nat],
         NEW t, t = Permuted(s, el, twin)
  PROVE  /\ t \in SpongeState /\ t.mode = s.mode /\ t.el = el /\ t.twin = twin
         /\ t.absorb_pos = 0 /\ t.squeeze_pos = 0
         /\ t.permutation_count = s.permutation_count + 1
         /\ t.io_count = s.io_count /\ t.pattern = s.pattern /\ t.out = s.out
<1>1. t = [mode |-> s.mode, el |-> el, twin |-> twin, absorb_pos |-> 0, squeeze_pos |-> 0,
           io_count |-> s.io_count, pattern |-> s.pattern,
           permutation_count |-> s.permutation_count + 1, out |-> s.out]
  BY DEF SpongeState, Permuted
<1>2. t \in SpongeState  BY <1>1, RateLanes DEF SpongeState
<1>. QED BY <1>1, <1>2

(* A permutation leaves every lane with the whole content.                 *)
LEMMA PermuteExact ==
  ASSUME NEW s \in SpongeState, Synced(s)
  PROVE  LET t == permute(s)
         IN  /\ t \in SpongeState /\ Synced(t) /\ t.mode = s.mode
             /\ t.el = [i \in Lanes |-> Content(s)]
             /\ t.absorb_pos = 0 /\ t.squeeze_pos = 0
             /\ t.permutation_count = s.permutation_count + 1
             /\ t.io_count = s.io_count /\ t.pattern = s.pattern /\ t.out = s.out
<1> DEFINE t == permute(s)
           twin == IF s.mode = "witness" THEN mix(s.el) ELSE s.twin
<1>1. mix(s.el) = [i \in Lanes |-> Content(s)]
  BY DEF mix, Content
<1>2. mix(s.el) \in [Lanes -> SUBSET Nat] /\ twin \in [Lanes -> SUBSET Nat]
  <2>1. Content(s) \subseteq Nat  BY DEF SpongeState, Content
  <2>2. s.twin \in [Lanes -> SUBSET Nat]  BY DEF SpongeState
  <2>. QED BY <1>1, <2>1, <2>2
<1>3. t = Permuted(s, mix(s.el), twin)
  <2>1. CASE s.mode = "witness"
    <3>1. s.twin = s.el  BY <2>1 DEF Synced
    <3>2. permute_state(s) = [s EXCEPT !.twin = mix(s.el), !.el = mix(s.el)]
      BY <2>1, <3>1 DEF permute_state
    <3>. QED BY <2>1, <3>2 DEF permute, SpongeState, Permuted
  <2>2. CASE s.mode # "witness"
    <3>1. permute_state(s) = [s EXCEPT !.el = mix(s.el)]
      BY <2>2 DEF permute_state
    <3>2. t = [s EXCEPT !.el = mix(s.el), !.absorb_pos = 0, !.squeeze_pos = 0,
                        !.permutation_count = s.permutation_count + 1]
      BY <3>1 DEF permute, SpongeState
    <3>3. twin = s.twin  BY <2>2
    <3> HIDE DEF t, twin
    <3>4. [s EXCEPT !.twin = twin] = s  BY <3>3 DEF SpongeState
    <3>. QED BY <3>2, <3>3, <3>4 DEF SpongeState, Permuted
  <2>. QED BY <2>1, <2>2
<1>4. /\ t \in SpongeState /\ t.mode = s.mode /\ t.el = mix(s.el) /\ t.twin = twin
      /\ t.absorb_pos = 0 /\ t.squeeze_pos = 0
      /\ t.permutation_count = s.permutation_count + 1
      /\ t.io_count = s.io_count /\ t.pattern = s.pattern /\ t.out = s.out
  <2> HIDE DEF t, twin
  <2>. QED BY <1>2, <1>3, PermutedFields
<1>5. Synced(t)  BY <1>4 DEF Synced
<1>. QED BY <1>1, <1>4, <1>5

(* What absorbing one element does.                                        *)
AbsorbedOne(s, e, t) ==
    /\ t \in SpongeState /\ Synced(t) /\ t.mode = s.mode
    /\ Content(t) = Content(s) \cup e
    /\ t.io_count = s.io_count /\ t.pattern = s.pattern
    /\ t.permutation_count >= s.permutation_count

\* The sponge that the element goes to, and the fields that it leaves.
Ready(s, pos) == IF pos = Rate THEN permute(s) ELSE s
AbsorbFields(s, e, t) ==
    LET p == Ready(s, s.absorb_pos)
        i == p.absorb_pos + capacity
    IN  /\ t.el = [p.el EXCEPT ![i] = p.el[i] \cup e]
        /\ t.absorb_pos = p.absorb_pos + 1 /\ t.squeeze_pos = p.squeeze_pos
        /\ t.io_count = p.io_count /\ t.pattern = p.pattern /\ t.out = p.out
        /\ t.permutation_count = p.permutation_count

LEMMA SameContent ==
  ASSUME NEW s \in SpongeState, NEW A, s.el = [i \in Lanes |-> A]
  PROVE  Content(s) = A
BY RateLanes DEF Content

LEMMA AbsorbElement ==
  ASSUME NEW s \in SpongeState, Synced(s), NEW e \in SUBSET Nat
  PROVE  /\ AbsorbedOne(s, e, absorb_element(s, e))
         /\ AbsorbFields(s, e, absorb_element(s, e))
<1> DEFINE p == Ready(s, s.absorb_pos)
           i == p.absorb_pos + capacity
           u == set_element(p, i, p.el[i] \cup e)
           t == [u EXCEPT !.absorb_pos = @ + 1]
<1>1. /\ p \in SpongeState /\ Synced(p) /\ p.mode = s.mode /\ p.absorb_pos < Rate
      /\ Content(p) = Content(s)
      /\ p.io_count = s.io_count /\ p.pattern = s.pattern
      /\ p.permutation_count >= s.permutation_count
  <2>1. CASE s.absorb_pos = Rate
    <3>1. p = permute(s)  BY <2>1 DEF Ready
    <3>2. /\ p \in SpongeState /\ Synced(p) /\ p.mode = s.mode /\ p.absorb_pos = 0
          /\ p.el = [k \in Lanes |-> Content(s)]
          /\ p.io_count = s.io_count /\ p.pattern = s.pattern
          /\ p.permutation_count = s.permutation_count + 1
      BY <3>1, PermuteExact
    <3>3. Content(p) = Content(s)  BY <3>2, SameContent
    <3>. QED BY <3>2, <3>3, RateLanes DEF SpongeState
  <2>2. CASE s.absorb_pos # Rate
    <3>1. p = s  BY <2>2 DEF Ready
    <3>2. s.absorb_pos \in 0 .. Rate /\ s.permutation_count \in Nat  BY DEF SpongeState
    <3>. QED BY <3>1, <3>2, <2>2, RateLanes
  <2>. QED BY <2>1, <2>2
<1>2. absorb_element(s, e) = t
  BY DEF absorb_element, Ready
<1>9. AbsorbFields(s, e, t) <=>
         /\ t.el = [p.el EXCEPT ![i] = p.el[i] \cup e]
         /\ t.absorb_pos = p.absorb_pos + 1 /\ t.squeeze_pos = p.squeeze_pos
         /\ t.io_count = p.io_count /\ t.pattern = p.pattern /\ t.out = p.out
         /\ t.permutation_count = p.permutation_count
  <2> HIDE DEF t
  <2>. QED BY DEF AbsorbFields
<1> HIDE DEF p
<1>3. i \in Lanes /\ p.absorb_pos + 1 \in 0 .. Rate /\ p.absorb_pos \in Nat
  BY <1>1, RateLanes DEF SpongeState, capacity
<1>4. p.el[i] \cup e \subseteq Nat  BY <1>1, <1>3 DEF SpongeState
<1>5. t = [p EXCEPT !.el[i] = p.el[i] \cup e,
                    !.twin[i] = IF p.mode = "witness" THEN p.el[i] \cup e ELSE p.twin[i],
                    !.absorb_pos = p.absorb_pos + 1]
  <2>1. u = [p EXCEPT !.el[i] = p.el[i] \cup e,
                      !.twin[i] = IF p.mode = "witness" THEN p.el[i] \cup e ELSE p.twin[i]]
    <3>1. p.twin[i] = p.twin[i]  OBVIOUS
    <3>. QED BY <1>1, <1>3 DEF set_element, SpongeState
  <2>2. u.absorb_pos = p.absorb_pos  BY <1>1, <2>1 DEF SpongeState
  <2>3. t = [u EXCEPT !.absorb_pos = p.absorb_pos + 1]  BY <2>2
  <2> HIDE DEF u
  <2>. QED BY <2>1, <2>3
<1> HIDE DEF t, u
<1>6. /\ t \in SpongeState /\ Synced(t) /\ t.mode = s.mode
      /\ t.el = [p.el EXCEPT ![i] = p.el[i] \cup e]
      /\ t.io_count = s.io_count /\ t.pattern = s.pattern
      /\ t.permutation_count >= s.permutation_count
  <2>1. (IF p.mode = "witness" THEN p.el[i] \cup e ELSE p.twin[i]) \in SUBSET Nat
    BY <1>1, <1>3, <1>4 DEF SpongeState
  <2>2. t \in SpongeState  BY <1>1, <1>3, <1>4, <1>5, <2>1 DEF SpongeState
  <2>3. t.el = [p.el EXCEPT ![i] = p.el[i] \cup e] /\ t.mode = p.mode
    BY <1>1, <1>5 DEF SpongeState
  <2>4. Synced(t)
    <3>1. SUFFICES ASSUME p.mode = "witness"  PROVE t.twin = t.el
      BY <2>3 DEF Synced
    <3>2. t.twin = [p.twin EXCEPT ![i] = p.el[i] \cup e] /\ p.twin = p.el
      BY <1>1, <1>5, <3>1 DEF SpongeState, Synced
    <3>. QED BY <2>3, <3>2
  <2>5. t.io_count = p.io_count /\ t.pattern = p.pattern
        /\ t.permutation_count = p.permutation_count
    BY <1>1, <1>5 DEF SpongeState
  <2>. QED BY <1>1, <2>2, <2>3, <2>4, <2>5
<1>7. Content(t) = Content(p) \cup e
  <2>1. p.el \in [Lanes -> SUBSET Nat]  BY <1>1 DEF SpongeState
  <2>. QED BY <1>3, <1>6, <2>1 DEF Content
<1>8. AbsorbFields(s, e, t)
  <2>1. /\ t.absorb_pos = p.absorb_pos + 1 /\ t.squeeze_pos = p.squeeze_pos
        /\ t.io_count = p.io_count /\ t.pattern = p.pattern /\ t.out = p.out
        /\ t.permutation_count = p.permutation_count
    BY <1>1, <1>5 DEF SpongeState
  <2>. QED BY <1>9, <1>6, <2>1
<1>. QED BY <1>1, <1>2, <1>6, <1>7, <1>8 DEF AbsorbedOne
----------------------------------------------------------------------------
(* Many elements: the tables of absorb_elements and squeeze_elements.      *)

SyncedSponge == {s \in SpongeState : Synced(s)}

Absorbing(s, elements, g) ==
    /\ g[0] = s /\ absorb_elements(s, elements) = g[Len(elements)]
    /\ \A k \in 0 .. Len(elements) : g[k] \in SyncedSponge
    /\ \A k \in 0 .. Len(elements) - 1 : g[k + 1] = absorb_element(g[k], elements[k + 1])

LEMMA AbsorbTable ==
  ASSUME NEW s \in SyncedSponge, NEW elements \in Seq(SUBSET Nat)
  PROVE  \E g : Absorbing(s, elements, g)
<1> DEFINE n == Len(elements)
           Is(t) == t = [k \in 0 .. n |->
                           IF k = 0 THEN s ELSE absorb_element(t[k - 1], elements[k])]
           F == [k \in 0 .. n - 1 |->
                   [x \in SyncedSponge |-> absorb_element(x, elements[k + 1])]]
           t == CHOOSE g : Is(g)
<1>1. \A k \in 0 .. n - 1, x \in SyncedSponge : F[k][x] = absorb_element(x, elements[k + 1])
  OBVIOUS
<1>2. n \in Nat /\ \A k \in 0 .. n - 1 : elements[k + 1] \in SUBSET Nat
  <2>1. n \in Nat  BY LenProperties
  <2>2. \A k \in 0 .. n - 1 : k + 1 \in 1 .. n  BY <2>1
  <2>3. \A k \in 1 .. n : elements[k] \in SUBSET Nat  BY ElementOfSeq
  <2>. QED BY <2>1, <2>2, <2>3
<1>3. \A k \in 0 .. n - 1, x \in SyncedSponge :
         absorb_element(x, elements[k + 1]) \in SyncedSponge
  <2> TAKE k \in 0 .. n - 1, x \in SyncedSponge
  <2>1. x \in SpongeState /\ Synced(x)  BY DEF SyncedSponge
  <2>2. AbsorbedOne(x, elements[k + 1], absorb_element(x, elements[k + 1]))
    BY <1>2, <2>1, AbsorbElement
  <2>. QED BY <2>2 DEF AbsorbedOne, SyncedSponge
<1> HIDE DEF n
<1>4. PICK g : Recursion(g, n, SyncedSponge, s, F)
  <2> HIDE DEF F
  <2>1. StepsIn(F, n, SyncedSponge)  BY <1>1, <1>3 DEF StepsIn
  <2>. QED BY <1>2, <2>1, RecursionTo
<1>5. \A k \in 0 .. n - 1 : g[k + 1] = absorb_element(g[k], elements[k + 1])
  <2> HIDE DEF F
  <2>. QED BY <1>1, <1>2, <1>4 DEF Recursion
<1>6. Is(g)
  <2>1. \A k \in 0 .. n : k # 0 => k - 1 \in 0 .. n - 1 /\ (k - 1) + 1 = k  BY <1>2
  <2>2. \A k \in 0 .. n :
          g[k] = IF k = 0 THEN s ELSE absorb_element(g[k - 1], elements[k])
    BY <1>4, <1>5, <2>1 DEF Recursion
  <2>3. g \in [0 .. n -> SyncedSponge]  BY <1>4 DEF Recursion
  <2>. QED BY <2>2, <2>3
<1>7. Is(t)  BY <1>6
<1>8. absorb_elements(s, elements) = t[n]  BY DEF absorb_elements, n
<1> HIDE DEF t
<1>9. t[0] = s  BY <1>2, <1>7
<1>10. \A k \in 0 .. n - 1 : t[k + 1] = absorb_element(t[k], elements[k + 1])
  BY <1>2, <1>7
<1>11. \A k \in 0 .. n : t[k] \in SyncedSponge
  <2> DEFINE T == {k \in 0 .. n : t[k] \in SyncedSponge}
  <2>1. 0 \in T  BY <1>2, <1>9
  <2>2. ASSUME NEW k \in 0 .. n - 1, k \in T  PROVE k + 1 \in T
    <3>1. t[k] \in SyncedSponge  BY <2>2
    <3>. QED BY <1>2, <1>3, <1>10, <3>1
  <2>3. \A k \in 0 .. n : k \in T
    <3> HIDE DEF T
    <3>. QED BY <1>2, <2>1, <2>2, InductionTo
  <2>. QED BY <2>3
<1>. QED BY <1>8, <1>9, <1>10, <1>11 DEF Absorbing, n

(* What absorbing does.                                                    *)
AbsorbedAll(s, elements, t) ==
    /\ t \in SpongeState /\ Synced(t) /\ t.mode = s.mode
    /\ Content(t) = Content(s) \cup UNION {elements[k] : k \in 1 .. Len(elements)}
    /\ t.pattern = s.pattern /\ t.io_count = s.io_count + 1
    /\ t.permutation_count >= s.permutation_count /\ t.squeeze_pos = Rate

LEMMA AbsorbExact ==
  ASSUME NEW s \in SyncedSponge, NEW elements \in Seq(SUBSET Nat)
  PROVE  AbsorbedAll(s, elements, absorb(s, elements))
<1> DEFINE n == Len(elements)
           upto(k) == UNION {elements[j] : j \in 1 .. k}
           t == absorb(s, elements)
<1>1. PICK g : Absorbing(s, elements, g)  BY AbsorbTable
<1>2. n \in Nat /\ \A k \in 0 .. n - 1 : elements[k + 1] \in SUBSET Nat
  <2>1. n \in Nat  BY LenProperties
  <2>2. \A k \in 0 .. n - 1 : k + 1 \in 1 .. n  BY <2>1
  <2>3. \A k \in 1 .. n : elements[k] \in SUBSET Nat  BY ElementOfSeq
  <2>. QED BY <2>1, <2>2, <2>3
<1>3. \A k \in 0 .. n - 1 : AbsorbedOne(g[k], elements[k + 1], g[k + 1])
  <2> TAKE k \in 0 .. n - 1
  <2>1. k \in 0 .. n  BY <1>2
  <2>2. g[k] \in SpongeState /\ Synced(g[k])  BY <1>1, <2>1 DEF Absorbing, SyncedSponge
  <2>3. g[k + 1] = absorb_element(g[k], elements[k + 1])  BY <1>1 DEF Absorbing
  <2>. QED BY <1>2, <2>2, <2>3, AbsorbElement
<1>4. \A k \in 0 .. n - 1 : upto(k + 1) = upto(k) \cup elements[k + 1]
  <2> TAKE k \in 0 .. n - 1
  <2>1. 1 .. k + 1 = (1 .. k) \cup {k + 1}  BY <1>2
  <2>. QED BY <2>1
<1>5. upto(0) = {}  OBVIOUS
<1> DEFINE T == {k \in 0 .. n :
                   /\ g[k].mode = s.mode /\ Content(g[k]) = Content(s) \cup upto(k)
                   /\ g[k].pattern = s.pattern /\ g[k].io_count = s.io_count
                   /\ g[k].permutation_count >= s.permutation_count}
<1>6. 0 \in T
  <2>1. s.permutation_count >= s.permutation_count  BY DEF SyncedSponge, SpongeState
  <2>. QED BY <1>1, <1>2, <1>5, <2>1 DEF Absorbing
<1>7. ASSUME NEW k \in 0 .. n - 1, k \in T  PROVE k + 1 \in T
  <2>1. /\ g[k].mode = s.mode /\ Content(g[k]) = Content(s) \cup upto(k)
        /\ g[k].pattern = s.pattern /\ g[k].io_count = s.io_count
        /\ g[k].permutation_count >= s.permutation_count
    BY <1>7
  <2>2. /\ g[k].permutation_count \in Nat /\ g[k + 1].permutation_count \in Nat
        /\ s.permutation_count \in Nat /\ k + 1 \in 0 .. n
    <3>1. k \in 0 .. n /\ k + 1 \in 0 .. n  BY <1>2
    <3>. QED BY <1>1, <3>1 DEF Absorbing, SyncedSponge, SpongeState
  <2>3. AbsorbedOne(g[k], elements[k + 1], g[k + 1])  BY <1>3
  <2>4. Content(g[k + 1]) = Content(s) \cup upto(k + 1)
    BY <1>4, <2>1, <2>3 DEF AbsorbedOne
  <2>5. g[k + 1].permutation_count >= s.permutation_count
    BY <2>1, <2>2, <2>3 DEF AbsorbedOne
  <2>6. /\ g[k + 1].mode = s.mode /\ g[k + 1].pattern = s.pattern
        /\ g[k + 1].io_count = s.io_count
    BY <2>1, <2>3 DEF AbsorbedOne
  <2> HIDE DEF upto
  <2>. QED BY <2>2, <2>4, <2>5, <2>6
<1>8. n \in T
  <2>1. \A k \in 0 .. n : k \in T
    <3> HIDE DEF T, n
    <3>. QED BY <1>2, <1>6, <1>7, InductionTo
  <2>2. n \in 0 .. n  BY <1>2
  <2> HIDE DEF T, n
  <2>. QED BY <2>1, <2>2
<1>9. /\ g[n].mode = s.mode /\ Content(g[n]) = Content(s) \cup upto(n)
      /\ g[n].pattern = s.pattern /\ g[n].io_count = s.io_count
      /\ g[n].permutation_count >= s.permutation_count
  BY <1>8
<1>10. g[n] \in SpongeState /\ Synced(g[n])
  BY <1>1, <1>2 DEF Absorbing, SyncedSponge
<1>11. t = [g[n] EXCEPT !.squeeze_pos = Rate, !.io_count = s.io_count + 1]
  <2>1. absorb_elements(s, elements) = g[n]  BY <1>1 DEF Absorbing
  <2>. QED BY <1>9, <2>1 DEF absorb
<1> HIDE DEF t, n
<1>12. t = [mode |-> g[n].mode, el |-> g[n].el, twin |-> g[n].twin,
            absorb_pos |-> g[n].absorb_pos, squeeze_pos |-> Rate,
            io_count |-> s.io_count + 1, pattern |-> g[n].pattern,
            permutation_count |-> g[n].permutation_count, out |-> g[n].out]
  BY <1>10, <1>11 DEF SpongeState
<1>13. t \in SpongeState
  <2>1. s.io_count \in Nat  BY DEF SyncedSponge, SpongeState
  <2>. QED BY <1>10, <1>12, <2>1, RateLanes DEF SpongeState
<1>14. t.el = g[n].el /\ t.twin = g[n].twin /\ t.mode = g[n].mode
       /\ t.squeeze_pos = Rate /\ t.io_count = s.io_count + 1
       /\ t.pattern = g[n].pattern /\ t.permutation_count = g[n].permutation_count
  BY <1>12
<1>15. Synced(t) /\ Content(t) = Content(g[n])
  BY <1>10, <1>14 DEF Synced, Content
<1>16. upto(n) = UNION {elements[k] : k \in 1 .. Len(elements)}  BY DEF n
<1>17. AbsorbedAll(s, elements, t)
  BY <1>9, <1>13, <1>14, <1>15, <1>16 DEF AbsorbedAll
<1>. QED BY <1>17 DEF t
----------------------------------------------------------------------------
(* Squeezing one element: it depends on the whole content if anything was  *)
(* absorbed, its lane is a new one and is spent from then on.              *)
SqueezedOne(s, t) ==
    /\ t \in SpongeState /\ Synced(t) /\ t.mode = s.mode
    /\ Content(t) = Content(s) /\ t.io_count = s.io_count /\ t.pattern = s.pattern
    /\ \A f \in Nat \X Nat : Spent(s, f) => Spent(t, f)
    /\ \E o \in Output :
          /\ t.out = Append(s.out, o)
          /\ ~ Spent(s, o.from) /\ Spent(t, o.from)
          /\ Mixed(s) => Mixed(t) /\ o.value = Content(s)

SqueezeFields(s, t) ==
    LET p == Ready(s, s.squeeze_pos)
    IN  /\ t.el = p.el /\ t.absorb_pos = p.absorb_pos
        /\ t.squeeze_pos = p.squeeze_pos + 1
        /\ t.io_count = p.io_count /\ t.pattern = p.pattern
        /\ t.out = Append(p.out, read_rate_element(p))
        /\ t.permutation_count = p.permutation_count

LEMMA SqueezeElement ==
  ASSUME NEW s \in SpongeState, Synced(s)
  PROVE  SqueezedOne(s, squeeze_element(s)) /\ SqueezeFields(s, squeeze_element(s))
<1> DEFINE p == Ready(s, s.squeeze_pos)
           o == read_rate_element(p)
           t == [p EXCEPT !.squeeze_pos = @ + 1, !.out = Append(@, o)]
<1>1. /\ p \in SpongeState /\ Synced(p) /\ p.mode = s.mode /\ p.squeeze_pos < Rate
      /\ Content(p) = Content(s) /\ p.out = s.out
      /\ p.io_count = s.io_count /\ p.pattern = s.pattern
      /\ Mixed(s) => \A i \in Lanes : p.el[i] = Content(s)
      /\ \A f \in Nat \X Nat : Spent(s, f) => Spent(p, f)
      /\ ~ Spent(s, <<p.permutation_count, p.squeeze_pos>>)
  <2>1. CASE s.squeeze_pos = Rate
    <3>1. p = permute(s)  BY <2>1 DEF Ready
    <3>2. /\ p \in SpongeState /\ Synced(p) /\ p.mode = s.mode /\ p.squeeze_pos = 0
          /\ p.el = [k \in Lanes |-> Content(s)] /\ p.out = s.out
          /\ p.io_count = s.io_count /\ p.pattern = s.pattern
          /\ p.permutation_count = s.permutation_count + 1
      BY <3>1, PermuteExact
    <3>3. Content(p) = Content(s)  BY <3>2, SameContent
    <3>4. s.permutation_count \in Nat  BY DEF SpongeState
    <3> HIDE DEF p
    <3>5. \A f \in Nat \X Nat : Spent(s, f) => Spent(p, f)
      BY <3>2, <3>4 DEF Spent
    <3>6. ~ Spent(s, <<p.permutation_count, p.squeeze_pos>>)
      BY <3>2, <3>4 DEF Spent
    <3>7. \A i \in Lanes : p.el[i] = Content(s)  BY <3>2
    <3>. QED BY <3>2, <3>3, <3>5, <3>6, <3>7, RateLanes
  <2>2. CASE s.squeeze_pos # Rate
    <3>1. p = s  BY <2>2 DEF Ready
    <3>2. s.squeeze_pos \in 0 .. Rate /\ s.permutation_count \in Nat  BY DEF SpongeState
    <3>3. s.squeeze_pos < Rate  BY <2>2, <3>2, RateLanes
    <3>4. ~ Spent(s, <<s.permutation_count, s.squeeze_pos>>)  BY <3>2 DEF Spent
    <3>5. Mixed(s) => \A i \in Lanes : s.el[i] = Content(s)  BY <3>3 DEF Mixed
    <3>. QED BY <3>1, <3>3, <3>4, <3>5
  <2>. QED BY <2>1, <2>2
<1>2. squeeze_element(s) = t
  BY DEF squeeze_element, Ready
<1>13. SqueezeFields(s, t) <=>
        /\ t.el = p.el /\ t.absorb_pos = p.absorb_pos
        /\ t.squeeze_pos = p.squeeze_pos + 1
        /\ t.io_count = p.io_count /\ t.pattern = p.pattern
        /\ t.out = Append(p.out, read_rate_element(p))
        /\ t.permutation_count = p.permutation_count
  <2> HIDE DEF t
  <2>. QED BY DEF SqueezeFields
<1> HIDE DEF p
<1>3. /\ p.squeeze_pos \in Nat /\ p.squeeze_pos + 1 \in 0 .. Rate
      /\ p.squeeze_pos + capacity \in Lanes /\ p.permutation_count \in Nat
  BY <1>1, RateLanes DEF SpongeState, capacity
<1>4. /\ o \in Output /\ o.from = <<p.permutation_count, p.squeeze_pos>>
      /\ o.value = p.el[p.squeeze_pos + capacity]
  <2>1. p.el[p.squeeze_pos + capacity] \in SUBSET Nat  BY <1>1, <1>3 DEF SpongeState
  <2>. QED BY <1>3, <2>1 DEF read_rate_element, Output
<1> HIDE DEF o
<1>5. t = [mode |-> p.mode, el |-> p.el, twin |-> p.twin,
           absorb_pos |-> p.absorb_pos, squeeze_pos |-> p.squeeze_pos + 1,
           io_count |-> p.io_count, pattern |-> p.pattern,
           permutation_count |-> p.permutation_count, out |-> Append(p.out, o)]
  <2>1. p \in SpongeState  BY <1>1
  <2> DEFINE pos == p.squeeze_pos + 1
             out == Append(p.out, o)
  <2>2. t = [p EXCEPT !.squeeze_pos = pos, !.out = out]  OBVIOUS
  <2> HIDE DEF t, pos, out
  <2>3. t = [mode |-> p.mode, el |-> p.el, twin |-> p.twin,
             absorb_pos |-> p.absorb_pos, squeeze_pos |-> pos,
             io_count |-> p.io_count, pattern |-> p.pattern,
             permutation_count |-> p.permutation_count, out |-> out]
    BY <2>1, <2>2 DEF SpongeState
  <2>. QED BY <2>3 DEF pos, out
<1> HIDE DEF t
<1>6. t \in SpongeState
  <2>1. Append(p.out, o) \in Seq(Output)
    <3>1. p.out \in Seq(Output)  BY <1>1 DEF SpongeState
    <3>. QED BY <1>4, <3>1, AppendProperties
  <2>. QED BY <1>1, <1>3, <1>5, <2>1 DEF SpongeState
<1>7. /\ t.mode = p.mode /\ t.el = p.el /\ t.twin = p.twin
      /\ t.squeeze_pos = p.squeeze_pos + 1 /\ t.io_count = p.io_count
      /\ t.pattern = p.pattern /\ t.permutation_count = p.permutation_count
      /\ t.out = Append(p.out, o)
  BY <1>5
<1>8. Synced(t) /\ Content(t) = Content(p)
  BY <1>1, <1>7 DEF Synced, Content
<1>9. \A f \in Nat \X Nat : Spent(p, f) => Spent(t, f)
  BY <1>3, <1>7 DEF Spent
<1>10. Spent(t, o.from)
  <2>1. o.from[1] = t.permutation_count /\ o.from[2] < t.squeeze_pos
    BY <1>3, <1>4, <1>7
  <2>. QED BY <2>1 DEF Spent
<1>11. Mixed(s) => Mixed(t) /\ o.value = Content(s)
  <2> SUFFICES ASSUME Mixed(s)  PROVE Mixed(t) /\ o.value = Content(s)
    OBVIOUS
  <2>1. \A i \in Lanes : t.el[i] = Content(s)  BY <1>1, <1>7
  <2>2. Content(t) = Content(s)  BY <1>1, <1>8
  <2>3. o.value = Content(s)  BY <1>1, <1>3, <1>4
  <2>. QED BY <2>1, <2>2, <2>3 DEF Mixed
<1>12. SqueezedOne(s, t)
  <2>1. /\ t.mode = s.mode /\ Content(t) = Content(s) /\ t.io_count = s.io_count
        /\ t.pattern = s.pattern /\ t.out = Append(s.out, o) /\ ~ Spent(s, o.from)
    BY <1>1, <1>4, <1>7, <1>8
  <2>2. \A f \in Nat \X Nat : Spent(s, f) => Spent(t, f)
    BY <1>1, <1>9
  <2>. QED BY <1>4, <1>6, <1>8, <1>10, <1>11, <2>1, <2>2 DEF SqueezedOne
<1>14. SqueezeFields(s, t)
  <2>1. t.absorb_pos = p.absorb_pos  BY <1>5
  <2>. QED BY <1>7, <1>13, <2>1 DEF o
<1>. QED BY <1>2, <1>12, <1>14

Squeezing(s, n, g) ==
    /\ g[0] = s /\ squeeze_elements(s, n) = g[n]
    /\ \A k \in 0 .. n : g[k] \in SyncedSponge
    /\ \A k \in 0 .. n - 1 : g[k + 1] = squeeze_element(g[k])

LEMMA SqueezeTable ==
  ASSUME NEW s \in SyncedSponge, NEW n \in Nat
  PROVE  \E g : Squeezing(s, n, g)
<1> DEFINE Is(t) == t = [k \in 0 .. n |-> IF k = 0 THEN s ELSE squeeze_element(t[k - 1])]
           F == [k \in 0 .. n - 1 |-> [x \in SyncedSponge |-> squeeze_element(x)]]
           t == CHOOSE g : Is(g)
<1>1. \A k \in 0 .. n - 1, x \in SyncedSponge : F[k][x] = squeeze_element(x)
  OBVIOUS
<1>2. \A x \in SyncedSponge : squeeze_element(x) \in SyncedSponge
  <2> TAKE x \in SyncedSponge
  <2>1. x \in SpongeState /\ Synced(x)  BY DEF SyncedSponge
  <2>2. SqueezedOne(x, squeeze_element(x))  BY <2>1, SqueezeElement
  <2>. QED BY <2>2 DEF SqueezedOne, SyncedSponge
<1>3. PICK g : Recursion(g, n, SyncedSponge, s, F)
  <2> HIDE DEF F
  <2>1. StepsIn(F, n, SyncedSponge)  BY <1>1, <1>2 DEF StepsIn
  <2>. QED BY <2>1, RecursionTo
<1>4. \A k \in 0 .. n - 1 : g[k + 1] = squeeze_element(g[k])
  <2> HIDE DEF F
  <2>. QED BY <1>1, <1>3 DEF Recursion
<1>5. Is(g)
  <2>1. \A k \in 0 .. n : k # 0 => k - 1 \in 0 .. n - 1 /\ (k - 1) + 1 = k  OBVIOUS
  <2>2. \A k \in 0 .. n : g[k] = IF k = 0 THEN s ELSE squeeze_element(g[k - 1])
    BY <1>3, <1>4, <2>1 DEF Recursion
  <2>3. g \in [0 .. n -> SyncedSponge]  BY <1>3 DEF Recursion
  <2>. QED BY <2>2, <2>3
<1>6. Is(t)  BY <1>5
<1>7. squeeze_elements(s, n) = t[n]  BY DEF squeeze_elements
<1> HIDE DEF t
<1>8. t[0] = s  BY <1>6
<1>9. \A k \in 0 .. n - 1 : t[k + 1] = squeeze_element(t[k])  BY <1>6
<1>10. \A k \in 0 .. n : t[k] \in SyncedSponge
  <2> DEFINE T == {k \in 0 .. n : t[k] \in SyncedSponge}
  <2>1. 0 \in T  BY <1>8
  <2>2. ASSUME NEW k \in 0 .. n - 1, k \in T  PROVE k + 1 \in T
    <3>1. t[k] \in SyncedSponge  BY <2>2
    <3>. QED BY <1>2, <1>9, <3>1
  <2>3. \A k \in 0 .. n : k \in T
    <3> HIDE DEF T
    <3>. QED BY <2>1, <2>2, InductionTo
  <2>. QED BY <2>3
<1>. QED BY <1>7, <1>8, <1>9, <1>10 DEF Squeezing

(* The elements that were squeezed, from s on.                             *)
Outputs(s, t) ==
    /\ \A i \in 1 .. Len(t.out) :
          /\ ~ Spent(s, t.out[i].from) /\ Spent(t, t.out[i].from)
          /\ Mixed(s) => t.out[i].value = Content(s)
    /\ \A i \in 1 .. Len(t.out) : \A j \in 1 .. i - 1 : t.out[i].from # t.out[j].from

SqueezedAll(s, n, t) ==
    /\ t \in SpongeState /\ Synced(t) /\ t.mode = s.mode
    /\ Content(t) = Content(s) /\ t.pattern = s.pattern
    /\ Mixed(s) => Mixed(t)
    /\ \A f \in Nat \X Nat : Spent(s, f) => Spent(t, f)
    /\ Len(t.out) = n /\ Outputs(s, t)

(* One more element keeps what was said of those before.                   *)
LEMMA SqueezeMore ==
  ASSUME NEW s \in SpongeState, NEW n \in Nat, NEW t, SqueezedAll(s, n, t),
         NEW u, SqueezedOne(t, u)
  PROVE  SqueezedAll(s, n + 1, u)
<1>1. PICK o \in Output : /\ u.out = Append(t.out, o)
                          /\ ~ Spent(t, o.from) /\ Spent(u, o.from)
                          /\ Mixed(t) => Mixed(u) /\ o.value = Content(t)
  BY DEF SqueezedOne
<1>2. t.out \in Seq(Output) /\ Len(t.out) = n
  BY DEF SqueezedAll, SpongeState
<1>3. /\ Len(u.out) = n + 1 /\ u.out[n + 1] = o
      /\ \A i \in 1 .. n : u.out[i] = t.out[i]
  BY <1>1, <1>2, AppendProperties
<1>4. \A i \in 1 .. n : t.out[i].from \in Nat \X Nat
  <2>1. \A i \in 1 .. n : t.out[i] \in Output  BY <1>2, ElementOfSeq
  <2>. QED BY <2>1 DEF Output
<1>5. \A f \in Nat \X Nat : (Spent(s, f) => Spent(t, f)) /\ (Spent(t, f) => Spent(u, f))
  BY DEF SqueezedAll, SqueezedOne
<1>6. \A i \in 1 .. n + 1 : i \in 1 .. n \/ i = n + 1  OBVIOUS
<1>7. o.from \in Nat \X Nat  BY <1>1 DEF Output
<1>8. ASSUME NEW i \in 1 .. n + 1
      PROVE  /\ ~ Spent(s, u.out[i].from) /\ Spent(u, u.out[i].from)
             /\ Mixed(s) => u.out[i].value = Content(s)
  <2>1. CASE i \in 1 .. n
    <3>1. /\ ~ Spent(s, t.out[i].from) /\ Spent(t, t.out[i].from)
          /\ Mixed(s) => t.out[i].value = Content(s)
      BY <1>2, <2>1 DEF SqueezedAll, Outputs
    <3>. QED BY <1>3, <1>4, <1>5, <2>1, <3>1
  <2>2. CASE i = n + 1
    <3>1. Content(t) = Content(s) /\ (Mixed(s) => Mixed(t))  BY DEF SqueezedAll
    <3>2. ~ Spent(s, o.from)  BY <1>1, <1>5, <1>7
    <3>. QED BY <1>1, <1>3, <2>2, <3>1, <3>2
  <2>. QED BY <1>6, <2>1, <2>2
<1>9. ASSUME NEW i \in 1 .. n + 1, NEW j \in 1 .. i - 1
      PROVE  u.out[i].from # u.out[j].from
  <2>1. j \in 1 .. n  OBVIOUS
  <2>2. CASE i \in 1 .. n
    <3>1. t.out[i].from # t.out[j].from  BY <1>2, <2>2 DEF SqueezedAll, Outputs
    <3>. QED BY <1>3, <2>1, <2>2, <3>1
  <2>3. CASE i = n + 1
    <3>1. Spent(t, t.out[j].from)  BY <1>2, <2>1 DEF SqueezedAll, Outputs
    <3>2. ~ Spent(t, o.from)  BY <1>1
    <3>. QED BY <1>3, <2>1, <2>3, <3>1, <3>2
  <2>. QED BY <1>6, <2>2, <2>3
<1>10. Outputs(s, u)  BY <1>3, <1>8, <1>9 DEF Outputs
<1>11. \A f \in Nat \X Nat : Spent(s, f) => Spent(u, f)  BY <1>5
<1>12. Mixed(s) => Mixed(u)  BY <1>1 DEF SqueezedAll
<1>13. /\ u \in SpongeState /\ Synced(u) /\ u.mode = s.mode
       /\ Content(u) = Content(s) /\ u.pattern = s.pattern
  BY DEF SqueezedAll, SqueezedOne
<1>. QED BY <1>3, <1>10, <1>11, <1>12, <1>13 DEF SqueezedAll

(* What squeezing does; its result is the sequence out.                    *)
LEMMA SqueezeExact ==
  ASSUME NEW s \in SyncedSponge, NEW n \in Nat
  PROVE  SqueezedAll(s, n, squeeze(s, n)) /\ squeeze(s, n).io_count = s.io_count + 1
<1> DEFINE b == [s EXCEPT !.out = <<>>]
           t == squeeze(s, n)
<1>1. /\ b \in SpongeState /\ Synced(b) /\ b.mode = s.mode /\ b.out = <<>>
      /\ b.pattern = s.pattern /\ b.io_count = s.io_count /\ b.el = s.el
      /\ b.squeeze_pos = s.squeeze_pos /\ b.permutation_count = s.permutation_count
  <2>1. s \in SpongeState /\ Synced(s)  BY DEF SyncedSponge
  <2>2. b = [mode |-> s.mode, el |-> s.el, twin |-> s.twin,
             absorb_pos |-> s.absorb_pos, squeeze_pos |-> s.squeeze_pos,
             io_count |-> s.io_count, pattern |-> s.pattern,
             permutation_count |-> s.permutation_count, out |-> <<>>]
    <3> DEFINE none == <<>>
    <3>1. b = [s EXCEPT !.out = none]  OBVIOUS
    <3> HIDE DEF b, none
    <3>2. b = [mode |-> s.mode, el |-> s.el, twin |-> s.twin,
               absorb_pos |-> s.absorb_pos, squeeze_pos |-> s.squeeze_pos,
               io_count |-> s.io_count, pattern |-> s.pattern,
               permutation_count |-> s.permutation_count, out |-> none]
      BY <2>1, <3>1 DEF SpongeState
    <3>. QED BY <3>2 DEF none
  <2> HIDE DEF b
  <2>3. <<>> \in Seq(Output)  BY EmptySeq
  <2>. QED BY <2>1, <2>2, <2>3 DEF SpongeState, Synced
<1> HIDE DEF b
<1>2. Content(b) = Content(s) /\ (Mixed(b) <=> Mixed(s))
      /\ \A f \in Nat \X Nat : Spent(b, f) <=> Spent(s, f)
  BY <1>1 DEF Content, Mixed, Spent
<1>3. PICK g : Squeezing(b, n, g)
  <2>1. b \in SyncedSponge  BY <1>1 DEF SyncedSponge
  <2>. QED BY <2>1, SqueezeTable
<1>4. \A k \in 0 .. n : g[k] \in SpongeState /\ Synced(g[k])
  BY <1>3 DEF Squeezing, SyncedSponge
<1>5. \A k \in 0 .. n - 1 : SqueezedOne(g[k], g[k + 1])
  <2> TAKE k \in 0 .. n - 1
  <2>1. g[k] \in SpongeState /\ Synced(g[k]) /\ g[k + 1] = squeeze_element(g[k])
    BY <1>3, <1>4 DEF Squeezing
  <2>. QED BY <2>1, SqueezeElement
<1> DEFINE T == {k \in 0 .. n : SqueezedAll(b, k, g[k]) /\ g[k].io_count = b.io_count}
<1>6. 0 \in T
  <2>1. g[0] = b  BY <1>3 DEF Squeezing
  <2>2. Len(b.out) = 0  BY <1>1, EmptySeq
  <2>3. Outputs(b, b)  BY <2>2 DEF Outputs
  <2>. QED BY <1>1, <2>1, <2>2, <2>3 DEF SqueezedAll
<1>7. ASSUME NEW k \in 0 .. n - 1, k \in T  PROVE k + 1 \in T
  <2>1. SqueezedAll(b, k, g[k]) /\ g[k].io_count = b.io_count /\ k \in Nat  BY <1>7
  <2>2. SqueezedOne(g[k], g[k + 1])  BY <1>5
  <2>3. SqueezedAll(b, k + 1, g[k + 1])  BY <1>1, <2>1, <2>2, SqueezeMore
  <2>4. g[k + 1].io_count = b.io_count  BY <2>1, <2>2 DEF SqueezedOne
  <2>. QED BY <2>3, <2>4
<1>8. SqueezedAll(b, n, g[n]) /\ g[n].io_count = b.io_count
  <2>1. \A k \in 0 .. n : k \in T
    <3> HIDE DEF T
    <3>. QED BY <1>6, <1>7, InductionTo
  <2>2. n \in T
    <3>1. n \in 0 .. n  OBVIOUS
    <3> HIDE DEF T
    <3>. QED BY <2>1, <3>1
  <2>. QED BY <2>2
<1>9. /\ t \in SpongeState /\ t.mode = g[n].mode /\ t.el = g[n].el /\ t.twin = g[n].twin
      /\ t.pattern = g[n].pattern /\ t.out = g[n].out
      /\ t.squeeze_pos = g[n].squeeze_pos
      /\ t.permutation_count = g[n].permutation_count
      /\ t.io_count = s.io_count + 1
  <2>1. g[n] \in SpongeState  BY <1>4
  <2>2. squeeze_elements(b, n) = g[n]  BY <1>3 DEF Squeezing
  <2>3. g[n].io_count = s.io_count  BY <1>1, <1>8
  <2>4. t = [g[n] EXCEPT !.io_count = s.io_count + 1]
    BY <2>2, <2>3 DEF squeeze, b
  <2> HIDE DEF t
  <2>5. t = [mode |-> g[n].mode, el |-> g[n].el, twin |-> g[n].twin,
             absorb_pos |-> g[n].absorb_pos, squeeze_pos |-> g[n].squeeze_pos,
             io_count |-> s.io_count + 1, pattern |-> g[n].pattern,
             permutation_count |-> g[n].permutation_count, out |-> g[n].out]
    BY <2>1, <2>4 DEF SpongeState
  <2>6. s.io_count + 1 \in Nat  BY DEF SyncedSponge, SpongeState
  <2>7. t \in SpongeState  BY <2>1, <2>5, <2>6 DEF SpongeState
  <2>. QED BY <2>5, <2>7
<1> HIDE DEF t
<1>10. Synced(t) /\ Content(t) = Content(g[n]) /\ (Mixed(t) <=> Mixed(g[n]))
       /\ \A f : Spent(t, f) <=> Spent(g[n], f)
  <2>1. Synced(g[n])  BY <1>8 DEF SqueezedAll
  <2>. QED BY <1>9, <2>1 DEF Synced, Content, Mixed, Spent
<1>11. SqueezedAll(s, n, t)
  <2>1. Content(t) = Content(s) /\ t.mode = s.mode /\ t.pattern = s.pattern
        /\ (Mixed(s) => Mixed(t)) /\ Len(t.out) = n
    BY <1>1, <1>2, <1>8, <1>9, <1>10 DEF SqueezedAll
  <2>2. \A f \in Nat \X Nat : Spent(s, f) => Spent(t, f)
    BY <1>2, <1>8, <1>10 DEF SqueezedAll
  <2>3. \A i \in 1 .. Len(t.out) : t.out[i].from \in Nat \X Nat
    <3>1. t.out \in Seq(Output)  BY <1>9 DEF SpongeState
    <3>2. \A i \in 1 .. Len(t.out) : t.out[i] \in Output  BY <3>1, ElementOfSeq
    <3>. QED BY <3>2 DEF Output
  <2>4. Outputs(s, t)
    <3>1. Outputs(b, g[n])  BY <1>8 DEF SqueezedAll
    <3>. QED BY <1>2, <1>9, <1>10, <2>3, <3>1 DEF Outputs
  <2>. QED BY <1>9, <1>10, <2>1, <2>2, <2>4 DEF SqueezedAll
<1>. QED BY <1>9, <1>11 DEF t
----------------------------------------------------------------------------
(* The modes agree: what is done to two sponges that only differ in the    *)
(* mode leaves two that only differ in the mode.                           *)

LEMMA ReadySame ==
  ASSUME NEW s \in SyncedSponge, NEW t \in SyncedSponge, Same(s, t), NEW pos
  PROVE  Same(Ready(s, pos), Ready(t, pos))
<1>1. /\ s \in SpongeState /\ Synced(s) /\ t \in SpongeState /\ Synced(t)
      /\ Content(s) = Content(t)
  BY DEF SyncedSponge, Same, Content
<1>2. Same(permute(s), permute(t))
  <2> DEFINE u == permute(s)
             v == permute(t)
  <2>1. /\ u.el = [i \in Lanes |-> Content(s)] /\ u.absorb_pos = 0 /\ u.squeeze_pos = 0
        /\ u.permutation_count = s.permutation_count + 1
        /\ u.io_count = s.io_count /\ u.pattern = s.pattern /\ u.out = s.out
    BY <1>1, PermuteExact
  <2>2. /\ v.el = [i \in Lanes |-> Content(t)] /\ v.absorb_pos = 0 /\ v.squeeze_pos = 0
        /\ v.permutation_count = t.permutation_count + 1
        /\ v.io_count = t.io_count /\ v.pattern = t.pattern /\ v.out = t.out
    BY <1>1, PermuteExact
  <2> HIDE DEF u, v
  <2>3. Same(u, v)  BY <1>1, <2>1, <2>2 DEF Same
  <2>. QED BY <2>3 DEF u, v
<1>. QED BY <1>2 DEF Ready

LEMMA AbsorbElementSame ==
  ASSUME NEW s \in SyncedSponge, NEW t \in SyncedSponge, Same(s, t), NEW e \in SUBSET Nat
  PROVE  Same(absorb_element(s, e), absorb_element(t, e))
<1>1. AbsorbFields(s, e, absorb_element(s, e)) /\ AbsorbFields(t, e, absorb_element(t, e))
  BY AbsorbElement DEF SyncedSponge
<1>2. s.absorb_pos = t.absorb_pos  BY DEF Same
<1>3. Same(Ready(s, s.absorb_pos), Ready(t, t.absorb_pos))  BY <1>2, ReadySame
<1>. QED BY <1>1, <1>3 DEF AbsorbFields, Same

LEMMA SqueezeElementSame ==
  ASSUME NEW s \in SyncedSponge, NEW t \in SyncedSponge, Same(s, t)
  PROVE  Same(squeeze_element(s), squeeze_element(t))
<1>1. SqueezeFields(s, squeeze_element(s)) /\ SqueezeFields(t, squeeze_element(t))
  BY SqueezeElement DEF SyncedSponge
<1>2. s.squeeze_pos = t.squeeze_pos  BY DEF Same
<1>3. Same(Ready(s, s.squeeze_pos), Ready(t, t.squeeze_pos))  BY <1>2, ReadySame
<1>4. read_rate_element(Ready(s, s.squeeze_pos)) = read_rate_element(Ready(t, t.squeeze_pos))
  BY <1>3 DEF Same, read_rate_element
<1>. QED BY <1>1, <1>3, <1>4 DEF SqueezeFields, Same

LEMMA AbsorbSame ==
  ASSUME NEW s \in SyncedSponge, NEW t \in SyncedSponge, Same(s, t),
         NEW elements \in Seq(SUBSET Nat)
  PROVE  Same(absorb(s, elements), absorb(t, elements))
<1> DEFINE n == Len(elements)
<1>1. PICK g : Absorbing(s, elements, g)  BY AbsorbTable
<1>2. PICK h : Absorbing(t, elements, h)  BY AbsorbTable
<1>3. n \in Nat /\ \A k \in 0 .. n - 1 : elements[k + 1] \in SUBSET Nat
  <2>1. n \in Nat  BY LenProperties
  <2>2. \A k \in 0 .. n - 1 : k + 1 \in 1 .. n  BY <2>1
  <2>3. \A k \in 1 .. n : elements[k] \in SUBSET Nat  BY ElementOfSeq
  <2>. QED BY <2>1, <2>2, <2>3
<1> DEFINE T == {k \in 0 .. n : Same(g[k], h[k])}
<1>4. 0 \in T  BY <1>1, <1>2, <1>3 DEF Absorbing
<1>5. ASSUME NEW k \in 0 .. n - 1, k \in T  PROVE k + 1 \in T
  <2>1. k \in 0 .. n /\ k + 1 \in 0 .. n  BY <1>3
  <2>2. Same(g[k], h[k]) /\ g[k] \in SyncedSponge /\ h[k] \in SyncedSponge
    BY <1>1, <1>2, <1>5, <2>1 DEF Absorbing
  <2>3. Same(absorb_element(g[k], elements[k + 1]), absorb_element(h[k], elements[k + 1]))
    BY <1>3, <2>2, AbsorbElementSame
  <2>4. /\ g[k + 1] = absorb_element(g[k], elements[k + 1])
        /\ h[k + 1] = absorb_element(h[k], elements[k + 1])
    BY <1>1, <1>2 DEF Absorbing
  <2>. QED BY <2>1, <2>3, <2>4
<1>6. Same(g[n], h[n])
  <2>1. \A k \in 0 .. n : k \in T
    <3> HIDE DEF T, n
    <3>. QED BY <1>3, <1>4, <1>5, InductionTo
  <2>2. n \in 0 .. n  BY <1>3
  <2>. QED BY <2>1, <2>2
<1>7. g[n] \in SpongeState /\ h[n] \in SpongeState
  BY <1>1, <1>2, <1>3 DEF Absorbing, SyncedSponge
<1>8. absorb_elements(s, elements) = g[n] /\ absorb_elements(t, elements) = h[n]
  BY <1>1, <1>2 DEF Absorbing
<1> HIDE DEF n
<1>9. Same([g[n] EXCEPT !.squeeze_pos = Rate, !.io_count = @ + 1],
           [h[n] EXCEPT !.squeeze_pos = Rate, !.io_count = @ + 1])
  BY <1>6, <1>7 DEF SpongeState, Same
<1>. QED BY <1>8, <1>9 DEF absorb

LEMMA SqueezeSame ==
  ASSUME NEW s \in SyncedSponge, NEW t \in SyncedSponge, Same(s, t), NEW n \in Nat
  PROVE  Same(squeeze(s, n), squeeze(t, n))
<1> DEFINE a == [s EXCEPT !.out = <<>>]
           b == [t EXCEPT !.out = <<>>]
<1>1. a \in SyncedSponge /\ b \in SyncedSponge /\ Same(a, b)
  <2>1. s \in SpongeState /\ t \in SpongeState  BY DEF SyncedSponge
  <2>2. <<>> \in Seq(Output)  BY EmptySeq
  <2> DEFINE none == <<>>
  <2>3. none \in Seq(Output)  BY <2>2
  <2>4. a = [s EXCEPT !.out = none] /\ b = [t EXCEPT !.out = none]  OBVIOUS
  <2> HIDE DEF none, a, b
  <2>5. /\ a.mode = s.mode /\ a.el = s.el /\ a.twin = s.twin
        /\ b.mode = t.mode /\ b.el = t.el /\ b.twin = t.twin
    BY <2>1, <2>4 DEF SpongeState
  <2>6. a \in SpongeState /\ b \in SpongeState  BY <2>1, <2>3, <2>4 DEF SpongeState
  <2>7. Same(a, b)  BY <2>1, <2>4 DEF Same, SpongeState
  <2>. QED BY <2>5, <2>6, <2>7 DEF SyncedSponge, Synced
<1> HIDE DEF a, b
<1>2. PICK g : Squeezing(a, n, g)  BY <1>1, SqueezeTable
<1>3. PICK h : Squeezing(b, n, h)  BY <1>1, SqueezeTable
<1> DEFINE T == {k \in 0 .. n : Same(g[k], h[k])}
<1>4. 0 \in T  BY <1>1, <1>2, <1>3 DEF Squeezing
<1>5. ASSUME NEW k \in 0 .. n - 1, k \in T  PROVE k + 1 \in T
  <2>1. Same(g[k], h[k]) /\ g[k] \in SyncedSponge /\ h[k] \in SyncedSponge
    BY <1>2, <1>3, <1>5 DEF Squeezing
  <2>2. Same(squeeze_element(g[k]), squeeze_element(h[k]))
    BY <2>1, SqueezeElementSame
  <2>3. g[k + 1] = squeeze_element(g[k]) /\ h[k + 1] = squeeze_element(h[k])
    BY <1>2, <1>3 DEF Squeezing
  <2>. QED BY <2>2, <2>3
<1>6. Same(g[n], h[n])
  <2>1. \A k \in 0 .. n : k \in T
    <3> HIDE DEF T
    <3>. QED BY <1>4, <1>5, InductionTo
  <2>2. n \in 0 .. n  OBVIOUS
  <2>. QED BY <2>1, <2>2
<1>7. g[n] \in SpongeState /\ h[n] \in SpongeState
  BY <1>2, <1>3 DEF Squeezing, SyncedSponge
<1>8. squeeze_elements(a, n) = g[n] /\ squeeze_elements(b, n) = h[n]
  BY <1>2, <1>3 DEF Squeezing
<1>9. Same([g[n] EXCEPT !.io_count = @ + 1], [h[n] EXCEPT !.io_count = @ + 1])
  BY <1>6, <1>7 DEF SpongeState, Same
<1>. QED BY <1>8, <1>9 DEF squeeze, a, b
----------------------------------------------------------------------------
(* The inductive invariant.                                                *)

History == [value : SUBSET Nat, from : Nat \X Nat, after : Nat, mixed : BOOLEAN]

TypeOK ==
    /\ client \in {"pattern", "oracle"}
    /\ status \in {"new", "running", "ok", "mismatch", "panicked"}
    /\ done \in Seq(AnyOp) /\ absorbed \in Nat
    /\ outs \in [Modes -> Seq(History)]
    /\ oracle \in [Modes -> Seq(SUBSET Nat)]

\* Nothing has happened to a client's sponges that were not started.
Unused ==
    client = "pattern" /\ status = "new" =>
        /\ sponges = [m \in Modes |-> new_with_constants(m)]
        /\ done = <<>> /\ absorbed = 0
        /\ \A m \in Modes : outs[m] = <<>>

HasAbsorbed == \E k \in 1 .. Len(done) : done[k].absorb

\* A sponge in use has what was absorbed, counts the operations, and never
\* goes back to a lane.
InUse(m) ==
    LET s == sponges[m]
    IN  /\ s \in SyncedSponge /\ s.mode = m
        /\ Content(s) = {Tag} \cup 1 .. absorbed
        /\ s.io_count = Len(done)
        /\ HasAbsorbed => Mixed(s)
        /\ \A i \in 1 .. Len(outs[m]) : Spent(s, outs[m][i].from)

\* The operations made are the first ones of the pattern.
Follows ==
    /\ Len(done) <= Len(Native.pattern)
    /\ \A k \in 1 .. Len(done) : done[k] = Native.pattern[k]

Running ==
    status = "running" =>
        /\ client = "pattern"
        /\ \A m \in Modes : InUse(m) /\ Same(sponges[m], Native)
        /\ Follows

\* The oracle is never in the middle of a sponge, and what it keeps depends
\* on everything it absorbed.
Items(items) == UNION {items[k] : k \in 1 .. Len(items)}
Kept ==
    client = "oracle" =>
        /\ status \in {"new", "panicked"}
        /\ \A m \in Modes : 1 .. absorbed \subseteq Items(oracle[m])

Inv == TypeOK /\ Unused /\ Running /\ Kept
       /\ SqueezeDepends /\ FinishExact /\ CircuitAgrees /\ OracleDepends
----------------------------------------------------------------------------
(* The sponges a client starts from, and what it gives them.               *)

\* The state the tag is put into.
TagLanes == [i \in Lanes |-> IF i = 0 THEN {Tag} ELSE {}]

Started(m, p, t) ==
    /\ t \in SyncedSponge /\ t.mode = m /\ t.el = TagLanes
    /\ t.absorb_pos = 0 /\ t.squeeze_pos = 0
    /\ t.io_count = 0 /\ t.pattern = p /\ t.permutation_count = 0 /\ t.out = <<>>

LEMMA StartExact ==
  ASSUME NEW m \in Modes, NEW p \in Seq(AnyOp)
  PROVE  Started(m, p, start(new_with_constants(m), p))
<1> DEFINE none == <<>>
           zeros == [i \in Lanes |-> {}]
           lanes == [i \in Lanes |-> IF i = 0 THEN {Tag} ELSE {}]
           twin == IF m = "witness" THEN lanes ELSE zeros
           t == start(new_with_constants(m), p)
<1>1. t = [mode |-> m, el |-> lanes, twin |-> twin, absorb_pos |-> 0,
           squeeze_pos |-> 0, io_count |-> 0, pattern |-> p,
           permutation_count |-> 0, out |-> none]
  <2> DEFINE s == [mode |-> m, el |-> zeros, twin |-> zeros,
                   absorb_pos |-> 0, squeeze_pos |-> 0, io_count |-> 0, pattern |-> p,
                   permutation_count |-> 0, out |-> none]
  <2>1. [new_with_constants(m) EXCEPT !.pattern = p] = s
    <3>1. new_with_constants(m) =
            [mode |-> m, el |-> zeros, twin |-> zeros,
             absorb_pos |-> 0, squeeze_pos |-> 0, io_count |-> 0, pattern |-> none,
             permutation_count |-> 0, out |-> none]
      BY DEF new_with_constants
    <3> HIDE DEF zeros, none
    <3>. QED BY <3>1
  <2>2. initialize_state(s, {Tag}) = [s EXCEPT !.el = lanes, !.twin = twin]
    BY DEF initialize_state
  <2>3. t = [[s EXCEPT !.el = lanes, !.twin = twin] EXCEPT !.absorb_pos = 0, !.squeeze_pos = 0]
    BY <2>1, <2>2 DEF start
  <2> HIDE DEF t, lanes, zeros, none, twin
  <2>. QED BY <2>3
<1>2. lanes \in [Lanes -> SUBSET Nat] /\ twin \in [Lanes -> SUBSET Nat] /\ lanes = TagLanes
  BY DEF Tag, TagLanes
<1>3. none \in Seq(Output)  BY EmptySeq
<1>4. m = "witness" => twin = lanes  OBVIOUS
<1> HIDE DEF t, lanes, zeros, twin
<1>5. t \in SpongeState
  <2> HIDE DEF none
  <2>. QED BY <1>1, <1>2, <1>3, RateLanes DEF SpongeState
<1>6. Synced(t)  BY <1>1, <1>4 DEF Synced
<1>. QED BY <1>1, <1>2, <1>5, <1>6 DEF Started, SyncedSponge, t

LEMMA StartedFacts ==
  ASSUME NEW m \in Modes, NEW p, NEW t, Started(m, p, t)
  PROVE  Content(t) = {Tag}
<1>1. t.el = TagLanes  BY DEF Started
<1>2. TagLanes[0] = {Tag} /\ \A i \in Lanes : TagLanes[i] \subseteq {Tag}
  BY RateLanes DEF TagLanes
<1>. QED BY <1>1, <1>2, RateLanes DEF Content

LEMMA StartedSame ==
  ASSUME NEW p, NEW m, NEW s, Started(m, p, s), NEW mm, NEW t, Started(mm, p, t)
  PROVE  Same(s, t)
BY DEF Started, Same

\* What finish leaves alone.
LEMMA FinishFields ==
  ASSUME NEW s \in SpongeState
  PROVE  /\ finish(s).pattern = s.pattern /\ finish(s).out = s.out
         /\ finish(s).mode = s.mode
<1> DEFINE lanes == [i \in Lanes |-> IF i = 0 THEN {} ELSE {}]
           twin == IF s.mode = "witness" THEN lanes ELSE s.twin
           u == initialize_state(s, {})
<1>1. u.pattern = s.pattern /\ u.out = s.out /\ u.mode = s.mode
  BY DEF initialize_state, SpongeState
<1>2. finish(s) = [u EXCEPT !.io_count = @ + 1]  BY DEF finish
<1> HIDE DEF u
<1>. QED BY <1>1, <1>2

LEMMA NewElements ==
  ASSUME absorbed \in Nat, NEW n \in Nat
  PROVE  /\ Elements(n) \in Seq(SUBSET Nat) /\ Len(Elements(n)) = n
         /\ (1 .. absorbed) \cup Items(Elements(n)) = 1 .. (absorbed + n)
<1> DEFINE e == Elements(n)
<1>1. e \in [1 .. n -> SUBSET Nat] /\ \A k \in 1 .. n : e[k] = {absorbed + k}
  BY DEF Elements
<1> HIDE DEF e
<1>2. e \in Seq(SUBSET Nat) /\ Len(e) = n  BY <1>1, IsASeq
<1>3. Items(e) = UNION {e[k] : k \in 1 .. n}  BY <1>2 DEF Items
<1>4. \A x \in absorbed + 1 .. absorbed + n : x - absorbed \in 1 .. n /\ x \in e[x - absorbed]
  BY <1>1
<1>5. Items(e) = absorbed + 1 .. absorbed + n
  <2>1. \A k \in 1 .. n : absorbed + k \in absorbed + 1 .. absorbed + n  OBVIOUS
  <2>2. Items(e) \subseteq absorbed + 1 .. absorbed + n  BY <1>1, <1>3, <2>1
  <2>3. absorbed + 1 .. absorbed + n \subseteq Items(e)  BY <1>3, <1>4
  <2>. QED BY <2>2, <2>3
<1>6. (1 .. absorbed) \cup (absorbed + 1 .. absorbed + n) = 1 .. (absorbed + n)
  OBVIOUS
<1>. QED BY <1>2, <1>5, <1>6 DEF e

LEMMA RoPatternType ==
  ASSUME NEW state \in Seq(SUBSET Nat)
  PROVE  ro_pattern(state) \in Seq(AnyOp)
<1> DEFINE x == Op(TRUE, Len(state))
           y == Op(FALSE, 1)
<1>1. Len(state) \in Nat  BY LenProperties
<1>2. x \in AnyOp /\ y \in AnyOp  BY <1>1 DEF AnyOp, Op
<1>3. ro_pattern(state) = <<x, y>>  BY DEF ro_pattern
<1> HIDE DEF x, y
<1>. QED BY <1>2, <1>3

\* The sponge behind a challenge: the whole of what the oracle kept is in it.
LEMMA RoSpongeExact ==
  ASSUME NEW state \in Seq(SUBSET Nat), NEW m \in Modes
  PROVE  LET t == ro_sponge(m, state)
         IN  /\ t \in SyncedSponge /\ t.mode = m /\ Len(t.out) = 1
             /\ t.out \in Seq(Output) /\ t.out[1] \in Output
             /\ t.out[1].value = {Tag} \cup Items(state)
<1> DEFINE p == ro_pattern(state)
           a == start(new_with_constants(m), p)
           b == absorb(a, state)
           t == squeeze(b, 1)
<1>1. p \in Seq(AnyOp)  BY RoPatternType
<1> HIDE DEF p
<1>2. Started(m, p, a)  BY <1>1, StartExact
<1>3. Content(a) = {Tag} /\ a \in SyncedSponge /\ a.mode = m
  BY <1>2, StartedFacts DEF Started
<1> HIDE DEF a
<1>4. AbsorbedAll(a, state, b)  BY <1>3, AbsorbExact
<1>5. b \in SyncedSponge /\ b.mode = m /\ Content(b) = {Tag} \cup Items(state) /\ Mixed(b)
  <2>1. Mixed(b)
    <3>1. b.squeeze_pos = Rate  BY <1>4 DEF AbsorbedAll
    <3>. QED BY <3>1, RateLanes DEF Mixed
  <2>. QED BY <1>3, <1>4, <2>1 DEF AbsorbedAll, SyncedSponge, Items
<1> HIDE DEF b
<1>6. SqueezedAll(b, 1, t)  BY <1>5, SqueezeExact
<1>7. t \in SyncedSponge /\ t.mode = m /\ Len(t.out) = 1 /\ t.out \in Seq(Output)
      /\ t.out[1].value = {Tag} \cup Items(state)
  BY <1>5, <1>6 DEF SqueezedAll, SyncedSponge, Outputs, SpongeState
<1>8. t.out[1] \in Output  BY <1>7, ElementOfSeq
<1>9. ro_sponge(m, state) = t  BY DEF ro_sponge, p, a, b
<1> HIDE DEF t
<1>. QED BY <1>7, <1>8, <1>9

LEMMA RoSpongeSame ==
  ASSUME NEW state \in Seq(SUBSET Nat), NEW m \in Modes, NEW mm \in Modes
  PROVE  Same(ro_sponge(m, state), ro_sponge(mm, state))
<1> DEFINE p == ro_pattern(state)
           a == start(new_with_constants(m), p)
           c == start(new_with_constants(mm), p)
           b == absorb(a, state)
           d == absorb(c, state)
<1>1. p \in Seq(AnyOp)  BY RoPatternType
<1> HIDE DEF p
<1>2. Started(m, p, a) /\ Started(mm, p, c)  BY <1>1, StartExact
<1>3. Same(a, c) /\ a \in SyncedSponge /\ c \in SyncedSponge
  BY <1>2, StartedSame DEF Started
<1> HIDE DEF a, c
<1>4. Same(b, d)  BY <1>3, AbsorbSame
<1>5. b \in SyncedSponge /\ d \in SyncedSponge
  <2>1. AbsorbedAll(a, state, b) /\ AbsorbedAll(c, state, d)  BY <1>3, AbsorbExact
  <2>. QED BY <2>1 DEF AbsorbedAll, SyncedSponge
<1> HIDE DEF b, d
<1>6. Same(squeeze(b, 1), squeeze(d, 1))  BY <1>4, <1>5, SqueezeSame
<1>. QED BY <1>6 DEF ro_sponge, p, a, b, c, d
----------------------------------------------------------------------------
(* Every action keeps the invariant.                                       *)

Depends(o) ==
    \A i \in 1 .. Len(o) :
        /\ o[i].mixed => o[i].value = {Tag} \cup 1 .. o[i].after
        /\ \A j \in 1 .. i - 1 : o[i].from # o[j].from

LEMMA DependsAll ==
  SqueezeDepends <=> (client = "pattern" => \A m \in Modes : Depends(outs[m]))
BY DEF SqueezeDepends, Depends

\* The history of a mode after a squeeze.
LEMMA OutsGrow ==
  ASSUME absorbed \in Nat, NEW o \in Seq(History), Depends(o),
         NEW s \in SpongeState, NEW n \in Nat, NEW t, SqueezedAll(s, n, t),
         Content(s) = {Tag} \cup 1 .. absorbed,
         NEW mixed \in BOOLEAN, mixed => Mixed(s),
         \A i \in 1 .. Len(o) : Spent(s, o[i].from)
  PROVE  LET q == o \o [i \in 1 .. n |-> Squeezed(t.out[i], mixed)]
         IN  /\ q \in Seq(History) /\ Depends(q)
             /\ \A i \in 1 .. Len(q) : Spent(t, q[i].from)
<1> DEFINE r == [i \in 1 .. n |-> Squeezed(t.out[i], mixed)]
           l == Len(o)
           q == o \o r
<1>1. t.out \in Seq(Output) /\ Len(t.out) = n  BY DEF SqueezedAll, SpongeState
<1>2. \A i \in 1 .. n : t.out[i] \in Output  BY <1>1, ElementOfSeq
<1>3. ASSUME NEW i \in 1 .. n
      PROVE  /\ r[i] \in History /\ r[i].from = t.out[i].from
             /\ r[i].mixed => r[i].value = {Tag} \cup 1 .. r[i].after
  <2>1. r[i] = Squeezed(t.out[i], mixed)  OBVIOUS
  <2>2. t.out[i].value \in SUBSET Nat /\ t.out[i].from \in Nat \X Nat
    BY <1>2 DEF Output
  <2>3. Mixed(s) => t.out[i].value = {Tag} \cup 1 .. absorbed
    BY <1>1 DEF SqueezedAll, Outputs
  <2>4. /\ r[i].value = t.out[i].value /\ r[i].from = t.out[i].from
        /\ r[i].after = absorbed /\ r[i].mixed = mixed
    BY <2>1 DEF Squeezed
  <2>5. r[i] \in History  BY <2>1, <2>2 DEF Squeezed, History
  <2>. QED BY <2>3, <2>4, <2>5
<1>4. r \in Seq(History) /\ Len(r) = n
  <2>1. r \in [1 .. n -> History]  BY <1>3
  <2> HIDE DEF r
  <2>. QED BY <2>1, IsASeq
<1> HIDE DEF r
<1>5. /\ q \in Seq(History) /\ Len(q) = l + n /\ l \in Nat
      /\ \A i \in 1 .. l : q[i] = o[i]
      /\ \A i \in l + 1 .. l + n : q[i] = r[i - l]
  <2>1. q \in Seq(History) /\ Len(q) = l + n  BY <1>4, ConcatProperties
  <2>2. l \in Nat  BY LenProperties
  <2>3. \A i \in 1 .. l + n : q[i] = IF i <= l THEN o[i] ELSE r[i - l]
    BY <1>4, ConcatProperties
  <2> HIDE DEF q, l
  <2>. QED BY <2>1, <2>2, <2>3
<1>6. \A i \in 1 .. l + n : i \in 1 .. l \/ (i \in l + 1 .. l + n /\ i - l \in 1 .. n)
  BY <1>5
<1>7. \A i \in 1 .. l : o[i].from \in Nat \X Nat
  <2>1. \A i \in 1 .. l : o[i] \in History  BY ElementOfSeq
  <2>. QED BY <2>1 DEF History
<1>8. \A i \in 1 .. n : ~ Spent(s, t.out[i].from) /\ Spent(t, t.out[i].from)
  BY <1>1 DEF SqueezedAll, Outputs
<1> HIDE DEF l, q
<1>9. ASSUME NEW i \in 1 .. l + n
      PROVE  /\ q[i].mixed => q[i].value = {Tag} \cup 1 .. q[i].after
             /\ Spent(t, q[i].from)
  <2>1. CASE i \in 1 .. l
    <3>1. q[i] = o[i]  BY <1>5, <2>1
    <3>2. o[i].mixed => o[i].value = {Tag} \cup 1 .. o[i].after
      BY <2>1 DEF Depends, l
    <3>3. Spent(s, o[i].from)  BY <2>1 DEF l
    <3>4. Spent(t, o[i].from)  BY <1>7, <2>1, <3>3 DEF SqueezedAll
    <3>. QED BY <3>1, <3>2, <3>4
  <2>2. CASE i \in l + 1 .. l + n /\ i - l \in 1 .. n
    <3>1. q[i] = r[i - l]  BY <1>5, <2>2
    <3>. QED BY <1>3, <1>8, <2>2, <3>1
  <2>. QED BY <1>6, <2>1, <2>2
<1>10. ASSUME NEW i \in 1 .. l + n, NEW j \in 1 .. i - 1
       PROVE  q[i].from # q[j].from
  <2>1. j \in 1 .. l + n  BY <1>5
  <2>2. CASE i \in 1 .. l
    <3>1. j \in 1 .. l /\ q[i] = o[i] /\ q[j] = o[j]  BY <1>5, <2>2
    <3>. QED BY <2>2, <3>1 DEF Depends, l
  <2>3. CASE i \in l + 1 .. l + n /\ i - l \in 1 .. n
    <3>1. q[i].from = t.out[i - l].from  BY <1>3, <1>5, <2>3
    <3>2. CASE j \in 1 .. l
      <4>1. q[j] = o[j] /\ Spent(s, o[j].from)  BY <1>5, <3>2 DEF l
      <4>2. ~ Spent(s, t.out[i - l].from)  BY <1>8, <2>3
      <4>. QED BY <3>1, <4>1, <4>2
    <3>3. CASE j \in l + 1 .. l + n /\ j - l \in 1 .. n
      <4>1. q[j].from = t.out[j - l].from  BY <1>3, <1>5, <3>3
      <4>2. j - l \in 1 .. (i - l) - 1  BY <1>5, <2>3, <3>3
      <4>3. t.out[i - l].from # t.out[j - l].from
        BY <1>1, <2>3, <4>2 DEF SqueezedAll, Outputs
      <4>. QED BY <3>1, <4>1, <4>3
    <3>. QED BY <1>6, <2>1, <3>2, <3>3
  <2>. QED BY <1>6, <2>2, <2>3
<1>11. Depends(q)  BY <1>5, <1>9, <1>10 DEF Depends
<1>. QED BY <1>5, <1>9, <1>11 DEF q, r

LEMMA InitInv == Init => Inv
<1> SUFFICES ASSUME Init  PROVE Inv
  OBVIOUS
<1>1. \A m \in Modes : outs[m] = <<>> /\ oracle[m] = <<>>  BY DEF Init
<1>2. <<>> \in Seq(History) /\ <<>> \in Seq(SUBSET Nat) /\ <<>> \in Seq(AnyOp)
  BY EmptySeq
<1>3. TypeOK  BY <1>2 DEF Init, TypeOK
<1>4. Unused  BY <1>1 DEF Init, Unused
<1>5. Running /\ FinishExact  BY DEF Init, Running, FinishExact
<1>6. Kept
  <2>1. 1 .. absorbed = {}  BY DEF Init
  <2>. QED BY <2>1 DEF Init, Kept
<1>7. SqueezeDepends /\ OracleDepends
  BY <1>1, EmptySeq DEF SqueezeDepends, OracleDepends
<1>8. CircuitAgrees  BY <1>1, ModeNames DEF CircuitAgrees
<1>. QED BY <1>3, <1>4, <1>5, <1>6, <1>7, <1>8 DEF Inv

LEMMA PatternType == \A p \in IOPattern : p \in Seq(AnyOp)
<1> SUFFICES ASSUME NEW p \in IOPattern  PROVE p \in Seq(AnyOp)
  OBVIOUS
<1>1. Ops \subseteq AnyOp  BY DEF Ops, Op, AnyOp
<1>2. PICK n \in 0 .. MaxOps : p \in [1 .. n -> Ops]  BY DEF IOPattern
<1>. QED BY <1>1, <1>2, IsASeq

LEMMA StartInv ==
  ASSUME Inv, NEW p \in IOPattern, Start(p)
  PROVE  Inv'
<1>1. /\ client = "pattern" /\ status = "new" /\ status' = "running"
      /\ sponges' = [m \in Modes |-> start(sponges[m], p)]
      /\ client' = client /\ done' = done /\ absorbed' = absorbed
      /\ outs' = outs /\ oracle' = oracle
  BY DEF Start
<1>2. /\ sponges = [m \in Modes |-> new_with_constants(m)]
      /\ done = <<>> /\ absorbed = 0 /\ \A m \in Modes : outs[m] = <<>>
  BY <1>1 DEF Inv, Unused
<1>3. \A m \in Modes : Started(m, p, sponges'[m])
  <2> TAKE m \in Modes
  <2>1. p \in Seq(AnyOp)  BY PatternType
  <2>2. sponges'[m] = start(new_with_constants(m), p)  BY <1>1, <1>2
  <2>. QED BY <2>1, <2>2, StartExact
<1>4. "native" \in Modes  BY DEF Modes
<1>5. Len(done) = 0  BY <1>2, EmptySeq
<1>6. ASSUME NEW m \in Modes  PROVE InUse(m)'
  <2>1. /\ sponges'[m] \in SyncedSponge /\ sponges'[m].mode = m
        /\ sponges'[m].io_count = 0
    BY <1>3 DEF Started
  <2>2. Content(sponges'[m]) = {Tag} \cup 1 .. absorbed
    <3>1. Content(sponges'[m]) = {Tag}  BY <1>3, StartedFacts
    <3>2. 1 .. absorbed = {}  BY <1>2
    <3>. QED BY <3>1, <3>2
  <2>3. ~ HasAbsorbed'  BY <1>1, <1>5 DEF HasAbsorbed
  <2>4. Len(outs'[m]) = 0  BY <1>1, <1>2, EmptySeq
  <2>. QED BY <1>1, <1>5, <2>1, <2>2, <2>3, <2>4 DEF InUse
<1>7. \A m \in Modes : Same(sponges'[m], Native')
  <2> TAKE m \in Modes
  <2>1. Started(m, p, sponges'[m]) /\ Started("native", p, sponges'["native"])
    BY <1>3, <1>4
  <2>. QED BY <2>1, StartedSame DEF Native
<1>8. Follows'
  <2>1. Len(Native'.pattern) \in Nat
    <3>1. Native'.pattern = p  BY <1>3, <1>4 DEF Started, Native
    <3>2. p \in Seq(AnyOp)  BY PatternType
    <3>. QED BY <3>1, <3>2, LenProperties
  <2>. QED BY <1>1, <1>5, <2>1 DEF Follows
<1>9. Running'  BY <1>1, <1>6, <1>7, <1>8 DEF Running
<1>10. TypeOK'  BY <1>1 DEF Inv, TypeOK
<1>11. Unused' /\ Kept' /\ FinishExact'
  BY <1>1 DEF Inv, Unused, Kept, FinishExact
<1>12. SqueezeDepends' /\ CircuitAgrees' /\ OracleDepends'
  BY <1>1 DEF Inv, SqueezeDepends, CircuitAgrees, OracleDepends
<1>. QED BY <1>9, <1>10, <1>11, <1>12 DEF Inv

\* The assertion of the call: its operation is the next one of the pattern.
LEMMA NextOp ==
  ASSUME Inv, status = "running", NEW op, follows_pattern(Native, op)
  PROVE  /\ Len(done) + 1 <= Len(Native.pattern)
         /\ op = Native.pattern[Len(done) + 1] /\ op \in AnyOp
         /\ Len(Append(done, op)) = Len(done) + 1
         /\ Append(done, op) \in Seq(AnyOp)
         /\ \A k \in 1 .. Len(done) + 1 : Append(done, op)[k] = Native.pattern[k]
<1>1. /\ Native.pattern \in Seq(AnyOp) /\ Native.io_count = Len(done)
      /\ done \in Seq(AnyOp) /\ Follows
  <2>1. "native" \in Modes  BY DEF Modes
  <2>2. InUse("native") /\ Follows  BY <2>1 DEF Inv, Running
  <2>. QED BY <2>2 DEF Inv, TypeOK, InUse, Native, SyncedSponge, SpongeState
<1>2. Len(done) \in Nat /\ Len(Native.pattern) \in Nat  BY <1>1, LenProperties
<1>3. Len(done) < Len(Native.pattern) /\ <<Native.pattern[Len(done) + 1]>> = <<op>>
  <2>1. op_at(Native.pattern, Len(done)) = <<op>>  BY <1>1 DEF follows_pattern
  <2>2. <<op>> # <<>>  OBVIOUS
  <2>. QED BY <2>1, <2>2 DEF op_at
<1>4. op = Native.pattern[Len(done) + 1]  BY <1>3
<1>5. op \in AnyOp
  <2>1. Len(done) + 1 \in 1 .. Len(Native.pattern)  BY <1>2, <1>3
  <2>. QED BY <1>1, <1>4, <2>1, ElementOfSeq
<1>6. /\ Append(done, op) \in Seq(AnyOp)
      /\ Len(Append(done, op)) = Len(done) + 1
      /\ \A k \in 1 .. Len(done) : Append(done, op)[k] = done[k]
      /\ Append(done, op)[Len(done) + 1] = op
  BY <1>1, <1>5, AppendProperties
<1>7. \A k \in 1 .. Len(done) : done[k] = Native.pattern[k]  BY <1>1 DEF Follows
<1>8. \A k \in 1 .. Len(done) + 1 : k \in 1 .. Len(done) \/ k = Len(done) + 1
  BY <1>2
<1>9. \A k \in 1 .. Len(done) + 1 : Append(done, op)[k] = Native.pattern[k]
  BY <1>4, <1>6, <1>7, <1>8
<1>. QED BY <1>2, <1>3, <1>4, <1>5, <1>6, <1>9

LEMMA AbsorbInv ==
  ASSUME Inv, NEW n \in Nat, Absorb(n)
  PROVE  Inv'
<1> DEFINE op == Op(TRUE, n)
           e == Elements(n)
<1>1. /\ status = "running" /\ follows_pattern(Native, op) /\ status' = status
      /\ sponges' = [m \in Modes |-> absorb(sponges[m], e)]
      /\ done' = Append(done, op) /\ absorbed' = absorbed + n
      /\ client' = client /\ outs' = outs /\ oracle' = oracle
  BY DEF Absorb
<1>2. /\ client = "pattern" /\ absorbed \in Nat /\ done \in Seq(AnyOp)
      /\ \A m \in Modes : InUse(m) /\ Same(sponges[m], Native)
  BY <1>1 DEF Inv, Running, TypeOK
<1>3. /\ e \in Seq(SUBSET Nat) /\ (1 .. absorbed) \cup Items(e) = 1 .. (absorbed + n)
  BY <1>2, NewElements
<1> HIDE DEF e, op
<1>4. /\ Len(done) + 1 <= Len(Native.pattern)
      /\ Len(done') = Len(done) + 1 /\ done' \in Seq(AnyOp)
      /\ \A k \in 1 .. Len(done) + 1 : done'[k] = Native.pattern[k]
  BY <1>1, NextOp
<1>5. "native" \in Modes  BY DEF Modes
<1>6. ASSUME NEW m \in Modes
      PROVE  AbsorbedAll(sponges[m], e, sponges'[m]) /\ sponges[m] \in SyncedSponge
  <2>1. sponges[m] \in SyncedSponge  BY <1>2 DEF InUse
  <2>2. sponges'[m] = absorb(sponges[m], e)  BY <1>1
  <2>. QED BY <1>3, <2>1, <2>2, AbsorbExact
<1>7. ASSUME NEW m \in Modes  PROVE InUse(m)'
  <2> DEFINE s == sponges[m]
             t == sponges'[m]
  <2>1. /\ t \in SyncedSponge /\ t.mode = m /\ t.squeeze_pos = Rate
        /\ Content(t) = Content(s) \cup Items(e) /\ t.io_count = Len(done) + 1
    BY <1>2, <1>6 DEF AbsorbedAll, InUse, SyncedSponge, Items
  <2>2. Content(t) = {Tag} \cup 1 .. (absorbed + n)
    <3>1. Content(s) = {Tag} \cup 1 .. absorbed  BY <1>2 DEF InUse
    <3>. QED BY <1>3, <2>1, <3>1
  <2>3. Mixed(t)  BY <2>1, RateLanes DEF Mixed
  <2>4. \A i \in 1 .. Len(outs[m]) : Spent(t, outs[m][i].from)
    <3> TAKE i \in 1 .. Len(outs[m])
    <3>1. outs[m] \in Seq(History)  BY DEF Inv, TypeOK
    <3>2. outs[m][i] \in History  BY <3>1, ElementOfSeq
    <3>3. outs[m][i].from \in Nat \X Nat  BY <3>2 DEF History
    <3>4. Spent(s, outs[m][i].from)  BY <1>2 DEF InUse
    <3>5. /\ s.permutation_count \in Nat /\ t.permutation_count \in Nat
          /\ t.permutation_count >= s.permutation_count
          /\ s.squeeze_pos \in 0 .. Rate
      BY <1>6 DEF AbsorbedAll, SyncedSponge, SpongeState
    <3> DEFINE f == outs[m][i].from
    <3>6. f[1] \in Nat /\ f[2] \in Nat  BY <3>3
    <3> HIDE DEF f, s, t
    <3>7. Spent(s, f)  BY <3>4 DEF f
    <3>8. Spent(t, f)  BY <2>1, <3>5, <3>6, <3>7, RateLanes DEF Spent
    <3>. QED BY <3>8 DEF f
  <2>. QED BY <1>1, <1>4, <2>1, <2>2, <2>3, <2>4 DEF InUse
<1>8. ASSUME NEW m \in Modes  PROVE Same(sponges'[m], Native')
  <2>1. Same(sponges[m], sponges["native"])  BY <1>2 DEF Native
  <2>2. sponges[m] \in SyncedSponge /\ sponges["native"] \in SyncedSponge
    BY <1>5, <1>6
  <2>3. /\ sponges'[m] = absorb(sponges[m], e)
        /\ sponges'["native"] = absorb(sponges["native"], e)
    BY <1>1, <1>5
  <2>. QED BY <1>3, <2>1, <2>2, <2>3, AbsorbSame DEF Native
<1>9. Follows'
  <2>1. Native'.pattern = Native.pattern
    <3>1. AbsorbedAll(sponges["native"], e, sponges'["native"])  BY <1>5, <1>6
    <3>. QED BY <3>1 DEF AbsorbedAll, Native
  <2>. QED BY <1>4, <2>1 DEF Follows
<1>10. Running'  BY <1>1, <1>2, <1>7, <1>8, <1>9 DEF Running
<1>11. TypeOK'
  <2>1. absorbed' \in Nat  BY <1>1, <1>2
  <2>. QED BY <1>1, <1>4, <2>1 DEF Inv, TypeOK
<1>12. Unused' /\ Kept' /\ FinishExact' /\ SqueezeDepends' /\ CircuitAgrees' /\ OracleDepends'
  BY <1>1, <1>2 DEF Inv, Unused, Kept, FinishExact, SqueezeDepends, CircuitAgrees,
                    OracleDepends
<1>. QED BY <1>10, <1>11, <1>12 DEF Inv

LEMMA SqueezeInv ==
  ASSUME Inv, NEW n \in Nat, Squeeze(n)
  PROVE  Inv'
<1> DEFINE op == Op(FALSE, n)
           mixed == \E k \in 1 .. Len(done) : done[k].absorb
           q(m) == outs[m] \o [i \in 1 .. n |-> Squeezed(sponges'[m].out[i], mixed)]
<1>1. /\ status = "running" /\ follows_pattern(Native, op) /\ status' = status
      /\ sponges' = [m \in Modes |-> squeeze(sponges[m], n)]
      /\ done' = Append(done, op) /\ absorbed' = absorbed
      /\ client' = client /\ oracle' = oracle
      /\ outs' = [m \in Modes |-> q(m)]
  BY DEF Squeeze
<1>2. /\ client = "pattern" /\ absorbed \in Nat /\ done \in Seq(AnyOp)
      /\ \A m \in Modes : InUse(m) /\ Same(sponges[m], Native)
  BY <1>1 DEF Inv, Running, TypeOK
<1>3. mixed \in BOOLEAN /\ (mixed <=> HasAbsorbed)  BY DEF HasAbsorbed
<1>4. op.absorb = FALSE  BY DEF Op
<1> HIDE DEF op, mixed
<1>5. /\ Len(done) + 1 <= Len(Native.pattern)
      /\ Len(done') = Len(done) + 1 /\ done' \in Seq(AnyOp) /\ done'[Len(done) + 1] = op
      /\ \A k \in 1 .. Len(done) + 1 : done'[k] = Native.pattern[k]
  BY <1>1, NextOp
<1>6. "native" \in Modes  BY DEF Modes
<1>7. ASSUME NEW m \in Modes
      PROVE  /\ SqueezedAll(sponges[m], n, sponges'[m])
             /\ sponges'[m].io_count = sponges[m].io_count + 1
             /\ sponges[m] \in SyncedSponge /\ sponges[m] \in SpongeState
  <2>1. sponges[m] \in SyncedSponge  BY <1>2 DEF InUse
  <2>2. sponges'[m] = squeeze(sponges[m], n)  BY <1>1
  <2>. QED BY <2>1, <2>2, SqueezeExact DEF SyncedSponge
<1>8. HasAbsorbed' => HasAbsorbed
  <2> SUFFICES ASSUME NEW k \in 1 .. Len(done'), done'[k].absorb  PROVE HasAbsorbed
    BY DEF HasAbsorbed
  <2>1. Len(done) \in Nat  BY <1>2, LenProperties
  <2>2. k # Len(done) + 1  BY <1>4, <1>5
  <2>3. k \in 1 .. Len(done)  BY <1>5, <2>1, <2>2
  <2>4. done'[k] = done[k]
    BY <1>1, <1>2, <1>5, <2>3, NextOp DEF Inv, Running, Follows
  <2>. QED BY <2>3, <2>4 DEF HasAbsorbed
<1>9. ASSUME NEW m \in Modes
      PROVE  /\ outs'[m] \in Seq(History) /\ Depends(outs'[m])
             /\ \A i \in 1 .. Len(outs'[m]) : Spent(sponges'[m], outs'[m][i].from)
  <2>1. outs[m] \in Seq(History)  BY DEF Inv, TypeOK
  <2>2. Depends(outs[m])  BY <1>2, DependsAll DEF Inv
  <2>3. Content(sponges[m]) = {Tag} \cup 1 .. absorbed /\ (mixed => Mixed(sponges[m]))
    BY <1>2, <1>3 DEF InUse
  <2>4. \A i \in 1 .. Len(outs[m]) : Spent(sponges[m], outs[m][i].from)
    BY <1>2 DEF InUse
  <2>5. outs'[m] = outs[m] \o [i \in 1 .. n |-> Squeezed(sponges'[m].out[i], mixed)]
    BY <1>1
  <2>6. SqueezedAll(sponges[m], n, sponges'[m]) /\ sponges[m] \in SpongeState  BY <1>7
  <2> HIDE DEF q
  <2>. QED BY <1>2, <1>3, <2>1, <2>2, <2>3, <2>4, <2>5, <2>6, OutsGrow
<1>10. ASSUME NEW m \in Modes  PROVE InUse(m)'
  <2> DEFINE s == sponges[m]
             t == sponges'[m]
  <2>1. /\ t \in SyncedSponge /\ t.mode = m /\ Content(t) = Content(s)
        /\ t.io_count = Len(done) + 1 /\ (Mixed(s) => Mixed(t))
    BY <1>2, <1>7 DEF SqueezedAll, InUse, SyncedSponge
  <2>2. Content(t) = {Tag} \cup 1 .. absorbed'
    BY <1>1, <1>2, <2>1 DEF InUse
  <2>3. HasAbsorbed' => Mixed(t)  BY <1>2, <1>8, <2>1 DEF InUse
  <2>. QED BY <1>5, <1>9, <2>1, <2>2, <2>3 DEF InUse
<1>11. ASSUME NEW m \in Modes  PROVE Same(sponges'[m], Native')
  <2>1. Same(sponges[m], sponges["native"])  BY <1>2 DEF Native
  <2>2. sponges[m] \in SyncedSponge /\ sponges["native"] \in SyncedSponge
    BY <1>6, <1>7
  <2>3. /\ sponges'[m] = squeeze(sponges[m], n)
        /\ sponges'["native"] = squeeze(sponges["native"], n)
    BY <1>1, <1>6
  <2>. QED BY <2>1, <2>2, <2>3, SqueezeSame DEF Native
<1>12. Follows'
  <2>1. Native'.pattern = Native.pattern
    <3>1. SqueezedAll(sponges["native"], n, sponges'["native"])  BY <1>6, <1>7
    <3>. QED BY <3>1 DEF SqueezedAll, Native
  <2>. QED BY <1>5, <2>1 DEF Follows
<1>13. Running'  BY <1>1, <1>2, <1>10, <1>11, <1>12 DEF Running
<1>14. TypeOK'
  <2>1. outs' \in [Modes -> Seq(History)]  BY <1>1, <1>9
  <2>. QED BY <1>1, <1>2, <1>5, <2>1 DEF Inv, TypeOK
<1>15. SqueezeDepends'  BY <1>9 DEF SqueezeDepends, Depends
<1>16. CircuitAgrees'
  <2> SUFFICES ASSUME NEW m \in Modes
               PROVE  outs'[m] = outs'["native"] /\ oracle'[m] = oracle'["native"]
    BY DEF CircuitAgrees
  <2>1. outs[m] = outs["native"] /\ oracle[m] = oracle["native"]
    BY DEF Inv, CircuitAgrees
  <2>2. sponges'[m].out = sponges'["native"].out  BY <1>11 DEF Same, Native
  <2>3. q(m) = q("native")  BY <2>1, <2>2
  <2> HIDE DEF q
  <2>. QED BY <1>1, <1>6, <2>1, <2>3
<1>17. Unused' /\ Kept' /\ FinishExact' /\ OracleDepends'
  BY <1>1, <1>2 DEF Unused, Kept, FinishExact, OracleDepends
<1>. QED BY <1>13, <1>14, <1>15, <1>16, <1>17 DEF Inv

LEMMA MismatchInv ==
  ASSUME Inv, NEW op, Mismatch(op)
  PROVE  Inv'
<1>1. /\ status = "running" /\ status' = "panicked"
      /\ UNCHANGED <<client, sponges, done, absorbed, outs, oracle>>
  BY DEF Mismatch
<1>2. client = "pattern"  BY <1>1 DEF Inv, Running
<1>3. TypeOK' /\ Unused' /\ Running' /\ Kept'
  <2>1. status' # "new" /\ status' # "running" /\ client' # "oracle"  BY <1>1, <1>2
  <2>2. TypeOK'  BY <1>1 DEF Inv, TypeOK
  <2>. QED BY <2>1, <2>2 DEF Unused, Running, Kept
<1>4. FinishExact'  BY <1>1 DEF FinishExact
<1>5. SqueezeDepends' /\ CircuitAgrees' /\ OracleDepends'
  BY <1>1 DEF Inv, SqueezeDepends, CircuitAgrees, OracleDepends
<1>. QED BY <1>3, <1>4, <1>5 DEF Inv

LEMMA FinishInv ==
  ASSUME Inv, Finish
  PROVE  Inv'
<1>1. /\ status = "running"
      /\ sponges' = [m \in Modes |-> finish(sponges[m])]
      /\ status' = IF finish_ok(Native) THEN "ok" ELSE "mismatch"
      /\ UNCHANGED <<client, done, absorbed, outs, oracle>>
  BY DEF Finish
<1>2. "native" \in Modes  BY DEF Modes
<1>3. /\ client = "pattern" /\ Follows /\ done \in Seq(AnyOp)
      /\ Native \in SpongeState /\ Native.io_count = Len(done)
  BY <1>1, <1>2 DEF Inv, TypeOK, Running, InUse, Native, SyncedSponge
<1>4. Native.pattern \in Seq(AnyOp) /\ Native'.pattern = Native.pattern
  <2>1. Native' = finish(Native)  BY <1>1, <1>2 DEF Native
  <2>2. finish(Native).pattern = Native.pattern  BY <1>3, FinishFields
  <2>. QED BY <1>3, <2>1, <2>2 DEF SpongeState
<1>5. FinishExact'
  <2> DEFINE p == Native.pattern
             l == Len(done)
  <2>1. l \in Nat /\ Len(p) \in Nat /\ l <= Len(p) /\ \A k \in 1 .. l : done[k] = p[k]
    BY <1>3, <1>4, LenProperties DEF Follows
  <2>2. ASSUME finish_ok(Native)  PROVE done = p
    <3>1. l = Len(p)  BY <1>3, <2>2 DEF finish_ok
    <3>. QED BY <1>3, <1>4, <2>1, <3>1, SeqEqual
  <2>3. ASSUME ~ finish_ok(Native)  PROVE l < Len(p) /\ done = SubSeq(p, 1, l)
    <3>1. l < Len(p)  BY <1>3, <2>1, <2>3 DEF finish_ok
    <3>2. /\ SubSeq(p, 1, l) \in Seq(AnyOp) /\ Len(SubSeq(p, 1, l)) = l
          /\ \A k \in 1 .. l : SubSeq(p, 1, l)[k] = p[k]
      <4>1. \A k \in 1 .. l : p[k] \in AnyOp
        <5>1. \A k \in 1 .. Len(p) : p[k] \in AnyOp  BY <1>4, ElementOfSeq
        <5>. QED BY <2>1, <5>1
      <4>2. SubSeq(p, 1, l) = [k \in 1 .. l |-> p[k]]
        BY <1>4, <2>1
      <4>. QED BY <2>1, <4>1, <4>2
    <3>3. \A k \in 1 .. l : done[k] = SubSeq(p, 1, l)[k]  BY <2>1, <3>2
    <3> HIDE DEF p
    <3>4. done = SubSeq(p, 1, l)
      <4> DEFINE r == SubSeq(p, 1, l)
      <4>1. r \in Seq(AnyOp) /\ Len(r) = Len(done) /\ \A k \in 1 .. Len(done) : done[k] = r[k]
        BY <3>2, <3>3
      <4> HIDE DEF r
      <4>2. done = r  BY <1>3, <4>1, SeqEqual
      <4>. QED BY <4>2 DEF r
    <3>. QED BY <3>1, <3>4
  <2>. QED BY <1>1, <1>4, <2>2, <2>3 DEF FinishExact
<1>6. status' # "new" /\ status' # "running" /\ status' \in {"ok", "mismatch"}
  BY <1>1
<1>7. TypeOK' /\ Unused' /\ Running' /\ Kept'
  BY <1>1, <1>3, <1>6 DEF Inv, TypeOK, Unused, Running, Kept
<1>8. SqueezeDepends' /\ CircuitAgrees' /\ OracleDepends'
  BY <1>1 DEF Inv, SqueezeDepends, CircuitAgrees, OracleDepends
<1>. QED BY <1>5, <1>7, <1>8 DEF Inv

LEMMA RoAbsorbInv ==
  ASSUME Inv, RoAbsorb
  PROVE  Inv'
<1> DEFINE e == {absorbed + 1}
<1>1. /\ client = "oracle" /\ status = "new" /\ absorbed' = absorbed + 1
      /\ oracle' = [m \in Modes |-> Append(oracle[m], e)]
      /\ UNCHANGED <<client, sponges, status, done, outs>>
  BY DEF RoAbsorb
<1>2. absorbed \in Nat /\ e \in SUBSET Nat  BY DEF Inv, TypeOK
<1> HIDE DEF e
<1>3. ASSUME NEW m \in Modes
      PROVE  /\ oracle'[m] = Append(oracle[m], e) /\ oracle'[m] \in Seq(SUBSET Nat)
             /\ Items(oracle'[m]) = Items(oracle[m]) \cup e
  <2> DEFINE o == oracle[m]
             r == Append(o, e)
  <2>1. o \in Seq(SUBSET Nat)  BY DEF Inv, TypeOK
  <2>2. Len(o) \in Nat  BY <2>1, LenProperties
  <2>3. /\ r \in Seq(SUBSET Nat) /\ Len(r) = Len(o) + 1 /\ r[Len(o) + 1] = e
        /\ \A k \in 1 .. Len(o) : r[k] = o[k]
    BY <1>2, <2>1, AppendProperties
  <2>4. oracle'[m] = r  BY <1>1
  <2> HIDE DEF o, r
  <2>5. 1 .. Len(r) = (1 .. Len(o)) \cup {Len(o) + 1}  BY <2>2, <2>3
  <2>6. Items(r) = Items(o) \cup e  BY <2>3, <2>5 DEF Items
  <2>. QED BY <2>3, <2>4, <2>6 DEF o, r
<1>4. TypeOK'
  <2>1. oracle' \in [Modes -> Seq(SUBSET Nat)]  BY <1>1, <1>3
  <2>2. absorbed' \in Nat  BY <1>1, <1>2
  <2>. QED BY <1>1, <2>1, <2>2 DEF Inv, TypeOK
<1>5. Kept'
  <2>1. 1 .. absorbed' = (1 .. absorbed) \cup e  BY <1>1, <1>2 DEF e
  <2>2. \A m \in Modes : 1 .. absorbed \subseteq Items(oracle[m])  BY <1>1 DEF Inv, Kept
  <2>3. \A m \in Modes : 1 .. absorbed' \subseteq Items(oracle'[m])  BY <1>3, <2>1, <2>2
  <2>. QED BY <1>1, <2>3 DEF Kept
<1>6. CircuitAgrees'
  <2>1. "native" \in Modes  BY DEF Modes
  <2>2. \A m \in Modes : oracle'[m] = oracle'["native"]
    BY <1>3, <2>1 DEF Inv, CircuitAgrees
  <2>. QED BY <1>1, <2>2 DEF Inv, CircuitAgrees
<1>7. Unused' /\ Running' /\ SqueezeDepends' /\ FinishExact' /\ OracleDepends'
  BY <1>1 DEF Inv, Unused, Running, SqueezeDepends, FinishExact, OracleDepends
<1>. QED BY <1>4, <1>5, <1>6, <1>7 DEF Inv

LEMMA RoSqueezeInv ==
  ASSUME Inv, RoSqueeze
  PROVE  Inv'
<1> DEFINE o(m) == sponges'[m].out[1]
           fresh(m) == Squeezed(o(m), TRUE)
           ok == finish_ok(ro_sponge("native", oracle["native"]))
<1>1. /\ client = "oracle" /\ status = "new"
      /\ sponges' = [m \in Modes |-> finish(ro_sponge(m, oracle[m]))]
      /\ UNCHANGED <<client, done, absorbed>>
  BY DEF RoSqueeze
<1>2. ok => /\ outs' = [m \in Modes |-> Append(outs[m], fresh(m))]
            /\ oracle' = [m \in Modes |-> <<o(m).value>>]
            /\ status' = status
  BY DEF RoSqueeze, ro_state
<1>3. ~ ok => status' = "panicked" /\ UNCHANGED <<outs, oracle>>
  BY DEF RoSqueeze
<1>4. "native" \in Modes  BY DEF Modes
<1>5. ASSUME NEW m \in Modes
      PROVE  /\ o(m) \in Output /\ o(m).value = {Tag} \cup Items(oracle[m])
             /\ o(m) = o("native")
  <2> DEFINE t(x) == ro_sponge(x, oracle[x])
  <2>1. oracle[m] \in Seq(SUBSET Nat) /\ oracle[m] = oracle["native"]
    BY DEF Inv, TypeOK, CircuitAgrees
  <2>2. /\ t(m) \in SpongeState /\ t(m).out[1] \in Output
        /\ t(m).out[1].value = {Tag} \cup Items(oracle[m])
    BY <2>1, RoSpongeExact DEF SyncedSponge
  <2>3. t("native") \in SpongeState  BY <1>4, <2>1, RoSpongeExact DEF SyncedSponge
  <2>4. t(m).out = t("native").out  BY <1>4, <2>1, RoSpongeSame DEF Same
  <2>5. sponges'[m] = finish(t(m)) /\ sponges'["native"] = finish(t("native"))
    BY <1>1, <1>4
  <2>6. finish(t(m)).out = t(m).out /\ finish(t("native")).out = t("native").out
    BY <2>2, <2>3, FinishFields
  <2> HIDE DEF t
  <2>. QED BY <2>2, <2>4, <2>5, <2>6
<1>6. CASE ~ ok
  <2>1. status' = "panicked" /\ UNCHANGED <<client, done, absorbed, outs, oracle>>
    BY <1>1, <1>3, <1>6
  <2>2. TypeOK'  BY <2>1 DEF Inv, TypeOK
  <2>3. Unused' /\ Running' /\ FinishExact'
    BY <1>1, <2>1 DEF Unused, Running, FinishExact
  <2>4. Kept'  BY <1>1, <2>1 DEF Inv, Kept
  <2>5. SqueezeDepends' /\ CircuitAgrees' /\ OracleDepends'
    BY <2>1 DEF Inv, SqueezeDepends, CircuitAgrees, OracleDepends
  <2>. QED BY <2>2, <2>3, <2>4, <2>5 DEF Inv
<1>7. CASE ok
  <2> HIDE DEF o, ok
  <2>1. /\ outs' = [m \in Modes |-> Append(outs[m], fresh(m))]
        /\ oracle' = [m \in Modes |-> <<o(m).value>>]
        /\ status' = "new" /\ client' = "oracle"
        /\ done' = done /\ absorbed' = absorbed
    BY <1>1, <1>2, <1>7
  <2>2. absorbed \in Nat /\ done \in Seq(AnyOp)  BY DEF Inv, TypeOK
  <2>3. ASSUME NEW m \in Modes
        PROVE  /\ fresh(m) \in History /\ fresh(m).after = absorbed
               /\ fresh(m).value = o(m).value /\ 1 .. absorbed \subseteq o(m).value
    <3>1. o(m).value \in SUBSET Nat /\ o(m).from \in Nat \X Nat  BY <1>5 DEF Output
    <3>2. 1 .. absorbed \subseteq Items(oracle[m])  BY <1>1 DEF Inv, Kept
    <3>. QED BY <1>5, <2>2, <3>1, <3>2 DEF Squeezed, History
  <2> HIDE DEF fresh
  <2>4. ASSUME NEW m \in Modes
        PROVE  /\ outs'[m] \in Seq(History)
               /\ \A i \in 1 .. Len(outs'[m]) : 1 .. outs'[m][i].after \subseteq outs'[m][i].value
    <3> DEFINE h == outs[m]
               r == Append(h, fresh(m))
    <3>1. h \in Seq(History)  BY DEF Inv, TypeOK
    <3>2. Len(h) \in Nat  BY <3>1, LenProperties
    <3>3. /\ r \in Seq(History) /\ Len(r) = Len(h) + 1 /\ r[Len(h) + 1] = fresh(m)
          /\ \A k \in 1 .. Len(h) : r[k] = h[k]
      BY <2>3, <3>1, AppendProperties
    <3>4. outs'[m] = r  BY <2>1
    <3>5. \A i \in 1 .. Len(h) : 1 .. h[i].after \subseteq h[i].value
      BY <1>1 DEF Inv, OracleDepends
    <3> HIDE DEF h, r
    <3>6. \A i \in 1 .. Len(r) : i \in 1 .. Len(h) \/ i = Len(h) + 1  BY <3>2, <3>3
    <3>7. \A i \in 1 .. Len(r) : 1 .. r[i].after \subseteq r[i].value
      <4> TAKE i \in 1 .. Len(r)
      <4>1. CASE i \in 1 .. Len(h)  BY <3>3, <3>5, <4>1
      <4>2. CASE i = Len(h) + 1  BY <2>3, <3>3, <4>2
      <4>. QED BY <3>6, <4>1, <4>2
    <3>. QED BY <3>3, <3>4, <3>7
  <2>5. ASSUME NEW m \in Modes
        PROVE  oracle'[m] \in Seq(SUBSET Nat) /\ Items(oracle'[m]) = o(m).value
    <3> DEFINE v == o(m).value
               r == <<v>>
    <3>1. v \in SUBSET Nat  BY <1>5 DEF Output
    <3>2. oracle'[m] = r  BY <2>1
    <3> HIDE DEF v
    <3>3. r \in Seq(SUBSET Nat) /\ Len(r) = 1 /\ r[1] = v  BY <3>1
    <3> HIDE DEF r
    <3>4. 1 .. Len(r) = {1}  BY <3>3
    <3>5. Items(r) = v  BY <3>3, <3>4 DEF Items
    <3>. QED BY <3>2, <3>3, <3>5 DEF v
  <2>6. TypeOK'
    <3>1. outs' \in [Modes -> Seq(History)] /\ oracle' \in [Modes -> Seq(SUBSET Nat)]
      BY <2>1, <2>4, <2>5
    <3>. QED BY <2>1, <2>2, <3>1 DEF TypeOK
  <2>7. OracleDepends'  BY <2>4 DEF OracleDepends
  <2>8. Kept'  BY <2>1, <2>3, <2>5 DEF Kept
  <2>9. CircuitAgrees'
    <3> SUFFICES ASSUME NEW m \in Modes
                 PROVE  outs'[m] = outs'["native"] /\ oracle'[m] = oracle'["native"]
      BY DEF CircuitAgrees
    <3>1. o(m) = o("native")  BY <1>5
    <3>2. fresh(m) = fresh("native")  BY <3>1 DEF fresh
    <3>3. outs[m] = outs["native"]  BY DEF Inv, CircuitAgrees
    <3>. QED BY <1>4, <2>1, <3>1, <3>2, <3>3
  <2>10. Unused' /\ Running' /\ SqueezeDepends' /\ FinishExact'
    BY <2>1 DEF Unused, Running, SqueezeDepends, FinishExact
  <2>. QED BY <2>6, <2>7, <2>8, <2>9, <2>10 DEF Inv
<1>. QED BY <1>6, <1>7

LEMMA SpecInv == Spec => []Inv
<1>1. Init => Inv  BY InitInv
<1>2. Inv /\ [Next]_vars => Inv'
  <2> SUFFICES ASSUME Inv, [Next]_vars  PROVE Inv'
    OBVIOUS
  <2>1. ASSUME NEW p \in IOPattern, Start(p)  PROVE Inv'
    BY <2>1, StartInv
  <2>2. ASSUME NEW n \in 0 .. MaxCount, Absorb(n)  PROVE Inv'
    <3>1. n \in Nat  OBVIOUS
    <3>. QED BY <2>2, <3>1, AbsorbInv
  <2>3. ASSUME NEW n \in 0 .. MaxCount, Squeeze(n)  PROVE Inv'
    <3>1. n \in Nat  OBVIOUS
    <3>. QED BY <2>3, <3>1, SqueezeInv
  <2>4. ASSUME NEW op \in Ops, Mismatch(op)  PROVE Inv'
    BY <2>4, MismatchInv
  <2>5. CASE Finish  BY <2>5, FinishInv
  <2>6. CASE RoAbsorb  BY <2>6, RoAbsorbInv
  <2>7. CASE RoSqueeze  BY <2>7, RoSqueezeInv
  <2>8. CASE UNCHANGED vars
    BY <2>8 DEF vars, Inv, TypeOK, Unused, Running, InUse, Native, HasAbsorbed, Follows,
                Kept, SqueezeDepends, FinishExact, CircuitAgrees, OracleDepends
  <2>. QED BY <2>1, <2>2, <2>3, <2>4, <2>5, <2>6, <2>7, <2>8 DEF Next
<1>. QED BY <1>1, <1>2, PTL DEF Spec

(* Whatever is squeezed after an absorption depends on the tag and on all  *)
(* that was absorbed, and no lane is handed out twice, in any mode.        *)
THEOREM SpecSqueezeDepends == Spec => []SqueezeDepends
<1>1. Inv => SqueezeDepends  BY DEF Inv
<1>. QED BY <1>1, SpecInv, PTL

(* finish accepts exactly the runs that made the operations of the pattern *)
(* in their order.                                                         *)
THEOREM SpecFinishExact == Spec => []FinishExact
<1>1. Inv => FinishExact  BY DEF Inv
<1>. QED BY <1>1, SpecInv, PTL

(* The circuits squeeze what the native sponge does, and their oracles     *)
(* keep what the native oracle does.                                       *)
THEOREM SpecCircuitAgrees == Spec => []CircuitAgrees
<1>1. Inv => CircuitAgrees  BY DEF Inv
<1>. QED BY <1>1, SpecInv, PTL

(* A challenge depends on everything the oracle ever absorbed, also on     *)
(* what it absorbed before the challenges in between.                      *)
THEOREM SpecOracleDepends == Spec => []OracleDepends
<1>1. Inv => OracleDepends  BY DEF Inv
<1>. QED BY <1>1, SpecInv, PTL
----------------------------------------------------------------------------
(* The tag decides: operations of one kind may be joined or split.         *)

\* Two sponges that only differ in the mode, the pattern and what they gave;
\* while elements are absorbed, it is open where a squeeze would go on.
CoreIn(s, t) ==
    /\ s.el = t.el /\ s.absorb_pos = t.absorb_pos
    /\ s.permutation_count = t.permutation_count
Core(s, t) == CoreIn(s, t) /\ s.squeeze_pos = t.squeeze_pos

LEMMA ReadyCore ==
  ASSUME NEW s \in SyncedSponge, NEW t \in SyncedSponge, CoreIn(s, t), NEW pos
  PROVE  /\ CoreIn(Ready(s, pos), Ready(t, pos))
         /\ Core(s, t) => Core(Ready(s, pos), Ready(t, pos))
         /\ Ready(s, pos).out = s.out
<1>1. /\ s \in SpongeState /\ Synced(s) /\ t \in SpongeState /\ Synced(t)
      /\ Content(s) = Content(t)
  BY DEF SyncedSponge, CoreIn, Content
<1>2. Core(permute(s), permute(t)) /\ permute(s).out = s.out
  <2> DEFINE u == permute(s)
             v == permute(t)
  <2>1. /\ u.el = [i \in Lanes |-> Content(s)] /\ u.absorb_pos = 0 /\ u.squeeze_pos = 0
        /\ u.permutation_count = s.permutation_count + 1 /\ u.out = s.out
    BY <1>1, PermuteExact
  <2>2. /\ v.el = [i \in Lanes |-> Content(t)] /\ v.absorb_pos = 0 /\ v.squeeze_pos = 0
        /\ v.permutation_count = t.permutation_count + 1
    BY <1>1, PermuteExact
  <2> HIDE DEF u, v
  <2>3. Core(u, v) /\ u.out = s.out  BY <1>1, <2>1, <2>2 DEF Core, CoreIn
  <2>. QED BY <2>3 DEF u, v
<1>. QED BY <1>2 DEF Ready, Core

LEMMA AbsorbElementCore ==
  ASSUME NEW s \in SyncedSponge, NEW t \in SyncedSponge, CoreIn(s, t),
         NEW e \in SUBSET Nat
  PROVE  CoreIn(absorb_element(s, e), absorb_element(t, e))
<1>1. AbsorbFields(s, e, absorb_element(s, e)) /\ AbsorbFields(t, e, absorb_element(t, e))
  BY AbsorbElement DEF SyncedSponge
<1>2. s.absorb_pos = t.absorb_pos  BY DEF CoreIn
<1>3. CoreIn(Ready(s, s.absorb_pos), Ready(t, t.absorb_pos))  BY <1>2, ReadyCore
<1>. QED BY <1>1, <1>3 DEF AbsorbFields, CoreIn

LEMMA SqueezeElementCore ==
  ASSUME NEW s \in SyncedSponge, NEW t \in SyncedSponge, Core(s, t)
  PROVE  /\ Core(squeeze_element(s), squeeze_element(t))
         /\ \E o \in Output : /\ squeeze_element(s).out = Append(s.out, o)
                              /\ squeeze_element(t).out = Append(t.out, o)
<1> DEFINE u == squeeze_element(s)
           v == squeeze_element(t)
           p == Ready(s, s.squeeze_pos)
           q == Ready(t, t.squeeze_pos)
           o == read_rate_element(p)
<1>1. /\ SqueezeFields(s, u) /\ SqueezeFields(t, v) /\ SqueezedOne(s, u)
  BY SqueezeElement DEF SyncedSponge
<1>2. CoreIn(s, t) /\ CoreIn(t, s) /\ s.squeeze_pos = t.squeeze_pos  BY DEF Core, CoreIn
<1>3. Core(p, q) /\ p.out = s.out /\ q.out = t.out  BY <1>2, ReadyCore
<1>4. o = read_rate_element(q)  BY <1>3 DEF Core, CoreIn, read_rate_element
<1> HIDE DEF o
<1>5. /\ u.el = p.el /\ u.absorb_pos = p.absorb_pos /\ u.squeeze_pos = p.squeeze_pos + 1
      /\ u.permutation_count = p.permutation_count /\ u.out = Append(s.out, o)
  BY <1>1, <1>3 DEF SqueezeFields, o
<1>6. /\ v.el = q.el /\ v.absorb_pos = q.absorb_pos /\ v.squeeze_pos = q.squeeze_pos + 1
      /\ v.permutation_count = q.permutation_count /\ v.out = Append(t.out, o)
  BY <1>1, <1>3, <1>4 DEF SqueezeFields
<1> HIDE DEF u, v, p, q
<1>7. Core(u, v)  BY <1>3, <1>5, <1>6 DEF Core, CoreIn
<1>8. o \in Output
  <2>1. PICK x \in Output : u.out = Append(s.out, x)  BY <1>1 DEF SqueezedOne
  <2>2. Append(s.out, x) = Append(s.out, o) /\ s.out \in Seq(Output)
    BY <1>5, <2>1 DEF SyncedSponge, SpongeState
  <2>3. Append(s.out, x)[Len(s.out) + 1] = x  BY <2>2, AppendProperties
  <2>4. Append(s.out, o)[Len(s.out) + 1] = o
    <3>1. s.out \in Seq(Output \cup {o}) /\ o \in Output \cup {o}
      BY <2>2, SeqMonotonic
    <3>. QED BY <3>1, AppendProperties
  <2>. QED BY <2>2, <2>3, <2>4
<1>. QED BY <1>5, <1>6, <1>7, <1>8 DEF u, v

LEMMA ElementsOf ==
  ASSUME NEW S, NEW e \in Seq(S)
  PROVE  Len(e) \in Nat /\ \A k \in 0 .. Len(e) - 1 : e[k + 1] \in S
<1>1. Len(e) \in Nat  BY LenProperties
<1>2. \A k \in 0 .. Len(e) - 1 : k + 1 \in 1 .. Len(e)  BY <1>1
<1>. QED BY <1>1, <1>2, ElementOfSeq

\* Where one absorption has the elements of another in a row, it has the
\* state of the other.
LEMMA AbsorbAlong ==
  ASSUME NEW s \in SyncedSponge, NEW e \in Seq(SUBSET Nat), NEW g, Absorbing(s, e, g),
         NEW t \in SyncedSponge, NEW f \in Seq(SUBSET Nat), NEW h, Absorbing(t, f, h),
         NEW d \in Nat, d + Len(f) <= Len(e),
         \A k \in 1 .. Len(f) : e[d + k] = f[k],
         CoreIn(g[d], t)
  PROVE  CoreIn(g[d + Len(f)], h[Len(f)])
<1> DEFINE n == Len(f)
           l == Len(e)
           T == {k \in 0 .. n : CoreIn(g[d + k], h[k])}
<1>1. n \in Nat /\ l \in Nat /\ d + n <= l /\ \A k \in 0 .. n - 1 : f[k + 1] \in SUBSET Nat
  BY ElementsOf
<1>2. /\ h[0] = t /\ \A k \in 0 .. n : h[k] \in SyncedSponge
      /\ \A k \in 0 .. n - 1 : h[k + 1] = absorb_element(h[k], f[k + 1])
  BY DEF Absorbing
<1>3. /\ \A k \in 0 .. l : g[k] \in SyncedSponge
      /\ \A k \in 0 .. l - 1 : g[k + 1] = absorb_element(g[k], e[k + 1])
  BY DEF Absorbing
<1>4. \A k \in 1 .. n : e[d + k] = f[k]  OBVIOUS
<1> HIDE DEF n, l
<1>5. 0 \in T
  <2>1. d + 0 = d /\ 0 \in 0 .. n  BY <1>1
  <2>. QED BY <1>2, <2>1
<1>6. ASSUME NEW k \in 0 .. n - 1, k \in T  PROVE k + 1 \in T
  <2>1. /\ k \in 0 .. n /\ k + 1 \in 0 .. n /\ k + 1 \in 1 .. n
        /\ d + k \in 0 .. l /\ d + k \in 0 .. l - 1 /\ d + (k + 1) = (d + k) + 1
    BY <1>1
  <2>2. CoreIn(g[d + k], h[k])  BY <1>6
  <2>3. g[d + k] \in SyncedSponge /\ h[k] \in SyncedSponge /\ f[k + 1] \in SUBSET Nat
    BY <1>1, <1>2, <1>3, <2>1
  <2>4. e[(d + k) + 1] = f[k + 1]  BY <1>4, <2>1
  <2>5. /\ h[k + 1] = absorb_element(h[k], f[k + 1])
        /\ g[(d + k) + 1] = absorb_element(g[d + k], f[k + 1])
    BY <1>2, <1>3, <2>1, <2>4
  <2>6. CoreIn(g[(d + k) + 1], h[k + 1])  BY <2>2, <2>3, <2>5, AbsorbElementCore
  <2>. QED BY <2>1, <2>6
<1>7. \A k \in 0 .. n : k \in T
  <2> HIDE DEF T
  <2>. QED BY <1>1, <1>5, <1>6, InductionTo
<1>8. n \in 0 .. n  BY <1>1
<1>9. n \in T  BY <1>7, <1>8
<1>. QED BY <1>9 DEF n

\* How an absorption ends.
LEMMA AbsorbEnds ==
  ASSUME NEW s \in SyncedSponge, NEW e \in Seq(SUBSET Nat), NEW g, Absorbing(s, e, g)
  PROVE  /\ absorb(s, e) \in SyncedSponge /\ absorb(s, e).squeeze_pos = Rate
         /\ CoreIn(absorb(s, e), g[Len(e)])
<1> DEFINE x == g[Len(e)]
           t == absorb(s, e)
<1>1. AbsorbedAll(s, e, t)  BY AbsorbExact
<1>2. t \in SyncedSponge /\ t.squeeze_pos = Rate
  BY <1>1 DEF AbsorbedAll, SyncedSponge
<1>3. x \in SpongeState
  <2>1. Len(e) \in 0 .. Len(e)  BY ElementsOf
  <2>. QED BY <2>1 DEF Absorbing, SyncedSponge
<1>4. t = [x EXCEPT !.squeeze_pos = Rate, !.io_count = @ + 1]
  <2>1. absorb_elements(s, e) = x  BY DEF Absorbing
  <2>. QED BY <2>1 DEF absorb
<1> HIDE DEF x, t
<1>5. CoreIn(t, x)  BY <1>3, <1>4 DEF CoreIn, SpongeState
<1>. QED BY <1>2, <1>5 DEF x, t

\* Absorbing is a function of the core.
LEMMA AbsorbCore ==
  ASSUME NEW s \in SyncedSponge, NEW t \in SyncedSponge, CoreIn(s, t),
         NEW e \in Seq(SUBSET Nat)
  PROVE  Core(absorb(s, e), absorb(t, e))
<1>1. PICK g : Absorbing(s, e, g)  BY AbsorbTable
<1>2. PICK h : Absorbing(t, e, h)  BY AbsorbTable
<1>3. Len(e) \in Nat  BY LenProperties
<1>4. CoreIn(g[Len(e)], h[Len(e)])
  <2>1. 0 + Len(e) = Len(e) /\ \A k \in 1 .. Len(e) : 0 + k = k  BY <1>3
  <2>2. CoreIn(g[0], t)  BY <1>1 DEF Absorbing
  <2>3. CoreIn(g[0 + Len(e)], h[Len(e)])  BY <1>1, <1>2, <1>3, <2>1, <2>2, AbsorbAlong
  <2>. QED BY <2>1, <2>3
<1>5. /\ absorb(s, e).squeeze_pos = Rate /\ CoreIn(absorb(s, e), g[Len(e)])
      /\ absorb(t, e).squeeze_pos = Rate /\ CoreIn(absorb(t, e), h[Len(e)])
  BY <1>1, <1>2, AbsorbEnds
<1>. QED BY <1>4, <1>5 DEF Core, CoreIn

\* Two absorptions are the absorption of all their elements.
LEMMA AbsorbJoin ==
  ASSUME NEW s \in SyncedSponge, NEW e \in Seq(SUBSET Nat),
         NEW e1 \in Seq(SUBSET Nat), NEW e2 \in Seq(SUBSET Nat),
         Len(e) = Len(e1) + Len(e2),
         \A k \in 1 .. Len(e1) : e[k] = e1[k],
         \A k \in 1 .. Len(e2) : e[Len(e1) + k] = e2[k]
  PROVE  Core(absorb(s, e), absorb(absorb(s, e1), e2))
<1> DEFINE t == absorb(s, e1)
<1>1. PICK g : Absorbing(s, e, g)  BY AbsorbTable
<1>2. PICK h : Absorbing(s, e1, h)  BY AbsorbTable
<1>3. t \in SyncedSponge /\ CoreIn(t, h[Len(e1)])  BY <1>2, AbsorbEnds
<1> HIDE DEF t
<1>4. PICK i : Absorbing(t, e2, i)  BY <1>3, AbsorbTable
<1>5. Len(e1) \in Nat /\ Len(e2) \in Nat /\ Len(e) \in Nat  BY LenProperties
<1>6. CoreIn(g[Len(e1)], h[Len(e1)])
  <2>1. /\ 0 + Len(e1) = Len(e1) /\ 0 + Len(e1) <= Len(e)
        /\ \A k \in 1 .. Len(e1) : e[0 + k] = e1[k]
    BY <1>5
  <2>2. CoreIn(g[0], s)  BY <1>1 DEF Absorbing, CoreIn
  <2>3. CoreIn(g[0 + Len(e1)], h[Len(e1)])
    BY <1>1, <1>2, <1>5, <2>1, <2>2, AbsorbAlong
  <2>. QED BY <2>1, <2>3
<1>7. CoreIn(g[Len(e)], i[Len(e2)])
  <2>1. CoreIn(g[Len(e1)], t)  BY <1>3, <1>6 DEF CoreIn
  <2>2. CoreIn(g[Len(e1) + Len(e2)], i[Len(e2)])
    BY <1>1, <1>3, <1>4, <1>5, <2>1, AbsorbAlong
  <2>. QED BY <2>2
<1>8. /\ absorb(s, e).squeeze_pos = Rate /\ CoreIn(absorb(s, e), g[Len(e)])
      /\ absorb(t, e2).squeeze_pos = Rate /\ CoreIn(absorb(t, e2), i[Len(e2)])
  BY <1>1, <1>3, <1>4, AbsorbEnds
<1>9. Core(absorb(s, e), absorb(t, e2))  BY <1>7, <1>8 DEF Core, CoreIn
<1>. QED BY <1>9 DEF t

NoOut(s) == s.out = <<>>
Joined(s, t, u) == u.out = s.out \o t.out

\* The same of squeezing, which leaves a squeeze where it is.
LEMMA SqueezeAlong ==
  ASSUME NEW s \in SyncedSponge, NEW n \in Nat, NEW g, Squeezing(s, n, g),
         NEW t \in SyncedSponge, NEW m \in Nat, NEW h, Squeezing(t, m, h),
         NEW d \in Nat, d + m <= n, Core(g[d], t), NoOut(t)
  PROVE  Core(g[d + m], h[m]) /\ Joined(g[d], h[m], g[d + m])
<1> DEFINE T == {k \in 0 .. m : Core(g[d + k], h[k]) /\ g[d + k].out = g[d].out \o h[k].out}
<1>1. /\ h[0] = t /\ \A k \in 0 .. m : h[k] \in SyncedSponge
      /\ \A k \in 0 .. m - 1 : h[k + 1] = squeeze_element(h[k])
  BY DEF Squeezing
<1>2. /\ \A k \in 0 .. n : g[k] \in SyncedSponge
      /\ \A k \in 0 .. n - 1 : g[k + 1] = squeeze_element(g[k])
  BY DEF Squeezing
<1>3. g[d].out \in Seq(Output)
  <2>1. d \in 0 .. n  OBVIOUS
  <2>. QED BY <1>2, <2>1 DEF SyncedSponge, SpongeState
<1>4. 0 \in T
  <2>1. d + 0 = d /\ 0 \in 0 .. m  OBVIOUS
  <2>2. g[d].out = g[d].out \o <<>>  BY <1>3, ConcatEmptySeq
  <2>. QED BY <1>1, <2>1, <2>2 DEF NoOut
<1>5. ASSUME NEW k \in 0 .. m - 1, k \in T  PROVE k + 1 \in T
  <2>1. /\ k \in 0 .. m /\ k + 1 \in 0 .. m
        /\ d + k \in 0 .. n /\ d + k \in 0 .. n - 1 /\ d + (k + 1) = (d + k) + 1
    OBVIOUS
  <2>2. Core(g[d + k], h[k]) /\ g[d + k].out = g[d].out \o h[k].out  BY <1>5
  <2>3. g[d + k] \in SyncedSponge /\ h[k] \in SyncedSponge  BY <1>1, <1>2, <2>1
  <2>4. h[k + 1] = squeeze_element(h[k]) /\ g[(d + k) + 1] = squeeze_element(g[d + k])
    BY <1>1, <1>2, <2>1
  <2> DEFINE x == g[d + k]
             y == h[k]
             a == g[d].out
             b == h[k].out
  <2>8. x \in SyncedSponge /\ y \in SyncedSponge /\ Core(x, y)  BY <2>2, <2>3
  <2>9. PICK o \in Output : /\ squeeze_element(x).out = Append(x.out, o)
                            /\ squeeze_element(y).out = Append(y.out, o)
                            /\ Core(squeeze_element(x), squeeze_element(y))
    <3> HIDE DEF x, y
    <3>. QED BY <2>8, SqueezeElementCore
  <2>5. /\ g[(d + k) + 1].out = Append(g[d + k].out, o)
        /\ h[k + 1].out = Append(h[k].out, o)
    BY <2>4, <2>9
  <2>6. Core(g[(d + k) + 1], h[k + 1])  BY <2>4, <2>9
  <2>7. Append(g[d].out \o h[k].out, o) = g[d].out \o Append(h[k].out, o)
    <3>1. h[k].out \in Seq(Output) /\ <<o>> \in Seq(Output)
      BY <2>3 DEF SyncedSponge, SpongeState
    <3>2. g[d].out \o h[k].out \in Seq(Output)  BY <1>3, <3>1, ConcatProperties
    <3>3. Append(g[d].out \o h[k].out, o) = (g[d].out \o h[k].out) \o <<o>>
      BY <3>2, AppendIsConcat
    <3>4. Append(h[k].out, o) = h[k].out \o <<o>>  BY <3>1, AppendIsConcat
    <3>5. a \in Seq(Output) /\ b \in Seq(Output)  BY <1>3, <3>1
    <3>6. (a \o b) \o <<o>> = a \o (b \o <<o>>)
      <4> HIDE DEF a, b
      <4>. QED BY <3>1, <3>5, ConcatAssociative
    <3>. QED BY <3>3, <3>4, <3>6
  <2>. QED BY <2>1, <2>2, <2>5, <2>6, <2>7
<1>6. \A k \in 0 .. m : k \in T
  <2> HIDE DEF T
  <2>. QED BY <1>4, <1>5, InductionTo
<1>7. m \in T
  <2>1. m \in 0 .. m  OBVIOUS
  <2> HIDE DEF T
  <2>. QED BY <1>6, <2>1
<1>. QED BY <1>7 DEF Joined

\* What is squeezed from, and how a squeeze ends.
Emptied(s) == [s EXCEPT !.out = <<>>]

LEMMA EmptiedExact ==
  ASSUME NEW s \in SyncedSponge
  PROVE  Emptied(s) \in SyncedSponge /\ Core(Emptied(s), s) /\ NoOut(Emptied(s))
<1> DEFINE none == <<>>
           b == Emptied(s)
<1>1. none \in Seq(Output)  BY EmptySeq
<1>2. b = [s EXCEPT !.out = none]  BY DEF Emptied
<1> HIDE DEF none, b
<1>3. /\ b \in SpongeState /\ b.out = none /\ b.mode = s.mode /\ b.el = s.el
      /\ b.twin = s.twin /\ Core(b, s)
  BY <1>1, <1>2 DEF SyncedSponge, SpongeState, Core, CoreIn
<1>4. Synced(b)  BY <1>3 DEF SyncedSponge, Synced
<1>. QED BY <1>3, <1>4 DEF SyncedSponge, NoOut, none, b

LEMMA SqueezeEnds ==
  ASSUME NEW s \in SyncedSponge, NEW n \in Nat, NEW g, Squeezing(Emptied(s), n, g)
  PROVE  /\ squeeze(s, n) \in SyncedSponge
         /\ Core(squeeze(s, n), g[n]) /\ squeeze(s, n).out = g[n].out
<1> DEFINE x == g[n]
           t == squeeze(s, n)
<1>1. SqueezedAll(s, n, t)  BY SqueezeExact
<1>2. t \in SyncedSponge  BY <1>1 DEF SqueezedAll, SyncedSponge
<1>3. x \in SpongeState
  <2>1. n \in 0 .. n  OBVIOUS
  <2>. QED BY <2>1 DEF Squeezing, SyncedSponge
<1>4. t = [x EXCEPT !.io_count = @ + 1]
  <2>1. squeeze_elements(Emptied(s), n) = x  BY DEF Squeezing
  <2>. QED BY <2>1 DEF squeeze, Emptied
<1> HIDE DEF x, t
<1>5. Core(t, x) /\ t.out = x.out  BY <1>3, <1>4 DEF Core, CoreIn, SpongeState
<1>. QED BY <1>2, <1>5 DEF x, t

LEMMA SqueezeCore ==
  ASSUME NEW s \in SyncedSponge, NEW t \in SyncedSponge, Core(s, t), NEW n \in Nat
  PROVE  Core(squeeze(s, n), squeeze(t, n)) /\ squeeze(s, n).out = squeeze(t, n).out
<1>1. /\ Emptied(s) \in SyncedSponge /\ Core(Emptied(s), s) /\ NoOut(Emptied(s))
      /\ Emptied(t) \in SyncedSponge /\ Core(Emptied(t), t) /\ NoOut(Emptied(t))
  BY EmptiedExact
<1>2. PICK g : Squeezing(Emptied(s), n, g)  BY <1>1, SqueezeTable
<1>3. PICK h : Squeezing(Emptied(t), n, h)  BY <1>1, SqueezeTable
<1>4. Core(g[n], h[n]) /\ g[n].out = h[n].out
  <2>1. g[0] = Emptied(s)  BY <1>2 DEF Squeezing
  <2>2. Core(g[0], Emptied(t))  BY <1>1, <2>1 DEF Core, CoreIn
  <2>3. 0 + n = n /\ 0 + n <= n /\ 0 \in Nat  OBVIOUS
  <2>4. Core(g[0 + n], h[n]) /\ Joined(g[0], h[n], g[0 + n])
    BY <1>1, <1>2, <1>3, <2>2, <2>3, SqueezeAlong
  <2>5. h[n].out \in Seq(Output)
    <3>1. n \in 0 .. n  OBVIOUS
    <3>. QED BY <1>3, <3>1 DEF Squeezing, SyncedSponge, SpongeState
  <2>6. <<>> \o h[n].out = h[n].out  BY <2>5, ConcatEmptySeq
  <2>. QED BY <1>1, <2>1, <2>3, <2>4, <2>6 DEF NoOut, Joined
<1>5. /\ Core(squeeze(s, n), g[n]) /\ squeeze(s, n).out = g[n].out
      /\ Core(squeeze(t, n), h[n]) /\ squeeze(t, n).out = h[n].out
  BY <1>2, <1>3, SqueezeEnds
<1>. QED BY <1>4, <1>5 DEF Core, CoreIn

LEMMA SqueezeJoin ==
  ASSUME NEW s \in SyncedSponge, NEW n \in Nat, NEW m \in Nat
  PROVE  LET t == squeeze(s, n)
         IN  /\ Core(squeeze(s, n + m), squeeze(t, m))
             /\ squeeze(s, n + m).out = t.out \o squeeze(t, m).out
<1> DEFINE t == squeeze(s, n)
           b == Emptied(s)
           c == Emptied(t)
<1>1. b \in SyncedSponge /\ Core(b, s) /\ NoOut(b)  BY EmptiedExact
<1>2. PICK g : Squeezing(b, n + m, g)  BY <1>1, SqueezeTable
<1>3. PICK h : Squeezing(b, n, h)  BY <1>1, SqueezeTable
<1>4. t \in SyncedSponge /\ Core(t, h[n]) /\ t.out = h[n].out  BY <1>3, SqueezeEnds
<1> HIDE DEF t
<1>5. c \in SyncedSponge /\ Core(c, t) /\ NoOut(c)  BY <1>4, EmptiedExact
<1>6. PICK i : Squeezing(c, m, i)  BY <1>5, SqueezeTable
<1>7. /\ Core(squeeze(s, n + m), g[n + m]) /\ squeeze(s, n + m).out = g[n + m].out
      /\ Core(squeeze(t, m), i[m]) /\ squeeze(t, m).out = i[m].out
  <2>1. n + m \in Nat  OBVIOUS
  <2>. QED BY <1>2, <1>4, <1>6, <2>1, SqueezeEnds
<1> HIDE DEF b, c
<1>8. Core(g[n], h[n]) /\ g[n].out = h[n].out
  <2>1. g[0] = b  BY <1>2 DEF Squeezing
  <2>2. Core(g[0], b)  BY <2>1 DEF Core, CoreIn
  <2>3. 0 + n = n /\ 0 + n <= n + m /\ n + m \in Nat /\ 0 \in Nat  OBVIOUS
  <2>4. Core(g[0 + n], h[n]) /\ Joined(g[0], h[n], g[0 + n])
    BY <1>1, <1>2, <1>3, <2>2, <2>3, SqueezeAlong
  <2>5. h[n].out \in Seq(Output)
    <3>1. n \in 0 .. n  OBVIOUS
    <3>. QED BY <1>3, <3>1 DEF Squeezing, SyncedSponge, SpongeState
  <2>6. <<>> \o h[n].out = h[n].out  BY <2>5, ConcatEmptySeq
  <2>. QED BY <1>1, <2>1, <2>3, <2>4, <2>6 DEF NoOut, Joined
<1>9. Core(g[n + m], i[m]) /\ g[n + m].out = g[n].out \o i[m].out
  <2>1. Core(g[n], c)  BY <1>4, <1>5, <1>8 DEF Core, CoreIn
  <2>2. n + m <= n + m /\ n + m \in Nat  OBVIOUS
  <2>3. Core(g[n + m], i[m]) /\ Joined(g[n], i[m], g[n + m])
    BY <1>1, <1>2, <1>5, <1>6, <2>1, <2>2, SqueezeAlong
  <2>. QED BY <2>3 DEF Joined
<1>10. Core(squeeze(s, n + m), squeeze(t, m))  BY <1>7, <1>9 DEF Core, CoreIn
<1>11. squeeze(s, n + m).out = t.out \o squeeze(t, m).out  BY <1>4, <1>7, <1>8, <1>9
<1>. QED BY <1>10, <1>11 DEF t
----------------------------------------------------------------------------
(* Runs, and the patterns that share a tag.                                *)

RunState == [sponge : SyncedSponge, next : Nat, out : Seq(Output)]
SameRun(r, q) == Core(r.sponge, q.sponge) /\ r.next = q.next /\ r.out = q.out
Begun == [sponge |-> start(new_with_constants("native"), <<>>), next |-> 0, out |-> <<>>]

\* The elements that RunOp absorbs.
From(x, n) == [k \in 1 .. n |-> {x + k}]
LEMMA FromType ==
  ASSUME NEW x \in Nat, NEW n \in Nat
  PROVE  /\ From(x, n) \in Seq(SUBSET Nat) /\ Len(From(x, n)) = n
         /\ \A k \in 1 .. n : From(x, n)[k] = {x + k}
<1> DEFINE e == From(x, n)
<1>1. e \in [1 .. n -> SUBSET Nat] /\ \A k \in 1 .. n : e[k] = {x + k}
  BY DEF From
<1> HIDE DEF e
<1>2. e \in Seq(SUBSET Nat) /\ Len(e) = n  BY <1>1, IsASeq
<1>. QED BY <1>1, <1>2 DEF e

LEMMA BegunType == Begun \in RunState
<1> DEFINE none == <<>>
           b == start(new_with_constants("native"), none)
<1>1. none \in Seq(AnyOp) /\ none \in Seq(Output) /\ "native" \in Modes
  BY EmptySeq DEF Modes
<1>2. Begun = [sponge |-> b, next |-> 0, out |-> none]  BY DEF Begun
<1> HIDE DEF none
<1>3. Started("native", none, b)  BY <1>1, StartExact
<1>4. b \in SyncedSponge  BY <1>3 DEF Started
<1> HIDE DEF b
<1>. QED BY <1>1, <1>2, <1>4 DEF RunState

LEMMA RunOpExact ==
  ASSUME NEW r \in RunState, NEW op \in AnyOp
  PROVE  LET q == RunOp(r, op)
         IN  /\ q \in RunState
             /\ op.absorb => /\ q.sponge = absorb(r.sponge, From(r.next, op.count))
                             /\ q.next = r.next + op.count /\ q.out = r.out
             /\ ~ op.absorb => /\ q.sponge = squeeze(r.sponge, op.count)
                               /\ q.next = r.next
                               /\ q.out = r.out \o squeeze(r.sponge, op.count).out
<1> DEFINE n == op.count
           e == From(r.next, n)
           q == RunOp(r, op)
<1>1. /\ r.sponge \in SyncedSponge /\ r.next \in Nat /\ r.out \in Seq(Output)
      /\ n \in Nat /\ op.absorb \in BOOLEAN
  BY DEF RunState, AnyOp
<1>2. CASE op.absorb
  <2> DEFINE t == absorb(r.sponge, e)
  <2>1. e \in Seq(SUBSET Nat)  BY <1>1, FromType
  <2>2. q = [sponge |-> t, next |-> r.next + n, out |-> r.out]
    BY <1>2 DEF RunOp, From
  <2> HIDE DEF e, n
  <2>3. t \in SyncedSponge
    <3>1. AbsorbedAll(r.sponge, e, t)  BY <1>1, <2>1, AbsorbExact
    <3>. QED BY <3>1 DEF AbsorbedAll, SyncedSponge
  <2>4. q.sponge = t /\ q.next = r.next + n /\ q.out = r.out  BY <2>2
  <2>5. q \in RunState
    <3> HIDE DEF t, q
    <3>. QED BY <1>1, <2>2, <2>3 DEF RunState
  <2>. QED BY <1>2, <2>4, <2>5 DEF n, e
<1>3. CASE ~ op.absorb
  <2> DEFINE t == squeeze(r.sponge, n)
             o == r.out \o t.out
  <2>1. q = [sponge |-> t, next |-> r.next, out |-> o]
    BY <1>3 DEF RunOp
  <2> HIDE DEF n
  <2>2. SqueezedAll(r.sponge, n, t)  BY <1>1, SqueezeExact
  <2> HIDE DEF t
  <2>3. t \in SyncedSponge /\ t.out \in Seq(Output)
    BY <2>2 DEF SqueezedAll, SyncedSponge, SpongeState
  <2> DEFINE a == r.out
             b == t.out
  <2>4. o \in Seq(Output)
    <3>1. a \in Seq(Output) /\ b \in Seq(Output) /\ o = a \o b  BY <1>1, <2>3
    <3> HIDE DEF a, b, o
    <3>. QED BY <3>1, ConcatProperties
  <2>5. q.sponge = t /\ q.next = r.next /\ q.out = o
    <3> HIDE DEF o, q
    <3>. QED BY <2>1
  <2>6. q \in RunState
    <3> HIDE DEF q, o
    <3>. QED BY <1>1, <2>1, <2>3, <2>4 DEF RunState
  <2>. QED BY <1>3, <2>5, <2>6 DEF n, t
<1>. QED BY <1>1, <1>2, <1>3

LEMMA RunOpAbsorbs ==
  ASSUME NEW r \in RunState, NEW op \in AnyOp, op.absorb
  PROVE  /\ RunOp(r, op).sponge = absorb(r.sponge, From(r.next, op.count))
         /\ RunOp(r, op).next = r.next + op.count /\ RunOp(r, op).out = r.out
BY DEF RunOp, From

LEMMA RunOpSqueezes ==
  ASSUME NEW r \in RunState, NEW op \in AnyOp, ~ op.absorb
  PROVE  /\ RunOp(r, op).sponge = squeeze(r.sponge, op.count)
         /\ RunOp(r, op).next = r.next
         /\ RunOp(r, op).out = r.out \o squeeze(r.sponge, op.count).out
BY DEF RunOp

LEMMA RunOpSame ==
  ASSUME NEW r \in RunState, NEW q \in RunState, SameRun(r, q), NEW op \in AnyOp
  PROVE  SameRun(RunOp(r, op), RunOp(q, op))
<1> DEFINE n == op.count
           u == RunOp(r, op)
           v == RunOp(q, op)
<1>1. /\ r.sponge \in SyncedSponge /\ q.sponge \in SyncedSponge /\ r.next \in Nat
      /\ n \in Nat /\ op.absorb \in BOOLEAN
  BY DEF RunState, AnyOp
<1>2. Core(r.sponge, q.sponge) /\ r.next = q.next /\ r.out = q.out  BY DEF SameRun
<1>3. CASE op.absorb
  <2>1. /\ u.sponge = absorb(r.sponge, From(r.next, n))
        /\ v.sponge = absorb(q.sponge, From(r.next, n))
        /\ u.next = v.next /\ u.out = v.out
    BY <1>2, <1>3, RunOpAbsorbs
  <2>2. From(r.next, n) \in Seq(SUBSET Nat)  BY <1>1, FromType
  <2>3. CoreIn(r.sponge, q.sponge)  BY <1>2 DEF Core
  <2>4. Core(u.sponge, v.sponge)  BY <1>1, <2>1, <2>2, <2>3, AbsorbCore
  <2>. QED BY <2>1, <2>4 DEF SameRun
<1>4. CASE ~ op.absorb
  <2>1. /\ u.sponge = squeeze(r.sponge, n) /\ v.sponge = squeeze(q.sponge, n)
        /\ u.next = r.next /\ v.next = q.next
        /\ u.out = r.out \o squeeze(r.sponge, n).out
        /\ v.out = q.out \o squeeze(q.sponge, n).out
    BY <1>4, RunOpSqueezes
  <2>2. /\ Core(squeeze(r.sponge, n), squeeze(q.sponge, n))
        /\ squeeze(r.sponge, n).out = squeeze(q.sponge, n).out
    BY <1>1, <1>2, SqueezeCore
  <2>. QED BY <1>2, <2>1, <2>2 DEF SameRun
<1>. QED BY <1>1, <1>3, <1>4

\* Two operations of one kind are one.
LEMMA RunOpJoin ==
  ASSUME NEW r \in RunState, NEW op1 \in AnyOp, NEW op2 \in AnyOp, matches(op1, op2)
  PROVE  SameRun(RunOp(r, combine(op1, op2)), RunOp(RunOp(r, op1), op2))
<1> DEFINE n == op1.count
           m == op2.count
           op == combine(op1, op2)
           x == r.next
           s == r.sponge
           u == RunOp(r, op)
           v == RunOp(r, op1)
           w == RunOp(v, op2)
<1>1. /\ s \in SyncedSponge /\ x \in Nat /\ r.out \in Seq(Output) /\ n \in Nat /\ m \in Nat
      /\ op1.absorb \in BOOLEAN /\ op2.absorb = op1.absorb
  BY DEF RunState, AnyOp, matches
<1>2. op \in AnyOp /\ op.absorb = op1.absorb /\ op.count = n + m
  BY <1>1 DEF combine, Op, AnyOp
<1>3. v \in RunState  BY RunOpExact
<1> HIDE DEF op
<1>4. CASE op1.absorb
  <2> DEFINE e == From(x, n + m)
             e1 == From(x, n)
             e2 == From(x + n, m)
  <2>1. v.sponge = absorb(s, e1) /\ v.next = x + n /\ v.out = r.out
    BY <1>4, RunOpAbsorbs
  <2>2. u.sponge = absorb(s, e) /\ u.next = x + (n + m) /\ u.out = r.out
    BY <1>2, <1>4, RunOpAbsorbs
  <2>3. w.sponge = absorb(v.sponge, e2) /\ w.next = (x + n) + m /\ w.out = r.out
    <3>1. /\ w.sponge = absorb(v.sponge, From(v.next, m)) /\ w.next = v.next + m
          /\ w.out = v.out
      BY <1>1, <1>3, <1>4, RunOpAbsorbs
    <3>. QED BY <2>1, <3>1
  <2>4. /\ e \in Seq(SUBSET Nat) /\ Len(e) = n + m
        /\ \A k \in 1 .. n + m : e[k] = {x + k}
        /\ e1 \in Seq(SUBSET Nat) /\ Len(e1) = n /\ \A k \in 1 .. n : e1[k] = {x + k}
        /\ e2 \in Seq(SUBSET Nat) /\ Len(e2) = m
        /\ \A k \in 1 .. m : e2[k] = {(x + n) + k}
    <3>1. n + m \in Nat /\ x + n \in Nat  BY <1>1
    <3>. QED BY <1>1, <3>1, FromType
  <2> HIDE DEF u, v, w, e, e1, e2, n, m
  <2>5. \A k \in 1 .. n : e[k] = e1[k]
    <3>1. \A k \in 1 .. n : k \in 1 .. n + m  BY <1>1
    <3>. QED BY <2>4, <3>1
  <2>6. \A k \in 1 .. m : e[n + k] = e2[k]
    <3>1. \A k \in 1 .. m : n + k \in 1 .. n + m /\ x + (n + k) = (x + n) + k  BY <1>1
    <3>. QED BY <2>4, <3>1
  <2>7. Core(u.sponge, w.sponge)
    <3>1. Core(absorb(s, e), absorb(absorb(s, e1), e2))
      BY <1>1, <2>4, <2>5, <2>6, AbsorbJoin
    <3>. QED BY <2>1, <2>2, <2>3, <3>1
  <2>8. u.next = w.next  BY <1>1, <2>2, <2>3
  <2>9. SameRun(u, w)  BY <2>2, <2>3, <2>7, <2>8 DEF SameRun
  <2>. QED BY <2>9 DEF u, v, w, op
<1>5. CASE ~ op1.absorb
  <2>1. /\ v.sponge = squeeze(s, n) /\ v.next = x
        /\ v.out = r.out \o squeeze(s, n).out
    BY <1>5, RunOpSqueezes
  <2>2. /\ u.sponge = squeeze(s, n + m) /\ u.next = x
        /\ u.out = r.out \o squeeze(s, n + m).out
    BY <1>2, <1>5, RunOpSqueezes
  <2>3. /\ w.sponge = squeeze(v.sponge, m) /\ w.next = v.next
        /\ w.out = v.out \o squeeze(v.sponge, m).out
    BY <1>1, <1>3, <1>5, RunOpSqueezes
  <2>4. /\ v.sponge \in SyncedSponge /\ w.sponge \in SyncedSponge
        /\ v.sponge.out \in Seq(Output) /\ w.sponge.out \in Seq(Output)
    <3>1. w \in RunState  BY <1>3, RunOpExact
    <3>. QED BY <1>3, <3>1 DEF RunState, SyncedSponge, SpongeState
  <2> HIDE DEF u, v, w, n, m
  <2>5. /\ Core(u.sponge, w.sponge)
        /\ u.sponge.out = v.sponge.out \o w.sponge.out
    <3>1. /\ Core(squeeze(s, n + m), squeeze(squeeze(s, n), m))
          /\ squeeze(s, n + m).out = squeeze(s, n).out \o squeeze(squeeze(s, n), m).out
      BY <1>1, SqueezeJoin
    <3>. QED BY <2>1, <2>2, <2>3, <3>1
  <2>6. u.out = w.out
    <3>1. u.out = r.out \o (v.sponge.out \o w.sponge.out)  BY <2>2, <2>5
    <3>2. w.out = (r.out \o v.sponge.out) \o w.sponge.out  BY <2>1, <2>3
    <3> DEFINE a == r.out
               b == v.sponge.out
               c == w.sponge.out
    <3>3. a \in Seq(Output) /\ b \in Seq(Output) /\ c \in Seq(Output)  BY <1>1, <2>4
    <3>4. (a \o b) \o c = a \o (b \o c)
      <4> HIDE DEF a, b, c
      <4>. QED BY <3>3, ConcatAssociative
    <3>. QED BY <3>1, <3>2, <3>4
  <2>7. SameRun(u, w)  BY <2>1, <2>2, <2>3, <2>5, <2>6 DEF SameRun
  <2>. QED BY <2>7 DEF u, v, w, op
<1>. QED BY <1>1, <1>4, <1>5

\* The runs after each number of operations.
Runs(p, g) ==
    /\ g[0] = Begun /\ RunOf(p) = g[Len(p)]
    /\ \A k \in 0 .. Len(p) : g[k] \in RunState
    /\ \A k \in 0 .. Len(p) - 1 : g[k + 1] = RunOp(g[k], p[k + 1])

LEMMA RunTable ==
  ASSUME NEW p \in Seq(AnyOp)
  PROVE  \E g : Runs(p, g)
<1> DEFINE n == Len(p)
           Is(t) == t = [k \in 0 .. n |-> IF k = 0 THEN Begun ELSE RunOp(t[k - 1], p[k])]
           F == [k \in 0 .. n - 1 |-> [x \in RunState |-> RunOp(x, p[k + 1])]]
           t == CHOOSE g : Is(g)
<1>1. \A k \in 0 .. n - 1, x \in RunState : F[k][x] = RunOp(x, p[k + 1])
  OBVIOUS
<1>2. n \in Nat /\ \A k \in 0 .. n - 1 : p[k + 1] \in AnyOp  BY ElementsOf
<1>3. \A k \in 0 .. n - 1, x \in RunState : RunOp(x, p[k + 1]) \in RunState
  BY <1>2, RunOpExact
<1>8. RunOf(p) = t[n]  BY DEF RunOf, Begun
<1> HIDE DEF n
<1>4. PICK g : Recursion(g, n, RunState, Begun, F)
  <2> HIDE DEF F
  <2>1. StepsIn(F, n, RunState)  BY <1>1, <1>3 DEF StepsIn
  <2>. QED BY <1>2, <2>1, BegunType, RecursionTo
<1>5. \A k \in 0 .. n - 1 : g[k + 1] = RunOp(g[k], p[k + 1])
  <2> HIDE DEF F
  <2>. QED BY <1>1, <1>2, <1>4 DEF Recursion
<1>6. Is(g)
  <2>1. \A k \in 0 .. n : k # 0 => k - 1 \in 0 .. n - 1 /\ (k - 1) + 1 = k  BY <1>2
  <2>2. \A k \in 0 .. n : g[k] = IF k = 0 THEN Begun ELSE RunOp(g[k - 1], p[k])
    BY <1>4, <1>5, <2>1 DEF Recursion
  <2>3. g \in [0 .. n -> RunState]  BY <1>4 DEF Recursion
  <2>. QED BY <2>2, <2>3
<1>7. Is(t)  BY <1>6
<1> HIDE DEF t
<1>9. t[0] = Begun  BY <1>2, <1>7
<1>10. \A k \in 0 .. n - 1 : t[k + 1] = RunOp(t[k], p[k + 1])
  BY <1>2, <1>7
<1>11. \A k \in 0 .. n : t[k] \in RunState
  <2> DEFINE T == {k \in 0 .. n : t[k] \in RunState}
  <2>1. 0 \in T  BY <1>2, <1>9, BegunType
  <2>2. ASSUME NEW k \in 0 .. n - 1, k \in T  PROVE k + 1 \in T
    <3>1. t[k] \in RunState  BY <2>2
    <3>. QED BY <1>2, <1>3, <1>10, <3>1
  <2>3. \A k \in 0 .. n : k \in T
    <3> HIDE DEF T
    <3>. QED BY <1>2, <2>1, <2>2, InductionTo
  <2>. QED BY <2>3
<1>. QED BY <1>8, <1>9, <1>10, <1>11 DEF Runs, n

LEMMA RunOfEmpty == RunOf(<<>>) = Begun
<1>1. <<>> \in Seq(AnyOp) /\ Len(<<>>) = 0  BY EmptySeq
<1>2. PICK g : Runs(<<>>, g)  BY <1>1, RunTable
<1>. QED BY <1>1, <1>2 DEF Runs

LEMMA RunOfType ==
  ASSUME NEW p \in Seq(AnyOp)
  PROVE  RunOf(p) \in RunState
<1>1. PICK g : Runs(p, g)  BY RunTable
<1>2. Len(p) \in 0 .. Len(p)  BY ElementsOf
<1>. QED BY <1>1, <1>2 DEF Runs

\* A run goes on with the next operation.
LEMMA RunOfAppend ==
  ASSUME NEW p \in Seq(AnyOp), NEW op \in AnyOp
  PROVE  RunOf(Append(p, op)) = RunOp(RunOf(p), op)
<1> DEFINE q == Append(p, op)
           n == Len(p)
<1>1. /\ q \in Seq(AnyOp) /\ Len(q) = n + 1 /\ q[n + 1] = op
      /\ \A k \in 1 .. n : q[k] = p[k]
  BY AppendProperties
<1>2. n \in Nat  BY LenProperties
<1> HIDE DEF q, n
<1>3. PICK g : Runs(p, g)  BY RunTable
<1>4. PICK h : Runs(q, h)  BY <1>1, RunTable
<1> DEFINE T == {k \in 0 .. n : h[k] = g[k]}
<1>5. 0 \in T  BY <1>2, <1>3, <1>4 DEF Runs
<1>6. ASSUME NEW k \in 0 .. n - 1, k \in T  PROVE k + 1 \in T
  <2>1. k + 1 \in 0 .. n /\ k + 1 \in 1 .. n /\ k \in 0 .. (n + 1) - 1  BY <1>2
  <2>2. h[k + 1] = RunOp(h[k], q[k + 1])  BY <1>1, <1>4, <2>1 DEF Runs
  <2>3. g[k + 1] = RunOp(g[k], p[k + 1])  BY <1>3 DEF Runs, n
  <2>. QED BY <1>1, <1>6, <2>1, <2>2, <2>3
<1>7. h[n] = g[n]
  <2>1. \A k \in 0 .. n : k \in T
    <3> HIDE DEF T
    <3>. QED BY <1>2, <1>5, <1>6, InductionTo
  <2>2. n \in 0 .. n  BY <1>2
  <2>. QED BY <2>1, <2>2
<1>8. h[n + 1] = RunOp(h[n], op)
  <2>1. n \in 0 .. (n + 1) - 1  BY <1>2
  <2>. QED BY <1>1, <1>4, <2>1 DEF Runs
<1>9. RunOf(q) = h[n + 1] /\ RunOf(p) = g[n]
  BY <1>1, <1>3, <1>4 DEF Runs, n
<1>. QED BY <1>7, <1>8, <1>9 DEF q

Hasher == [hashed : Seq(AnyOp), current : AnyOp]
NewHasher == [hashed |-> <<>>, current |-> Op(TRUE, 0)]

\* What an operation does to the hasher.
LEMMA UpdateOp ==
  ASSUME NEW h \in Hasher, NEW op \in AnyOp
  PROVE  LET u == update_op(h, op)
         IN  /\ u \in Hasher /\ finish_op(h) \in Seq(AnyOp)
             /\ matches(h.current, op) =>
                    u.hashed = h.hashed /\ u.current = combine(h.current, op)
             /\ ~ matches(h.current, op) => u.hashed = finish_op(h) /\ u.current = op
<1> DEFINE u == update_op(h, op)
           f == finish_op(h)
           c == combine(h.current, op)
<1>1. h.hashed \in Seq(AnyOp) /\ h.current \in AnyOp  BY DEF Hasher
<1>2. f \in Seq(AnyOp)  BY <1>1, AppendProperties DEF finish_op
<1>3. c \in AnyOp  BY <1>1 DEF combine, Op, AnyOp
<1>4. matches(h.current, op) => u = [hashed |-> h.hashed, current |-> c]
  <2>1. matches(h.current, op) => u = [h EXCEPT !.current = c]  BY DEF update_op
  <2> HIDE DEF u, c
  <2>. QED BY <2>1 DEF Hasher
<1>5. ~ matches(h.current, op) => u = [hashed |-> f, current |-> op]  BY DEF update_op
<1> HIDE DEF u, f, c
<1>6. u \in Hasher  BY <1>1, <1>2, <1>3, <1>4, <1>5 DEF Hasher
<1>7. /\ matches(h.current, op) => u.hashed = h.hashed /\ u.current = c
      /\ ~ matches(h.current, op) => u.hashed = f /\ u.current = op
  BY <1>4, <1>5
<1>. QED BY <1>2, <1>6, <1>7 DEF u, f, c

LEMMA HasherTable ==
  ASSUME NEW p \in Seq(AnyOp)
  PROVE  LET h == hashers(p)
         IN  /\ h[0] = NewHasher /\ value(p) = finish_op(h[Len(p)])
             /\ \A k \in 0 .. Len(p) : h[k] \in Hasher
             /\ \A k \in 0 .. Len(p) - 1 : h[k + 1] = update_op(h[k], p[k + 1])
<1> DEFINE n == Len(p)
           Is(t) == t = [k \in 0 .. n |-> IF k = 0 THEN NewHasher ELSE update_op(t[k - 1], p[k])]
           F == [k \in 0 .. n - 1 |-> [x \in Hasher |-> update_op(x, p[k + 1])]]
           t == CHOOSE g : Is(g)
<1>1. \A k \in 0 .. n - 1, x \in Hasher : F[k][x] = update_op(x, p[k + 1])
  OBVIOUS
<1>2. n \in Nat /\ \A k \in 0 .. n - 1 : p[k + 1] \in AnyOp  BY ElementsOf
<1>3. \A k \in 0 .. n - 1, x \in Hasher : update_op(x, p[k + 1]) \in Hasher
  BY <1>2, UpdateOp
<1>8. hashers(p) = t  BY DEF hashers, NewHasher
<1>9. NewHasher \in Hasher
  <2>1. <<>> \in Seq(AnyOp) /\ Op(TRUE, 0) \in AnyOp  BY EmptySeq DEF Op, AnyOp
  <2>. QED BY <2>1 DEF NewHasher, Hasher
<1>12. value(p) = finish_op(hashers(p)[n])  BY DEF value
<1> HIDE DEF n
<1>4. PICK g : Recursion(g, n, Hasher, NewHasher, F)
  <2> HIDE DEF F
  <2>1. StepsIn(F, n, Hasher)  BY <1>1, <1>3 DEF StepsIn
  <2>. QED BY <1>2, <1>9, <2>1, RecursionTo
<1>5. \A k \in 0 .. n - 1 : g[k + 1] = update_op(g[k], p[k + 1])
  <2> HIDE DEF F
  <2>. QED BY <1>1, <1>2, <1>4 DEF Recursion
<1>6. Is(g)
  <2>1. \A k \in 0 .. n : k # 0 => k - 1 \in 0 .. n - 1 /\ (k - 1) + 1 = k  BY <1>2
  <2>2. \A k \in 0 .. n : g[k] = IF k = 0 THEN NewHasher ELSE update_op(g[k - 1], p[k])
    BY <1>4, <1>5, <2>1 DEF Recursion
  <2>3. g \in [0 .. n -> Hasher]  BY <1>4 DEF Recursion
  <2>. QED BY <2>2, <2>3
<1>7. Is(t)  BY <1>6
<1> HIDE DEF t
<1>10. t[0] = NewHasher /\ \A k \in 0 .. n - 1 : t[k + 1] = update_op(t[k], p[k + 1])
  BY <1>2, <1>7
<1>11. \A k \in 0 .. n : t[k] \in Hasher
  <2> DEFINE T == {k \in 0 .. n : t[k] \in Hasher}
  <2>1. 0 \in T  BY <1>2, <1>9, <1>10
  <2>2. ASSUME NEW k \in 0 .. n - 1, k \in T  PROVE k + 1 \in T
    <3>1. t[k] \in Hasher  BY <2>2
    <3>. QED BY <1>2, <1>3, <1>10, <3>1
  <2>3. \A k \in 0 .. n : k \in T
    <3> HIDE DEF T
    <3>. QED BY <1>2, <2>1, <2>2, InductionTo
  <2>. QED BY <2>3
<1>. QED BY <1>8, <1>10, <1>11, <1>12 DEF n

LEMMA SameRunTrans ==
  ASSUME NEW r, NEW q, NEW w, SameRun(r, q), SameRun(q, w)
  PROVE  SameRun(r, w) /\ SameRun(q, r)
BY DEF SameRun, Core, CoreIn

(* The coalesced form of a pattern without empty operations runs as the    *)
(* pattern does.                                                           *)
LEMMA Coalesced ==
  ASSUME NEW p \in Seq(AnyOp), Nonempty(p)
  PROVE  SameRun(RunOf(value(p)), RunOf(p)) /\ value(p) \in Seq(AnyOp)
<1> DEFINE n == Len(p)
           h == hashers(p)
<1>1. PICK g : Runs(p, g)  BY RunTable
<1>2. /\ h[0] = NewHasher /\ value(p) = finish_op(h[n])
      /\ \A k \in 0 .. n : h[k] \in Hasher
      /\ \A k \in 0 .. n - 1 : h[k + 1] = update_op(h[k], p[k + 1])
  BY HasherTable
<1>3. /\ g[0] = Begun /\ RunOf(p) = g[n] /\ \A k \in 0 .. n : g[k] \in RunState
      /\ \A k \in 0 .. n - 1 : g[k + 1] = RunOp(g[k], p[k + 1])
  BY <1>1 DEF Runs
<1>4. n \in Nat /\ \A k \in 0 .. n - 1 : p[k + 1] \in AnyOp /\ p[k + 1].count > 0
  <2>1. n \in Nat /\ \A k \in 0 .. n - 1 : p[k + 1] \in AnyOp  BY ElementsOf
  <2>2. \A k \in 0 .. n - 1 : k + 1 \in 1 .. n  BY <2>1
  <2>. QED BY <2>1, <2>2 DEF Nonempty
<1> HIDE DEF n, h
<1> DEFINE T == {k \in 0 .. n : SameRun(RunOf(finish_op(h[k])), g[k])}
<1>5. 0 \in T
  <2>1. finish_op(h[0]) = <<>>  BY <1>2 DEF finish_op, NewHasher, Op
  <2>2. RunOf(finish_op(h[0])) = g[0]  BY <1>3, <2>1, RunOfEmpty
  <2>. QED BY <1>4, <2>2 DEF SameRun, Core, CoreIn
<1>6. ASSUME NEW k \in 0 .. n - 1, k \in T  PROVE k + 1 \in T
  <2> DEFINE op == p[k + 1]
             c == h[k].current
             f == finish_op(h[k])
             u == h[k + 1]
  <2>1. k \in 0 .. n /\ k + 1 \in 0 .. n  BY <1>4
  <2>2. /\ h[k] \in Hasher /\ g[k] \in RunState /\ op \in AnyOp /\ op.count > 0
        /\ u = update_op(h[k], op) /\ g[k + 1] = RunOp(g[k], op)
        /\ u \in Hasher
    BY <1>2, <1>3, <1>4, <2>1
  <2>3. c \in AnyOp /\ h[k].hashed \in Seq(AnyOp) /\ f \in Seq(AnyOp)
    BY <2>2, UpdateOp DEF Hasher
  <2>4. SameRun(RunOf(f), g[k]) /\ RunOf(f) \in RunState  BY <1>6, <2>3, RunOfType
  <2>5. SameRun(RunOp(RunOf(f), op), RunOp(g[k], op))  BY <2>2, <2>4, RunOpSame
  <2> HIDE DEF op, c, f, u
  <2>6. CASE ~ matches(c, op)
    <3>1. u.hashed = f /\ u.current = op  BY <2>2, <2>6, UpdateOp DEF c, f
    <3>2. finish_op(u) = Append(f, op)
      <4>1. op.count # 0  BY <2>2 DEF AnyOp
      <4>. QED BY <3>1, <4>1 DEF finish_op
    <3>3. RunOf(finish_op(u)) = RunOp(RunOf(f), op)  BY <2>2, <2>3, <3>2, RunOfAppend
    <3>. QED BY <2>1, <2>2, <2>5, <3>3 DEF u
  <2>7. CASE matches(c, op)
    <3> DEFINE d == combine(c, op)
               a == h[k].hashed
               r == RunOf(a)
    <3>1. u.hashed = a /\ u.current = d  BY <2>2, <2>7, UpdateOp DEF c
    <3>2. d \in AnyOp /\ d.count = c.count + op.count /\ d.absorb = c.absorb
      BY <2>2, <2>3 DEF combine, Op, AnyOp
    <3>3. finish_op(u) = Append(a, d)
      <4>1. d.count # 0  BY <2>2, <2>3, <3>2 DEF AnyOp
      <4>. QED BY <3>1, <4>1 DEF finish_op
    <3>4. r \in RunState /\ RunOf(finish_op(u)) = RunOp(r, d)
      BY <2>3, <3>2, <3>3, RunOfAppend, RunOfType
    <3>5. SameRun(RunOp(r, d), RunOp(RunOf(f), op))
      <4>1. CASE c.count = 0
        <5>1. f = a  BY <4>1 DEF f, c, finish_op
        <5>2. d = op
          <6>1. d = [absorb |-> c.absorb, count |-> c.count + op.count]
            BY DEF combine, Op
          <6>2. c.absorb = op.absorb /\ c.count + op.count = op.count
            BY <2>2, <2>7, <4>1 DEF matches, AnyOp
          <6>3. op = [absorb |-> op.absorb, count |-> op.count]
            BY <2>2 DEF AnyOp
          <6>. QED BY <6>1, <6>2, <6>3
        <5>. QED BY <5>1, <5>2 DEF SameRun, Core, CoreIn
      <4>2. CASE c.count # 0
        <5>1. f = Append(a, c)  BY <4>2 DEF f, c, finish_op
        <5>2. RunOf(f) = RunOp(r, c)  BY <2>3, <5>1, RunOfAppend
        <5>. QED BY <2>2, <2>3, <2>7, <3>4, <5>2, RunOpJoin
      <4>. QED BY <4>1, <4>2
    <3> HIDE DEF d, a, r
    <3>6. SameRun(RunOf(finish_op(u)), g[k + 1])
      BY <2>2, <2>5, <3>4, <3>5, SameRunTrans
    <3>. QED BY <2>1, <3>6 DEF u
  <2>. QED BY <2>6, <2>7
<1>7. SameRun(RunOf(finish_op(h[n])), g[n])
  <2>1. \A k \in 0 .. n : k \in T
    <3> HIDE DEF T
    <3>. QED BY <1>4, <1>5, <1>6, InductionTo
  <2>2. n \in 0 .. n  BY <1>4
  <2>. QED BY <2>1, <2>2
<1>8. value(p) \in Seq(AnyOp)
  <2>1. h[n] \in Hasher  BY <1>2, <1>4
  <2>2. h[n].hashed \in Seq(AnyOp) /\ h[n].current \in AnyOp  BY <2>1 DEF Hasher
  <2>. QED BY <1>2, <2>2, AppendProperties DEF finish_op
<1>. QED BY <1>2, <1>3, <1>7, <1>8
----------------------------------------------------------------------------
(* What was squeezed is what the run of the operations made squeezes.      *)

Shows(o, r) ==
    /\ Len(o) = Len(r)
    /\ \A i \in 1 .. Len(r) : o[i].value = r[i].value /\ o[i].from = r[i].from

Ran ==
    client = "pattern" =>
        /\ Shows(outs["native"], RunOf(done).out)
        /\ status = "running" =>
              Core(Native, RunOf(done).sponge) /\ RunOf(done).next = absorbed

LEMMA InitRan == Init => Ran
<1> SUFFICES ASSUME Init, client = "pattern"  PROVE Ran
  BY DEF Ran
<1>1. outs["native"] = <<>> /\ done = <<>> /\ status # "running"
  BY DEF Init, Modes
<1>2. RunOf(done).out = <<>>  BY <1>1, RunOfEmpty DEF Begun
<1>3. Shows(outs["native"], RunOf(done).out)  BY <1>1, <1>2, EmptySeq DEF Shows
<1>. QED BY <1>1, <1>3 DEF Ran

LEMMA StartRan ==
  ASSUME Inv, Ran, NEW p \in IOPattern, Start(p)
  PROVE  Ran'
<1>1. /\ client = "pattern" /\ status = "new" /\ status' = "running"
      /\ sponges' = [m \in Modes |-> start(sponges[m], p)]
      /\ client' = client /\ done' = done /\ absorbed' = absorbed /\ outs' = outs
  BY DEF Start
<1>2. sponges = [m \in Modes |-> new_with_constants(m)] /\ done = <<>> /\ absorbed = 0
  BY <1>1 DEF Inv, Unused
<1>3. RunOf(done) = Begun  BY <1>2, RunOfEmpty
<1>4. "native" \in Modes /\ p \in Seq(AnyOp) /\ <<>> \in Seq(AnyOp)
  BY PatternType, EmptySeq DEF Modes
<1>5. Native' = start(new_with_constants("native"), p)  BY <1>1, <1>2, <1>4 DEF Native
<1>6. Started("native", p, Native')  BY <1>4, <1>5, StartExact
<1>7. Started("native", <<>>, Begun.sponge)  BY <1>4, StartExact DEF Begun
<1>8. Core(Native', Begun.sponge)
  <2> DEFINE x == Begun.sponge
  <2>1. Started("native", <<>>, x)  BY <1>7
  <2> HIDE DEF x
  <2>2. Core(Native', x)  BY <1>6, <2>1 DEF Started, Core, CoreIn
  <2>. QED BY <2>2 DEF x
<1>9. Begun.next = 0  BY DEF Begun
<1>10. Shows(outs'["native"], RunOf(done').out)  BY <1>1 DEF Ran
<1>. QED BY <1>1, <1>2, <1>3, <1>8, <1>9, <1>10 DEF Ran

\* What both Absorb and Squeeze start from.
LEMMA RanRunning ==
  ASSUME Inv, Ran, status = "running", NEW op, follows_pattern(Native, op)
  PROVE  /\ client = "pattern" /\ done \in Seq(AnyOp) /\ op \in AnyOp /\ absorbed \in Nat
         /\ RunOf(done) \in RunState /\ Native \in SyncedSponge
         /\ Core(Native, RunOf(done).sponge) /\ RunOf(done).next = absorbed
         /\ RunOf(Append(done, op)) = RunOp(RunOf(done), op)
<1>1. client = "pattern" /\ done \in Seq(AnyOp) /\ absorbed \in Nat
  BY DEF Inv, TypeOK, Running
<1>2. op \in AnyOp  BY NextOp
<1>3. Native \in SyncedSponge
  <2>1. "native" \in Modes  BY DEF Modes
  <2>. QED BY <2>1 DEF Inv, Running, InUse, Native
<1>. QED BY <1>1, <1>2, <1>3, RunOfType, RunOfAppend DEF Ran

LEMMA AbsorbRan ==
  ASSUME Inv, Ran, NEW n \in Nat, Absorb(n)
  PROVE  Ran'
<1> DEFINE op == Op(TRUE, n)
           r == RunOf(done)
           q == RunOp(r, op)
<1>1. /\ status = "running" /\ follows_pattern(Native, op) /\ status' = status
      /\ sponges' = [m \in Modes |-> absorb(sponges[m], Elements(n))]
      /\ done' = Append(done, op) /\ absorbed' = absorbed + n
      /\ client' = client /\ outs' = outs
  BY DEF Absorb
<1>2. op.absorb /\ op.count = n  BY DEF Op
<1> HIDE DEF op
<1>3. /\ client = "pattern" /\ done \in Seq(AnyOp) /\ op \in AnyOp /\ absorbed \in Nat
      /\ r \in RunState /\ Native \in SyncedSponge
      /\ Core(Native, r.sponge) /\ r.next = absorbed
      /\ RunOf(done') = q
  BY <1>1, RanRunning
<1> HIDE DEF r
<1>4. /\ q.sponge = absorb(r.sponge, From(absorbed, n))
      /\ q.next = absorbed + n /\ q.out = r.out
  BY <1>2, <1>3, RunOpExact
<1> HIDE DEF q
<1>5. From(absorbed, n) \in Seq(SUBSET Nat) /\ Elements(n) = From(absorbed, n)
  BY <1>3, FromType DEF Elements, From
<1>6. Native' = absorb(Native, From(absorbed, n))
  BY <1>1, <1>5 DEF Native, Modes
<1>7. Core(Native', q.sponge)
  <2>1. r.sponge \in SyncedSponge /\ CoreIn(Native, r.sponge)
    BY <1>3 DEF RunState, Core
  <2>. QED BY <1>3, <1>4, <1>5, <1>6, <2>1, AbsorbCore
<1>8. Shows(outs["native"], r.out)  BY <1>3 DEF Ran, r
<1>. QED BY <1>1, <1>3, <1>4, <1>7, <1>8 DEF Ran

LEMMA SqueezeRan ==
  ASSUME Inv, Ran, NEW n \in Nat, Squeeze(n)
  PROVE  Ran'
<1> DEFINE op == Op(FALSE, n)
           r == RunOf(done)
           q == RunOp(r, op)
           mixed == \E k \in 1 .. Len(done) : done[k].absorb
           o == outs["native"]
           x == [i \in 1 .. n |-> Squeezed(sponges'["native"].out[i], mixed)]
           y == squeeze(Native, n).out
<1>1. /\ status = "running" /\ follows_pattern(Native, op) /\ status' = status
      /\ sponges' = [m \in Modes |-> squeeze(sponges[m], n)]
      /\ done' = Append(done, op) /\ absorbed' = absorbed
      /\ client' = client /\ outs'["native"] = o \o x
  BY DEF Squeeze, Modes
<1>2. ~ op.absorb /\ op.count = n  BY DEF Op
<1>3. Native' = squeeze(Native, n) /\ sponges'["native"].out = y
  BY <1>1 DEF Native, Modes
<1> HIDE DEF op
<1>4. /\ client = "pattern" /\ done \in Seq(AnyOp) /\ op \in AnyOp /\ absorbed \in Nat
      /\ r \in RunState /\ Native \in SyncedSponge
      /\ Core(Native, r.sponge) /\ r.next = absorbed
      /\ RunOf(done') = q
  BY <1>1, RanRunning
<1>5. Shows(o, r.out)  BY <1>4 DEF Ran
<1> HIDE DEF r
<1>6. /\ q.sponge = squeeze(r.sponge, n) /\ q.next = absorbed
      /\ q.out = r.out \o squeeze(r.sponge, n).out
  BY <1>2, <1>4, RunOpExact
<1> HIDE DEF q
<1>7. r.sponge \in SyncedSponge /\ r.out \in Seq(Output)  BY <1>4 DEF RunState
<1>8. Core(Native', q.sponge) /\ squeeze(r.sponge, n).out = y
  BY <1>3, <1>4, <1>6, <1>7, SqueezeCore
<1>9. y \in Seq(Output) /\ Len(y) = n
  <2>1. SqueezedAll(Native, n, squeeze(Native, n))  BY <1>4, SqueezeExact
  <2>. QED BY <2>1 DEF SqueezedAll, SpongeState
<1> HIDE DEF y
<1>10. \A i \in 1 .. n : x[i].value = y[i].value /\ x[i].from = y[i].from
  BY <1>3 DEF Squeezed
<1>11. o \in Seq(History) /\ x \in Seq(History) /\ Len(x) = n
  <2>1. o \in Seq(History)  BY DEF Inv, TypeOK, Modes
  <2>2. \A i \in 1 .. n : y[i] \in Output  BY <1>9, ElementOfSeq
  <2>3. \A i \in 1 .. n : x[i] \in History
    BY <1>3, <1>4, <2>2 DEF Squeezed, History, Output
  <2>4. x \in [1 .. n -> History]  BY <2>3
  <2> HIDE DEF x, o
  <2>. QED BY <2>1, <2>4, IsASeq
<1> HIDE DEF x, o, mixed
<1>12. Shows(o \o x, r.out \o y)
  <2> DEFINE l == Len(o)
             a == o \o x
             b == r.out \o y
  <2>1. l \in Nat /\ Len(r.out) = l  BY <1>5, <1>11, LenProperties DEF Shows
  <2>2. /\ Len(a) = l + n
        /\ \A i \in 1 .. l + n : a[i] = IF i <= l THEN o[i] ELSE x[i - l]
    BY <1>11, ConcatProperties
  <2>3. /\ Len(b) = l + n
        /\ \A i \in 1 .. l + n : b[i] = IF i <= l THEN r.out[i] ELSE y[i - l]
    <3> DEFINE z == r.out
    <3>1. z \in Seq(Output) /\ Len(z) = l /\ b = z \o y  BY <1>7, <2>1
    <3>2. /\ Len(b) = l + n
          /\ \A i \in 1 .. l + n : b[i] = IF i <= l THEN z[i] ELSE y[i - l]
      <4> HIDE DEF z, b, l
      <4>. QED BY <1>9, <3>1, ConcatProperties
    <3>. QED BY <3>2
  <2>4. \A i \in 1 .. l : o[i].value = r.out[i].value /\ o[i].from = r.out[i].from
    BY <1>5, <2>1 DEF Shows
  <2> HIDE DEF l, a, b
  <2>5. ASSUME NEW i \in 1 .. l + n
        PROVE  a[i].value = b[i].value /\ a[i].from = b[i].from
    <3>1. CASE i <= l
      <4>1. i \in 1 .. l /\ a[i] = o[i] /\ b[i] = r.out[i]  BY <2>1, <2>2, <2>3, <3>1
      <4>. QED BY <2>4, <4>1
    <3>2. CASE ~ (i <= l)
      <4>1. i - l \in 1 .. n /\ a[i] = x[i - l] /\ b[i] = y[i - l]
        BY <2>1, <2>2, <2>3, <3>2
      <4>. QED BY <1>10, <4>1
    <3>. QED BY <3>1, <3>2
  <2>6. Shows(a, b)  BY <2>2, <2>3, <2>5 DEF Shows
  <2>. QED BY <2>6 DEF a, b
<1>. QED BY <1>1, <1>4, <1>6, <1>8, <1>12 DEF Ran

LEMMA NextRan == Inv /\ Ran /\ [Next]_vars => Ran'
<1> SUFFICES ASSUME Inv, Ran, [Next]_vars  PROVE Ran'
  OBVIOUS
<1>1. ASSUME NEW p \in IOPattern, Start(p)  PROVE Ran'
  BY <1>1, StartRan
<1>2. ASSUME NEW n \in 0 .. MaxCount, Absorb(n)  PROVE Ran'
  <2>1. n \in Nat  OBVIOUS
  <2>. QED BY <1>2, <2>1, AbsorbRan
<1>3. ASSUME NEW n \in 0 .. MaxCount, Squeeze(n)  PROVE Ran'
  <2>1. n \in Nat  OBVIOUS
  <2>. QED BY <1>3, <2>1, SqueezeRan
<1>4. ASSUME NEW op \in Ops, Mismatch(op)  PROVE Ran'
  <2>1. status' # "running" /\ UNCHANGED <<client, done, outs>>  BY <1>4 DEF Mismatch
  <2>. QED BY <2>1 DEF Ran
<1>5. CASE Finish
  <2>1. status' # "running" /\ UNCHANGED <<client, done, outs>>  BY <1>5 DEF Finish
  <2>. QED BY <2>1 DEF Ran
<1>6. CASE RoAbsorb
  <2>1. client' # "pattern"  BY <1>6 DEF RoAbsorb
  <2>. QED BY <2>1 DEF Ran
<1>7. CASE RoSqueeze
  <2>1. client' # "pattern"  BY <1>7 DEF RoSqueeze
  <2>. QED BY <2>1 DEF Ran
<1>8. CASE UNCHANGED vars
  BY <1>8 DEF vars, Ran, Native
<1>. QED BY <1>1, <1>2, <1>3, <1>4, <1>5, <1>6, <1>7, <1>8 DEF Next

(* Patterns without empty operations that share a tag squeeze the same:    *)
(* what a finished run squeezed is what its coalesced pattern squeezes.    *)
THEOREM SpecTagDecides == Spec => []TagDecides
<1>1. Inv /\ Ran => TagDecides
  <2> SUFFICES ASSUME Inv, Ran, status = "ok", Nonempty(Native.pattern)
               PROVE  Shows(outs["native"], RunOf(value(Native.pattern)).out)
    BY DEF TagDecides, Shows
  <2>1. client = "pattern" /\ done = Native.pattern /\ done \in Seq(AnyOp)
    BY DEF Inv, TypeOK, Kept, FinishExact
  <2>2. SameRun(RunOf(value(done)), RunOf(done))  BY <2>1, Coalesced
  <2>3. RunOf(value(done)).out = RunOf(done).out  BY <2>2 DEF SameRun
  <2>. QED BY <2>1, <2>3 DEF Ran
<1>2. Init => Ran  BY InitRan
<1>3. Inv /\ Ran /\ [Next]_vars => Ran'  BY NextRan
<1>. QED BY <1>1, <1>2, <1>3, SpecInv, PTL DEF Spec
----------------------------------------------------------------------------
(***************************************************************************)
(* What a challenge of the Keccak transcript binds, for all labels, all    *)
(* data, any number of calls and any size of the round counter.            *)
(*                                                                         *)
(* The string a challenge hashes can be read from its end: the only hash   *)
(* in it is the state before, what follows is the label, what precedes is  *)
(* the round, the tag and what was absorbed.  So equal challenges have     *)
(* equal states before them, and so on down to the persona tag.            *)
(***************************************************************************)

Kinds == {"absorb", "dom_sep", "squeeze"}
AnyCall == [kind : Kinds, label : Labels, data : Data \cup {<<>>}]
\* What strings of calls are made of.
Unit == Bytes \cup {<<"squeeze", <<>>>>}

\* What was there before the k-th squeeze: the state, and how many calls.
Before(os, k) == IF k = 1 THEN new.state ELSE os[k - 1].challenge
Begin(os, k)  == IF k = 1 THEN 0 ELSE os[k - 1].call

\* The k-th challenge is the hash of what was absorbed since the one before.
Hashes(cs, os, k, T) ==
    LET c == cs[os[k].call]
    IN  /\ c.kind = "squeeze" /\ c.data = <<>>
        /\ os[k].challenge =
              squeezed([round |-> k - 1, transcript |-> T, state |-> Before(os, k)], c.label)
        /\ AllBytes(cs)[os[k].call] = (AllBytes(cs)[Begin(os, k)] \o T) \o bytes(c)

\* All challenges are such hashes, until the counter is at its end.
Chain(cs, os) ==
    \A k \in 1 .. Len(os) :
        /\ os[k].call \in 1 .. Len(cs)
        /\ os[k].challenge = Error <=> k > MaxRound
        /\ k <= MaxRound => \E T \in Seq(Bytes) : Hashes(cs, os, k, T)

\* The transcript holds what was absorbed since the last challenge.
Current(cs, os, t) ==
    /\ t = [round |-> t.round, transcript |-> t.transcript, state |-> t.state]
    /\ t.transcript \in Seq(Bytes)
    /\ t.round = IF Len(os) <= MaxRound THEN Len(os) ELSE MaxRound
    /\ Len(os) <= MaxRound =>
          /\ t.state = Before(os, Len(os) + 1)
          /\ AllBytes(cs)[Len(cs)] = AllBytes(cs)[Begin(os, Len(os) + 1)] \o t.transcript

ChainInv ==
    /\ calls \in [Sides -> Seq(AnyCall)] /\ DOMAIN outputs = Sides /\ DOMAIN ts = Sides
    /\ \A s \in Sides :
          /\ \E S : outputs[s] \in Seq(S)
          /\ Chain(calls[s], outputs[s])
          /\ Current(calls[s], outputs[s], ts[s])
----------------------------------------------------------------------------
(* Strings                                                                 *)

LEMMA Tags ==
  /\ PERSONA_TAG \in Seq(Bytes) /\ DOM_SEP_TAG \in Seq(Bytes) /\ Len(DOM_SEP_TAG) = 4
  /\ \A l \in Labels : l \in Seq(Bytes)
  /\ \A d \in Data \cup {<<>>} : d \in Seq(Bytes)
<1>1. \A b \in {"N", "o", "T", "R", "D", "S"} : byte(b) \in Bytes
  BY BytesAssumption DEF Bytes
<1>2. PERSONA_TAG \in Seq(Bytes) /\ DOM_SEP_TAG \in Seq(Bytes) /\ Len(DOM_SEP_TAG) = 4
  BY <1>1 DEF PERSONA_TAG, DOM_SEP_TAG
<1>3. <<>> \in Seq(Bytes)  OBVIOUS
<1>. QED BY <1>2, <1>3, BytesAssumption

LEMMA CallBytes ==
  ASSUME NEW c \in AnyCall
  PROVE  /\ bytes(c) \in Seq(Unit)
         /\ c.kind = "absorb" => bytes(c) = c.label \o c.data
         /\ c.kind = "dom_sep" /\ c.data = <<>> => bytes(c) = DOM_SEP_TAG \o c.label
         /\ Len(bytes(c)) = Len(mark(c.kind)) + (Len(c.label) + Len(c.data))
         /\ mark(c.kind) \in Seq(Unit) /\ c.label \in Seq(Bytes) /\ c.data \in Seq(Bytes)
<1>1. c.kind \in Kinds /\ c.label \in Seq(Bytes) /\ c.data \in Seq(Bytes)
  BY Tags DEF AnyCall
<1>2. Bytes \subseteq Unit  BY DEF Unit
<1>3. mark(c.kind) \in Seq(Unit)
  <2>1. CASE c.kind = "absorb"  BY <2>1 DEF mark
  <2>2. CASE c.kind = "dom_sep"
    <3>1. mark(c.kind) = DOM_SEP_TAG  BY <2>2 DEF mark
    <3>. QED BY <3>1, <1>2, Tags, SeqMonotonic
  <2>3. CASE c.kind = "squeeze"
    <3>1. mark(c.kind) = <<<<"squeeze", <<>>>>>>  BY <2>3 DEF mark
    <3>. QED BY <3>1 DEF Unit
  <2>. QED BY <1>1, <2>1, <2>2, <2>3 DEF Kinds
<1> DEFINE m == mark(c.kind)
           l == c.label
           d == c.data
<1>4. /\ l \o d \in Seq(Bytes) /\ Len(l \o d) = Len(l) + Len(d)
  BY <1>1, ConcatProperties
<1>5. l \o d \in Seq(Unit)  BY <1>2, <1>4, SeqMonotonic
<1>6. bytes(c) = m \o (l \o d)  BY DEF bytes
<1>7. bytes(c) \in Seq(Unit) /\ Len(bytes(c)) = Len(m) + (Len(l) + Len(d))
  <2> DEFINE x == l \o d
  <2> HIDE DEF m, x
  <2>1. m \o x \in Seq(Unit) /\ Len(m \o x) = Len(m) + Len(x)
    BY <1>3, <1>5, ConcatProperties DEF m, x
  <2>. QED BY <2>1, <1>4, <1>6 DEF x
<1>8. c.kind = "absorb" => bytes(c) = l \o d
  <2> SUFFICES ASSUME c.kind = "absorb"  PROVE bytes(c) = l \o d
    OBVIOUS
  <2>1. m = <<>>  BY DEF mark
  <2>2. <<>> \o (l \o d) = l \o d  BY <1>4, ConcatEmptySeq
  <2>. QED BY <2>1, <2>2, <1>6
<1>9. c.kind = "dom_sep" /\ d = <<>> => bytes(c) = DOM_SEP_TAG \o l
  <2> SUFFICES ASSUME c.kind = "dom_sep", d = <<>>  PROVE bytes(c) = DOM_SEP_TAG \o l
    OBVIOUS
  <2>1. m = DOM_SEP_TAG  BY DEF mark
  <2>2. l \o <<>> = l  BY <1>1, ConcatEmptySeq
  <2>. QED BY <2>1, <2>2, <1>6
<1>. QED BY <1>1, <1>3, <1>7, <1>8, <1>9

(* The table of the bytes of a sequence of calls.                          *)
LEMMA AllBytesTable ==
  ASSUME NEW cs \in Seq(AnyCall)
  PROVE  /\ AllBytes(cs) \in [0 .. Len(cs) -> Seq(Unit)]
         /\ AllBytes(cs)[0] = <<>>
         /\ \A n \in 1 .. Len(cs) : AllBytes(cs)[n] = AllBytes(cs)[n - 1] \o bytes(cs[n])
<1> DEFINE N == Len(cs)
           Is(g) == g = [n \in 0 .. N |-> IF n = 0 THEN <<>> ELSE g[n - 1] \o bytes(cs[n])]
           S == Seq(Unit)
           F == [k \in 0 .. N - 1 |-> [x \in S |-> x \o bytes(cs[k + 1])]]
<1>1. N \in Nat  OBVIOUS
<1>2. AllBytes(cs) = CHOOSE g : Is(g)  BY DEF AllBytes
<1>3. \A k \in 1 .. N : bytes(cs[k]) \in Seq(Unit)
  <2> TAKE k \in 1 .. N
  <2>1. cs[k] \in AnyCall  OBVIOUS
  <2>. QED BY <2>1, CallBytes
<1>4. StepsIn(F, N, S)
  <2> SUFFICES ASSUME NEW k \in 0 .. N - 1, NEW x \in S  PROVE F[k][x] \in S
    BY DEF StepsIn
  <2>1. k + 1 \in 1 .. N  BY <1>1
  <2>2. x \o bytes(cs[k + 1]) \in S  BY <2>1, <1>3, ConcatProperties
  <2>. QED BY <2>2
<1>5. PICK h : Recursion(h, N, S, <<>>, F)
  <2>1. <<>> \in S  OBVIOUS
  <2> HIDE DEF F, S, N
  <2>. QED BY <1>1, <1>4, <2>1, RecursionTo
<1>6. /\ h \in [0 .. N -> S] /\ h[0] = <<>>
      /\ \A k \in 0 .. N - 1 : h[k + 1] = F[k][h[k]]
  BY <1>5 DEF Recursion
<1>7. \A n \in 1 .. N : h[n] = h[n - 1] \o bytes(cs[n])
  <2> TAKE n \in 1 .. N
  <2>1. n - 1 \in 0 .. N - 1 /\ n - 1 \in 0 .. N /\ (n - 1) + 1 = n  BY <1>1
  <2>2. h[n] = F[n - 1][h[n - 1]]  BY <2>1, <1>6
  <2>3. h[n - 1] \in S  BY <2>1, <1>6
  <2>. QED BY <2>1, <2>2, <2>3
<1>8. Is(h)
  <2> DEFINE g == [n \in 0 .. N |-> IF n = 0 THEN <<>> ELSE h[n - 1] \o bytes(cs[n])]
  <2>1. ASSUME NEW n \in 0 .. N  PROVE h[n] = g[n]
    <3>1. CASE n = 0  BY <3>1, <1>6
    <3>2. CASE n # 0
      <4>1. n \in 1 .. N  BY <1>1, <3>2
      <4>2. g[n] = h[n - 1] \o bytes(cs[n])  BY <3>2
      <4>. QED BY <4>1, <4>2, <1>7
    <3>. QED BY <3>1, <3>2
  <2>2. DOMAIN h = 0 .. N /\ DOMAIN g = 0 .. N  BY <1>6
  <2>3. h = [n \in 0 .. N |-> h[n]]  BY <1>6
  <2>. QED BY <2>1, <2>3
<1> DEFINE G == AllBytes(cs)
<1>9. Is(G)  BY <1>2, <1>8
<1>10. DOMAIN G = 0 .. N /\ G[0] = <<>>  BY <1>1, <1>9
<1>11. \A n \in 1 .. N : G[n] = G[n - 1] \o bytes(cs[n])
  <2> TAKE n \in 1 .. N
  <2>1. n \in 0 .. N /\ n # 0  BY <1>1
  <2>. QED BY <2>1, <1>9
<1>12. \A n \in 0 .. N : G[n] \in S
  <2> DEFINE T == {n \in 0 .. N : G[n] \in S}
  <2>1. 0 \in T  BY <1>1, <1>10
  <2>2. ASSUME NEW k \in 0 .. N - 1, k \in T  PROVE k + 1 \in T
    <3>1. k + 1 \in 1 .. N /\ k + 1 \in 0 .. N /\ (k + 1) - 1 = k  BY <1>1
    <3>2. G[k + 1] = G[k] \o bytes(cs[k + 1])  BY <3>1, <1>11
    <3>3. G[k] \in S  BY <2>2
    <3>4. G[k] \o bytes(cs[k + 1]) \in S  BY <3>1, <3>3, <1>3, ConcatProperties
    <3>. QED BY <3>1, <3>2, <3>4
  <2>3. \A n \in 0 .. N : n \in T
    <3> HIDE DEF T, N
    <3>. QED BY <1>1, <2>1, <2>2, InductionTo
  <2>. QED BY <2>3
<1>13. G = [n \in 0 .. N |-> G[n]]  BY <1>9
<1>14. G \in [0 .. N -> S]
  <2> HIDE DEF G, S, N
  <2>. QED BY <1>12, <1>13
<1>. QED BY <1>10, <1>11, <1>14

(* One more call adds its bytes.                                           *)
LEMMA AllBytesAppend ==
  ASSUME NEW cs \in Seq(AnyCall), NEW c \in AnyCall
  PROVE  /\ \A n \in 0 .. Len(cs) : AllBytes(Append(cs, c))[n] = AllBytes(cs)[n]
         /\ AllBytes(Append(cs, c))[Len(cs) + 1] = AllBytes(cs)[Len(cs)] \o bytes(c)
<1> DEFINE ds == Append(cs, c)
           N == Len(cs)
           G == AllBytes(cs)
           H == AllBytes(ds)
           T == {n \in 0 .. N : H[n] = G[n]}
<1>1. /\ ds \in Seq(AnyCall) /\ Len(ds) = N + 1 /\ ds[N + 1] = c /\ N \in Nat
      /\ \A n \in 1 .. N : ds[n] = cs[n]
  BY AppendProperties
<1>2. /\ G[0] = <<>> /\ \A n \in 1 .. N : G[n] = G[n - 1] \o bytes(cs[n])
  BY AllBytesTable
<1>3. /\ H[0] = <<>> /\ \A n \in 1 .. N + 1 : H[n] = H[n - 1] \o bytes(ds[n])
  <2> HIDE DEF ds
  <2>. QED BY <1>1, AllBytesTable
<1> HIDE DEF ds, G, H
<1>4. 0 \in T  BY <1>1, <1>2, <1>3
<1>5. ASSUME NEW k \in 0 .. N - 1, k \in T  PROVE k + 1 \in T
  <2>1. k + 1 \in 1 .. N /\ k + 1 \in 1 .. N + 1 /\ (k + 1) - 1 = k  BY <1>1
  <2>2. H[k + 1] = H[k] \o bytes(ds[k + 1])  BY <2>1, <1>3
  <2>3. G[k + 1] = G[k] \o bytes(cs[k + 1])  BY <2>1, <1>2
  <2>4. H[k] = G[k] /\ ds[k + 1] = cs[k + 1]  BY <2>1, <1>1, <1>5
  <2>5. k + 1 \in 0 .. N /\ H[k + 1] = G[k + 1]  BY <2>1, <2>2, <2>3, <2>4
  <2>. QED BY <2>5
<1>6. \A n \in 0 .. N : n \in T
  <2> HIDE DEF T, N
  <2>. QED BY <1>1, <1>4, <1>5, InductionTo
<1>7. H[N + 1] = G[N] \o bytes(c)
  <2>1. N + 1 \in 1 .. N + 1 /\ (N + 1) - 1 = N /\ N \in 0 .. N  BY <1>1
  <2>2. H[N + 1] = H[N] \o bytes(ds[N + 1])  BY <2>1, <1>3
  <2>3. H[N] = G[N]  BY <2>1, <1>6
  <2>. QED BY <2>2, <2>3, <1>1
<1>. QED BY <1>6, <1>7 DEF ds, G, H

\* x is a and then b; a and then b is c and then d.
Joins(x, a, b) == x = a \o b
SameJoin(a, b, c, d) == a \o b = c \o d

LEMMA JoinedExact ==
  ASSUME NEW S, NEW a \in Seq(S), NEW b \in Seq(S), NEW x, Joins(x, a, b)
  PROVE  /\ x \in Seq(S) /\ Len(x) = Len(a) + Len(b)
         /\ \A i \in 1 .. Len(a) + Len(b) : x[i] = IF i <= Len(a) THEN a[i] ELSE b[i - Len(a)]
<1> DEFINE y == a \o b
<1>1. /\ y \in Seq(S) /\ Len(y) = Len(a) + Len(b)
      /\ \A i \in 1 .. Len(a) + Len(b) : y[i] = IF i <= Len(a) THEN a[i] ELSE b[i - Len(a)]
  BY ConcatProperties
<1>2. x = y  BY DEF Joins
<1> HIDE DEF y
<1>. QED BY <1>1, <1>2

(* Strings that end with strings of the same length.                       *)
LEMMA SplitEnds ==
  ASSUME NEW S, NEW a \in Seq(S), NEW b \in Seq(S), NEW c \in Seq(S), NEW d \in Seq(S),
         Len(b) = Len(d), SameJoin(a, b, c, d)
  PROVE  a = c /\ b = d
<1> DEFINE x == a \o b
           y == c \o d
<1>0. /\ Len(x) = Len(a) + Len(b)
      /\ \A i \in 1 .. Len(a) + Len(b) : x[i] = IF i <= Len(a) THEN a[i] ELSE b[i - Len(a)]
  <2>1. Joins(x, a, b)  BY DEF Joins
  <2> HIDE DEF x
  <2>. QED BY <2>1, JoinedExact
<1>3. /\ Len(y) = Len(c) + Len(d)
      /\ \A i \in 1 .. Len(c) + Len(d) : y[i] = IF i <= Len(c) THEN c[i] ELSE d[i - Len(c)]
  <2>1. Joins(y, c, d)  BY DEF Joins
  <2> HIDE DEF y
  <2>. QED BY <2>1, JoinedExact
<1>4. x = y  BY DEF SameJoin
<1> HIDE DEF x, y
<1>1. Len(a) \in Nat /\ Len(b) \in Nat /\ Len(c) \in Nat  BY LenProperties
<1>2. Len(a) = Len(c)  BY <1>0, <1>1, <1>3, <1>4
<1>5. \A i \in 1 .. Len(a) : a[i] = c[i]
  <2> TAKE i \in 1 .. Len(a)
  <2>1. i \in 1 .. Len(a) + Len(b) /\ i <= Len(a)  BY <1>1
  <2>. QED BY <2>1, <1>0, <1>2, <1>3, <1>4
<1>6. \A i \in 1 .. Len(b) : b[i] = d[i]
  <2> TAKE i \in 1 .. Len(b)
  <2>1. /\ i + Len(a) \in 1 .. Len(a) + Len(b) /\ ~ (i + Len(a) <= Len(a))
        /\ (i + Len(a)) - Len(a) = i
    BY <1>1
  <2>2. x[i + Len(a)] = b[i]  BY <2>1, <1>0
  <2>3. y[i + Len(a)] = d[i]  BY <2>1, <1>2, <1>3
  <2>. QED BY <2>2, <2>3, <1>4
<1>. QED BY <1>2, <1>5, <1>6, SeqEqual

(* With the kinds, labels and lengths, the bytes of calls tell their data. *)
LEMMA SameBytes ==
  ASSUME NEW c \in AnyCall, NEW d \in AnyCall, bytes(c) = bytes(d),
         c.kind = d.kind, c.label = d.label, Len(c.data) = Len(d.data)
  PROVE  c = d
<1> DEFINE m == mark(c.kind)
           l == c.label
           x == c.data
           y == d.data
           lx == l \o x
           ly == l \o y
<1>1. /\ m \in Seq(Unit) /\ l \in Seq(Unit) /\ x \in Seq(Unit) /\ y \in Seq(Unit)
  <2>1. Bytes \subseteq Unit  BY DEF Unit
  <2>2. l \in Seq(Bytes) /\ x \in Seq(Bytes) /\ y \in Seq(Bytes)  BY CallBytes
  <2>. QED BY <2>1, <2>2, CallBytes, SeqMonotonic
<1>2. lx \in Seq(Unit) /\ Len(lx) = Len(l) + Len(x)  BY <1>1, ConcatProperties
<1>3. ly \in Seq(Unit) /\ Len(ly) = Len(l) + Len(y)  BY <1>1, ConcatProperties
<1>4. SameJoin(m, lx, m, ly)  BY DEF bytes, SameJoin
<1>5. Len(x) = Len(y)  OBVIOUS
<1>6. lx = ly
  <2> HIDE DEF m, lx, ly, l, x, y
  <2>. QED BY <1>1, <1>2, <1>3, <1>4, <1>5, SplitEnds
<1>7. x = y
  <2>1. SameJoin(l, x, l, y)  BY <1>6 DEF SameJoin
  <2> HIDE DEF l, x, y
  <2>. QED BY <2>1, <1>1, <1>5, SplitEnds
<1>8. /\ c = [kind |-> c.kind, label |-> c.label, data |-> c.data]
      /\ d = [kind |-> d.kind, label |-> d.label, data |-> d.data]
  BY DEF AnyCall
<1>. QED BY <1>7, <1>8

\* What a caller knows of the first n calls without their data.
SameShapes(cs, ds, n) ==
    \A i \in 1 .. n : /\ cs[i].kind = ds[i].kind /\ cs[i].label = ds[i].label
                      /\ Len(cs[i].data) = Len(ds[i].data)

LEMMA SameCalls ==
  ASSUME NEW cs \in Seq(AnyCall), NEW ds \in Seq(AnyCall), NEW n \in 0 .. Len(cs),
         n <= Len(ds), SameShapes(cs, ds, n), AllBytes(cs)[n] = AllBytes(ds)[n]
  PROVE  \A i \in 1 .. n : cs[i] = ds[i]
<1> DEFINE G == AllBytes(cs)
           H == AllBytes(ds)
           T == {m \in 0 .. n : G[n - m] = H[n - m]}
<1>1. n \in Nat /\ Len(cs) \in Nat /\ Len(ds) \in Nat  BY LenProperties
<1>2. /\ G \in [0 .. Len(cs) -> Seq(Unit)]
      /\ \A i \in 1 .. Len(cs) : G[i] = G[i - 1] \o bytes(cs[i])
  BY AllBytesTable
<1>3. /\ H \in [0 .. Len(ds) -> Seq(Unit)]
      /\ \A i \in 1 .. Len(ds) : H[i] = H[i - 1] \o bytes(ds[i])
  BY AllBytesTable
<1>4. G[n] = H[n]  OBVIOUS
<1> HIDE DEF G, H
<1>5. ASSUME NEW i \in 1 .. n, G[i] = H[i]
      PROVE  G[i - 1] = H[i - 1] /\ cs[i] = ds[i]
  <2>1. /\ i \in 1 .. Len(cs) /\ i \in 1 .. Len(ds)
        /\ i - 1 \in 0 .. Len(cs) /\ i - 1 \in 0 .. Len(ds)
    BY <1>1
  <2>2. cs[i] \in AnyCall /\ ds[i] \in AnyCall  BY <2>1, ElementOfSeq
  <2>3. bytes(cs[i]) \in Seq(Unit) /\ bytes(ds[i]) \in Seq(Unit)  BY <2>2, CallBytes
  <2>4. /\ cs[i].kind = ds[i].kind /\ cs[i].label = ds[i].label
        /\ Len(cs[i].data) = Len(ds[i].data)
    BY DEF SameShapes
  <2>5. Len(bytes(cs[i])) = Len(bytes(ds[i]))
    <3>1. Len(bytes(cs[i])) = Len(mark(cs[i].kind)) + (Len(cs[i].label) + Len(cs[i].data))
      BY <2>2, CallBytes
    <3>2. Len(bytes(ds[i])) = Len(mark(ds[i].kind)) + (Len(ds[i].label) + Len(ds[i].data))
      BY <2>2, CallBytes
    <3>. QED BY <3>1, <3>2, <2>4
  <2>6. G[i - 1] \in Seq(Unit) /\ H[i - 1] \in Seq(Unit)  BY <2>1, <1>2, <1>3
  <2>7. SameJoin(G[i - 1], bytes(cs[i]), H[i - 1], bytes(ds[i]))
    BY <2>1, <1>2, <1>3, <1>5 DEF SameJoin
  <2>8. G[i - 1] = H[i - 1] /\ bytes(cs[i]) = bytes(ds[i])
    BY <2>3, <2>5, <2>6, <2>7, SplitEnds
  <2>. QED BY <2>2, <2>4, <2>8, SameBytes
<1>6. 0 \in T  BY <1>1, <1>4
<1>7. ASSUME NEW k \in 0 .. n - 1, k \in T  PROVE k + 1 \in T
  <2>1. n - k \in 1 .. n /\ (n - k) - 1 = n - (k + 1) /\ k + 1 \in 0 .. n  BY <1>1
  <2>2. G[n - k] = H[n - k]  BY <1>7
  <2>3. G[(n - k) - 1] = H[(n - k) - 1]  BY <2>1, <2>2, <1>5
  <2>. QED BY <2>1, <2>3
<1>8. \A m \in 0 .. n : m \in T
  <2> HIDE DEF T
  <2>. QED BY <1>1, <1>6, <1>7, InductionTo
<1>9. ASSUME NEW i \in 1 .. n  PROVE cs[i] = ds[i]
  <2>1. n - i \in 0 .. n /\ n - (n - i) = i  BY <1>1
  <2>2. G[i] = H[i]  BY <2>1, <1>8
  <2>. QED BY <2>2, <1>5
<1>. QED BY <1>9
----------------------------------------------------------------------------
(* Challenges                                                              *)

\* What a challenge hashes: h is the state before.
Hashed(T, n, h, l) == T \o (DOM_SEP_TAG \o (<<<<"round", n>>, h>> \o l))

\* h is the only hash in x, and stands behind T, the tag and the round.
HashAt(x, T, h, l) ==
    /\ Len(x) = Len(T) + (6 + Len(l)) /\ x[Len(T) + 6] = h
    /\ \A i \in 1 .. Len(T) + (6 + Len(l)) : x[i][1] = "hash" => i = Len(T) + 6

LEMMA HashPlace ==
  ASSUME NEW T \in Seq(Bytes), NEW l \in Seq(Bytes), NEW n, NEW h, h[1] = "hash",
         NEW S, Bytes \subseteq S, <<"round", n>> \in S, h \in S
  PROVE  HashAt(Hashed(T, n, h, l), T, h, l)
<1> DEFINE r == <<"round", n>>
           two == <<r, h>>
           y == two \o l
           z == DOM_SEP_TAG \o y
           x == T \o z
<1>1. ASSUME NEW b \in Bytes  PROVE b[1] # "hash"
  <2>1. PICK v \in Byte : b = <<"byte", v>>  BY DEF Bytes, byte
  <2>. QED BY <2>1
<1>2. r[1] # "hash"  OBVIOUS
<1>3. /\ two \in Seq(S) /\ Len(two) = 2 /\ two[1] = r /\ two[2] = h
  OBVIOUS
<1>4. /\ T \in Seq(S) /\ l \in Seq(S) /\ DOM_SEP_TAG \in Seq(S) /\ Len(DOM_SEP_TAG) = 4
  BY Tags, SeqMonotonic
<1>5. Len(T) \in Nat /\ Len(l) \in Nat  BY LenProperties
<1>6. /\ \A i \in 1 .. Len(T) : T[i][1] # "hash"
      /\ \A i \in 1 .. Len(l) : l[i][1] # "hash"
      /\ \A i \in 1 .. 4 : DOM_SEP_TAG[i][1] # "hash"
  <2>1. \A i \in 1 .. 4 : DOM_SEP_TAG[i] \in Bytes  BY Tags, ElementOfSeq
  <2>. QED BY <1>1, <2>1, ElementOfSeq
<1> DEFINE N == DOM_SEP_TAG
<1>7. Hashed(T, n, h, l) = x  BY DEF Hashed
<1>8. Joins(y, two, l) /\ Joins(z, N, y) /\ Joins(x, T, z)  BY DEF Joins
<1>9. N \in Seq(S) /\ Len(N) = 4 /\ \A i \in 1 .. 4 : N[i][1] # "hash"  BY <1>4, <1>6
<1> HIDE DEF two, N, r, x, y, z
<1>10. /\ y \in Seq(S) /\ Len(y) = 2 + Len(l)
       /\ \A i \in 1 .. 2 + Len(l) : y[i] = IF i <= 2 THEN two[i] ELSE l[i - 2]
  <2>1. /\ y \in Seq(S) /\ Len(y) = Len(two) + Len(l)
        /\ \A i \in 1 .. Len(two) + Len(l) :
              y[i] = IF i <= Len(two) THEN two[i] ELSE l[i - Len(two)]
    <3>1. two \in Seq(S) /\ l \in Seq(S) /\ Joins(y, two, l)  BY <1>3, <1>4, <1>8
    <3>. QED BY ONLY <3>1, JoinedExact
  <2>. QED BY <2>1, <1>3
<1>11. /\ z \in Seq(S) /\ Len(z) = 6 + Len(l)
       /\ \A i \in 1 .. 6 + Len(l) : z[i] = IF i <= 4 THEN N[i] ELSE y[i - 4]
  <2>1. /\ z \in Seq(S) /\ Len(z) = Len(N) + Len(y)
        /\ \A i \in 1 .. Len(N) + Len(y) : z[i] = IF i <= Len(N) THEN N[i] ELSE y[i - Len(N)]
    <3>1. N \in Seq(S) /\ y \in Seq(S) /\ Joins(z, N, y)  BY <1>8, <1>9, <1>10
    <3>. QED BY ONLY <3>1, JoinedExact
  <2>2. Len(N) + Len(y) = 6 + Len(l) /\ Len(N) = 4  BY <1>5, <1>9, <1>10
  <2>. QED BY <2>1, <2>2
<1>12. /\ x \in Seq(S) /\ Len(x) = Len(T) + Len(z)
       /\ \A i \in 1 .. Len(T) + Len(z) : x[i] = IF i <= Len(T) THEN T[i] ELSE z[i - Len(T)]
  <2>1. T \in Seq(S) /\ z \in Seq(S) /\ Joins(x, T, z)  BY <1>4, <1>8, <1>11
  <2>. QED BY ONLY <2>1, JoinedExact
<1>13. z[6] = h
  <2>1. 6 \in 1 .. 6 + Len(l) /\ 2 \in 1 .. 2 + Len(l) /\ 6 - 4 = 2  BY <1>5
  <2>2. y[2] = h  BY <2>1, <1>10, <1>3
  <2>. QED BY <2>1, <2>2, <1>11
<1>14. ASSUME NEW i \in 1 .. 6 + Len(l), z[i][1] = "hash"  PROVE i = 6
  <2>1. CASE i <= 4
    <3>1. i \in 1 .. 4 /\ z[i] = N[i]  BY <2>1, <1>5, <1>11
    <3>. QED BY <3>1, <1>9, <1>14
  <2>2. CASE ~ (i <= 4)
    <3>1. /\ z[i] = y[i - 4] /\ i - 4 \in 1 .. 2 + Len(l) /\ i \in Nat
      BY <2>2, <1>5, <1>11
    <3>2. y[i - 4] = IF i - 4 <= 2 THEN two[i - 4] ELSE l[i - 4 - 2]
      BY <3>1, <1>10
    <3>3. CASE i = 5
      <4>1. y[i - 4] = r  BY <3>3, <3>2, <1>3
      <4>. QED BY <4>1, <3>1, <1>2, <1>14
    <3>4. CASE i > 6
      <4>1. i - 4 - 2 \in 1 .. Len(l) /\ ~ (i - 4 <= 2)  BY <3>1, <3>4, <1>5
      <4>2. z[i] = l[i - 4 - 2]  BY <4>1, <3>1, <3>2
      <4>. QED BY <4>1, <4>2, <1>6, <1>14
    <3>. QED BY <3>1, <3>3, <3>4, <2>2
  <2>. QED BY <2>1, <2>2
<1>15. x[Len(T) + 6] = h
  <2>1. /\ Len(T) + 6 \in 1 .. Len(T) + Len(z) /\ ~ (Len(T) + 6 <= Len(T))
        /\ (Len(T) + 6) - Len(T) = 6
    BY <1>5, <1>11
  <2>. QED BY <2>1, <1>12, <1>13
<1>16. ASSUME NEW i \in 1 .. Len(T) + (6 + Len(l)), x[i][1] = "hash"
       PROVE  i = Len(T) + 6
  <2>1. i \in 1 .. Len(T) + Len(z) /\ i \in Nat  BY <1>5, <1>11
  <2>2. ~ (i <= Len(T))
    <3> SUFFICES ASSUME i <= Len(T)  PROVE FALSE
      OBVIOUS
    <3>1. i \in 1 .. Len(T) /\ x[i] = T[i]  BY <2>1, <1>5, <1>12
    <3>. QED BY <3>1, <1>6, <1>16
  <2>3. i - Len(T) \in 1 .. 6 + Len(l) /\ x[i] = z[i - Len(T)]
    BY <2>1, <2>2, <1>5, <1>11, <1>12
  <2>4. i - Len(T) = 6  BY <2>3, <1>14, <1>16
  <2>. QED BY <2>1, <2>4, <1>5
<1>17. Len(x) = Len(T) + (6 + Len(l))  BY <1>11, <1>12
<1>18. HashAt(x, T, h, l)  BY <1>15, <1>16, <1>17 DEF HashAt
<1>. QED BY <1>7, <1>18

\* Two challenges hash the same string.
SameHashed(T, n, h, l, U, k, g, m) == Hashed(T, n, h, l) = Hashed(U, k, g, m)

(* The string a challenge hashes says what it was made of.                 *)
LEMMA HashedInjective ==
  ASSUME NEW T \in Seq(Bytes), NEW l \in Seq(Bytes), NEW n, NEW h, h[1] = "hash",
         NEW U \in Seq(Bytes), NEW m \in Seq(Bytes), NEW k, NEW g, g[1] = "hash",
         SameHashed(T, n, h, l, U, k, g, m)
  PROVE  T = U /\ n = k /\ h = g /\ l = m
<1> DEFINE S == Bytes \cup {<<"round", n>>, <<"round", k>>, h, g}
           two == <<<<"round", n>>, h>>
           duo == <<<<"round", k>>, g>>
           x == Hashed(T, n, h, l)
           y == Hashed(U, k, g, m)
           yl == two \o l
           ym == duo \o m
           zl == DOM_SEP_TAG \o yl
           zm == DOM_SEP_TAG \o ym
<1>1. /\ Bytes \subseteq S /\ <<"round", n>> \in S /\ <<"round", k>> \in S /\ h \in S /\ g \in S
  OBVIOUS
<1>2. /\ two \in Seq(S) /\ duo \in Seq(S) /\ Len(two) = 2 /\ Len(duo) = 2
      /\ two[1] = <<"round", n>> /\ two[2] = h /\ duo[1] = <<"round", k>> /\ duo[2] = g
  OBVIOUS
<1>3. x = y  BY DEF SameHashed
<1>4. /\ Joins(yl, two, l) /\ Joins(ym, duo, m)
      /\ Joins(zl, DOM_SEP_TAG, yl) /\ Joins(zm, DOM_SEP_TAG, ym)
  BY DEF Joins
<1>5. SameJoin(T, zl, U, zm)  BY <1>3 DEF SameJoin, Hashed
<1> HIDE DEF S, two, duo, x, y
<1>6. /\ Len(x) = Len(T) + (6 + Len(l)) /\ x[Len(T) + 6] = h
      /\ \A i \in 1 .. Len(T) + (6 + Len(l)) : x[i][1] = "hash" => i = Len(T) + 6
  <2>1. HashAt(Hashed(T, n, h, l), T, h, l)  BY <1>1, HashPlace
  <2>. QED BY <2>1 DEF HashAt, x
<1>7. /\ Len(y) = Len(U) + (6 + Len(m)) /\ y[Len(U) + 6] = g
      /\ \A i \in 1 .. Len(U) + (6 + Len(m)) : y[i][1] = "hash" => i = Len(U) + 6
  <2>1. HashAt(Hashed(U, k, g, m), U, g, m)  BY <1>1, HashPlace
  <2>. QED BY <2>1 DEF HashAt, y
<1>8. Len(T) \in Nat /\ Len(U) \in Nat /\ Len(l) \in Nat /\ Len(m) \in Nat
  BY LenProperties
<1>9. Len(T) = Len(U) /\ Len(l) = Len(m)
  <2>1. Len(T) + 6 \in 1 .. Len(T) + (6 + Len(l))  BY <1>8
  <2>2. Len(T) + (6 + Len(l)) = Len(U) + (6 + Len(m))  BY <1>3, <1>6, <1>7
  <2>3. Len(T) + 6 \in 1 .. Len(U) + (6 + Len(m))  BY <2>1, <2>2
  <2>4. y[Len(T) + 6][1] = "hash"  BY <1>3, <1>6
  <2>5. Len(T) + 6 = Len(U) + 6  BY <2>3, <2>4, <1>7
  <2>. QED BY <2>2, <2>5, <1>8
<1>10. /\ T \in Seq(S) /\ U \in Seq(S) /\ l \in Seq(S) /\ m \in Seq(S)
       /\ DOM_SEP_TAG \in Seq(S) /\ Len(DOM_SEP_TAG) = 4
  BY <1>1, Tags, SeqMonotonic
<1> HIDE DEF yl, ym, zl, zm
<1>11. yl \in Seq(S) /\ Len(yl) = 2 + Len(l)
  <2>1. two \in Seq(S) /\ l \in Seq(S) /\ Joins(yl, two, l)  BY <1>2, <1>4, <1>10
  <2>2. yl \in Seq(S) /\ Len(yl) = Len(two) + Len(l)  BY ONLY <2>1, JoinedExact
  <2>. QED BY <2>2, <1>2
<1>12. ym \in Seq(S) /\ Len(ym) = 2 + Len(m)
  <2>1. duo \in Seq(S) /\ m \in Seq(S) /\ Joins(ym, duo, m)  BY <1>2, <1>4, <1>10
  <2>2. ym \in Seq(S) /\ Len(ym) = Len(duo) + Len(m)  BY ONLY <2>1, JoinedExact
  <2>. QED BY <2>2, <1>2
<1>13. zl \in Seq(S) /\ Len(zl) = 4 + Len(yl)
  <2>1. DOM_SEP_TAG \in Seq(S) /\ yl \in Seq(S) /\ Joins(zl, DOM_SEP_TAG, yl)
    BY <1>4, <1>10, <1>11
  <2>2. zl \in Seq(S) /\ Len(zl) = Len(DOM_SEP_TAG) + Len(yl)  BY ONLY <2>1, JoinedExact
  <2>. QED BY <2>2, <1>10
<1>14. zm \in Seq(S) /\ Len(zm) = 4 + Len(ym)
  <2>1. DOM_SEP_TAG \in Seq(S) /\ ym \in Seq(S) /\ Joins(zm, DOM_SEP_TAG, ym)
    BY <1>4, <1>10, <1>12
  <2>2. zm \in Seq(S) /\ Len(zm) = Len(DOM_SEP_TAG) + Len(ym)  BY ONLY <2>1, JoinedExact
  <2>. QED BY <2>2, <1>10
<1>15. T = U /\ zl = zm
  <2>1. Len(zl) = Len(zm)  BY <1>9, <1>11, <1>12, <1>13, <1>14
  <2>2. T \in Seq(S) /\ zl \in Seq(S) /\ U \in Seq(S) /\ zm \in Seq(S)
    BY <1>10, <1>13, <1>14
  <2>. QED BY ONLY <2>1, <2>2, <1>5, SplitEnds
<1>16. yl = ym
  <2>1. SameJoin(DOM_SEP_TAG, yl, DOM_SEP_TAG, ym)  BY <1>4, <1>15 DEF SameJoin, Joins
  <2>2. Len(yl) = Len(ym)  BY <1>9, <1>11, <1>12
  <2>. QED BY ONLY <2>1, <2>2, <1>10, <1>11, <1>12, SplitEnds
<1>17. two = duo /\ l = m
  <2>1. SameJoin(two, l, duo, m)  BY <1>4, <1>16 DEF SameJoin, Joins
  <2>. QED BY ONLY <2>1, <1>2, <1>9, <1>10, SplitEnds
<1>18. h = g /\ <<"round", n>> = <<"round", k>>  BY <1>2, <1>17
<1>. QED BY <1>15, <1>17, <1>18

(* A challenge is a hash, and no error.                                    *)
LEMMA SqueezedHash ==
  ASSUME NEW n, NEW T, NEW h, NEW l
  PROVE  LET c == squeezed([round |-> n, transcript |-> T, state |-> h], l)
         IN  c[1] = "hash" /\ c[2] = Hashed(T, n, h, l) /\ c # Error
<1> DEFINE c == squeezed([round |-> n, transcript |-> T, state |-> h], l)
<1>1. c = <<"hash", Hashed(T, n, h, l)>>  BY DEF squeezed, compute_updated_state, Hashed
<1> HIDE DEF c
<1>2. c[1] = "hash" /\ c[2] = Hashed(T, n, h, l) /\ Error[1] # "hash"  BY <1>1 DEF Error
<1>. QED BY <1>2 DEF c

\* No error until then.
Fine(os, k) == k \in 1 .. Len(os) /\ k <= MaxRound

LEMMA FineChallenge ==
  ASSUME NEW cs, NEW S, NEW os \in Seq(S), Chain(cs, os), NEW k, Fine(os, k)
  PROVE  /\ os[k].challenge[1] = "hash"
         /\ Before(os, k)[1] = "hash"
         /\ k > 1 => Fine(os, k - 1)
<1>1. k \in 1 .. Len(os) /\ k <= MaxRound /\ Len(os) \in Nat /\ MaxRound \in Nat
  BY MaxRoundAssumption DEF Fine
<1>2. ASSUME NEW j, Fine(os, j)  PROVE os[j].challenge[1] = "hash"
  <2>1. PICK T \in Seq(Bytes) : Hashes(cs, os, j, T)  BY <1>2 DEF Chain, Fine
  <2>2. os[j].challenge = squeezed([round |-> j - 1, transcript |-> T,
                                    state |-> Before(os, j)], cs[os[j].call].label)
    BY <2>1 DEF Hashes
  <2>. QED BY <2>2, SqueezedHash
<1>3. k > 1 => Fine(os, k - 1)  BY <1>1 DEF Fine
<1>4. CASE k = 1
  <2>1. Before(os, k)[1] = "hash"  BY <1>4 DEF Before, new, compute_updated_state
  <2>. QED BY <2>1, <1>2, <1>4
<1>5. CASE k > 1
  <2>1. Before(os, k) = os[k - 1].challenge  BY <1>5, <1>1 DEF Before
  <2>. QED BY <2>1, <1>2, <1>3, <1>5
<1>. QED BY <1>1, <1>4, <1>5

(* One step back: equal challenges hash equal states, under equal labels.  *)
LEMMA BindStep ==
  ASSUME NEW cs \in Seq(AnyCall), NEW ds \in Seq(AnyCall),
         NEW R, NEW os \in Seq(R), NEW S, NEW ps \in Seq(S),
         Chain(cs, os), Chain(ds, ps), NEW j, Fine(os, j), NEW k, Fine(ps, k),
         os[j].challenge = ps[k].challenge
  PROVE  /\ j = k /\ Before(os, j) = Before(ps, k)
         /\ AllBytes(cs)[Begin(os, j)] = AllBytes(ds)[Begin(ps, k)]
               => AllBytes(cs)[os[j].call] = AllBytes(ds)[ps[k].call]
<1>1. PICK T \in Seq(Bytes) : Hashes(cs, os, j, T)  BY DEF Chain, Fine
<1>2. PICK U \in Seq(Bytes) : Hashes(ds, ps, k, U)  BY DEF Chain, Fine
<1> DEFINE c == cs[os[j].call]
           d == ds[ps[k].call]
           h == Before(os, j)
           g == Before(ps, k)
<1>3. c \in AnyCall /\ d \in AnyCall
  <2>1. os[j].call \in 1 .. Len(cs) /\ ps[k].call \in 1 .. Len(ds)  BY DEF Chain, Fine
  <2>. QED BY <2>1, ElementOfSeq
<1>4. c.label \in Seq(Bytes) /\ d.label \in Seq(Bytes)  BY <1>3, CallBytes
<1>5. h[1] = "hash" /\ g[1] = "hash"  BY FineChallenge
<1>6. os[j].challenge[2] = Hashed(T, j - 1, h, c.label)
  <2>1. os[j].challenge = squeezed([round |-> j - 1, transcript |-> T, state |-> h], c.label)
    BY <1>1 DEF Hashes
  <2> HIDE DEF h, c
  <2>. QED BY <2>1, SqueezedHash
<1>7. ps[k].challenge[2] = Hashed(U, k - 1, g, d.label)
  <2>1. ps[k].challenge = squeezed([round |-> k - 1, transcript |-> U, state |-> g], d.label)
    BY <1>2 DEF Hashes
  <2> HIDE DEF g, d
  <2>. QED BY <2>1, SqueezedHash
<1>8. T = U /\ j - 1 = k - 1 /\ h = g /\ c.label = d.label
  <2>1. SameHashed(T, j - 1, h, c.label, U, k - 1, g, d.label)
    BY <1>6, <1>7 DEF SameHashed
  <2> HIDE DEF h, g, c, d
  <2>. QED BY <2>1, <1>4, <1>5, HashedInjective
<1>9. j = k
  <2>1. j \in Int /\ k \in Int  BY DEF Fine
  <2>. QED BY <2>1, <1>8
<1>10. bytes(c) = bytes(d)
  <2>1. c.kind = d.kind /\ c.data = d.data  BY <1>1, <1>2 DEF Hashes
  <2>. QED BY <2>1, <1>8 DEF bytes
<1>11. /\ AllBytes(cs)[os[j].call] = (AllBytes(cs)[Begin(os, j)] \o T) \o bytes(c)
       /\ AllBytes(ds)[ps[k].call] = (AllBytes(ds)[Begin(ps, k)] \o U) \o bytes(d)
  BY <1>1, <1>2 DEF Hashes
<1>. QED BY <1>8, <1>9, <1>10, <1>11

\* Equal challenges bind all that was given before them.
Bound(cs, os, ds, ps) ==
    \A j, k : Fine(os, j) /\ Fine(ps, k) /\ os[j].challenge = ps[k].challenge
              => j = k /\ AllBytes(cs)[os[j].call] = AllBytes(ds)[ps[k].call]

LEMMA ChallengesBind ==
  ASSUME NEW cs \in Seq(AnyCall), NEW ds \in Seq(AnyCall),
         NEW R, NEW os \in Seq(R), NEW S, NEW ps \in Seq(S), Chain(cs, os), Chain(ds, ps)
  PROVE  Bound(cs, os, ds, ps)
<1> DEFINE Binds(j) == \A k : Fine(os, j) /\ Fine(ps, k) /\ os[j].challenge = ps[k].challenge
                          => j = k /\ AllBytes(cs)[os[j].call] = AllBytes(ds)[ps[k].call]
           N == Len(os)
           T == {j \in 0 .. N : Binds(j)}
<1>1. N \in Nat  BY LenProperties
<1>2. 0 \in T  BY <1>1 DEF Fine
<1>3. ASSUME NEW i \in 0 .. N - 1, i \in T  PROVE i + 1 \in T
  <2> DEFINE j == i + 1
  <2>1. j \in 0 .. N /\ j - 1 = i  BY <1>1
  <2>2. ASSUME NEW k, Fine(os, j), Fine(ps, k), os[j].challenge = ps[k].challenge
        PROVE  j = k /\ AllBytes(cs)[os[j].call] = AllBytes(ds)[ps[k].call]
    <3> HIDE DEF j
    <3>1. /\ j = k /\ Before(os, j) = Before(ps, k)
          /\ AllBytes(cs)[Begin(os, j)] = AllBytes(ds)[Begin(ps, k)]
                => AllBytes(cs)[os[j].call] = AllBytes(ds)[ps[k].call]
      BY <2>2, BindStep
    <3>2. AllBytes(cs)[Begin(os, j)] = AllBytes(ds)[Begin(ps, k)]
      <4>1. CASE j = 1
        <5>1. Begin(os, j) = 0 /\ Begin(ps, k) = 0  BY <3>1, <4>1 DEF Begin
        <5>. QED BY <5>1, AllBytesTable
      <4>2. CASE j # 1
        <5>1. j > 1 /\ k > 1  BY <2>2, <3>1, <4>2 DEF Fine
        <5>2. Fine(os, j - 1) /\ Fine(ps, k - 1)  BY <5>1, <2>2, FineChallenge
        <5>3. os[j - 1].challenge = ps[k - 1].challenge  BY <3>1, <4>2 DEF Before
        <5>4. AllBytes(cs)[os[j - 1].call] = AllBytes(ds)[ps[k - 1].call]
          BY <5>2, <5>3, <2>1, <1>3
        <5>. QED BY <5>4, <3>1, <4>2 DEF Begin
      <4>. QED BY <4>1, <4>2
    <3>. QED BY <3>1, <3>2
  <2>3. Binds(j)  BY <2>2
  <2>. QED BY <2>1, <2>3
<1>4. \A j \in 0 .. N : j \in T
  <2> HIDE DEF T, N
  <2>. QED BY <1>1, <1>2, <1>3, InductionTo
<1>5. \A j : Fine(os, j) => j \in 0 .. N  BY <1>1 DEF Fine
<1>. QED BY <1>4, <1>5 DEF Bound
----------------------------------------------------------------------------
(* The calls                                                               *)

LEMMA ChainAppend ==
  ASSUME NEW cs \in Seq(AnyCall), NEW c \in AnyCall, NEW S, NEW os \in Seq(S), Chain(cs, os)
  PROVE  Chain(Append(cs, c), os)
<1> DEFINE ds == Append(cs, c)
<1>1. /\ Len(ds) = Len(cs) + 1 /\ Len(cs) \in Nat
      /\ \A n \in 1 .. Len(cs) : ds[n] = cs[n]
  BY AppendProperties, LenProperties
<1>2. \A n \in 0 .. Len(cs) : AllBytes(ds)[n] = AllBytes(cs)[n]  BY AllBytesAppend
<1> HIDE DEF ds
<1>3. SUFFICES ASSUME NEW k \in 1 .. Len(os)
      PROVE  /\ os[k].call \in 1 .. Len(ds)
             /\ os[k].challenge = Error <=> k > MaxRound
             /\ k <= MaxRound => \E T \in Seq(Bytes) : Hashes(ds, os, k, T)
  BY DEF Chain, ds
<1>4. /\ os[k].call \in 1 .. Len(cs)
      /\ os[k].challenge = Error <=> k > MaxRound
      /\ k <= MaxRound => \E T \in Seq(Bytes) : Hashes(cs, os, k, T)
  BY DEF Chain
<1>5. Begin(os, k) \in 0 .. Len(cs)
  <2>1. CASE k = 1  BY <2>1, <1>1 DEF Begin
  <2>2. CASE k # 1
    <3>1. k - 1 \in 1 .. Len(os)  BY <2>2, LenProperties
    <3>2. os[k - 1].call \in 1 .. Len(cs)  BY <3>1 DEF Chain
    <3>. QED BY <3>2, <2>2, <1>1 DEF Begin
  <2>. QED BY <2>1, <2>2
<1>6. ASSUME NEW T \in Seq(Bytes), Hashes(cs, os, k, T)  PROVE Hashes(ds, os, k, T)
  <2>1. os[k].call \in 0 .. Len(cs)  BY <1>4, <1>1
  <2>2. ds[os[k].call] = cs[os[k].call]  BY <1>1, <1>4
  <2>3. /\ AllBytes(ds)[os[k].call] = AllBytes(cs)[os[k].call]
        /\ AllBytes(ds)[Begin(os, k)] = AllBytes(cs)[Begin(os, k)]
    BY <1>2, <1>5, <2>1
  <2>. QED BY <1>6, <2>2, <2>3 DEF Hashes
<1>. QED BY <1>1, <1>4, <1>6

(* Absorbing and separating domains.                                       *)
LEMMA AbsorbStep ==
  ASSUME NEW cs \in Seq(AnyCall), NEW c \in AnyCall, NEW S, NEW os \in Seq(S), NEW t,
         Chain(cs, os), Current(cs, os, t), NEW x \in Seq(Bytes), bytes(c) = x
  PROVE  Current(Append(cs, c), os, [t EXCEPT !.transcript = @ \o x])
<1> DEFINE ds == Append(cs, c)
           tx == t.transcript \o x
           u == [t EXCEPT !.transcript = tx]
           N == Len(os)
           p == Begin(os, N + 1)
<1>1. /\ t = [round |-> t.round, transcript |-> t.transcript, state |-> t.state]
      /\ t.transcript \in Seq(Bytes)
  BY DEF Current
<1>2. u = [round |-> t.round, transcript |-> tx, state |-> t.state]
  <2> HIDE DEF tx
  <2>1. PICK n, T, h : t = [round |-> n, transcript |-> T, state |-> h]  BY <1>1
  <2>2. u = [round |-> n, transcript |-> tx, state |-> h]  BY <2>1
  <2>. QED BY <2>1, <2>2
<1>3. tx \in Seq(Bytes)  BY <1>1, ConcatProperties
<1> HIDE DEF u
<1>4. u.round = t.round /\ u.transcript = tx /\ u.state = t.state  BY <1>2
<1>5. N \in Nat /\ Len(cs) \in Nat  BY LenProperties
<1>6. ASSUME N <= MaxRound
      PROVE  u.state = Before(os, N + 1) /\ AllBytes(ds)[Len(ds)] = AllBytes(ds)[p] \o tx
  <2>1. /\ t.state = Before(os, N + 1)
        /\ AllBytes(cs)[Len(cs)] = AllBytes(cs)[p] \o t.transcript
    BY <1>6 DEF Current
  <2>2. p \in 0 .. Len(cs)
    <3>1. CASE N = 0  BY <3>1, <1>5 DEF Begin
    <3>2. CASE N # 0
      <4>1. N \in 1 .. N /\ (N + 1) - 1 = N /\ N + 1 # 1  BY <3>2, <1>5
      <4>2. p = os[N].call  BY <4>1 DEF Begin
      <4>3. os[N].call \in 1 .. Len(cs)  BY <4>1 DEF Chain
      <4>. QED BY <4>2, <4>3, <1>5
    <3>. QED BY <3>1, <3>2
  <2>3. /\ Len(ds) = Len(cs) + 1
        /\ AllBytes(ds)[Len(cs) + 1] = AllBytes(cs)[Len(cs)] \o x
        /\ AllBytes(ds)[p] = AllBytes(cs)[p]
    BY <2>2, AllBytesAppend, AppendProperties
  <2>4. AllBytes(cs)[p] \in Seq(Unit)  BY <2>2, AllBytesTable
  <2>5. t.transcript \in Seq(Unit) /\ x \in Seq(Unit)
    <3>1. Bytes \subseteq Unit  BY DEF Unit
    <3>. QED BY <3>1, <1>1, SeqMonotonic
  <2> DEFINE a == AllBytes(cs)[p]
             b == t.transcript
  <2>6. (a \o b) \o x = a \o (b \o x)
    <3> HIDE DEF a, b
    <3>1. a \in Seq(Unit) /\ b \in Seq(Unit)  BY <2>4, <2>5 DEF a, b
    <3>. QED BY <3>1, <2>5, ConcatAssociative
  <2>. QED BY <1>4, <2>1, <2>3, <2>6
<1>7. t.round = IF N <= MaxRound THEN N ELSE MaxRound  BY DEF Current
<1>8. u = [round |-> u.round, transcript |-> u.transcript, state |-> u.state]
  BY <1>2, <1>4
<1>9. Current(ds, os, u)
  <2> HIDE DEF ds, tx
  <2>. QED BY <1>3, <1>4, <1>6, <1>7, <1>8 DEF Current
<1>. QED BY <1>9 DEF u, tx

\* What a squeeze returns: the challenge c, and the call's number.
Returned(os, c, call) == Append(os, [challenge |-> c, call |-> call])

LEMMA ReturnedExact ==
  ASSUME NEW S, NEW os \in Seq(S), NEW c, NEW call
  PROVE  /\ \E R : Returned(os, c, call) \in Seq(R)
         /\ Len(Returned(os, c, call)) = Len(os) + 1
         /\ \A k \in 1 .. Len(os) : Returned(os, c, call)[k] = os[k]
         /\ Returned(os, c, call)[Len(os) + 1] = [challenge |-> c, call |-> call]
<1> DEFINE e == [challenge |-> c, call |-> call]
           R == S \cup {e}
<1>1. os \in Seq(R) /\ e \in R  BY SeqMonotonic
<1> HIDE DEF R, e
<1>2. /\ Append(os, e) \in Seq(R) /\ Len(Append(os, e)) = Len(os) + 1
      /\ \A k \in 1 .. Len(os) : Append(os, e)[k] = os[k]
      /\ Append(os, e)[Len(os) + 1] = e
  BY <1>1, AppendProperties
<1>3. Returned(os, c, call) = Append(os, e)  BY DEF Returned, e
<1>. QED BY <1>2, <1>3 DEF e

(* The challenges so far stay what they are.                               *)
LEMMA ReturnedChain ==
  ASSUME NEW cs, NEW S, NEW os \in Seq(S), NEW R, NEW ps \in Seq(R), Chain(cs, os),
         Len(ps) = Len(os) + 1, \A k \in 1 .. Len(os) : ps[k] = os[k],
         LET k == Len(os) + 1
         IN  /\ ps[k].call \in 1 .. Len(cs)
             /\ ps[k].challenge = Error <=> k > MaxRound
             /\ k <= MaxRound => \E T \in Seq(Bytes) : Hashes(cs, ps, k, T)
  PROVE  Chain(cs, ps)
<1>1. Len(os) \in Nat  BY LenProperties
<1>2. SUFFICES ASSUME NEW k \in 1 .. Len(ps)
      PROVE  /\ ps[k].call \in 1 .. Len(cs)
             /\ ps[k].challenge = Error <=> k > MaxRound
             /\ k <= MaxRound => \E T \in Seq(Bytes) : Hashes(cs, ps, k, T)
  BY DEF Chain
<1>3. CASE k = Len(os) + 1  BY <1>3
<1>4. CASE k # Len(os) + 1
  <2>1. k \in 1 .. Len(os) /\ ps[k] = os[k]  BY <1>1, <1>4
  <2>2. k # 1 => ps[k - 1] = os[k - 1]
    <3>1. k # 1 => k - 1 \in 1 .. Len(os)  BY <2>1, <1>1
    <3>. QED BY <3>1
  <2>3. Before(ps, k) = Before(os, k) /\ Begin(ps, k) = Begin(os, k)
    BY <2>2 DEF Before, Begin
  <2>4. \A T : Hashes(cs, os, k, T) => Hashes(cs, ps, k, T)  BY <2>1, <2>3 DEF Hashes
  <2>5. /\ os[k].call \in 1 .. Len(cs)
        /\ os[k].challenge = Error <=> k > MaxRound
        /\ k <= MaxRound => \E T \in Seq(Bytes) : Hashes(cs, os, k, T)
    BY <2>1 DEF Chain
  <2>. QED BY <2>1, <2>4, <2>5
<1>. QED BY <1>3, <1>4

(* Squeezing while the counter has room.                                   *)
LEMMA SqueezeStep ==
  ASSUME NEW cs \in Seq(AnyCall), NEW c \in AnyCall, c.kind = "squeeze", c.data = <<>>,
         NEW S, NEW os \in Seq(S), NEW t, Chain(cs, os), Current(cs, os, t),
         t.round < MaxRound, NEW output, output = squeezed(t, c.label),
         NEW ps, ps = Returned(os, output, Len(cs) + 1)
  PROVE  /\ Chain(Append(cs, c), ps)
         /\ Current(Append(cs, c), ps,
                    [round |-> t.round + 1, state |-> output, transcript |-> <<>>])
<1> DEFINE ds == Append(cs, c)
           N == Len(os)
           M == Len(cs)
           k == N + 1
           u == [round |-> t.round + 1, state |-> output, transcript |-> <<>>]
<1>1. N \in Nat /\ M \in Nat /\ MaxRound \in Nat  BY LenProperties, MaxRoundAssumption
<1>2. /\ t = [round |-> t.round, transcript |-> t.transcript, state |-> t.state]
      /\ t.transcript \in Seq(Bytes) /\ t.round = IF N <= MaxRound THEN N ELSE MaxRound
  BY DEF Current
<1>3. t.round = N /\ N < MaxRound /\ k <= MaxRound  BY <1>1, <1>2
<1>4. t.state = Before(os, k) /\ AllBytes(cs)[M] = AllBytes(cs)[Begin(os, k)] \o t.transcript
  BY <1>3, <1>1 DEF Current
<1>5. PICK R : ps \in Seq(R)  BY ReturnedExact
<1>6. /\ Len(ps) = k /\ \A i \in 1 .. N : ps[i] = os[i]
      /\ ps[k] = [challenge |-> output, call |-> M + 1]
  BY ReturnedExact
<1>7. Len(ds) = M + 1 /\ ds[M + 1] = c /\ ds \in Seq(AnyCall)  BY AppendProperties
<1>8. Chain(ds, os)  BY ChainAppend
<1>9. Before(ps, k) = Before(os, k) /\ Begin(ps, k) = Begin(os, k)
  <2>1. k # 1 => k - 1 \in 1 .. N  BY <1>1
  <2>. QED BY <2>1, <1>6 DEF Before, Begin
<1>10. Begin(os, k) \in 0 .. M
  <2>1. CASE k = 1  BY <2>1, <1>1 DEF Begin
  <2>2. CASE k # 1
    <3>1. k - 1 \in 1 .. N  BY <2>2, <1>1
    <3>2. os[k - 1].call \in 1 .. M  BY <3>1 DEF Chain
    <3>3. Begin(os, k) = os[k - 1].call  BY <2>2 DEF Begin
    <3>. QED BY <3>2, <3>3, <1>1
  <2>. QED BY <2>1, <2>2
<1>11. /\ AllBytes(ds)[M + 1] = AllBytes(cs)[M] \o bytes(c)
       /\ AllBytes(ds)[Begin(os, k)] = AllBytes(cs)[Begin(os, k)]
  BY <1>10, AllBytesAppend
<1> HIDE DEF ds
<1>12. Hashes(ds, ps, k, t.transcript)
  <2>1. ps[k].call = M + 1 /\ ps[k].challenge = output /\ ds[ps[k].call] = c
    BY <1>6, <1>7
  <2>2. output = squeezed([round |-> k - 1, transcript |-> t.transcript,
                           state |-> Before(ps, k)], c.label)
    <3>1. k - 1 = t.round /\ Before(ps, k) = t.state  BY <1>1, <1>3, <1>4, <1>9
    <3> HIDE DEF k
    <3>. QED BY <3>1, <1>2
  <2>3. AllBytes(ds)[M + 1] = (AllBytes(ds)[Begin(ps, k)] \o t.transcript) \o bytes(c)
    BY <1>4, <1>9, <1>11
  <2> HIDE DEF k
  <2>. QED BY <2>1, <2>2, <2>3 DEF Hashes
<1>13. output # Error
  <2>1. output = squeezed([round |-> t.round, transcript |-> t.transcript,
                           state |-> t.state], c.label)
    BY <1>2
  <2>. QED BY <2>1, SqueezedHash
<1>14. Chain(ds, ps)
  <2>1. /\ ps[k].call \in 1 .. Len(ds)
        /\ ps[k].challenge = Error <=> k > MaxRound
        /\ k <= MaxRound => \E T \in Seq(Bytes) : Hashes(ds, ps, k, T)
    <3>1. ps[k].call \in 1 .. Len(ds)  BY <1>1, <1>6, <1>7
    <3>2. ps[k].challenge # Error /\ ~ (k > MaxRound)  BY <1>1, <1>3, <1>6, <1>13
    <3> HIDE DEF k
    <3>. QED BY <3>1, <3>2, <1>12, <1>2
  <2>. QED BY <2>1, <1>5, <1>6, <1>8, ReturnedChain
<1>15. Current(ds, ps, u)
  <2>1. /\ u = [round |-> u.round, transcript |-> u.transcript, state |-> u.state]
        /\ u.transcript = <<>> /\ u.round = t.round + 1 /\ u.state = output
    OBVIOUS
  <2> HIDE DEF u
  <2>2. u.transcript \in Seq(Bytes)  BY <2>1
  <2>3. u.round = IF Len(ps) <= MaxRound THEN Len(ps) ELSE MaxRound
    BY <2>1, <1>3, <1>6
  <2>4. Before(ps, Len(ps) + 1) = output /\ Begin(ps, Len(ps) + 1) = M + 1
    <3>1. (Len(ps) + 1) - 1 = k /\ Len(ps) + 1 # 1  BY <1>1, <1>6
    <3>2. ps[k].challenge = output /\ ps[k].call = M + 1  BY <1>6
    <3>. QED BY <3>1, <3>2 DEF Before, Begin
  <2>5. AllBytes(ds)[Len(ds)] = AllBytes(ds)[M + 1] \o u.transcript
    <3>1. M + 1 \in 0 .. Len(ds)  BY <1>1, <1>7
    <3>2. AllBytes(ds)[M + 1] \in Seq(Unit)  BY <3>1, <1>7, AllBytesTable
    <3>3. AllBytes(ds)[M + 1] \o <<>> = AllBytes(ds)[M + 1]  BY <3>2, ConcatEmptySeq
    <3>. QED BY <3>3, <2>1, <1>7
  <2>. QED BY <2>1, <2>2, <2>3, <2>4, <2>5 DEF Current
<1>. QED BY <1>14, <1>15 DEF ds

(* Squeezing when the counter is at its end.                               *)
LEMMA ErrorStep ==
  ASSUME NEW cs \in Seq(AnyCall), NEW c \in AnyCall,
         NEW S, NEW os \in Seq(S), NEW t, Chain(cs, os), Current(cs, os, t),
         ~ (t.round < MaxRound), NEW ps, ps = Returned(os, Error, Len(cs) + 1)
  PROVE  Chain(Append(cs, c), ps) /\ Current(Append(cs, c), ps, t)
<1> DEFINE ds == Append(cs, c)
           N == Len(os)
           M == Len(cs)
<1>1. N \in Nat /\ M \in Nat /\ MaxRound \in Nat  BY LenProperties, MaxRoundAssumption
<1>2. /\ t = [round |-> t.round, transcript |-> t.transcript, state |-> t.state]
      /\ t.transcript \in Seq(Bytes) /\ t.round = IF N <= MaxRound THEN N ELSE MaxRound
  BY DEF Current
<1>3. N >= MaxRound /\ t.round = MaxRound  BY <1>1, <1>2
<1>4. PICK R : ps \in Seq(R)  BY ReturnedExact
<1>5. /\ Len(ps) = N + 1 /\ \A i \in 1 .. N : ps[i] = os[i]
      /\ ps[N + 1] = [challenge |-> Error, call |-> M + 1]
  BY ReturnedExact
<1>6. Len(ds) = M + 1  BY AppendProperties
<1>7. Chain(ds, os)  BY ChainAppend
<1> HIDE DEF ds
<1>8. Chain(ds, ps)
  <2>1. /\ ps[N + 1].call \in 1 .. Len(ds)
        /\ ps[N + 1].challenge = Error /\ N + 1 > MaxRound /\ ~ (N + 1 <= MaxRound)
    BY <1>1, <1>3, <1>5, <1>6
  <2>. QED BY <2>1, <1>4, <1>5, <1>7, ReturnedChain
<1>9. Current(ds, ps, t)
  <2>1. ~ (Len(ps) <= MaxRound)  BY <1>1, <1>3, <1>5
  <2>. QED BY <2>1, <1>2, <1>3 DEF Current
<1>. QED BY <1>8, <1>9 DEF ds

(* What a side does leaves the other as it was.                            *)
LEMMA SidesKept ==
  ASSUME ChainInv, NEW s \in Sides,
         calls' \in [Sides -> Seq(AnyCall)], DOMAIN outputs' = Sides, DOMAIN ts' = Sides,
         \A r \in Sides \ {s} : /\ calls'[r] = calls[r] /\ outputs'[r] = outputs[r]
                                /\ ts'[r] = ts[r],
         \E S : outputs'[s] \in Seq(S),
         Chain(calls'[s], outputs'[s]), Current(calls'[s], outputs'[s], ts'[s])
  PROVE  ChainInv'
<1>1. SUFFICES ASSUME NEW r \in Sides
      PROVE  /\ \E S : outputs'[r] \in Seq(S)
             /\ Chain(calls'[r], outputs'[r])
             /\ Current(calls'[r], outputs'[r], ts'[r])
  BY DEF ChainInv
<1>2. CASE r = s  BY <1>2
<1>3. CASE r # s
  <2>1. calls'[r] = calls[r] /\ outputs'[r] = outputs[r] /\ ts'[r] = ts[r]  BY <1>3
  <2>2. /\ \E S : outputs[r] \in Seq(S)
        /\ Chain(calls[r], outputs[r])
        /\ Current(calls[r], outputs[r], ts[r])
    BY DEF ChainInv
  <2>. QED BY <2>1, <2>2
<1>. QED BY <1>2, <1>3

(* A call is added to its side's.                                          *)
LEMMA CallAdded ==
  ASSUME ChainInv, NEW s \in Sides, NEW kind \in Kinds, NEW l \in Labels,
         NEW d \in Data \cup {<<>>}, Call(s, kind, l, d)
  PROVE  LET c == [kind |-> kind, label |-> l, data |-> d]
         IN  /\ c \in AnyCall /\ calls' \in [Sides -> Seq(AnyCall)]
             /\ calls[s] \in Seq(AnyCall) /\ calls'[s] = Append(calls[s], c)
             /\ \A r \in Sides \ {s} : calls'[r] = calls[r]
<1> DEFINE c == [kind |-> kind, label |-> l, data |-> d]
<1>1. c \in AnyCall  BY DEF AnyCall
<1>2. calls \in [Sides -> Seq(AnyCall)]  BY DEF ChainInv
<1>3. calls' = [calls EXCEPT ![s] = Append(@, c)]  BY DEF Call
<1> HIDE DEF c
<1>4. calls[s] \in Seq(AnyCall)  BY <1>2
<1>5. Append(calls[s], c) \in Seq(AnyCall)  BY <1>1, <1>4, AppendProperties
<1>6. calls'[s] = Append(calls[s], c) /\ \A r \in Sides \ {s} : calls'[r] = calls[r]
  BY <1>2, <1>3
<1>7. calls' \in [Sides -> Seq(AnyCall)]  BY <1>2, <1>3, <1>5
<1>. QED BY <1>1, <1>4, <1>6, <1>7 DEF c

\* One transcript's bytes grew by x.
Grown(s, x) == ts' = [ts EXCEPT ![s].transcript = @ \o x] /\ UNCHANGED outputs

LEMMA GrownChainInv ==
  ASSUME ChainInv, NEW s \in Sides, NEW kind \in Kinds, NEW l \in Labels,
         NEW d \in Data \cup {<<>>}, Call(s, kind, l, d),
         NEW x \in Seq(Bytes), bytes([kind |-> kind, label |-> l, data |-> d]) = x,
         Grown(s, x)
  PROVE  ChainInv'
<1> DEFINE c == [kind |-> kind, label |-> l, data |-> d]
<1>1. /\ c \in AnyCall /\ calls' \in [Sides -> Seq(AnyCall)]
      /\ calls[s] \in Seq(AnyCall) /\ calls'[s] = Append(calls[s], c)
      /\ \A r \in Sides \ {s} : calls'[r] = calls[r]
  BY CallAdded
<1>2. bytes(c) = x  OBVIOUS
<1> HIDE DEF c
<1>3. /\ DOMAIN outputs = Sides /\ DOMAIN ts = Sides
      /\ Chain(calls[s], outputs[s]) /\ Current(calls[s], outputs[s], ts[s])
  BY DEF ChainInv
<1>4. PICK S : outputs[s] \in Seq(S)  BY DEF ChainInv
<1> DEFINE t == [ts[s] EXCEPT !.transcript = @ \o x]
<1>5. Chain(Append(calls[s], c), outputs[s])  BY <1>1, <1>3, <1>4, ChainAppend
<1>6. Current(Append(calls[s], c), outputs[s], t)
  <2> DEFINE cs == calls[s]
             os == outputs[s]
             u == ts[s]
  <2>1. cs \in Seq(AnyCall) /\ os \in Seq(S) /\ Chain(cs, os) /\ Current(cs, os, u)
    BY <1>1, <1>3, <1>4
  <2>2. Current(Append(cs, c), os, [u EXCEPT !.transcript = @ \o x])
    <3> HIDE DEF cs, os, u
    <3>. QED BY <2>1, <1>1, <1>2, AbsorbStep
  <2>. QED BY <2>2
<1>7. ts' = [ts EXCEPT ![s] = t] /\ outputs' = outputs  BY DEF Grown
<1> HIDE DEF t
<1>8. ts'[s] = t /\ DOMAIN ts' = Sides /\ \A r \in Sides \ {s} : ts'[r] = ts[r]
  BY <1>3, <1>7
<1>. QED BY <1>1, <1>3, <1>4, <1>5, <1>6, <1>7, <1>8, SidesKept

LEMMA AbsorbChainInv == ChainInv /\ AbsorbData => ChainInv'
<1> SUFFICES ASSUME ChainInv, AbsorbData  PROVE ChainInv'
  OBVIOUS
<1>1. PICK s \in Sides, l \in Labels, d \in Data :
         /\ Call(s, "absorb", l, d)
         /\ ts' = [ts EXCEPT ![s].transcript = @ \o (l \o d)]
         /\ UNCHANGED outputs
  BY DEF AbsorbData
<1> DEFINE c == [kind |-> "absorb", label |-> l, data |-> d]
           x == l \o d
<1>2. "absorb" \in Kinds /\ d \in Data \cup {<<>>}  BY DEF Kinds
<1>3. c \in AnyCall  BY <1>2 DEF AnyCall
<1>4. bytes(c) = x
  <2>1. c.kind = "absorb" /\ c.label = l /\ c.data = d  OBVIOUS
  <2> HIDE DEF c
  <2>. QED BY <2>1, <1>3, CallBytes
<1>5. x \in Seq(Bytes)
  <2>1. l \in Seq(Bytes) /\ d \in Seq(Bytes)  BY <1>2, Tags
  <2>. QED BY <2>1, ConcatProperties
<1>6. Grown(s, x)  BY <1>1 DEF Grown
<1> HIDE DEF x
<1>. QED BY <1>1, <1>2, <1>4, <1>5, <1>6, GrownChainInv

LEMMA DomSepChainInv == ChainInv /\ DomSep => ChainInv'
<1> SUFFICES ASSUME ChainInv, DomSep  PROVE ChainInv'
  OBVIOUS
<1>1. PICK s \in Sides, l \in Labels :
         /\ Call(s, "dom_sep", l, <<>>)
         /\ ts' = [ts EXCEPT ![s].transcript = @ \o (DOM_SEP_TAG \o l)]
         /\ UNCHANGED outputs
  BY DEF DomSep
<1> DEFINE c == [kind |-> "dom_sep", label |-> l, data |-> <<>>]
           x == DOM_SEP_TAG \o l
<1>2. "dom_sep" \in Kinds /\ <<>> \in Data \cup {<<>>}  BY DEF Kinds
<1>3. c \in AnyCall  BY <1>2 DEF AnyCall
<1>4. bytes(c) = x
  <2>1. c.kind = "dom_sep" /\ c.label = l /\ c.data = <<>>  OBVIOUS
  <2> HIDE DEF c
  <2>. QED BY <2>1, <1>3, CallBytes
<1>5. x \in Seq(Bytes)
  <2>1. l \in Seq(Bytes) /\ DOM_SEP_TAG \in Seq(Bytes)  BY Tags
  <2>. QED BY <2>1, ConcatProperties
<1>6. Grown(s, x)  BY <1>1 DEF Grown
<1> HIDE DEF x
<1>. QED BY <1>1, <1>2, <1>4, <1>5, <1>6, GrownChainInv

LEMMA SqueezeChainInv == ChainInv /\ SqueezeChallenge => ChainInv'
<1> SUFFICES ASSUME ChainInv, SqueezeChallenge  PROVE ChainInv'
  OBVIOUS
<1>1. PICK s \in Sides, l \in Labels :
         /\ Call(s, "squeeze", l, <<>>)
         /\ LET output == squeezed(ts[s], l)
                Return(x) == outputs' = [outputs EXCEPT ![s] =
                                Append(@, [challenge |-> x, call |-> Len(calls[s]) + 1])]
            IN  IF ts[s].round < MaxRound
                THEN /\ ts' = [ts EXCEPT ![s] = [round |-> @.round + 1, state |-> output,
                                                 transcript |-> <<>>]]
                     /\ Return(output)
                ELSE Return(Error) /\ UNCHANGED ts
  BY DEF SqueezeChallenge
<1> DEFINE c == [kind |-> "squeeze", label |-> l, data |-> <<>>]
           os == outputs[s]
           cs == calls[s]
           t == ts[s]
           output == squeezed(t, l)
           call == Len(cs) + 1
           u == [round |-> t.round + 1, state |-> output, transcript |-> <<>>]
           good == Returned(os, output, call)
           bad == Returned(os, Error, call)
<1>2. "squeeze" \in Kinds /\ <<>> \in Data \cup {<<>>}  BY DEF Kinds
<1>3. /\ c \in AnyCall /\ calls' \in [Sides -> Seq(AnyCall)]
      /\ calls[s] \in Seq(AnyCall) /\ calls'[s] = Append(cs, c)
      /\ \A r \in Sides \ {s} : calls'[r] = calls[r]
  BY <1>1, <1>2, CallAdded
<1>4. /\ DOMAIN outputs = Sides /\ DOMAIN ts = Sides
      /\ Chain(cs, os) /\ Current(cs, os, t)
  BY DEF ChainInv
<1>5. PICK S : os \in Seq(S)  BY DEF ChainInv
<1>6. c.kind = "squeeze" /\ c.data = <<>> /\ c.label = l  OBVIOUS
<1>7. CASE t.round < MaxRound
  <2>1. ts' = [ts EXCEPT ![s] = u] /\ outputs' = [outputs EXCEPT ![s] = good]
    BY <1>1, <1>7 DEF Returned
  <2>2. output = squeezed(t, c.label)  BY <1>6
  <2> HIDE DEF output, c
  <2>3. Chain(Append(cs, c), good) /\ Current(Append(cs, c), good, u)
    <3> HIDE DEF cs, os, t
    <3>. QED BY <1>3, <1>4, <1>5, <1>6, <1>7, <2>2, SqueezeStep DEF cs
  <2>4. \E R : good \in Seq(R)
    <3> HIDE DEF os, call
    <3>. QED BY <1>5, ReturnedExact
  <2> HIDE DEF good, u
  <2>5. /\ ts'[s] = u /\ outputs'[s] = good /\ DOMAIN ts' = Sides /\ DOMAIN outputs' = Sides
        /\ \A r \in Sides \ {s} : ts'[r] = ts[r] /\ outputs'[r] = outputs[r]
    BY <1>4, <2>1
  <2>. QED BY <1>3, <2>3, <2>4, <2>5, SidesKept
<1>8. CASE ~ (t.round < MaxRound)
  <2>1. UNCHANGED ts /\ outputs' = [outputs EXCEPT ![s] = bad]
    BY <1>1, <1>8 DEF Returned
  <2> HIDE DEF c
  <2>3. Chain(Append(cs, c), bad) /\ Current(Append(cs, c), bad, t)
    <3> HIDE DEF cs, os, t
    <3>. QED BY <1>3, <1>4, <1>5, <1>8, ErrorStep DEF cs
  <2>4. \E R : bad \in Seq(R)
    <3> HIDE DEF os, call
    <3>. QED BY <1>5, ReturnedExact
  <2> HIDE DEF bad
  <2>5. /\ ts'[s] = t /\ outputs'[s] = bad /\ DOMAIN ts' = Sides /\ DOMAIN outputs' = Sides
        /\ \A r \in Sides \ {s} : ts'[r] = ts[r] /\ outputs'[r] = outputs[r]
    BY <1>4, <2>1
  <2>. QED BY <1>3, <2>3, <2>4, <2>5, SidesKept
<1>. QED BY <1>7, <1>8
----------------------------------------------------------------------------
LEMMA InitChainInv == KeccakInit => ChainInv
<1> SUFFICES ASSUME KeccakInit  PROVE ChainInv
  OBVIOUS
<1>1. /\ calls \in [Sides -> Seq(AnyCall)] /\ DOMAIN outputs = Sides /\ DOMAIN ts = Sides
  BY DEF KeccakInit
<1>2. ASSUME NEW s \in Sides
      PROVE  /\ \E S : outputs[s] \in Seq(S)
             /\ Chain(calls[s], outputs[s])
             /\ Current(calls[s], outputs[s], ts[s])
  <2>1. outputs[s] = <<>> /\ calls[s] = <<>> /\ ts[s] = new  BY DEF KeccakInit
  <2>2. Len(<<>>) = 0 /\ <<>> \in Seq({}) /\ <<>> \in Seq(AnyCall)  OBVIOUS
  <2>3. Chain(<<>>, <<>>)  BY <2>2 DEF Chain
  <2>4. Current(<<>>, <<>>, new)
    <3>1. /\ new = [round |-> new.round, transcript |-> new.transcript, state |-> new.state]
          /\ new.transcript = <<>> /\ new.round = 0
      BY DEF new
    <3>2. AllBytes(<<>>)[0] = <<>>  BY <2>2, AllBytesTable
    <3>3. <<>> \o <<>> = <<>> /\ <<>> \in Seq(Bytes)  OBVIOUS
    <3>4. Before(<<>>, 0 + 1) = new.state /\ Begin(<<>>, 0 + 1) = 0  BY DEF Before, Begin
    <3>. QED BY <2>2, <3>1, <3>2, <3>3, <3>4, MaxRoundAssumption DEF Current
  <2>. QED BY <2>1, <2>2, <2>3, <2>4
<1>. QED BY <1>1, <1>2 DEF ChainInv

LEMMA SpecChainInv == KeccakSpec => []ChainInv
<1>1. ChainInv /\ [KeccakNext]_keccak_vars => ChainInv'
  <2>1. CASE UNCHANGED keccak_vars
    <3> SUFFICES ASSUME ChainInv  PROVE ChainInv'
      BY <2>1
    <3>1. ts' = ts /\ outputs' = outputs /\ calls' = calls  BY <2>1 DEF keccak_vars
    <3>. QED BY <3>1 DEF ChainInv
  <2>. QED BY <2>1, AbsorbChainInv, DomSepChainInv, SqueezeChainInv DEF KeccakNext
<1>. QED BY <1>1, InitChainInv, PTL DEF KeccakSpec

(* The same challenge is the same squeeze of the same bytes, and with the  *)
(* same calls, labels and lengths the same data; no error is recovered     *)
(* from.                                                                   *)
LEMMA InvBinds == ChainInv => TranscriptBinds
<1> SUFFICES ASSUME ChainInv, NEW s \in Sides, NEW t \in Sides,
                    NEW j \in DOMAIN outputs[s], NEW k \in DOMAIN outputs[t]
             PROVE  IF outputs[s][j].challenge = Error
                    THEN s = t /\ k > j => outputs[t][k].challenge = Error
                    ELSE outputs[s][j].challenge = outputs[t][k].challenge =>
                         /\ j = k
                         /\ given(s, j) = given(t, k)
                         /\ shapes(s, j) = shapes(t, k)
                               => SubSeq(calls[s], 1, position(s, j))
                                  = SubSeq(calls[t], 1, position(t, k))
  BY DEF TranscriptBinds
<1> DEFINE os == outputs[s]
           ps == outputs[t]
           cs == calls[s]
           ds == calls[t]
<1>1. PICK R : os \in Seq(R)  BY DEF ChainInv
<1>2. PICK S : ps \in Seq(S)  BY DEF ChainInv
<1>3. cs \in Seq(AnyCall) /\ ds \in Seq(AnyCall) /\ Chain(cs, os) /\ Chain(ds, ps)
  BY DEF ChainInv
<1>4. j \in 1 .. Len(os) /\ k \in 1 .. Len(ps)  BY <1>1, <1>2
<1>5. /\ os[j].call \in 1 .. Len(cs) /\ (os[j].challenge = Error <=> j > MaxRound)
      /\ ps[k].call \in 1 .. Len(ds) /\ (ps[k].challenge = Error <=> k > MaxRound)
  BY <1>3, <1>4 DEF Chain
<1>6. j \in Nat /\ k \in Nat /\ MaxRound \in Nat  BY <1>4, MaxRoundAssumption
<1>7. CASE os[j].challenge = Error
  <2>1. k > j => k > MaxRound  BY <1>5, <1>6, <1>7
  <2>. QED BY <2>1, <1>5, <1>7
<1>8. ASSUME os[j].challenge # Error, os[j].challenge = ps[k].challenge
      PROVE  /\ j = k
             /\ given(s, j) = given(t, k)
             /\ shapes(s, j) = shapes(t, k)
                   => SubSeq(cs, 1, position(s, j)) = SubSeq(ds, 1, position(t, k))
  <2>1. Fine(os, j) /\ Fine(ps, k)  BY <1>4, <1>5, <1>6, <1>8 DEF Fine
  <2>2. j = k /\ AllBytes(cs)[os[j].call] = AllBytes(ds)[ps[k].call]
    <3> HIDE DEF os, ps, cs, ds
    <3>1. Bound(cs, os, ds, ps)  BY <1>1, <1>2, <1>3, ChallengesBind
    <3>. QED BY <3>1, <1>8, <2>1 DEF Bound
  <2>3. given(s, j) = given(t, k)  BY <2>2 DEF given, position
  <2>4. ASSUME shapes(s, j) = shapes(t, k)
        PROVE  SubSeq(cs, 1, position(s, j)) = SubSeq(ds, 1, position(t, k))
    <3> DEFINE n == position(s, j)
               m == position(t, k)
    <3>1. /\ n = os[j].call /\ m = ps[k].call
      BY DEF position
    <3>2. n \in 1 .. Len(cs) /\ m \in 1 .. Len(ds) /\ n \in Nat /\ m \in Nat
      BY <1>5, <3>1
    <3>3. 1 .. n = 1 .. m
      <4>1. DOMAIN shapes(s, j) = 1 .. n /\ DOMAIN shapes(t, k) = 1 .. m  BY DEF shapes
      <4>. QED BY <4>1, <2>4
    <3>4. n = m
      <4> HIDE DEF n, m
      <4>. QED BY <3>2, <3>3
    <3>5. SameShapes(cs, ds, n)
      <4> SUFFICES ASSUME NEW i \in 1 .. n
                   PROVE  /\ cs[i].kind = ds[i].kind /\ cs[i].label = ds[i].label
                          /\ Len(cs[i].data) = Len(ds[i].data)
        BY DEF SameShapes
      <4>1. i \in 1 .. m  BY <3>3
      <4>2. /\ shapes(s, j)[i] = <<cs[i].kind, cs[i].label, Len(cs[i].data)>>
            /\ shapes(t, k)[i] = <<ds[i].kind, ds[i].label, Len(ds[i].data)>>
        BY <4>1 DEF shapes
      <4>. QED BY <4>2, <2>4
    <3>6. AllBytes(cs)[n] = AllBytes(ds)[n]  BY <2>2, <3>1, <3>4
    <3> HIDE DEF n, m, cs, ds, os, ps
    <3>7. \A i \in 1 .. n : cs[i] = ds[i]
      <4>1. n \in 0 .. Len(cs) /\ n <= Len(ds)  BY <3>2, <3>4
      <4>. QED BY <4>1, <1>3, <3>5, <3>6, SameCalls
    <3> DEFINE a == SubSeq(cs, 1, n)
               b == SubSeq(ds, 1, n)
    <3>8. \A i \in 1 .. n : cs[i] \in AnyCall /\ ds[i] \in AnyCall
      BY <1>3, <3>2, <3>4, ElementOfSeq
    <3>9. /\ a \in Seq(AnyCall) /\ Len(a) = n /\ \A i \in 1 .. n : a[i] = cs[i]
      BY <3>2, <3>8, SubSeqProperties
    <3>10. /\ b \in Seq(AnyCall) /\ Len(b) = n /\ \A i \in 1 .. n : b[i] = ds[i]
      BY <3>2, <3>8, SubSeqProperties
    <3> HIDE DEF a, b
    <3>11. a = b  BY <3>7, <3>9, <3>10, SeqEqual
    <3>. QED BY <3>4, <3>11 DEF a, b, n, m
  <2>. QED BY <2>2, <2>3, <2>4
<1>. QED BY <1>7, <1>8

THEOREM SpecTranscriptBinds == KeccakSpec => []TranscriptBinds
<1>1. ChainInv => TranscriptBinds  BY InvBinds
<1>. QED BY <1>1, SpecChainInv, PTL
============================================================================
