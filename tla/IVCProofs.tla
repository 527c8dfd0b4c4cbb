----------------------------- MODULE IVCProofs -----------------------------
(***************************************************************************)
(* What the verifiers of IVC accept is what was executed, for any number   *)
(* of slots, parameters, states and steps, and IVC implements              *)
(* IncrementalComputation.                                                 *)
(*                                                                         *)
(* The statement is not inductive: a step extends a snark whether or not   *)
(* it would verify.  The invariant relates every snark to its log instead, *)
(* good or bad: the hashes it carries are those of its last step, and all  *)
(* of its instances satisfy exactly when nothing in the log went wrong.    *)
(***************************************************************************)
EXTENDS IVC, TLAPS

Step == [pp : PP, zin : State, zout : State, ok : BOOLEAN]

Clean(L)   == \A k \in 1 .. Len(L) : L[k].ok /\ L[k].pp = L[1].pp
Chained(L) == \A k \in 2 .. Len(L) : L[k].zin = L[k - 1].zout
Log(L)     == L \in Seq(Step) /\ Len(L) # 0 /\ Chained(L)

\* The hashes of S are those of the last step of L.
HashesOf(S, L, zn) == hashes_match(S, L[Len(L)].pp, Len(L), L[1].zin, zn)

AllSat(S) == S.r_U_primary.sat /\ S.r_U_secondary.sat /\ S.l_u_secondary.sat

Linked(S, L) ==
    /\ Log(L)
    /\ S.i = Len(L) \/ (S.i = 0 /\ Len(L) = 1)
    /\ S.z0 = L[1].zin /\ S.zi = L[Len(L)].zout
    /\ HashesOf(S, L, S.zi)
    /\ AllSat(S) <=> Clean(L)

LinkedCompressed(C, L) ==
    /\ Log(L)
    /\ C.zn = L[Len(L)].zout
    /\ HashesOf(C, L, C.zn)
    /\ C.snark_primary.sat /\ C.snark_secondary.sat <=> Clean(L)

IInv ==
    /\ TypeOK
    /\ \A s \in Slot : snark[s] # None => Linked(snark[s], log[s])
    /\ compressed # None => LinkedCompressed(compressed, plog)

\* Functions of the slots stay functions of the slots.
Shape == /\ DOMAIN snark = Slot /\ snark = [s \in Slot |-> snark[s]]
         /\ DOMAIN log = Slot /\ log = [s \in Slot |-> log[s]]
----------------------------------------------------------------------------
(* The hash is an injective constructor of what it absorbs. *)
LEMMA HashInjective ==
    ASSUME NEW pp, NEW i, NEW z0, NEW zi, NEW U, NEW r,
           NEW qp, NEW j, NEW y0, NEW yi, NEW V, NEW q,
           Hash(pp, i, z0, zi, U, r) = Hash(qp, j, y0, yi, V, q)
    PROVE  pp = qp /\ i = j /\ z0 = y0 /\ zi = yi /\ U = V /\ r = q
BY DEF Hash

(* Hashes that match two statements match only one. *)
LEMMA OneStatement ==
    ASSUME NEW S, NEW pp, NEW n, NEW z0, NEW zn, NEW qp, NEW m, NEW y0, NEW yn,
           hashes_match(S, pp, n, z0, zn), hashes_match(S, qp, m, y0, yn)
    PROVE  pp = qp /\ n = m /\ z0 = y0 /\ zn = yn
<1>1. Hash(pp, n, z0, zn, S.r_U_secondary, S.ri_primary)
        = Hash(qp, m, y0, yn, S.r_U_secondary, S.ri_primary)
  BY DEF hashes_match
<1>. QED BY <1>1, HashInjective

(* A log in which nothing went wrong is an execution, and only that. *)
LEMMA CleanExecutes ==
    ASSUME NEW L, Log(L)
    PROVE  /\ Clean(L) => Executes(L, L[Len(L)].pp, Len(L), L[1].zin, L[Len(L)].zout)
           /\ \A pp, n, z0, zn : Executes(L, pp, n, z0, zn)
                 => /\ Clean(L) /\ pp = L[Len(L)].pp /\ n = Len(L)
                    /\ z0 = L[1].zin /\ zn = L[Len(L)].zout
<1>1. Len(L) \in Nat \ {0}  BY DEF Log
<1>2. \A k \in 1 .. Len(L) : L[k] \in Step  BY DEF Log
<1>3. Clean(L) => Executes(L, L[Len(L)].pp, Len(L), L[1].zin, L[Len(L)].zout)
  BY <1>1, <1>2 DEF Clean, Executes, Log, Chained
<1>4. ASSUME NEW pp, NEW n, NEW z0, NEW zn, Executes(L, pp, n, z0, zn)
      PROVE  /\ Clean(L) /\ pp = L[Len(L)].pp /\ n = Len(L)
             /\ z0 = L[1].zin /\ zn = L[Len(L)].zout
  BY <1>1, <1>4 DEF Clean, Executes
<1>. QED BY <1>3, <1>4
(* A clean log stays clean exactly with a good step under its parameters. *)
LEMMA CleanAppend ==
    ASSUME NEW L \in Seq(Step), Len(L) # 0, NEW e \in Step
    PROVE  Clean(Append(L, e)) <=> Clean(L) /\ e.ok /\ e.pp = L[Len(L)].pp
<1> DEFINE M == Append(L, e)
           m == Len(L)
<1>1. /\ m \in Nat \ {0} /\ Len(M) = m + 1 /\ M[m + 1] = e
      /\ \A k \in 1 .. m : M[k] = L[k]
  OBVIOUS
<1>2. ASSUME Clean(M)  PROVE Clean(L) /\ e.ok /\ e.pp = L[m].pp
  <2>1. \A k \in 1 .. m + 1 : M[k].ok /\ M[k].pp = M[1].pp
    BY <1>1, <1>2 DEF Clean
  <2>2. \A k \in 1 .. m : L[k].ok /\ L[k].pp = L[1].pp
    BY <1>1, <2>1
  <2>3. e.ok /\ e.pp = L[1].pp
    BY <1>1, <2>1
  <2>. QED BY <1>1, <2>2, <2>3 DEF Clean
<1>3. ASSUME Clean(L), e.ok, e.pp = L[m].pp  PROVE Clean(M)
  <2>1. ASSUME NEW k \in 1 .. m + 1  PROVE M[k].ok /\ M[k].pp = M[1].pp
    <3>1. CASE k = m + 1
      BY <1>1, <1>3, <3>1 DEF Clean
    <3>2. CASE k # m + 1
      <4>1. k \in 1 .. m /\ 1 \in 1 .. m  BY <1>1, <3>2
      <4>2. L[k].ok /\ L[k].pp = L[1].pp  BY <1>3, <4>1 DEF Clean
      <4>. QED BY <1>1, <4>1, <4>2
    <3>. QED BY <3>1, <3>2
  <2>. QED BY <1>1, <2>1 DEF Clean
<1>. QED BY <1>2, <1>3
----------------------------------------------------------------------------
(* RecursiveSNARK::new. *)
LEMMA NewLinked ==
    ASSUME NEW pp \in PP, NEW z0 \in State, NEW z \in State, NEW ok \in BOOLEAN,
           NEW n \in Nat
    PROVE  Linked(new_snark(pp, z0, z, ok, n), <<Executed(pp, z0, z, ok)>>)
<1> DEFINE S == new_snark(pp, z0, z, ok, n)
           L == <<Executed(pp, z0, z, ok)>>
<1>1. L \in Seq(Step) /\ Len(L) = 1 /\ L[1] = Executed(pp, z0, z, ok)
  BY DEF Step, Executed
<1>2. Log(L)
  BY <1>1 DEF Log, Chained
<1>3. S.i = 0 /\ S.z0 = z0 /\ S.zi = z
  BY DEF new_snark
<1>4. HashesOf(S, L, z)
  <2> DEFINE u == synthesize(TRUE,
                    [pp |-> pp, i |-> 0, z0 |-> z0, zi |-> Zero, U |-> default,
                     ri |-> 0, r_next |-> ri_p(n), u |-> NoInstance, T |-> 0], z, ok)
             v == synthesize(FALSE,
                    SecondaryInputs(pp, 0, default, 0, ri_s(n), u, 0), Zero, TRUE)
  <2>1. u.X[2] = Hash(pp, 1, z0, z, default, ri_p(n))
    BY DEF synthesize, Instance
  <2>2. v.X[1] = u.X[2]
    BY DEF synthesize, Instance, SecondaryInputs
  <2>3. v.X[2] = Hash(pp, 1, Zero, Zero, from_r1cs_instance(u), ri_s(n))
    <3> HIDE DEF u
    <3>. QED BY DEF synthesize, Instance, SecondaryInputs
  <2>4. /\ S.l_u_secondary = v /\ S.r_U_primary = from_r1cs_instance(u)
        /\ S.r_U_secondary = default
        /\ S.ri_primary = ri_p(n) /\ S.ri_secondary = ri_s(n)
    BY DEF new_snark
  <2>5. hashes_match(S, pp, 1, z0, z)
    <3> HIDE DEF S, u, v
    <3>. QED BY <2>1, <2>2, <2>3, <2>4 DEF hashes_match
  <2>. QED BY <1>1, <2>5 DEF HashesOf, Executed
<1>5. S.r_U_primary.sat <=> ok
  BY DEF new_snark, synthesize, Instance, from_r1cs_instance
<1>6. S.r_U_secondary.sat /\ S.l_u_secondary.sat
  BY DEF new_snark, synthesize, Instance, default, SecondaryInputs
<1>7. Clean(L) <=> ok
  BY <1>1 DEF Clean, Executed
<1>. QED BY <1>1, <1>2, <1>3, <1>4, <1>5, <1>6, <1>7 DEF Linked, AllSat, Executed

(* The first call of prove_step. *)
LEMMA CountLinked ==
    ASSUME NEW S, NEW L, Linked(S, L), S.i = 0
    PROVE  Linked(counted(S), L)
<1>1. Log(L) /\ Len(L) \in Nat \ {0}  BY DEF Linked, Log
<1>2. Len(L) = 1  BY <1>1 DEF Linked
<1>3. HashesOf(counted(S), L, counted(S).zi)
  BY DEF Linked, HashesOf, hashes_match, counted
<1>4. AllSat(counted(S)) <=> AllSat(S)
  BY DEF AllSat, counted
<1>. QED BY <1>1, <1>2, <1>3, <1>4 DEF Linked, counted

(* Every other call of prove_step: the circuit's check of its input hash   *)
(* passes exactly if the step uses the parameters of the one before.       *)
LEMMA StepLinked ==
    ASSUME NEW S, NEW L, Linked(S, L), S.i # 0,
           NEW pp \in PP, NEW z \in State, NEW ok \in BOOLEAN, NEW n \in Nat
    PROVE  Linked(next_snark(S, pp, z, ok, n), Append(L, Executed(pp, S.zi, z, ok)))
<1> DEFINE e == Executed(pp, S.zi, z, ok)
           M == Append(L, e)
           N == next_snark(S, pp, z, ok, n)
           m == Len(L)
<1>1. L \in Seq(Step) /\ m \in Nat \ {0} /\ S.i = m
  BY DEF Linked, Log
<1>2. \A k \in 1 .. m : L[k] \in Step
  BY <1>1
<1>3. S.zi \in State
  BY <1>1, <1>2 DEF Linked, Step
<1>4. e \in Step
  BY <1>3 DEF Step, Executed
<1>5. M \in Seq(Step) /\ Len(M) = m + 1 /\ M[m + 1] = e
      /\ \A k \in 1 .. m : M[k] = L[k]
  BY <1>1, <1>4
<1>6. Log(M)
  <2>1. ASSUME NEW k \in 2 .. m + 1  PROVE M[k].zin = M[k - 1].zout
    <3>1. CASE k = m + 1
      BY <1>1, <1>5, <3>1 DEF Linked, Executed
    <3>2. CASE k # m + 1
      <4>1. k \in 2 .. m /\ k - 1 \in 1 .. m /\ k \in 1 .. m
        BY <1>1, <3>2
      <4>. QED BY <1>5, <4>1 DEF Linked, Log, Chained
    <3>. QED BY <3>1, <3>2
  <2>. QED BY <1>1, <1>5, <2>1 DEF Log, Chained
<1>7. N.i = m + 1 /\ N.z0 = S.z0 /\ N.zi = z
  BY <1>1 DEF next_snark
<1>8. N.z0 = M[1].zin /\ N.zi = M[m + 1].zout
  BY <1>1, <1>5, <1>7 DEF Linked, Executed
<1>9. HashesOf(N, M, z)
  <2>1. hashes_match(N, pp, S.i + 1, S.z0, z)
    BY <1>1 DEF hashes_match, next_snark, synthesize, SecondaryInputs, Instance
  <2>. QED BY <1>1, <1>5, <1>7, <1>8, <2>1 DEF HashesOf, Executed
<1>10. hashes_match(S, L[m].pp, m, S.z0, S.zi)
  BY DEF Linked, HashesOf
<1>11. (S.l_u_secondary.X[1]
          = Hash(pp, S.i, S.z0, S.zi, S.r_U_secondary, S.ri_primary)) <=> pp = L[m].pp
  BY <1>1, <1>10, HashInjective DEF hashes_match
<1>12. (S.l_u_secondary.X[2]
          = Hash(pp, S.i, Zero, Zero, S.r_U_primary, S.ri_secondary)) <=> pp = L[m].pp
  BY <1>1, <1>10, HashInjective DEF hashes_match
<1>13. N.r_U_primary.sat <=> S.r_U_primary.sat /\ ok /\ pp = L[m].pp
  BY <1>1, <1>11 DEF next_snark, synthesize, Instance, fold
<1>14. N.r_U_secondary.sat <=> S.r_U_secondary.sat /\ S.l_u_secondary.sat
  BY DEF next_snark, fold
<1>15. N.l_u_secondary.sat <=> pp = L[m].pp
  BY <1>1, <1>12 DEF next_snark, synthesize, Instance, SecondaryInputs
<1>16. AllSat(N) <=> AllSat(S) /\ ok /\ pp = L[m].pp
  BY <1>13, <1>14, <1>15 DEF AllSat
<1>17. Clean(M) <=> Clean(L) /\ ok /\ pp = L[m].pp
  <2>1. e.ok = ok /\ e.pp = pp  BY DEF Executed
  <2>. QED BY <1>1, <1>4, <2>1, CleanAppend
<1>18. AllSat(N) <=> Clean(M)
  BY <1>16, <1>17 DEF Linked
<1>. QED BY <1>5, <1>6, <1>7, <1>8, <1>9, <1>18 DEF Linked

(* CompressedSNARK::prove. *)
LEMMA CompressLinked ==
    ASSUME NEW S, NEW L, Linked(S, L), NEW pp, NEW n
    PROVE  LinkedCompressed(compress(S, pp, n), L)
<1> DEFINE C == compress(S, pp, n)
<1>1. C.zn = S.zi /\ HashesOf(C, L, C.zn)
  BY DEF Linked, HashesOf, hashes_match, compress
<1>2. C.snark_primary.sat <=> S.r_U_primary.sat
  BY DEF compress, Un_primary, fold, random_instance, Instance
<1>3. C.snark_secondary.sat <=> S.r_U_secondary.sat /\ S.l_u_secondary.sat
  BY DEF compress, Un_secondary, fold, random_instance, Instance
<1>. QED BY <1>1, <1>2, <1>3 DEF Linked, LinkedCompressed, AllSat
----------------------------------------------------------------------------
LEMMA InitIInv == Init => IInv /\ Shape
BY BoundAssumption DEF Init, IInv, TypeOK, Shape, None

(* Changing one slot, for a snark and a log that are linked. *)
LEMMA SlotChanged ==
    ASSUME NEW s \in Slot, NEW S, NEW L, Linked(S, L), S.kind = "snark",
           IInv, Shape,
           snark' = [snark EXCEPT ![s] = S], log' = [log EXCEPT ![s] = L],
           draws' \in 0 .. MaxDraws, UNCHANGED <<compressed, plog>>
    PROVE  IInv' /\ Shape'
<1>1. Shape'  BY DEF Shape
<1>2. \A t \in Slot : /\ snark'[t] = IF t = s THEN S ELSE snark[t]
                      /\ log'[t] = IF t = s THEN L ELSE log[t]
  BY DEF Shape
<1>3. ASSUME NEW t \in Slot, snark'[t] # None  PROVE Linked(snark'[t], log'[t])
  BY <1>2, <1>3 DEF IInv
<1>4. L \in Seq(Step) /\ Len(L) \in Nat \ {0} /\ S.i \in 0 .. Len(L)
  BY DEF Linked, Log
<1>5. S.z0 \in State /\ S.zi \in State
  <2>1. L[1] \in Step /\ L[Len(L)] \in Step  BY <1>4
  <2>. QED BY <2>1 DEF Linked, Step
<1>6. TypeOK'
  BY <1>2, <1>4, <1>5 DEF TypeOK, IInv, Step
<1>. QED BY <1>1, <1>3, <1>6 DEF IInv

LEMMA NextIInv == IInv /\ Shape /\ [Next]_vars => IInv' /\ Shape'
<1> SUFFICES ASSUME IInv, Shape, [Next]_vars  PROVE IInv' /\ Shape'
  OBVIOUS
<1>0. draws \in 0 .. MaxDraws /\ MaxDraws \in Nat
  BY BoundAssumption DEF IInv, TypeOK
<1>1. ASSUME NEW s \in Slot, NEW pp \in PP, NEW z0 \in State, NEW z \in State,
             NEW ok \in BOOLEAN, New(s, pp, z0, z, ok)
      PROVE  IInv' /\ Shape'
  <2>1. Linked(new_snark(pp, z0, z, ok, draws), <<Executed(pp, z0, z, ok)>>)
    BY <1>0, NewLinked
  <2>2. new_snark(pp, z0, z, ok, draws).kind = "snark"
    BY DEF new_snark
  <2>3. log' = [log EXCEPT ![s] = <<Executed(pp, z0, z, ok)>>]
    BY <1>1 DEF New, z_input
  <2>4. /\ snark' = [snark EXCEPT ![s] = new_snark(pp, z0, z, ok, draws)]
        /\ draws' \in 0 .. MaxDraws /\ UNCHANGED <<compressed, plog>>
    BY <1>0, <1>1 DEF New
  <2>. QED BY <2>1, <2>2, <2>3, <2>4, SlotChanged
<1>2. ASSUME NEW s \in Slot, ProveFirstStep(s)
      PROVE  IInv' /\ Shape'
  <2>1. Linked(counted(snark[s]), log[s])
    BY <1>2, CountLinked DEF ProveFirstStep, IInv
  <2>2. counted(snark[s]).kind = "snark"
    BY DEF counted
  <2>3. log' = [log EXCEPT ![s] = log[s]]
    BY <1>2, Zenon DEF ProveFirstStep, Shape
  <2>4. /\ snark' = [snark EXCEPT ![s] = counted(snark[s])]
        /\ draws' \in 0 .. MaxDraws /\ UNCHANGED <<compressed, plog>>
    BY <1>0, <1>2 DEF ProveFirstStep
  <2>. QED BY <2>1, <2>2, <2>3, <2>4, SlotChanged
<1>3. ASSUME NEW s \in Slot, NEW pp \in PP, NEW z \in State, NEW ok \in BOOLEAN,
             ProveStep(s, pp, z, ok)
      PROVE  IInv' /\ Shape'
  <2> DEFINE S == snark[s]
             M == Append(log[s], Executed(pp, S.zi, z, ok))
  <2>1. Linked(next_snark(S, pp, z, ok, draws), M)
    BY <1>0, <1>3, StepLinked DEF ProveStep, IInv
  <2>2. next_snark(S, pp, z, ok, draws).kind = "snark"
    BY DEF next_snark
  <2>3. log' = [log EXCEPT ![s] = M]
    BY <1>3 DEF ProveStep, z_input
  <2>4. /\ snark' = [snark EXCEPT ![s] = next_snark(S, pp, z, ok, draws)]
        /\ draws' \in 0 .. MaxDraws /\ UNCHANGED <<compressed, plog>>
    BY <1>0, <1>3 DEF ProveStep
  <2>. QED BY <2>1, <2>2, <2>3, <2>4, SlotChanged
<1>4. ASSUME NEW s \in Slot, NEW t \in Slot, Copy(s, t)
      PROVE  IInv' /\ Shape'
  <2>1. \A u \in Slot : /\ snark'[u] = IF u = t THEN snark[s] ELSE snark[u]
                        /\ log'[u] = IF u = t THEN log[s] ELSE log[u]
    BY <1>4 DEF Copy, Shape
  <2>2. Shape'
    BY <1>4 DEF Copy, Shape
  <2>3. TypeOK'
    BY <1>4, <2>1 DEF Copy, IInv, TypeOK
  <2>. QED BY <1>4, <2>1, <2>2, <2>3 DEF Copy, IInv
<1>5. ASSUME NEW s \in Slot, NEW pp \in PP, Compress(s, pp)
      PROVE  IInv' /\ Shape'
  <2>1. LinkedCompressed(compressed', plog')
    BY <1>5, CompressLinked DEF Compress, IInv
  <2>2. TypeOK'
    <3>1. draws' \in 0 .. MaxDraws /\ snark' = snark /\ log' = log
      BY <1>0, <1>5 DEF Compress
    <3>. QED BY <3>1 DEF IInv, TypeOK
  <2>. QED BY <1>5, <2>1, <2>2 DEF Compress, IInv, Shape
<1>6. CASE UNCHANGED vars
  BY <1>6 DEF vars, IInv, TypeOK, Shape
<1>. QED BY <1>1, <1>2, <1>3, <1>4, <1>5, <1>6 DEF Next

(* The invariant holds of every behaviour. *)
LEMMA SpecIInv == Spec => []IInv
<1>1. Init => IInv /\ Shape  BY InitIInv
<1>2. (IInv /\ Shape) /\ [Next]_vars => (IInv /\ Shape)'  BY NextIInv
<1>. QED BY <1>1, <1>2, PTL DEF Spec
----------------------------------------------------------------------------
(* TypeOK, for any number of slots, parameters, states and draws. *)
THEOREM SpecTypeOK == Spec => []TypeOK
<1>1. IInv => TypeOK  BY DEF IInv
<1>. QED BY <1>1, SpecIInv, PTL

(* RecursiveSNARK::verify accepts only a statement that is true of all the *)
(* step circuits that were executed, and returns their result.             *)
THEOREM SpecVerifySound == Spec => []VerifySound
<1>1. IInv => VerifySound
  <2> SUFFICES ASSUME IInv, NEW s \in Slot, snark[s] # None, NEW c \in Statement,
                      verify(snark[s], c[1], c[2], c[3])
               PROVE  Executes(log[s], c[1], c[2], c[3], snark[s].zi)
    BY DEF VerifySound
  <2>1. Linked(snark[s], log[s])  BY DEF IInv
  <2>2. c[1] = log[s][Len(log[s])].pp /\ c[2] = Len(log[s])
        /\ c[3] = log[s][1].zin
    BY <2>1, OneStatement DEF verify, Linked, HashesOf
  <2>3. Clean(log[s])
    BY <2>1 DEF verify, Linked, AllSat
  <2>. QED BY <2>1, <2>2, <2>3, CleanExecutes DEF Linked
<1>. QED BY <1>1, SpecIInv, PTL

(* RecursiveSNARK::verify accepts every statement that is true of what was *)
(* executed, once the first step was counted.                              *)
THEOREM SpecVerifyComplete == Spec => []VerifyComplete
<1>1. IInv => VerifyComplete
  <2> SUFFICES ASSUME IInv, NEW s \in Slot, snark[s] # None, snark[s].i # 0,
                      NEW c \in Statement,
                      Executes(log[s], c[1], c[2], c[3], snark[s].zi)
               PROVE  verify(snark[s], c[1], c[2], c[3])
    BY DEF VerifyComplete
  <2>1. Linked(snark[s], log[s])  BY DEF IInv
  <2>2. /\ Clean(log[s]) /\ c[1] = log[s][Len(log[s])].pp
        /\ c[2] = Len(log[s]) /\ c[3] = log[s][1].zin
    BY <2>1, CleanExecutes DEF Linked
  <2>3. snark[s].i = c[2] /\ c[2] # 0 /\ snark[s].z0 = c[3] /\ AllSat(snark[s])
    BY <2>1, <2>2 DEF Linked, Log
  <2>4. hashes_match(snark[s], c[1], c[2], c[3], snark[s].zi)
    BY <2>1, <2>2 DEF Linked, HashesOf
  <2>. QED BY <2>3, <2>4 DEF verify, AllSat
<1>. QED BY <1>1, SpecIInv, PTL

(* CompressedSNARK::verify accepts only what is true of the steps executed *)
(* for the snark that was compressed.                                      *)
THEOREM SpecCompressedSound == Spec => []CompressedSound
<1>1. IInv => CompressedSound
  <2> SUFFICES ASSUME IInv, compressed # None, NEW c \in Statement,
                      verify_compressed(compressed, c[1], c[2], c[3])
               PROVE  Executes(plog, c[1], c[2], c[3], compressed.zn)
    BY DEF CompressedSound
  <2>1. LinkedCompressed(compressed, plog)  BY DEF IInv
  <2>2. c[1] = plog[Len(plog)].pp /\ c[2] = Len(plog) /\ c[3] = plog[1].zin
    BY <2>1, OneStatement DEF verify_compressed, LinkedCompressed, HashesOf
  <2>3. Clean(plog)
    BY <2>1 DEF verify_compressed, LinkedCompressed
  <2>. QED BY <2>1, <2>2, <2>3, CleanExecutes DEF LinkedCompressed
<1>. QED BY <1>1, SpecIInv, PTL

(* Compressing under the parameters a snark verifies with makes a proof of *)
(* the same statement.                                                     *)
THEOREM SpecCompressedComplete == Spec => CompressedComplete
<1>1. ASSUME NEW s \in Slot, NEW pp \in PP, NEW n, NEW z0, NEW d,
             verify(snark[s], pp, n, z0)
      PROVE  /\ verify_compressed(compress(snark[s], pp, d), pp, n, z0)
             /\ compress(snark[s], pp, d).zn = snark[s].zi
  <2> DEFINE S == snark[s]
             C == compress(S, pp, d)
  <2>1. hashes_match(C, pp, n, z0, C.zn) /\ C.zn = S.zi
    BY <1>1 DEF verify, hashes_match, compress
  <2>2. C.snark_primary = Un_primary(pp, C, C.T) /\ C.snark_primary.sat
    BY <1>1 DEF verify, compress, Un_primary, fold, random_instance, Instance
  <2>3. C.snark_secondary = Un_secondary(pp, C, C.T) /\ C.snark_secondary.sat
    BY <1>1 DEF verify, compress, Un_secondary, fold, random_instance, Instance
  <2>. QED BY <1>1, <2>1, <2>2, <2>3 DEF verify_compressed, verify
<1>2. [Next]_vars =>
        [\A s \in Slot, pp \in PP :
          snark[s] # None /\ compressed' = compress(snark[s], pp, draws)
            => \A n \in 0 .. MaxDraws + 1, z0 \in State :
                  verify(snark[s], pp, n, z0)
                    => /\ verify_compressed(compressed', pp, n, z0)
                       /\ compressed'.zn = snark[s].zi]_vars
  BY <1>1
<1>. QED BY <1>2, PTL DEF Spec, CompressedComplete
----------------------------------------------------------------------------
(* IVC implements IncrementalComputation.  What a snark claims is a        *)
(* function of its log, so the claims follow from the invariant Linked;    *)
(* Record says which fields a snark has.                                   *)

Record(S) ==
    S = [kind |-> "snark", z0 |-> S.z0, zi |-> S.zi, i |-> S.i,
         r_U_primary |-> S.r_U_primary, ri_primary |-> S.ri_primary,
         r_U_secondary |-> S.r_U_secondary, ri_secondary |-> S.ri_secondary,
         l_u_secondary |-> S.l_u_secondary]

Records == \A s \in Slot : snark[s] # None => Record(snark[s])

claimBy(S, L) ==
    IF Clean(L) THEN Claims!Claim(L[Len(L)].pp, S.z0, Len(L), S.zi, S.i # 0)
    ELSE Claims!Void

claims    == [s \in Slot |-> IF snark[s] = None THEN None ELSE claimOf(snark[s])]
publication == IF compressed = None THEN None ELSE claimOfCompressed(compressed)

(* A clean log is the only one a claim is made for, and it says which.     *)
LEMMA ClaimOfLinked ==
    ASSUME NEW S, NEW L, Linked(S, L), Record(S)
    PROVE  claimOf(S) = claimBy(S, L)
<1> DEFINE n   == IF S.i = 0 THEN 1 ELSE S.i
           m   == Len(L)
           T   == [S EXCEPT !.i = n]
           pps == {pp \in PP : verify(T, pp, n, S.z0)}
<1>1. n = m /\ m \in Nat \ {0}
  BY DEF Linked, Log
<1>2. L[m].pp \in PP
  <2>1. L[m] \in Step  BY <1>1 DEF Linked, Log
  <2>. QED BY <2>1 DEF Step
<1>3. /\ T.i = n /\ T.z0 = S.z0 /\ T.zi = S.zi
      /\ T.r_U_primary = S.r_U_primary /\ T.ri_primary = S.ri_primary
      /\ T.r_U_secondary = S.r_U_secondary /\ T.ri_secondary = S.ri_secondary
      /\ T.l_u_secondary = S.l_u_secondary
  <2>1. T = [kind |-> "snark", z0 |-> S.z0, zi |-> S.zi, i |-> n,
             r_U_primary |-> S.r_U_primary, ri_primary |-> S.ri_primary,
             r_U_secondary |-> S.r_U_secondary, ri_secondary |-> S.ri_secondary,
             l_u_secondary |-> S.l_u_secondary]
    <3> HIDE DEF n
    <3>. QED BY DEF Record
  <2>. QED BY <2>1
<1>4. \A pp : verify(T, pp, n, S.z0) <=> pp = L[m].pp /\ Clean(L)
  <2> HIDE DEF T, n
  <2>1. \A pp : hashes_match(T, pp, n, S.z0, S.zi) <=> pp = L[m].pp
    <3>1. hashes_match(T, L[m].pp, n, S.z0, S.zi)
      BY <1>1, <1>3 DEF Linked, HashesOf, hashes_match
    <3>. QED BY <3>1, OneStatement
  <2>. QED BY <1>1, <1>3, <2>1 DEF verify, Linked, AllSat
<1>5. pps = IF Clean(L) THEN {L[m].pp} ELSE {}
  BY <1>2, <1>4
<1>6. claimOf(S) = IF pps = {} THEN [kind |-> "void"]
                   ELSE [kind |-> "claim", pp |-> CHOOSE pp \in pps : TRUE, z0 |-> S.z0,
                         n |-> n, z |-> S.zi, counted |-> S.i # 0]
  BY DEF claimOf
<1>7. CASE Clean(L)
  <2>1. pps # {} /\ (CHOOSE pp \in pps : TRUE) = L[m].pp
    <3> HIDE DEF pps, m
    <3>. QED BY <1>5, <1>7
  <2>. QED BY <1>1, <1>6, <1>7, <2>1 DEF claimBy, Claims!Claim
<1>8. CASE ~ Clean(L)
  BY <1>5, <1>6, <1>8 DEF claimBy, Claims!Void
<1>. QED BY <1>7, <1>8

(* A compressed proof claims what its snark claims, or nothing.            *)
LEMMA PublicationOfLinked ==
    ASSUME NEW S, NEW L, Linked(S, L), NEW pp, NEW n
    PROVE  LET C == compress(S, pp, n)
           IN  \/ claimOfCompressed(C) = Claims!Void
               \/ /\ Clean(L)
                  /\ claimOfCompressed(C)
                     = Claims!Claim(L[Len(L)].pp, S.z0, Len(L), S.zi, TRUE)
<1> DEFINE C  == compress(S, pp, n)
           cs == {c \in Statement : verify_compressed(C, c[1], c[2], c[3])}
           w  == CHOOSE x \in cs : TRUE
           st == <<L[Len(L)].pp, Len(L), L[1].zin>>
<1>1. LinkedCompressed(C, L)  BY CompressLinked
<1>2. C.zn = S.zi  BY DEF compress
<1>3. ASSUME NEW c \in cs  PROVE c = st /\ Clean(L)
  <2>1. c = <<c[1], c[2], c[3]>> /\ verify_compressed(C, c[1], c[2], c[3])
    BY <1>3 DEF Statement
  <2>2. c[1] = L[Len(L)].pp /\ c[2] = Len(L) /\ c[3] = L[1].zin
    <3> HIDE DEF C
    <3>. QED BY <1>1, <2>1, OneStatement DEF verify_compressed, LinkedCompressed, HashesOf
  <2>3. Clean(L)
    <3> HIDE DEF C
    <3>. QED BY <1>1, <2>1 DEF verify_compressed, LinkedCompressed
  <2>. QED BY <2>1, <2>2, <2>3
<1>4. claimOfCompressed(C)
      = IF cs = {} THEN [kind |-> "void"]
        ELSE [kind |-> "claim", pp |-> w[1], z0 |-> w[3], n |-> w[2],
              z |-> C.zn, counted |-> TRUE]
  BY DEF claimOfCompressed
<1>5. S.z0 = L[1].zin  BY DEF Linked
<1> HIDE DEF C, cs
<1>6. CASE cs = {}
  BY <1>4, <1>6 DEF Claims!Void, C
<1>7. CASE cs # {}
  <2>1. w = st /\ Clean(L)
    BY <1>3, <1>7
  <2> HIDE DEF w
  <2>3. w[1] = L[Len(L)].pp /\ w[2] = Len(L) /\ w[3] = L[1].zin
    BY <2>1
  <2>2. claimOfCompressed(C) = Claims!Claim(L[Len(L)].pp, S.z0, Len(L), S.zi, TRUE)
    <3>1. claimOfCompressed(C)
          = [kind |-> "claim", pp |-> w[1], z0 |-> w[3], n |-> w[2],
             z |-> C.zn, counted |-> TRUE]
      BY <1>4, <1>7
    <3>. QED BY <1>2, <1>5, <2>3, <3>1, Zenon DEF Claims!Claim
  <2>. QED BY <2>1, <2>2 DEF C
<1>. QED BY <1>6, <1>7

(* A call that leaves a linked snark in a slot changes the claim there.    *)
LEMMA SlotClaim ==
    ASSUME NEW s \in Slot, NEW S, NEW L, Linked(S, L), Record(S),
           DOMAIN snark = Slot, snark' = [snark EXCEPT ![s] = S]
    PROVE  claims' = [claims EXCEPT ![s] = claimBy(S, L)]
<1>1. claimOf(S) = claimBy(S, L)  BY ClaimOfLinked
<1>2. S # None  BY DEF Record, None
<1>3. \A t \in Slot : snark'[t] = IF t = s THEN S ELSE snark[t]
  OBVIOUS
<1>4. claims' = [t \in Slot |-> IF snark'[t] = None THEN None ELSE claimOf(snark'[t])]
  BY DEF claims
<1>5. \A t \in Slot : claims'[t] = IF t = s THEN claimBy(S, L) ELSE claims[t]
  BY <1>1, <1>2, <1>3, <1>4 DEF claims
<1>. QED BY <1>4, <1>5 DEF claims

LEMMA NextRecords == Shape /\ Records /\ [Next]_vars => Records'
<1> SUFFICES ASSUME Shape, Records, [Next]_vars  PROVE Records'
  OBVIOUS
<1>1. ASSUME NEW s \in Slot, NEW S, Record(S), snark' = [snark EXCEPT ![s] = S]
      PROVE  Records'
  <2>1. \A t \in Slot : snark'[t] = IF t = s THEN S ELSE snark[t]
    BY <1>1 DEF Shape
  <2>. QED BY <1>1, <2>1 DEF Records
<1>2. ASSUME NEW s \in Slot, NEW pp \in PP, NEW z0 \in State, NEW z \in State,
             NEW ok \in BOOLEAN, New(s, pp, z0, z, ok)
      PROVE  Records'
  <2>1. Record(new_snark(pp, z0, z, ok, draws))  BY DEF Record, new_snark
  <2>. QED BY <1>1, <1>2, <2>1 DEF New
<1>3. ASSUME NEW s \in Slot, ProveFirstStep(s)  PROVE Records'
  <2>1. Record(counted(snark[s]))  BY DEF Record, counted
  <2>. QED BY <1>1, <1>3, <2>1 DEF ProveFirstStep
<1>4. ASSUME NEW s \in Slot, NEW pp \in PP, NEW z \in State, NEW ok \in BOOLEAN,
             ProveStep(s, pp, z, ok)
      PROVE  Records'
  <2>1. Record(next_snark(snark[s], pp, z, ok, draws))  BY DEF Record, next_snark
  <2>. QED BY <1>1, <1>4, <2>1 DEF ProveStep
<1>5. ASSUME NEW s \in Slot, NEW t \in Slot, Copy(s, t)  PROVE Records'
  <2>1. Record(snark[s])  BY <1>5 DEF Copy, Records
  <2>. QED BY <1>1, <1>5, <2>1 DEF Copy
<1>6. ASSUME NEW s \in Slot, NEW pp \in PP, Compress(s, pp)  PROVE Records'
  BY <1>6 DEF Compress, Records
<1>7. CASE UNCHANGED vars
  BY <1>7 DEF vars, Records
<1>. QED BY <1>2, <1>3, <1>4, <1>5, <1>6, <1>7 DEF Next

(* Every call is a step of the abstract claims, or none: new starts one,   *)
(* the first prove_step counts it, a good step extends it, any other makes *)
(* it void, and what is void stays so.                                     *)
LEMMA StepRefines ==
    ASSUME IInv, Shape, Records, [Next]_vars
    PROVE  [Claims!Next]_<<claims, publication>>
<1>0. /\ DOMAIN snark = Slot /\ draws \in Nat
      /\ compressed' = compressed => publication' = publication
  BY BoundAssumption DEF Shape, IInv, TypeOK, publication
<1>1. \A s \in Slot : snark[s] # None =>
            /\ Linked(snark[s], log[s]) /\ Record(snark[s])
            /\ claims[s] = claimBy(snark[s], log[s])
  BY ClaimOfLinked DEF IInv, Records, claims
<1>2. ASSUME NEW s \in Slot, NEW pp \in PP, NEW z0 \in State, NEW z \in State,
             NEW ok \in BOOLEAN, New(s, pp, z0, z, ok)
      PROVE  Claims!Start(s)
  <2> DEFINE S == new_snark(pp, z0, z, ok, draws)
             L == <<Executed(pp, z0, z, ok)>>
  <2>1. Linked(S, L)  BY <1>0, NewLinked
  <2>2. Record(S)  BY DEF Record, new_snark
  <2>3. snark' = [snark EXCEPT ![s] = S]  BY <1>2 DEF New
  <2>4. claims' = [claims EXCEPT ![s] = claimBy(S, L)]
    <3> HIDE DEF S, L
    <3>. QED BY <1>0, <2>1, <2>2, <2>3, SlotClaim
  <2>5. S.z0 = z0 /\ S.zi = z /\ S.i = 0 /\ Len(L) = 1 /\ L[1].pp = pp
    BY DEF new_snark, Executed
  <2>6. claimBy(S, L) = Claims!Void \/ claimBy(S, L) = Claims!Claim(pp, z0, 1, z, FALSE)
    <3> HIDE DEF S, L
    <3>. QED BY <2>5 DEF claimBy
  <2>7. publication' = publication  BY <1>0, <1>2 DEF New
  <2>. QED BY <2>4, <2>6, <2>7 DEF Claims!Start, Claims!Set, claims, publication
<1>3. ASSUME NEW s \in Slot, ProveFirstStep(s)
      PROVE  Claims!Count(s) \/ UNCHANGED <<claims, publication>>
  <2> DEFINE S == snark[s]
             L == log[s]
  <2>1. Linked(S, L) /\ S.i = 0 /\ claims[s] = claimBy(S, L)
    BY <1>1, <1>3 DEF ProveFirstStep
  <2>2. Linked(counted(S), L) /\ Record(counted(S))
    BY <2>1, CountLinked DEF Record, counted
  <2>3. claims' = [claims EXCEPT ![s] = claimBy(counted(S), L)]
    BY <1>0, <1>3, <2>2, SlotClaim DEF ProveFirstStep
  <2>4. Len(L) = 1  BY <2>1 DEF Linked, Log
  <2>7. publication' = publication  BY <1>0, <1>3 DEF ProveFirstStep
  <2>5. CASE Clean(L)
    <3>1. claims[s] = Claims!Claim(L[1].pp, S.z0, 1, S.zi, FALSE)
      BY <2>1, <2>4, <2>5 DEF claimBy
    <3>2. claimBy(counted(S), L) = Claims!Claim(L[1].pp, S.z0, 1, S.zi, TRUE)
      <4>1. counted(S).z0 = S.z0 /\ counted(S).zi = S.zi /\ counted(S).i # 0
        BY DEF counted
      <4>. QED BY <2>4, <2>5, <4>1 DEF claimBy
    <3>3. /\ claims[s].kind = "claim" /\ ~claims[s].counted
          /\ claimBy(counted(S), L)
             = Claims!Claim(claims[s].pp, claims[s].z0, 1, claims[s].z, TRUE)
      BY <3>1, <3>2 DEF Claims!Claim
    <3>. QED BY <2>3, <2>7, <3>3 DEF Claims!Count, Claims!Set, claims, publication
  <2>6. CASE ~ Clean(L)
    <3>1. claimBy(counted(S), L) = claims[s]
      BY <2>1, <2>6 DEF claimBy
    <3>. QED BY <2>3, <2>7, <3>1 DEF claims
  <2>. QED BY <2>5, <2>6
<1>4. ASSUME NEW s \in Slot, NEW pp \in PP, NEW z \in State, NEW ok \in BOOLEAN,
             ProveStep(s, pp, z, ok)
      PROVE  Claims!Extend(s) \/ UNCHANGED <<claims, publication>>
  <2> DEFINE S == snark[s]
             L == log[s]
             e == Executed(pp, S.zi, z, ok)
             M == Append(L, e)
             N == next_snark(S, pp, z, ok, draws)
             m == Len(L)
  <2>1. Linked(S, L) /\ S.i # 0 /\ claims[s] = claimBy(S, L)
    BY <1>1, <1>4 DEF ProveStep
  <2>2. Linked(N, M)  BY <1>0, <2>1, StepLinked
  <2>3. Record(N)  BY DEF Record, next_snark
  <2>4. snark' = [snark EXCEPT ![s] = N]  BY <1>4 DEF ProveStep
  <2>5. claims' = [claims EXCEPT ![s] = claimBy(N, M)]
    <3> HIDE DEF N, M
    <3>. QED BY <1>0, <2>2, <2>3, <2>4, SlotClaim
  <2>6. L \in Seq(Step) /\ m \in Nat \ {0} /\ S.i = m /\ S.zi \in State
    <3>1. L \in Seq(Step) /\ m \in Nat \ {0} /\ S.i = m
      BY <2>1 DEF Linked, Log
    <3>2. L[m] \in Step  BY <3>1
    <3>. QED BY <2>1, <3>1, <3>2 DEF Linked, Step
  <2>7. e \in Step /\ e.ok = ok /\ e.pp = pp
    BY <2>6 DEF Step, Executed
  <2>8. Clean(M) <=> Clean(L) /\ ok /\ pp = L[m].pp
    BY <2>6, <2>7, CleanAppend
  <2>9. Len(M) = m + 1 /\ M[m + 1].pp = pp
    BY <2>6, <2>7
  <2>10. N.z0 = S.z0 /\ N.zi = z /\ N.i # 0
    BY <2>6 DEF next_snark
  <2>13. publication' = publication  BY <1>0, <1>4 DEF ProveStep
  <2>11. CASE Clean(M)
    <3>1. claims[s] = Claims!Claim(pp, S.z0, m, S.zi, TRUE)
      BY <2>1, <2>8, <2>11 DEF claimBy
    <3>2. claimBy(N, M) = Claims!Claim(pp, S.z0, m + 1, z, TRUE)
      <4> HIDE DEF N, M
      <4>. QED BY <2>9, <2>10, <2>11 DEF claimBy
    <3>3. /\ claims[s].kind = "claim" /\ claims[s].counted
          /\ claimBy(N, M)
             = Claims!Claim(claims[s].pp, claims[s].z0, claims[s].n + 1, z, TRUE)
      BY <3>1, <3>2 DEF Claims!Claim
    <3> HIDE DEF N, M
    <3>. QED BY <2>5, <2>13, <3>3 DEF Claims!Extend, Claims!Set, claims, publication
  <2>12. CASE ~ Clean(M)
    <3>1. claimBy(N, M) = Claims!Void
      BY <2>12 DEF claimBy
    <3>2. CASE Clean(L)
      <4>1. claims[s] = Claims!Claim(L[m].pp, S.z0, m, S.zi, TRUE)
        BY <2>1, <3>2 DEF claimBy
      <4>2. claims[s].kind = "claim" /\ claims[s].counted
        BY <4>1 DEF Claims!Claim
      <4> HIDE DEF N, M
      <4>. QED BY <2>5, <2>13, <3>1, <4>2 DEF Claims!Extend, Claims!Set, claims, publication
    <3>3. CASE ~ Clean(L)
      <4>1. claims[s] = Claims!Void
        BY <2>1, <3>3 DEF claimBy
      <4> HIDE DEF N, M
      <4>. QED BY <2>5, <2>13, <3>1, <4>1 DEF claims
    <3>. QED BY <3>2, <3>3
  <2>. QED BY <2>11, <2>12
<1>5. ASSUME NEW s \in Slot, NEW t \in Slot, Copy(s, t)
      PROVE  Claims!Copy(s, t)
  <2>1. Linked(snark[s], log[s]) /\ Record(snark[s]) /\ claims[s] = claimBy(snark[s], log[s])
    BY <1>1, <1>5 DEF Copy
  <2>2. claims' = [claims EXCEPT ![t] = claimBy(snark[s], log[s])]
    <3>1. snark' = [snark EXCEPT ![t] = snark[s]]  BY <1>5 DEF Copy
    <3>2. \A S, L : Linked(S, L) /\ Record(S) /\ snark' = [snark EXCEPT ![t] = S]
                     => claims' = [claims EXCEPT ![t] = claimBy(S, L)]
      BY <1>0, SlotClaim
    <3>. QED BY <2>1, <3>1, <3>2
  <2>3. claims[s] # Claims!NoClaim
    BY <2>1 DEF claimBy, Claims!Claim, Claims!Void, Claims!NoClaim
  <2>4. publication' = publication  BY <1>0, <1>5 DEF Copy
  <2>. QED BY <2>1, <2>2, <2>3, <2>4 DEF Claims!Copy, Claims!Set, claims, publication
<1>6. ASSUME NEW s \in Slot, NEW pp \in PP, Compress(s, pp)
      PROVE  Claims!Publish(s)
  <2> DEFINE S == snark[s]
             L == log[s]
             C == compress(S, pp, draws)
  <2>1. Linked(S, L) /\ claims[s] = claimBy(S, L)
    BY <1>1, <1>6 DEF Compress
  <2>2. /\ snark' = snark /\ compressed' = C
        /\ C.kind = "compressed"
    BY <1>6 DEF Compress, compress
  <2>3. claims' = claims  BY <2>2 DEF claims
  <2>4. publication' = claimOfCompressed(C)
    <3> HIDE DEF C
    <3>. QED BY <2>2 DEF publication, None
  <2>5. claims[s] # Claims!NoClaim
    BY <2>1 DEF claimBy, Claims!Claim, Claims!Void, Claims!NoClaim
  <2>6. \/ claimOfCompressed(C) = Claims!Void
        \/ /\ Clean(L)
           /\ claimOfCompressed(C) = Claims!Claim(L[Len(L)].pp, S.z0, Len(L), S.zi, TRUE)
    BY <2>1, PublicationOfLinked
  <2>7. Clean(L) => /\ claims[s].kind = "claim"
                    /\ claims[s].pp = L[Len(L)].pp /\ claims[s].z0 = S.z0
                    /\ claims[s].n = Len(L) /\ claims[s].z = S.zi
    BY <2>1 DEF claimBy, Claims!Claim
  <2> HIDE DEF C, S, L
  <2>. QED BY <2>3, <2>4, <2>5, <2>6, <2>7 DEF Claims!Publish, claims, publication
<1>7. CASE UNCHANGED vars
  BY <1>7 DEF vars, claims, publication
<1>8. CASE Next
  BY <1>2, <1>3, <1>4, <1>5, <1>6, <1>8 DEF Next, Claims!Next
<1>. QED BY <1>7, <1>8

(* Nova's RecursiveSNARK and CompressedSNARK implement the abstract claims:*)
(* a caller's calls, in any order and with any parameters, start, count,   *)
(* extend, copy and publish claims, or make them void for good.            *)
THEOREM SpecIsIncremental == Spec => IsIncremental
<1>1. Init => Claims!Init
  BY DEF Init, Claims!Init, Claims!NoClaim, None
<1>2. Init => IInv /\ Shape /\ Records
  BY InitIInv DEF Init, Records
<1>3. IInv /\ Shape /\ Records /\ [Next]_vars => (IInv /\ Shape /\ Records)'
  BY NextIInv, NextRecords
<1>4. IInv /\ Shape /\ Records /\ [Next]_vars => [Claims!Next]_<<claims, publication>>
  BY StepRefines
<1>. QED BY <1>1, <1>2, <1>3, <1>4, PTL
         DEF Spec, IsIncremental, Claims!Spec, claims, publication
============================================================================
