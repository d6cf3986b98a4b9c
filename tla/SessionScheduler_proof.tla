----------------------- MODULE SessionScheduler_proof -----------------------
(***************************************************************************)
(* Proofs about the scheduling loop for every number of sessions, every    *)
(* batch and context size and every prompt.                                *)
(***************************************************************************)
EXTENDS SessionScheduler, FiniteSets, FiniteSetTheorems, WellFoundedInduction, TLAPS

(***************************************************************************)
(* Sums over a finite set.  Induction is done by looking at a smallest set *)
(* for which a statement fails: strict inclusion of finite sets is well    *)
(* founded, so there is one, and the statement holds of what is smaller.   *)
(***************************************************************************)
Pick(s) == CHOOSE x \in s : TRUE
Sums(f, S) == CHOOSE sum : sum = [s \in SUBSET S |->
                  IF s = {} THEN 0 ELSE f[Pick(s)] + sum[s \ {Pick(s)}]]

(* The fold of the library as a function defined by recursion.             *)
LEMMA SumIsSums == ASSUME NEW f, NEW S PROVE SumFunctionOnSet(f, S) = Sums(f, S)[S]
  BY DEF SumFunctionOnSet, FoldFunctionOnSet, MapThenFoldSet, Sums, Pick

(* The principle of induction.                                             *)
LEMMA SmallestSet ==
  ASSUME NEW S, IsFiniteSet(S), NEW B, B \subseteq SUBSET S, B # {}
  PROVE  \E T \in B : \A U \in B : U \subseteq T => U = T
<1>1. IsWellFoundedOn(StrictSubsetOrdering(S), SUBSET S)
  BY FS_StrictSubsetOrderingWellFounded, FS_FiniteSubsetsOfFinite
<1>2. \E T \in B : \A U \in B : ~ (<<U, T>> \in StrictSubsetOrdering(S))
  BY <1>1, WFMin
<1> QED BY <1>2 DEF StrictSubsetOrdering

(* The equation that the summation is meant to satisfy.                    *)
Adds(f, h, S) == h = [s \in SUBSET S |->
                        IF s = {} THEN 0 ELSE f[Pick(s)] + h[s \ {Pick(s)}]]

LEMMA AddsStep ==
  ASSUME NEW f, NEW h, NEW S, Adds(f, h, S), NEW s \in SUBSET S
  PROVE  h[s] = IF s = {} THEN 0 ELSE f[Pick(s)] + h[s \ {Pick(s)}]
<1> DEFINE g == [u \in SUBSET S |->
                   IF u = {} THEN 0 ELSE f[Pick(u)] + h[u \ {Pick(u)}]]
<1>1. h = g
  BY DEF Adds
<1>2. g[s] = IF s = {} THEN 0 ELSE f[Pick(s)] + h[s \ {Pick(s)}]
  OBVIOUS
<1> HIDE DEF g
<1> QED BY <1>1, <1>2

LEMMA PickIn == \A s : s # {} => Pick(s) \in s
  BY DEF Pick

(* Two summations agree where both are defined.                            *)
LEMMA AddsUnique ==
  ASSUME NEW f, NEW S, IsFiniteSet(S), NEW T, NEW g, NEW h,
         Adds(f, g, S), Adds(f, h, T), T \subseteq S
  PROVE  g[T] = h[T]
<1> DEFINE B == {s \in SUBSET T : g[s] # h[s]}
<1> SUFFICES B = {}
  OBVIOUS
<1>1. SUFFICES ASSUME B # {} PROVE FALSE
  OBVIOUS
<1>2. IsFiniteSet(T)
  BY FS_Subset
<1>3. B \subseteq SUBSET T
  OBVIOUS
<1> HIDE DEF B
<1>4. PICK s \in B : \A u \in B : u \subseteq s => u = s
  BY <1>1, <1>2, <1>3, SmallestSet
<1> USE DEF B
<1>5. g[s] = IF s = {} THEN 0 ELSE f[Pick(s)] + g[s \ {Pick(s)}]
  BY AddsStep
<1>6. h[s] = IF s = {} THEN 0 ELSE f[Pick(s)] + h[s \ {Pick(s)}]
  BY AddsStep
<1>7. s # {}
  BY <1>5, <1>6
<1>8. s \ {Pick(s)} \notin B
  BY <1>4, <1>7, PickIn
<1> QED BY <1>5, <1>6, <1>8

(* There is a summation, so the CHOOSE above finds it: the one of a set is *)
(* put together from those of the smaller sets.                            *)
LEMMA AddsExists ==
  ASSUME NEW f, NEW S, IsFiniteSet(S)
  PROVE  Adds(f, Sums(f, S), S)
<1> DEFINE B == {T \in SUBSET S : ~ \E h : Adds(f, h, T)}
<1> SUFFICES B = {}
  <2>1. S \notin B
    OBVIOUS
  <2>2. \E h : Adds(f, h, S)
    BY <2>1
  <2> QED BY <2>2 DEF Sums, Adds
<1>1. SUFFICES ASSUME B # {} PROVE FALSE
  OBVIOUS
<1>0. B \subseteq SUBSET S
  OBVIOUS
<1> HIDE DEF B
<1>2. PICK T \in B : \A U \in B : U \subseteq T => U = T
  BY <1>0, <1>1, SmallestSet
<1> USE DEF B
<1> DEFINE H(U) == CHOOSE h : Adds(f, h, U)
           Sum(s) == IF s = {} THEN 0 ELSE f[Pick(s)] + H(s \ {Pick(s)})[s \ {Pick(s)}]
           g == [s \in SUBSET T |-> Sum(s)]
<1>3. ASSUME NEW U \in SUBSET T, U # T PROVE Adds(f, H(U), U)
  BY <1>2, <1>3
<1>4. ASSUME NEW U \in SUBSET T, U # T PROVE H(U)[U] = Sum(U)
  <2>1. Adds(f, H(U), U)
    BY <1>3, <1>4
  <2> HIDE DEF H
  <2>2. CASE U = {}
    BY <2>1, <2>2, AddsStep
  <2>3. CASE U # {}
    <3> DEFINE V == U \ {Pick(U)}
    <3>1. V \subseteq U /\ V # T /\ V \subseteq T
      BY <1>4, <2>3, PickIn
    <3>2. Adds(f, H(V), V)
      BY <1>3, <3>1
    <3>3. IsFiniteSet(U)
      BY FS_Subset
    <3>4. H(U)[V] = H(V)[V]
      BY <2>1, <3>1, <3>2, <3>3, AddsUnique
    <3>5. H(U)[U] = f[Pick(U)] + H(U)[V]
      BY <2>1, <2>3, AddsStep
    <3> QED BY <2>3, <3>4, <3>5
  <2> QED BY <2>2, <2>3
<1>5. ASSUME NEW s \in SUBSET T
      PROVE  g[s] = IF s = {} THEN 0 ELSE f[Pick(s)] + g[s \ {Pick(s)}]
  <2>1. CASE s = {}
    BY <2>1
  <2>2. CASE s # {}
    <3> DEFINE U == s \ {Pick(s)}
    <3>1. U \in SUBSET T /\ U # T
      BY <2>2, PickIn
    <3>2. H(U)[U] = Sum(U)
      BY <1>4, <3>1
    <3>3. g[U] = Sum(U) /\ g[s] = Sum(s)
      BY <3>1
    <3>4. Sum(s) = f[Pick(s)] + H(U)[U]
      BY <2>2
    <3> HIDE DEF Sum, g, U, H
    <3>5. g[s] = f[Pick(s)] + g[U]
      BY <3>2, <3>3, <3>4
    <3> QED BY <2>2, <3>5 DEF U
  <2> QED BY <2>1, <2>2
<1>6. Adds(f, g, T)
  <2> DEFINE step == [s \in SUBSET T |-> IF s = {} THEN 0 ELSE f[Pick(s)] + g[s \ {Pick(s)}]]
  <2>1. \A s \in SUBSET T : g[s] = step[s]
    BY <1>5
  <2>2. g = step
    BY <2>1
  <2> HIDE DEF g
  <2> QED BY <2>2 DEF Adds
<1> QED BY <1>2, <1>6

(* The sum of f over S, and that its order does not matter.                *)
Total(f, S) == SumFunctionOnSet(f, S)

LEMMA TotalStep ==
  ASSUME NEW f, NEW S, IsFiniteSet(S)
  PROVE  Total(f, S) = IF S = {} THEN 0 ELSE f[Pick(S)] + Total(f, S \ {Pick(S)})
<1> DEFINE T == S \ {Pick(S)}
<1>1. Adds(f, Sums(f, S), S)
  BY AddsExists
<1>2. Sums(f, S)[S] = IF S = {} THEN 0 ELSE f[Pick(S)] + Sums(f, S)[T]
  BY <1>1, AddsStep
<1>3. IsFiniteSet(T) /\ T \subseteq S
  BY FS_Subset
<1>4. Adds(f, Sums(f, T), T)
  BY <1>3, AddsExists
<1>5. Sums(f, S)[T] = Sums(f, T)[T]
  BY <1>1, <1>3, <1>4, AddsUnique
<1> QED BY <1>2, <1>5, SumIsSums DEF Total

LEMMA TotalNat ==
  ASSUME NEW S, IsFiniteSet(S), NEW f, \A x \in S : f[x] \in Nat
  PROVE  Total(f, S) \in Nat
<1> DEFINE B == {T \in SUBSET S : Total(f, T) \notin Nat}
<1> SUFFICES ASSUME B # {} PROVE FALSE
  OBVIOUS
<1>1. B \subseteq SUBSET S
  OBVIOUS
<1> HIDE DEF B
<1>2. PICK T \in B : \A U \in B : U \subseteq T => U = T
  BY <1>1, SmallestSet
<1> USE DEF B
<1>3. IsFiniteSet(T)
  BY FS_Subset
<1>4. Total(f, T) = IF T = {} THEN 0 ELSE f[Pick(T)] + Total(f, T \ {Pick(T)})
  BY <1>3, TotalStep
<1>5. T # {}
  BY <1>4
<1>6. T \ {Pick(T)} \notin B /\ f[Pick(T)] \in Nat
  BY <1>2, <1>5, PickIn
<1>7. Total(f, T \ {Pick(T)}) \in Nat
  BY <1>6
<1> QED BY <1>4, <1>5, <1>6, <1>7

LEMMA TotalWithout ==
  ASSUME NEW S, IsFiniteSet(S), NEW f, \A x \in S : f[x] \in Nat, NEW x \in S
  PROVE  Total(f, S) = f[x] + Total(f, S \ {x})
<1> DEFINE B == {T \in SUBSET S : \E y \in T : Total(f, T) # f[y] + Total(f, T \ {y})}
<1> SUFFICES ASSUME B # {} PROVE FALSE
  OBVIOUS
<1>1. B \subseteq SUBSET S
  OBVIOUS
<1> HIDE DEF B
<1>2. PICK T \in B : \A U \in B : U \subseteq T => U = T
  BY <1>1, SmallestSet
<1> USE DEF B
<1>3. PICK y \in T : Total(f, T) # f[y] + Total(f, T \ {y})
  OBVIOUS
<1> DEFINE z == Pick(T)
           U == T \ {z}
           V == T \ {y}
           W == (T \ {y}) \ {z}
<1>4. IsFiniteSet(T) /\ IsFiniteSet(W) /\ W = U \ {y}
  BY FS_Subset
<1>5. z \in T /\ Total(f, T) = f[z] + Total(f, U)
  BY <1>4, PickIn, TotalStep
<1>6. z # y
  BY <1>3, <1>5
<1>7. U \notin B /\ V \notin B /\ y \in U /\ z \in V /\ U \in SUBSET S /\ V \in SUBSET S
  BY <1>2, <1>5, <1>6
<1>8. Total(f, U) = f[y] + Total(f, W) /\ Total(f, V) = f[z] + Total(f, W)
  BY <1>4, <1>7
<1>9. Total(f, W) \in Nat /\ f[y] \in Nat /\ f[z] \in Nat
  BY <1>4, <1>5, TotalNat
<1> HIDE DEF U, V, W, z
<1> QED BY <1>3, <1>5, <1>8, <1>9 DEF V

LEMMA TotalSame ==
  ASSUME NEW S, IsFiniteSet(S), NEW f, NEW g, \A x \in S : f[x] = g[x]
  PROVE  Total(f, S) = Total(g, S)
<1> DEFINE B == {T \in SUBSET S : Total(f, T) # Total(g, T)}
<1> SUFFICES ASSUME B # {} PROVE FALSE
  OBVIOUS
<1>1. B \subseteq SUBSET S
  OBVIOUS
<1> HIDE DEF B
<1>2. PICK T \in B : \A U \in B : U \subseteq T => U = T
  BY <1>1, SmallestSet
<1> USE DEF B
<1>3. IsFiniteSet(T)
  BY FS_Subset
<1>4. /\ Total(f, T) = IF T = {} THEN 0 ELSE f[Pick(T)] + Total(f, T \ {Pick(T)})
      /\ Total(g, T) = IF T = {} THEN 0 ELSE g[Pick(T)] + Total(g, T \ {Pick(T)})
  BY <1>3, TotalStep
<1>5. T # {}
  BY <1>4
<1>6. T \ {Pick(T)} \notin B /\ Pick(T) \in S
  BY <1>2, <1>5, PickIn
<1>7. Total(f, T \ {Pick(T)}) = Total(g, T \ {Pick(T)})
  BY <1>6
<1> QED BY <1>4, <1>5, <1>6, <1>7

LEMMA TotalZero ==
  ASSUME NEW S, IsFiniteSet(S), NEW f, \A x \in S : f[x] = 0
  PROVE  Total(f, S) = 0
<1> DEFINE B == {T \in SUBSET S : Total(f, T) # 0}
<1> SUFFICES ASSUME B # {} PROVE FALSE
  OBVIOUS
<1>1. B \subseteq SUBSET S
  OBVIOUS
<1> HIDE DEF B
<1>2. PICK T \in B : \A U \in B : U \subseteq T => U = T
  BY <1>1, SmallestSet
<1> USE DEF B
<1>3. IsFiniteSet(T)
  BY FS_Subset
<1>4. Total(f, T) = IF T = {} THEN 0 ELSE f[Pick(T)] + Total(f, T \ {Pick(T)})
  BY <1>3, TotalStep
<1>5. T # {}
  BY <1>4
<1>6. T \ {Pick(T)} \notin B /\ Pick(T) \in S
  BY <1>2, <1>5, PickIn
<1>7. Total(f, T \ {Pick(T)}) = 0 /\ f[Pick(T)] = 0
  BY <1>6
<1> QED BY <1>4, <1>5, <1>7

LEMMA TotalRaised ==
  ASSUME NEW S, IsFiniteSet(S), NEW f \in [S -> Nat], NEW x \in S, NEW n \in Nat
  PROVE  Total([f EXCEPT ![x] = @ + n], S) = Total(f, S) + n
<1> DEFINE g == [f EXCEPT ![x] = @ + n]
<1>1. Total(f, S) = f[x] + Total(f, S \ {x})
  BY TotalWithout
<1>2. \A y \in S : g[y] \in Nat
  OBVIOUS
<1> HIDE DEF g
<1>3. Total(g, S) = g[x] + Total(g, S \ {x})
  BY <1>2, TotalWithout
<1> USE DEF g
<1>4. IsFiniteSet(S \ {x})
  BY FS_Subset
<1>5. Total(f, S \ {x}) = Total(g, S \ {x})
  BY <1>4, TotalSame
<1>6. Total(f, S \ {x}) \in Nat
  BY <1>4, TotalNat
<1> QED BY <1>1, <1>3, <1>5, <1>6

(* The size of a prompt is a number.                                       *)
LEMMA SizeTyped == ASSUME NEW items \in Seq(Item) PROVE SizeOf(items) \in Nat
<1> DEFINE f == [j \in DOMAIN items |-> items[j].left]
<1>1. DOMAIN items = 1 .. Len(items) /\ Len(items) \in Nat
  OBVIOUS
<1>2. IsFiniteSet(DOMAIN items)
  BY <1>1, FS_Interval
<1>3. \A j \in DOMAIN items : f[j] \in Nat
  <2> SUFFICES ASSUME NEW j \in DOMAIN items PROVE items[j].left \in Nat
    OBVIOUS
  <2>1. items[j] \in Item
    BY <1>1
  <2> QED BY <2>1 DEF Item
<1>4. DOMAIN f = DOMAIN items
  OBVIOUS
<1> HIDE DEF f
<1>5. Total(f, DOMAIN items) \in Nat
  BY <1>2, <1>3, TotalNat
<1> QED BY <1>4, <1>5 DEF SizeOf, SumFunction, Total, f

-----------------------------------------------------------------------------

(***************************************************************************)
(* The inductive invariant.  That a session is visited once per pass       *)
(* (BatchOK) is what makes its cells end at nPos when the shift runs.      *)
(***************************************************************************)
BatchOK ==
    /\ at # "fill" => batch = NoBatch /\ logits = {} /\ used = 0
    /\ \A i \in Sess :
          batch[i] > 0 => /\ status[i] = "generating"
                          /\ \E j \in 0 .. k - 1 : i = After(start, j)
    /\ \A i \in Sess : /\ batch[i] <= nPos[i]
                       /\ i \in logits => batch[i] > 0
                       /\ batch[i] > 0 => used > 0
    /\ used <= NBatch

(* Without a vision model there are only tokens, and those of a prompt     *)
(* fit; a sampled one may need a shift first.                              *)
RoomForPending ==
    ~vision => /\ pass = "token" /\ called = {}
               /\ \A i \in Sess : nKeep[i] + 2 <= NCtx =>
                     Len(pending[i]) <= 1 \/ nPos[i] + Len(pending[i]) <= NCtx

PositionsOK == PositionsFollow /\ NoPositionTwice

IInv ==
    /\ TypeOK /\ BatchOK /\ PositionsOK /\ GeneratingHasWork
    /\ WithinContext /\ RoomForPending

-----------------------------------------------------------------------------
LEMMA AfterInSess ==
  ASSUME NEW x \in Sess, NEW d \in 0 .. N - 1
  PROVE  After(x, d) \in Sess
  BY SizeAssumption DEF After, Sess

(* Two iterations of one pass visit two sessions.                          *)
LEMMA VisitsDiffer ==
  ASSUME NEW x \in Sess, NEW d \in 0 .. N - 1, NEW j \in 0 .. d - 1
  PROVE  After(x, d) # After(x, j)
  BY SizeAssumption DEF After, Sess

LEMMA VisitedInSess == TypeOK /\ Filling => Visited \in Sess
  BY AfterInSess, SizeAssumption DEF TypeOK, Filling, Visited

LEMMA VisitedIsNew == TypeOK /\ BatchOK /\ Filling => batch[Visited] = 0
<1> SUFFICES ASSUME TypeOK, BatchOK, Filling PROVE batch[Visited] = 0
  OBVIOUS
<1>1. Visited \in Sess /\ batch[Visited] \in Nat
  BY VisitedInSess DEF TypeOK
<1>2. start \in Sess /\ k \in 0 .. N - 1
  BY SizeAssumption DEF TypeOK, Filling
<1>3. ASSUME batch[Visited] > 0 PROVE FALSE
  BY <1>1, <1>2, <1>3, VisitsDiffer DEF BatchOK, Visited
<1> QED
  BY <1>1, <1>3

(* The shift leaves the kept prefix alone and removes what is there.       *)
LEMMA ShiftBounds ==
  ASSUME NEW i \in Sess, TypeOK
  PROVE  /\ ShiftOf(i) \in Nat
         /\ ShiftOf(i) > 0 => nKeep[i] + ShiftOf(i) <= nPos[i]
         /\ (nPos[i] >= NCtx /\ nKeep[i] + 2 <= nPos[i]) => ShiftOf(i) > 0
<1> DEFINE n == nPos[i] - nKeep[i]
<1>1. nPos[i] \in Nat /\ nKeep[i] \in Nat /\ n \in Int
  BY DEF TypeOK
<1>2. Half(n) \in Int /\ (Half(n) > 0 => Half(n) <= n) /\ (n >= 2 => Half(n) > 0)
  BY <1>1 DEF Half
<1> QED
  BY <1>1, <1>2, SizeAssumption DEF ShiftOf

(* Cells that go up to m without a gap still do after a shift by s.        *)
LEMMA ShiftedCells ==
  ASSUME NEW i \in Sess, TypeOK, NEW s \in Nat \ {0}, nKeep[i] + s <= nPos[i]
  PROVE  /\ cells[i] = 0 .. nPos[i] - 1 => Shifted(i, s) = 0 .. nPos[i] - s - 1
         /\ (\A p \in cells[i] : p < nPos[i]) => \A p \in Shifted(i, s) : p < nPos[i] - s
         /\ Shifted(i, s) \in SUBSET Nat
<1>1. nPos[i] \in Nat /\ nKeep[i] \in Nat /\ cells[i] \in SUBSET Nat
  BY DEF TypeOK
<1>2. ASSUME cells[i] = 0 .. nPos[i] - 1, NEW p \in 0 .. nPos[i] - s - 1
      PROVE  p \in Shifted(i, s)
  <2>1. CASE p < nKeep[i]
    BY <1>1, <1>2, <2>1 DEF Shifted
  <2>2. CASE p >= nKeep[i]
    <3>1. p + s \in cells[i] /\ p + s >= nKeep[i] + s /\ p = (p + s) - s
      BY <1>1, <1>2, <2>2
    <3> QED
      BY <3>1 DEF Shifted
  <2> QED
    BY <1>1, <2>1, <2>2
<1>3. ASSUME cells[i] = 0 .. nPos[i] - 1, NEW p \in Shifted(i, s)
      PROVE  p \in 0 .. nPos[i] - s - 1
  BY <1>1, <1>3 DEF Shifted
<1>4. ASSUME \A p \in cells[i] : p < nPos[i], NEW p \in Shifted(i, s)
      PROVE  p < nPos[i] - s
  BY <1>1, <1>4 DEF Shifted
<1>5. Shifted(i, s) \in SUBSET Nat
  BY <1>1 DEF Shifted
<1> QED
  BY <1>2, <1>3, <1>4, <1>5

-----------------------------------------------------------------------------
LEMMA InitIInv == Init => IInv
<1> SUFFICES ASSUME Init PROVE IInv
  OBVIOUS
<1>1. 0 \in Sess
  BY SizeAssumption DEF Sess
<1>2. TypeOK
  BY <1>1, SizeAssumption DEF Init, TypeOK, NoBatch
<1>3. BatchOK
  BY SizeAssumption DEF Init, BatchOK, NoBatch
<1>4. PositionsOK
  BY DEF Init, PositionsOK, PositionsFollow, NoPositionTwice, NoBatch
<1>5. GeneratingHasWork
  BY DEF Init, GeneratingHasWork
<1>6. WithinContext /\ RoomForPending
  BY SizeAssumption DEF Init, WithinContext, RoomForPending
<1> QED
  BY <1>2, <1>3, <1>4, <1>5, <1>6 DEF IInv

(* What Fill puts in the batch: at least one token, at most what fits.     *)
LEMMA FillPuts ==
  ASSUME TypeOK, Fill
  PROVE  \E n \in Nat \ {0}, rest \in Seq(Item) :
            /\ n <= NBatch - used
            /\ pass = "token" => Len(rest) = Len(pending[Visited]) - n
            /\ Put(Visited, n, rest)
<1> DEFINE i == Visited
<1>1. /\ i \in Sess /\ used \in Nat /\ used < NBatch
      /\ pending[i] \in Seq(Item) /\ pending[i] # <<>>
  BY VisitedInSess DEF TypeOK, Fill, Filling, Fillable
<1>2. Quota(i) \in Nat \ {0} /\ Quota(i) <= NBatch - used
  BY <1>1, SizeAssumption DEF Quota, MinOf, SessionCap
<1>3. CASE pass = "token"
  <2>1. PICK n \in Leads(i) : Put(i, n, SubSeq(pending[i], n + 1, Len(pending[i])))
    BY <1>3 DEF Fill
  <2>2. n \in 1 .. MinOf(Quota(i), Len(pending[i]))
    BY <2>1 DEF Leads, Prefixes
  <2>3. n \in Nat \ {0} /\ n <= Quota(i) /\ n <= Len(pending[i])
    BY <1>1, <1>2, <2>2 DEF MinOf
  <2> DEFINE rest == SubSeq(pending[i], n + 1, Len(pending[i]))
  <2>4. rest \in Seq(Item) /\ Len(rest) = Len(pending[i]) - n
    BY <1>1, <2>3
  <2>5. n <= NBatch - used /\ Put(i, n, rest)
    BY <1>1, <1>2, <2>1, <2>3, SizeAssumption
  <2> HIDE DEF rest
  <2> QED
    BY <2>3, <2>4, <2>5 DEF i
<1>4. CASE pass # "token"
  <2> DEFINE n == MinOf(Quota(i), pending[i][1].left)
  <2>1. pending[i][1] \in Item
    BY <1>1
  <2>2. n \in Nat \ {0} /\ n <= Quota(i) /\ n <= pending[i][1].left
    BY <1>2, <2>1 DEF MinOf, Item
  <2>3. Taken(i, n) \in Seq(Item)
    <3>1. CASE pending[i][1].left = n
      BY <1>1, <3>1 DEF Taken
    <3>2. CASE pending[i][1].left # n
      <4>1. [pending[i][1] EXCEPT !.left = @ - n] \in Item
        BY <2>1, <2>2, <3>2 DEF Item
      <4> DEFINE q == [pending[i] EXCEPT ![1] = [pending[i][1] EXCEPT !.left = @ - n]]
      <4>2. q \in Seq(Item)
        BY <1>1, <4>1
      <4> QED
        BY <3>2, <4>2 DEF Taken
    <3> QED
      BY <3>1, <3>2
  <2>4. n <= NBatch - used /\ Put(i, n, Taken(i, n))
    BY <1>1, <1>2, <1>4, <2>2, SizeAssumption DEF Fill
  <2> HIDE DEF n
  <2> QED
    BY <1>4, <2>2, <2>3, <2>4
<1> QED
  BY <1>3, <1>4

-----------------------------------------------------------------------------
(* n of l pending tokens go to the context, which is shifted by s first.   *)
LEMMA RoomArithmetic ==
  \A pos, s, l, c \in Nat, n \in Nat \ {0} :
     (pos <= c /\ n <= l /\ (l <= 1 \/ pos + l <= c) /\ (pos = c => s > 0))
     => pos - s + n <= c /\ (l - n <= 1 \/ pos - s + n + (l - n) <= c)
  OBVIOUS

LEMMA FillStep == IInv /\ Fill => IInv'
<1> SUFFICES ASSUME IInv, Fill PROVE IInv'
  OBVIOUS
<1> USE DEF IInv
<1> DEFINE i == Visited
           s == ShiftOf(i)
<1>1. /\ i \in Sess /\ Filling /\ batch[i] = 0 /\ status[i] = "generating"
      /\ start \in Sess /\ k \in 0 .. N - 1 /\ at = "fill"
  <2>1. Filling /\ status[i] = "generating"
    BY DEF Fill
  <2>2. i \in Sess /\ batch[i] = 0
    BY <2>1, VisitedInSess, VisitedIsNew
  <2>3. start \in Sess /\ k \in 0 .. N - 1 /\ at = "fill"
    BY <2>1, SizeAssumption DEF Filling, TypeOK
  <2> QED
    BY <2>1, <2>2, <2>3
<1>2. PICK n \in Nat \ {0}, rest \in Seq(Item) :
          /\ n <= NBatch - used
          /\ pass = "token" => Len(rest) = Len(pending[i]) - n
          /\ Put(i, n, rest)
  BY FillPuts
<1>3. /\ s \in Nat /\ (s > 0 => nKeep[i] + s <= nPos[i])
      /\ (nPos[i] >= NCtx /\ nKeep[i] + 2 <= nPos[i]) => s > 0
  BY <1>1, ShiftBounds
<1>4. s > 0 =>
        /\ cells[i] = 0 .. nPos[i] - 1 => Shifted(i, s) = 0 .. nPos[i] - s - 1
        /\ (\A p \in cells[i] : p < nPos[i]) => \A p \in Shifted(i, s) : p < nPos[i] - s
        /\ Shifted(i, s) \in SUBSET Nat
  BY <1>1, <1>3, ShiftedCells
<1> HIDE DEF i, s
<1>5. /\ nPos[i] \in Nat /\ nKeep[i] \in Nat /\ used \in Nat /\ nPos[i] - s \in Nat
      /\ pending[i] \in Seq(Item) /\ pending[i] # <<>>
  BY <1>1, <1>3 DEF TypeOK, i, Fill, Fillable
<1>6. /\ pending' = [pending EXCEPT ![i] = rest]
      /\ nPos' = [nPos EXCEPT ![i] = @ - s + n]
      /\ cells' = [cells EXCEPT ![i] = IF s > 0 THEN Shifted(i, s) ELSE @]
      /\ batch' = [batch EXCEPT ![i] = @ + n]
      /\ used' = used + n
      /\ logits' = IF rest = <<>> THEN logits \cup {i} ELSE logits
  BY <1>2 DEF Put, s, WantsLogits
<1>7. /\ UNCHANGED <<status, nKeep, gap, called, start, vision, signal, at, pass>>
      /\ last' = i /\ k' = k + 1 /\ didWork' = TRUE
  BY DEF Fill, i
<1>8. TypeOK'
  <2>1. pending' \in [Sess -> Seq(Item)] /\ logits' \in SUBSET Sess
    BY <1>1, <1>2, <1>6 DEF TypeOK
  <2>2. nPos' \in [Sess -> Nat]
    <3>1. nPos[i] - s + n \in Nat
      BY <1>2, <1>5
    <3> QED
      BY <1>1, <1>6, <3>1 DEF TypeOK
  <2>3. batch' \in [Sess -> Nat] /\ used' \in Nat
    BY <1>1, <1>2, <1>5, <1>6 DEF TypeOK
  <2>4. cells' \in [Sess -> SUBSET Nat]
    <3>1. (IF s > 0 THEN Shifted(i, s) ELSE cells[i]) \in SUBSET Nat
      BY <1>1, <1>4 DEF TypeOK
    <3> QED
      BY <1>1, <1>6, <3>1 DEF TypeOK
  <2>5. k' \in 0 .. N
    BY <1>1, <1>7, SizeAssumption
  <2> QED
    BY <1>1, <1>7, <2>1, <2>2, <2>3, <2>4, <2>5 DEF TypeOK
<1>9. BatchOK'
  <2>1. i = After(start, k)
    BY DEF i, Visited
  <2>2. \A x \in Sess : batch'[x] > 0 =>
            status'[x] = "generating" /\ \E j \in 0 .. k' - 1 : x = After(start', j)
    <3> SUFFICES ASSUME NEW x \in Sess, batch'[x] > 0
                 PROVE  status'[x] = "generating" /\ \E j \in 0 .. k' - 1 : x = After(start', j)
      OBVIOUS
    <3>1. k \in 0 .. k' - 1 /\ 0 .. k - 1 \subseteq 0 .. k' - 1
      BY <1>1, <1>7, SizeAssumption
    <3>2. After(start', k) = After(start, k) /\ \A j : After(start', j) = After(start, j)
      BY <1>7 DEF After
    <3>3. CASE x = i
      BY <1>1, <1>7, <2>1, <3>1, <3>2, <3>3
    <3>4. CASE x # i
      <4>1. batch[x] > 0
        BY <1>6, <3>4 DEF TypeOK
      <4> QED
        BY <1>7, <3>1, <3>2, <4>1 DEF BatchOK
    <3> QED
      BY <3>3, <3>4
  <2>3. \A x \in Sess : batch'[x] <= nPos'[x]
    BY <1>1, <1>2, <1>3, <1>5, <1>6 DEF BatchOK, TypeOK
  <2>4. used' <= NBatch /\ used' > 0
    BY <1>2, <1>5, <1>6, SizeAssumption
  <2>5. \A x \in Sess : x \in logits' => batch'[x] > 0
    BY <1>1, <1>2, <1>6 DEF BatchOK, TypeOK
  <2> QED
    BY <1>1, <1>7, <2>2, <2>3, <2>4, <2>5 DEF BatchOK
<1>10. PositionsOK'
  <2>1. \A x \in Sess \ {i} :
          cells'[x] = cells[x] /\ nPos'[x] = nPos[x] /\ batch'[x] = batch[x] /\ gap'[x] = gap[x]
    BY <1>6, <1>7 DEF TypeOK
  <2>2. cells'[i] = (IF s > 0 THEN Shifted(i, s) ELSE cells[i]) /\ gap'[i] = gap[i]
    BY <1>1, <1>6, <1>7 DEF TypeOK
  <2>3. nPos'[i] - batch'[i] = nPos[i] - s
    BY <1>1, <1>2, <1>3, <1>5, <1>6 DEF TypeOK
  <2>4. (~gap[i] => cells[i] = 0 .. nPos[i] - 1) /\ \A p \in cells[i] : p < nPos[i]
    BY <1>1, <1>5 DEF PositionsOK, PositionsFollow, NoPositionTwice
  <2>5. (~gap'[i] => cells'[i] = 0 .. nPos'[i] - batch'[i] - 1)
        /\ \A p \in cells'[i] : p < nPos'[i] - batch'[i]
    BY <1>3, <1>4, <1>5, <2>2, <2>3, <2>4
  <2> QED
    BY <2>1, <2>5 DEF PositionsOK, PositionsFollow, NoPositionTwice
<1>11. GeneratingHasWork'
  BY <1>1, <1>2, <1>5, <1>6, <1>7 DEF GeneratingHasWork, TypeOK
<1>12. WithinContext' /\ RoomForPending'
  <2>1. ASSUME ~vision, nKeep[i] + 2 <= NCtx
        PROVE  nPos'[i] <= NCtx /\ (Len(rest) <= 1 \/ nPos'[i] + Len(rest) <= NCtx)
    <3>1. nPos[i] <= NCtx /\ Len(rest) = Len(pending[i]) - n /\ Len(pending[i]) \in Nat
      BY <1>1, <1>2, <1>5, <2>1 DEF WithinContext, RoomForPending
    <3>2. Len(pending[i]) <= 1 \/ nPos[i] + Len(pending[i]) <= NCtx
      BY <1>1, <2>1 DEF RoomForPending
    <3>3. nPos'[i] = nPos[i] - s + n /\ Len(rest) \in Nat
      BY <1>1, <1>2, <1>6 DEF TypeOK
    <3>4. nPos[i] = NCtx => s > 0
      BY <1>3, <1>5, <2>1, SizeAssumption
    <3>5. n <= Len(pending[i]) /\ NCtx \in Nat /\ nPos[i] \in Nat /\ s \in Nat
      BY <1>3, <1>5, <3>1, <3>3, SizeAssumption
    <3>6. /\ nPos[i] - s + n <= NCtx
          /\ \/ Len(pending[i]) - n <= 1
             \/ nPos[i] - s + n + (Len(pending[i]) - n) <= NCtx
      BY <3>1, <3>2, <3>4, <3>5, RoomArithmetic
    <3> QED
      BY <3>1, <3>3, <3>6
  <2>2. pending'[i] = rest /\ \A x \in Sess \ {i} : pending'[x] = pending[x] /\ nPos'[x] = nPos[x]
    BY <1>1, <1>6 DEF TypeOK
  <2> QED
    BY <1>7, <2>1, <2>2 DEF WithinContext, RoomForPending
<1> QED
  BY <1>8, <1>9, <1>10, <1>11, <1>12

-----------------------------------------------------------------------------
(* The application runs while the batch is empty.                          *)
LEMMA YieldedFacts ==
  ASSUME IInv, Yielded
  PROVE  /\ at # "fill" /\ batch = NoBatch /\ logits = {} /\ used = 0
         /\ \A i \in Sess : batch[i] = 0
  BY DEF IInv, BatchOK, Yielded, NoBatch

LEMMA TokensTyped ==
  ASSUME NEW n \in Nat
  PROVE  Tokens(n) \in Seq(Item) /\ Len(Tokens(n)) = n
<1>1. Token \in Item
  BY DEF Token, Item
<1>2. Tokens(n) \in [1 .. n -> Item]
  BY <1>1 DEF Tokens
<1> QED
  BY <1>2 DEF Tokens

(* A cleared history starts at position 0, any other where it was.         *)
LEMMA ClearFacts ==
  ASSUME IInv, Yielded, NEW i \in Sess, NEW clear \in BOOLEAN, Clear(i, clear),
         UNCHANGED batch
  PROVE  /\ nPos' \in [Sess -> Nat] /\ cells' \in [Sess -> SUBSET Nat]
         /\ gap' \in [Sess -> BOOLEAN]
         /\ PositionsOK'
         /\ \A x \in Sess : nPos'[x] = nPos[x] \/ (x = i /\ nPos'[x] = 0)
<1> USE DEF IInv
<1>1. \A x \in Sess : batch[x] = 0
  BY YieldedFacts
<1>2. CASE clear
  <2>1. /\ nPos' = [nPos EXCEPT ![i] = 0] /\ cells' = [cells EXCEPT ![i] = {}]
        /\ gap' = [gap EXCEPT ![i] = FALSE]
    BY <1>2 DEF Clear
  <2>2. PositionsOK'
    BY <1>1, <2>1 DEF PositionsOK, PositionsFollow, NoPositionTwice, TypeOK
  <2> QED
    BY <2>1, <2>2 DEF TypeOK
<1>3. CASE ~clear
  BY <1>3 DEF Clear, TypeOK, PositionsOK, PositionsFollow, NoPositionTwice
<1> QED
  BY <1>2, <1>3

(* What both requests leave as it is.                                      *)
LEMMA RequestKeeps ==
  ASSUME IInv, Yielded, NEW i \in Sess, NEW clear \in BOOLEAN, Clear(i, clear),
         UNCHANGED <<turn, vision, last, at, pass, didWork>>,
         status' \in [Sess -> {"ready", "generating", "error"}],
         pending' \in [Sess -> Seq(Item)],
         nKeep' \in [Sess -> Nat], signal' \in BOOLEAN, called' \in SUBSET Sess,
         \A x \in Sess \ {i} : x \in called => x \in called',
         \A x \in Sess \ {i} : /\ status'[x] = status[x]
                               /\ pending'[x] = pending[x] /\ nKeep'[x] = nKeep[x],
         status'[i] = "generating" => pending'[i] # <<>> \/ i \in called'
  PROVE  TypeOK' /\ BatchOK' /\ PositionsOK' /\ GeneratingHasWork'
<1> USE DEF IInv
<1>1. /\ at # "fill" /\ logits = {} /\ used = 0 /\ batch = NoBatch
      /\ \A x \in Sess : batch[x] = 0
  BY YieldedFacts
<1>2. /\ nPos' \in [Sess -> Nat] /\ cells' \in [Sess -> SUBSET Nat]
      /\ gap' \in [Sess -> BOOLEAN] /\ PositionsOK'
  BY ClearFacts DEF turn
<1>3. TypeOK'
  BY <1>2 DEF TypeOK, turn
<1>4. BatchOK'
  <2>1. at' # "fill" /\ batch' = NoBatch /\ logits' = {} /\ used' = 0
    BY <1>1 DEF turn
  <2>2. \A x \in Sess : batch'[x] = 0 /\ nPos'[x] \in Nat
    BY <1>2, <2>1 DEF NoBatch
  <2> QED
    BY <2>1, <2>2, SizeAssumption DEF BatchOK
<1>5. GeneratingHasWork'
  BY <1>1 DEF GeneratingHasWork, turn
<1> QED
  BY <1>2, <1>3, <1>4, <1>5

LEMMA SetPromptStep ==
  ASSUME IInv, NEW i \in Sess, NEW clear \in BOOLEAN, NEW n \in PromptLens,
         SetPrompt(i, clear, n)
  PROVE  IInv'
<1> USE DEF IInv
<1>1. /\ Yielded /\ Clear(i, clear) /\ n \in Nat \ {0}
      /\ UNCHANGED <<called, turn, vision, last, at, pass, didWork>>
      /\ called' \in SUBSET Sess /\ UNCHANGED <<turn, vision, last, at, pass, didWork>>
  BY SizeAssumption DEF SetPrompt, TypeOK
<1>2. /\ nPos' \in [Sess -> Nat]
      /\ \A x \in Sess : nPos'[x] = nPos[x] \/ (x = i /\ nPos'[x] = 0)
  BY <1>1, ClearFacts DEF turn
<1>3. CASE nPos'[i] + n <= NCtx
  <2>1. status' = [status EXCEPT ![i] = "generating"] /\ Accept(i, clear, Tokens(n), n)
    BY <1>3 DEF SetPrompt
  <2>2. Tokens(n) \in Seq(Item) /\ Len(Tokens(n)) = n /\ Tokens(n) # <<>>
    BY <1>1, TokensTyped
  <2>3. /\ status' \in [Sess -> {"ready", "generating", "error"}]
        /\ pending' \in [Sess -> Seq(Item)] /\ nKeep' \in [Sess -> Nat] /\ signal' \in BOOLEAN
        /\ \A x \in Sess \ {i} : /\ status'[x] = status[x]
                                 /\ pending'[x] = pending[x] /\ nKeep'[x] = nKeep[x]
        /\ pending'[i] = Tokens(n)
    BY <1>1, <2>1, <2>2 DEF Accept, TypeOK
  <2>4. TypeOK' /\ BatchOK' /\ PositionsOK' /\ GeneratingHasWork'
    BY <1>1, <2>2, <2>3, RequestKeeps
  <2>5. nPos'[i] + Len(pending'[i]) <= NCtx /\ nPos'[i] <= NCtx
    BY <1>1, <1>2, <1>3, <2>2, <2>3, SizeAssumption
  <2>6. \A x \in Sess \ {i} : /\ nPos'[x] = nPos[x] /\ nKeep'[x] = nKeep[x]
                              /\ pending'[x] = pending[x]
    BY <1>2, <2>3
  <2>7. WithinContext'
    BY <1>1, <2>5, <2>6 DEF WithinContext
  <2>8. RoomForPending'
    <3> SUFFICES ASSUME ~vision' PROVE RoomForPending'
      BY DEF RoomForPending
    <3>1. pass' = "token" /\ called' = {}
      BY <1>1 DEF RoomForPending
    <3>2. ASSUME NEW x \in Sess, nKeep'[x] + 2 <= NCtx
          PROVE  Len(pending'[x]) <= 1 \/ nPos'[x] + Len(pending'[x]) <= NCtx
      <4>1. CASE x = i
        BY <2>5, <4>1
      <4>2. CASE x # i
        BY <1>1, <2>6, <3>2, <4>2 DEF RoomForPending
      <4> QED
        BY <4>1, <4>2
    <3> QED
      BY <3>1, <3>2 DEF RoomForPending
  <2> QED
    BY <2>4, <2>7, <2>8
<1>4. CASE ~(nPos'[i] + n <= NCtx)
  <2>1. /\ status' = [status EXCEPT ![i] = "error"]
        /\ pending' = [pending EXCEPT ![i] = <<>>]
        /\ UNCHANGED <<nKeep, signal>>
    BY <1>4 DEF SetPrompt, Refuse
  <2>2. /\ status' \in [Sess -> {"ready", "generating", "error"}]
        /\ pending' \in [Sess -> Seq(Item)] /\ nKeep' \in [Sess -> Nat] /\ signal' \in BOOLEAN
        /\ \A x \in Sess \ {i} : status'[x] = status[x] /\ pending'[x] = pending[x]
        /\ status'[i] = "error" /\ pending'[i] = <<>>
    BY <2>1 DEF TypeOK
  <2>3. TypeOK' /\ BatchOK' /\ PositionsOK' /\ GeneratingHasWork'
    BY <1>1, <2>1, <2>2, RequestKeeps
  <2>4. /\ vision' = vision /\ pass' = pass /\ called' = called /\ nKeep' = nKeep
        /\ Len(pending'[i]) = 0
    BY <1>1, <2>1, <2>2
  <2>5. WithinContext'
    BY <1>2, <2>4, SizeAssumption DEF WithinContext
  <2>6. \A x \in Sess \ {i} : nPos'[x] = nPos[x] /\ pending'[x] = pending[x]
    BY <1>2, <2>2
  <2>7. RoomForPending'
    BY <2>4, <2>6 DEF RoomForPending
  <2> QED
    BY <2>3, <2>5, <2>7
<1> QED
  BY <1>3, <1>4

(* With a vision model nothing is claimed of n_ctx.                        *)
LEMMA VisionIsFree == vision' => WithinContext' /\ RoomForPending'
  BY DEF WithinContext, RoomForPending

LEMMA GenerateWithMediaStep ==
  ASSUME IInv, NEW i \in Sess, GenerateWithMedia(i)
  PROVE  IInv'
<1> USE DEF IInv
<1>1. /\ Yielded /\ vision
      /\ status' = [status EXCEPT ![i] = "generating"]
      /\ pending' = [pending EXCEPT ![i] = <<>>]
      /\ called' = called \cup {i}
      /\ UNCHANGED <<nPos, nKeep, cells, gap, turn, vision, last, signal, at, pass,
                     didWork>>
  BY DEF GenerateWithMedia
<1>2. Clear(i, FALSE) /\ UNCHANGED <<turn, vision, last, at, pass, didWork>>
  BY <1>1 DEF Clear
<1>3. /\ status' \in [Sess -> {"ready", "generating", "error"}]
      /\ pending' \in [Sess -> Seq(Item)] /\ nKeep' \in [Sess -> Nat] /\ signal' \in BOOLEAN
      /\ called' \in SUBSET Sess /\ i \in called'
      /\ \A x \in Sess \ {i} : x \in called => x \in called'
      /\ \A x \in Sess \ {i} : /\ status'[x] = status[x]
                               /\ pending'[x] = pending[x] /\ nKeep'[x] = nKeep[x]
  BY <1>1 DEF TypeOK
<1>4. TypeOK' /\ BatchOK' /\ PositionsOK' /\ GeneratingHasWork'
  BY <1>1, <1>2, <1>3, RequestKeeps
<1>5. WithinContext' /\ RoomForPending'
  BY <1>1, VisionIsFree
<1> QED
  BY <1>4, <1>5

(* The body of a stream appends to whatever is queued, or empties it.      *)
LEMMA MediaBodyStep ==
  ASSUME IInv, NEW i \in Sess, NEW clear \in BOOLEAN, MediaBody(i, clear)
  PROVE  IInv'
<1> USE DEF IInv
<1>1. /\ Yielded /\ Clear(i, clear) /\ i \in called /\ called' = called \ {i}
      /\ UNCHANGED <<turn, vision, last, at, pass, didWork>>
      /\ vision' = vision
  BY DEF MediaBody
<1>2. vision
  BY <1>1 DEF RoomForPending
<1>3. called' \in SUBSET Sess /\ \A x \in Sess \ {i} : x \in called => x \in called'
  BY <1>1 DEF TypeOK
<1>4. CASE Refuse(i)
  <2>1. /\ status' \in [Sess -> {"ready", "generating", "error"}]
        /\ pending' \in [Sess -> Seq(Item)] /\ nKeep' \in [Sess -> Nat]
        /\ signal' \in BOOLEAN /\ status'[i] = "error"
        /\ \A x \in Sess \ {i} : /\ status'[x] = status[x]
                                 /\ pending'[x] = pending[x] /\ nKeep'[x] = nKeep[x]
    BY <1>4 DEF Refuse, TypeOK
  <2>2. TypeOK' /\ BatchOK' /\ PositionsOK' /\ GeneratingHasWork'
    BY <1>1, <1>3, <2>1, RequestKeeps
  <2> QED
    BY <1>1, <1>2, <2>2, VisionIsFree
<1>5. CASE ~Refuse(i)
  <2>1. PICK items \in MediaPrompts :
           Accept(i, clear, pending[i] \o items, SizeOf(items)) /\ UNCHANGED status
    BY <1>5 DEF MediaBody
  <2>2. items \in Seq(Item) /\ items # <<>> /\ SizeOf(items) \in Nat
    BY SizeAssumption, SizeTyped
  <2> DEFINE queue == pending[i] \o items
  <2>3. queue \in Seq(Item) /\ queue # <<>>
    <3>1. pending[i] \in Seq(Item) /\ items \in Seq(Item) /\ items # <<>>
      BY <2>2 DEF TypeOK
    <3>2. queue \in Seq(Item) /\ Len(queue) = Len(pending[i]) + Len(items)
      BY <3>1
    <3>3. Len(items) > 0 /\ Len(pending[i]) \in Nat
      BY <3>1
    <3> QED
      BY <3>2, <3>3
  <2>4. pending' = [pending EXCEPT ![i] = queue]
    BY <2>1 DEF Accept
  <2> HIDE DEF queue
  <2>5. /\ status' \in [Sess -> {"ready", "generating", "error"}]
        /\ pending' \in [Sess -> Seq(Item)] /\ nKeep' \in [Sess -> Nat]
        /\ signal' \in BOOLEAN /\ pending'[i] = queue
        /\ \A x \in Sess \ {i} : /\ status'[x] = status[x]
                                 /\ pending'[x] = pending[x] /\ nKeep'[x] = nKeep[x]
    BY <2>1, <2>2, <2>3, <2>4 DEF Accept, TypeOK
  <2>6. TypeOK' /\ BatchOK' /\ PositionsOK' /\ GeneratingHasWork'
    BY <1>1, <1>3, <2>3, <2>5, RequestKeeps
  <2> QED
    BY <1>1, <1>2, <2>6, VisionIsFree
<1> QED
  BY <1>4, <1>5

LEMMA CancelStep ==
  ASSUME IInv, NEW i \in Sess, Cancel(i)
  PROVE  IInv'
<1> USE DEF IInv
<1>1. at # "fill" /\ logits = {} /\ \A x \in Sess : batch[x] = 0
  BY YieldedFacts DEF Cancel
<1>2. /\ status' = [status EXCEPT ![i] = "ready"]
      /\ pending' = [pending EXCEPT ![i] = <<>>]
      /\ UNCHANGED <<nPos, nKeep, cells, gap, called, start, k, batch, logits, used,
                     vision, last, signal, at, pass, didWork>>
  BY DEF Cancel, turn
<1>3. TypeOK'
  BY <1>2 DEF TypeOK
<1>4. BatchOK' /\ PositionsOK' /\ GeneratingHasWork'
  BY <1>1, <1>2 DEF BatchOK, PositionsOK, PositionsFollow, NoPositionTwice,
                    GeneratingHasWork, TypeOK
<1>5. WithinContext' /\ RoomForPending'
  BY <1>2 DEF WithinContext, RoomForPending, TypeOK
<1> QED
  BY <1>3, <1>4, <1>5

-----------------------------------------------------------------------------
(* The steps of the loop that end with an empty batch.                     *)
LEMMA EmptyBatchOK ==
  ASSUME EmptyBatch, nPos' \in [Sess -> Nat]
  PROVE  /\ BatchOK' /\ logits' = {} /\ used' = 0 /\ k' = 0
         /\ batch' \in [Sess -> Nat] /\ \A x \in Sess : batch'[x] = 0
<1>1. batch' = NoBatch /\ logits' = {} /\ used' = 0 /\ k' = 0
  BY DEF EmptyBatch
<1>2. \A x \in Sess : batch'[x] = 0 /\ nPos'[x] \in Nat
  BY <1>1 DEF NoBatch
<1> QED
  BY <1>1, <1>2, SizeAssumption DEF BatchOK, NoBatch

LEMMA PassEndFacts ==
  ASSUME TypeOK, PassEnd
  PROVE  /\ EmptyBatch /\ vision' = vision /\ last' = last
         /\ at' \in {"top", "fill", "wait"} /\ pass' \in {"token", "embd"}
         /\ start' \in Sess /\ signal' \in BOOLEAN /\ didWork' \in BOOLEAN
         /\ ~vision => pass' = "token"
<1>1. 0 \in Sess
  BY SizeAssumption DEF Sess
<1> QED
  BY <1>1 DEF PassEnd, TypeOK

(* Sessions that keep their fields keep what is said of them.              *)
LEMMA SameSessions ==
  ASSUME IInv, UNCHANGED sessions, EmptyBatch, vision' = vision,
         \A x \in Sess : batch[x] = 0, logits = {},
         ~vision => pass' = "token"
  PROVE  /\ BatchOK' /\ PositionsOK' /\ GeneratingHasWork'
         /\ WithinContext' /\ RoomForPending'
<1> USE DEF IInv
<1>1. UNCHANGED <<status, pending, nPos, nKeep, cells, gap, called>>
  BY DEF sessions
<1>2. BatchOK' /\ logits' = {} /\ \A x \in Sess : batch'[x] = 0
  BY <1>1, EmptyBatchOK DEF TypeOK
<1>3. PositionsOK'
  BY <1>1, <1>2 DEF PositionsOK, PositionsFollow, NoPositionTwice
<1>4. GeneratingHasWork'
  BY <1>1, <1>2 DEF GeneratingHasWork
<1>5. WithinContext' /\ RoomForPending'
  BY <1>1 DEF WithinContext, RoomForPending
<1> QED
  BY <1>2, <1>3, <1>4, <1>5

LEMMA SessionsTyped ==
  ASSUME TypeOK, UNCHANGED sessions
  PROVE  /\ status' \in [Sess -> {"ready", "generating", "error"}]
         /\ pending' \in [Sess -> Seq(Item)]
         /\ nPos' \in [Sess -> Nat] /\ nKeep' \in [Sess -> Nat]
         /\ cells' \in [Sess -> SUBSET Nat] /\ gap' \in [Sess -> BOOLEAN]
         /\ called' \in SUBSET Sess
<1>1. UNCHANGED <<status, pending, nPos, nKeep, cells, gap, called>>
  BY DEF sessions
<1> QED
  BY <1>1 DEF TypeOK

LEMMA StartTurnStep == IInv /\ StartTurn => IInv'
<1> SUFFICES ASSUME IInv, StartTurn PROVE IInv'
  OBVIOUS
<1> USE DEF IInv
<1>1. /\ at' = "fill" /\ pass' = "token" /\ didWork' = FALSE
      /\ start' = RotateStart /\ EmptyBatch
      /\ UNCHANGED sessions /\ UNCHANGED <<vision, last, signal>>
  BY DEF StartTurn
<1>2. RotateStart \in Sess
  BY SizeAssumption DEF RotateStart, After, Sess, TypeOK
<1>3. logits = {} /\ \A x \in Sess : batch[x] = 0
  BY DEF StartTurn, BatchOK, NoBatch
<1>4. /\ BatchOK' /\ PositionsOK' /\ GeneratingHasWork'
      /\ WithinContext' /\ RoomForPending'
  BY <1>1, <1>3, SameSessions
<1>5. TypeOK'
  <2>1. nPos' \in [Sess -> Nat]
    BY <1>1, SessionsTyped
  <2>2. /\ logits' = {} /\ used' = 0 /\ k' = 0 /\ batch' \in [Sess -> Nat]
    BY <1>1, <2>1, EmptyBatchOK
  <2>3. k' \in 0 .. N /\ used' \in Nat
    BY <2>2, SizeAssumption
  <2> QED
    BY <1>1, <1>2, <2>2, <2>3, SessionsTyped DEF TypeOK
<1> QED
  BY <1>4, <1>5

(* A pass ends well when it leaves the sessions well.                      *)
LEMMA PassEndTyped ==
  ASSUME TypeOK, PassEnd,
         status' \in [Sess -> {"ready", "generating", "error"}],
         pending' \in [Sess -> Seq(Item)],
         nPos' \in [Sess -> Nat], nKeep' \in [Sess -> Nat],
         cells' \in [Sess -> SUBSET Nat], gap' \in [Sess -> BOOLEAN],
         called' \in SUBSET Sess
  PROVE  TypeOK'
<1>1. /\ EmptyBatch /\ vision' = vision /\ last' = last
      /\ at' \in {"top", "fill", "wait"} /\ pass' \in {"token", "embd"}
      /\ start' \in Sess /\ signal' \in BOOLEAN /\ didWork' \in BOOLEAN
  BY PassEndFacts
<1>2. /\ logits' = {} /\ used' = 0 /\ k' = 0 /\ batch' \in [Sess -> Nat]
  BY <1>1, EmptyBatchOK
<1>3. k' \in 0 .. N /\ used' \in Nat
  BY <1>2, SizeAssumption
<1> QED
  BY <1>1, <1>2, <1>3 DEF TypeOK

LEMMA DelayOverStep == IInv /\ DelayOver => IInv'
<1> SUFFICES ASSUME IInv, DelayOver PROVE IInv'
  OBVIOUS
<1> USE DEF IInv
<1>1. PassEnd /\ UNCHANGED sessions
  BY DEF DelayOver
<1>2. logits = {} /\ \A x \in Sess : batch[x] = 0
  BY DEF DelayOver, BatchOK, NoBatch
<1>3. TypeOK'
  BY <1>1, SessionsTyped, PassEndTyped
<1> QED
  BY <1>1, <1>2, <1>3, PassEndFacts, SameSessions

(* A batch without rows is empty.                                          *)
LEMMA NothingToDecodeStep == IInv /\ NothingToDecode => IInv'
<1> SUFFICES ASSUME IInv, NothingToDecode PROVE IInv'
  OBVIOUS
<1> USE DEF IInv
<1>1. PassEnd /\ UNCHANGED sessions
  BY DEF NothingToDecode
<1>2. logits = {} /\ \A x \in Sess : batch[x] = 0
  <2>1. \A x \in Sess : ~(batch[x] > 0) /\ x \notin logits /\ batch[x] \in Nat
    BY DEF NothingToDecode, BatchOK, TypeOK
  <2> QED
    BY <2>1 DEF TypeOK
<1>3. TypeOK'
  BY <1>1, SessionsTyped, PassEndTyped
<1> QED
  BY <1>1, <1>2, <1>3, PassEndFacts, SameSessions

(* A visit that puts nothing in the batch.                                 *)
LEMMA VisitOnlyStep ==
  ASSUME IInv, Filling, k' = k + 1, last' \in Sess,
         UNCHANGED sessions,
         UNCHANGED <<start, batch, logits, used, vision, signal, at, pass, didWork>>
  PROVE  IInv'
<1> USE DEF IInv
<1>1. UNCHANGED <<status, pending, nPos, nKeep, cells, gap, called>>
  BY DEF sessions
<1>2. k \in 0 .. N - 1 /\ at = "fill" /\ k' \in 0 .. N
  BY SizeAssumption DEF Filling, TypeOK
<1>3. TypeOK'
  BY <1>1, <1>2 DEF TypeOK
<1>4. 0 .. k - 1 \subseteq 0 .. k' - 1
  BY <1>2, SizeAssumption
<1>5. \A j : After(start', j) = After(start, j)
  BY DEF After
<1>6. BatchOK'
  BY <1>1, <1>2, <1>4, <1>5 DEF BatchOK
<1>7. PositionsOK' /\ GeneratingHasWork'
  BY <1>1 DEF PositionsOK, PositionsFollow, NoPositionTwice, GeneratingHasWork
<1>8. WithinContext' /\ RoomForPending'
  BY <1>1 DEF WithinContext, RoomForPending
<1> QED
  BY <1>3, <1>6, <1>7, <1>8

LEMMA SkipStep == IInv /\ Skip => IInv'
<1> SUFFICES ASSUME IInv, Skip PROVE IInv'
  OBVIOUS
<1>1. last' \in Sess
  BY DEF Skip, IInv, TypeOK
<1> QED
  BY <1>1, VisitOnlyStep DEF Skip

LEMMA PassOverStep == IInv /\ PassOver => IInv'
<1> SUFFICES ASSUME IInv, PassOver PROVE IInv'
  OBVIOUS
<1>1. last' \in Sess
  BY VisitedInSess DEF PassOver, IInv
<1> QED
  BY <1>1, VisitOnlyStep DEF PassOver

-----------------------------------------------------------------------------
(* The decoded cells follow those that were there.                         *)
LEMMA DecodeOkStep ==
  ASSUME IInv, NEW D \in SUBSET logits, DecodeOk(D)
  PROVE  IInv'
<1> USE DEF IInv
<1>1. /\ PassEnd
      /\ UNCHANGED <<nPos, nKeep, gap, called>>
      /\ cells' = [i \in Sess |-> cells[i] \cup (nPos[i] - batch[i] .. nPos[i] - 1)]
      /\ status' = [i \in Sess |-> IF i \in D THEN "ready" ELSE status[i]]
      /\ pending' = [i \in Sess |->
                       IF i \in logits \ D THEN Append(pending[i], Token) ELSE pending[i]]
  BY DEF DecodeOk
<1>2. \A x \in Sess : /\ nPos[x] \in Nat /\ batch[x] \in Nat /\ batch[x] <= nPos[x]
                      /\ cells[x] \in SUBSET Nat /\ pending[x] \in Seq(Item)
  BY DEF TypeOK, BatchOK
<1>3. /\ EmptyBatch /\ vision' = vision /\ (~vision => pass' = "token")
  BY <1>1, PassEndFacts
<1>4. /\ nPos' \in [Sess -> Nat] /\ nKeep' \in [Sess -> Nat] /\ gap' \in [Sess -> BOOLEAN]
      /\ called' \in SUBSET Sess
  BY <1>1 DEF TypeOK
<1>5. BatchOK' /\ logits' = {} /\ \A x \in Sess : batch'[x] = 0
  BY <1>3, <1>4, EmptyBatchOK
<1>6. TypeOK'
  <2>1. status' \in [Sess -> {"ready", "generating", "error"}]
    BY <1>1 DEF TypeOK
  <2>2. Token \in Item
    BY DEF Token, Item
  <2>3. pending' \in [Sess -> Seq(Item)]
    <3>1. \A x \in Sess : Append(pending[x], Token) \in Seq(Item)
      BY <1>2, <2>2
    <3> QED
      BY <1>1, <1>2, <3>1
  <2>4. cells' \in [Sess -> SUBSET Nat]
    <3>1. \A x \in Sess : (nPos[x] - batch[x] .. nPos[x] - 1) \in SUBSET Nat
      BY <1>2
    <3> QED
      BY <1>1, <1>2, <3>1
  <2> QED
    BY <1>1, <1>4, <2>1, <2>3, <2>4, PassEndTyped
<1>7. PositionsOK'
  <2> SUFFICES ASSUME NEW x \in Sess
               PROVE  /\ ~gap'[x] => cells'[x] = 0 .. nPos'[x] - batch'[x] - 1
                      /\ \A p \in cells'[x] : p < nPos'[x] - batch'[x]
    BY DEF PositionsOK, PositionsFollow, NoPositionTwice
  <2>1. /\ cells'[x] = cells[x] \cup (nPos[x] - batch[x] .. nPos[x] - 1)
        /\ nPos'[x] = nPos[x] /\ gap'[x] = gap[x] /\ batch'[x] = 0
    BY <1>1, <1>5
  <2>2. ~gap[x] => cells[x] = 0 .. nPos[x] - batch[x] - 1
    BY DEF PositionsOK, PositionsFollow
  <2>3. \A p \in cells[x] : p \in Nat /\ p < nPos[x] - batch[x]
    BY <1>2 DEF PositionsOK, NoPositionTwice
  <2>4. (0 .. nPos[x] - batch[x] - 1) \cup (nPos[x] - batch[x] .. nPos[x] - 1)
        = 0 .. nPos[x] - 1
    BY <1>2
  <2>5. ~gap'[x] => cells'[x] = 0 .. nPos'[x] - batch'[x] - 1
    BY <1>2, <2>1, <2>2, <2>4
  <2>6. \A p \in cells'[x] : p < nPos'[x] - batch'[x]
    BY <1>2, <2>1, <2>3
  <2> QED
    BY <2>5, <2>6
<1>8. GeneratingHasWork'
  <2> SUFFICES ASSUME NEW x \in Sess, status'[x] = "generating", x \notin called'
               PROVE  pending'[x] # <<>>
    BY <1>5 DEF GeneratingHasWork
  <2>1. x \notin D /\ status[x] = "generating" /\ x \notin called
    BY <1>1
  <2>2. CASE x \in logits
    <3>1. pending'[x] = Append(pending[x], Token)
      BY <1>1, <2>1, <2>2
    <3> QED
      BY <1>2, <3>1
  <2>3. CASE x \notin logits
    BY <1>1, <2>1, <2>3 DEF GeneratingHasWork
  <2> QED
    BY <2>2, <2>3
<1>9. WithinContext'
  BY <1>1, <1>3 DEF WithinContext
<1>10. RoomForPending'
  <2>1. \A x \in logits \ D : Len(pending'[x]) = 1
    <3> SUFFICES ASSUME NEW x \in logits \ D PROVE Len(pending'[x]) = 1
      OBVIOUS
    <3>1. x \in Sess /\ pending[x] = <<>>
      BY DEF GeneratingHasWork, TypeOK
    <3>2. pending'[x] = Append(<<>>, Token)
      BY <1>1, <3>1
    <3> QED
      BY <3>2
  <2>2. \A x \in Sess : x \notin logits \ D => pending'[x] = pending[x]
    BY <1>1
  <2>3. ASSUME ~vision', NEW x \in Sess, nKeep'[x] + 2 <= NCtx
        PROVE  Len(pending'[x]) <= 1 \/ nPos'[x] + Len(pending'[x]) <= NCtx
    <3>1. CASE x \in logits \ D
      BY <2>1, <3>1
    <3>2. CASE x \notin logits \ D
      <4>1. pending'[x] = pending[x] /\ nPos'[x] = nPos[x] /\ nKeep'[x] = nKeep[x]
        BY <1>1, <2>2, <3>2
      <4> QED
        BY <1>3, <2>3, <4>1 DEF RoomForPending
    <3> QED
      BY <3>1, <3>2
  <2> QED
    BY <1>1, <1>3, <2>3 DEF RoomForPending
<1> QED
  BY <1>5, <1>6, <1>7, <1>8, <1>9, <1>10

(* A failed batch leaves a gap, and nothing to sample.                     *)
LEMMA DecodeFailStep == IInv /\ DecodeFail => IInv'
<1> SUFFICES ASSUME IInv, DecodeFail PROVE IInv'
  OBVIOUS
<1> USE DEF IInv
<1>1. /\ status' = [i \in Sess |-> IF batch[i] > 0 THEN "error" ELSE status[i]]
      /\ pending' = [i \in Sess |-> IF batch[i] > 0 THEN <<>> ELSE pending[i]]
      /\ gap' = [i \in Sess |-> gap[i] \/ batch[i] > 0]
      /\ at' = "delay" /\ EmptyBatch
      /\ UNCHANGED <<nPos, nKeep, cells, called, start, vision, last, signal, pass,
                     didWork>>
  BY DEF DecodeFail
<1>2. nPos' \in [Sess -> Nat]
  BY <1>1 DEF TypeOK
<1>3. /\ BatchOK' /\ logits' = {} /\ used' = 0 /\ k' = 0
      /\ batch' \in [Sess -> Nat] /\ \A x \in Sess : batch'[x] = 0
  BY <1>1, <1>2, EmptyBatchOK
<1>4. TypeOK'
  <2>1. /\ status' \in [Sess -> {"ready", "generating", "error"}]
        /\ pending' \in [Sess -> Seq(Item)] /\ gap' \in [Sess -> BOOLEAN]
    BY <1>1 DEF TypeOK
  <2>2. k' \in 0 .. N /\ used' \in Nat /\ logits' \in SUBSET Sess
    BY <1>3, SizeAssumption
  <2> QED
    BY <1>1, <1>3, <2>1, <2>2 DEF TypeOK
<1>5. PositionsOK'
  <2> SUFFICES ASSUME NEW x \in Sess
               PROVE  /\ ~gap'[x] => cells'[x] = 0 .. nPos'[x] - batch'[x] - 1
                      /\ \A p \in cells'[x] : p < nPos'[x] - batch'[x]
    BY DEF PositionsOK, PositionsFollow, NoPositionTwice
  <2>1. cells'[x] = cells[x] /\ nPos'[x] = nPos[x] /\ batch'[x] = 0
        /\ gap'[x] = (gap[x] \/ batch[x] > 0)
    BY <1>1, <1>3
  <2>2. batch[x] \in Nat /\ nPos[x] \in Nat /\ cells[x] \in SUBSET Nat
    BY DEF TypeOK
  <2>3. (~gap[x] => cells[x] = 0 .. nPos[x] - batch[x] - 1)
        /\ \A p \in cells[x] : p < nPos[x] - batch[x]
    BY DEF PositionsOK, PositionsFollow, NoPositionTwice
  <2>4. ~gap'[x] => cells'[x] = 0 .. nPos'[x] - batch'[x] - 1
    <3> SUFFICES ASSUME ~gap'[x] PROVE cells'[x] = 0 .. nPos'[x] - batch'[x] - 1
      OBVIOUS
    <3>1. ~(gap[x] \/ batch[x] > 0)
      BY <2>1, Zenon
    <3>2. ~gap[x] /\ batch[x] = 0
      BY <2>2, <3>1
    <3> QED
      BY <2>1, <2>2, <2>3, <3>2
  <2>5. \A p \in cells'[x] : p < nPos'[x] - batch'[x]
    BY <2>1, <2>2, <2>3
  <2> QED
    BY <2>4, <2>5
<1>6. GeneratingHasWork'
  <2> SUFFICES ASSUME NEW x \in Sess, status'[x] = "generating", x \notin called'
               PROVE  pending'[x] # <<>>
    BY <1>3 DEF GeneratingHasWork
  <2>1. /\ ~(batch[x] > 0) /\ status[x] = "generating" /\ pending'[x] = pending[x]
        /\ x \notin called
    BY <1>1
  <2>2. x \notin logits
    BY <2>1 DEF BatchOK
  <2> QED
    BY <2>1, <2>2 DEF GeneratingHasWork
<1>7. WithinContext'
  BY <1>1 DEF WithinContext
<1>8. RoomForPending'
  <2>1. \A x \in Sess : pending'[x] = pending[x] \/ Len(pending'[x]) = 0
    BY <1>1
  <2> QED
    BY <1>1, <2>1 DEF RoomForPending
<1> QED
  BY <1>3, <1>4, <1>5, <1>6, <1>7, <1>8

LEMMA WakeUpStep == IInv /\ WakeUp => IInv'
<1> SUFFICES ASSUME IInv, WakeUp PROVE IInv'
  OBVIOUS
<1> USE DEF IInv
<1>1. /\ at = "wait" /\ at' = "top" /\ signal' = FALSE
      /\ UNCHANGED <<status, pending, nPos, nKeep, cells, gap, called,
                     start, k, batch, logits, used, vision, last, pass, didWork>>
  BY DEF WakeUp, sessions, turn
<1>2. TypeOK'
  BY <1>1 DEF TypeOK
<1>3. BatchOK'
  BY <1>1 DEF BatchOK, NoBatch
<1>4. PositionsOK' /\ GeneratingHasWork'
  BY <1>1 DEF PositionsOK, PositionsFollow, NoPositionTwice, GeneratingHasWork
<1>5. WithinContext' /\ RoomForPending'
  BY <1>1 DEF WithinContext, RoomForPending
<1> QED
  BY <1>2, <1>3, <1>4, <1>5

LEMMA StutterStep == IInv /\ UNCHANGED vars => IInv'
<1> SUFFICES ASSUME IInv, UNCHANGED vars PROVE IInv'
  OBVIOUS
<1> USE DEF IInv
<1>1. UNCHANGED <<status, pending, nPos, nKeep, cells, gap, called, start, k, batch,
                  logits, used, vision, last, signal, at, pass, didWork>>
  BY DEF vars, sessions, turn
<1>2. TypeOK'
  BY <1>1 DEF TypeOK
<1>3. BatchOK'
  <2>1. \A j : After(start', j) = After(start, j)
    BY <1>1 DEF After
  <2> QED
    BY <1>1, <2>1 DEF BatchOK, NoBatch
<1>4. PositionsOK' /\ GeneratingHasWork'
  BY <1>1 DEF PositionsOK, PositionsFollow, NoPositionTwice, GeneratingHasWork
<1>5. WithinContext' /\ RoomForPending'
  BY <1>1 DEF WithinContext, RoomForPending
<1> QED
  BY <1>2, <1>3, <1>4, <1>5

-----------------------------------------------------------------------------
(* Every step of the service, of the application or of the loop, keeps the *)
(* inductive invariant.                                                    *)
THEOREM Inductive == Spec => []IInv
<1>1. IInv /\ [Next]_vars => IInv'
  <2> SUFFICES ASSUME IInv, [Next]_vars PROVE IInv'
    OBVIOUS
  <2>1. CASE Application
    BY <2>1, CancelStep, SetPromptStep, GenerateWithMediaStep, MediaBodyStep
       DEF Application
  <2>2. CASE StartTurn \/ Skip \/ PassOver \/ Fill
    BY <2>2, StartTurnStep, SkipStep, PassOverStep, FillStep
  <2>3. CASE NothingToDecode \/ DecodeFail \/ DelayOver \/ WakeUp
    BY <2>3, NothingToDecodeStep, DecodeFailStep, DelayOverStep, WakeUpStep
  <2>4. CASE \E D \in SUBSET logits : DecodeOk(D)
    BY <2>4, DecodeOkStep
  <2>5. CASE UNCHANGED vars
    BY <2>5, StutterStep
  <2> QED
    BY <2>1, <2>2, <2>3, <2>4, <2>5 DEF Next, Loop
<1> QED
  BY <1>1, InitIInv, PTL DEF Spec

(* The state of the loop and of its sessions has its types: no position or *)
(* count becomes negative, and no queue holds an image without embeddings. *)
THEOREM TypeCorrect == Spec => []TypeOK
<1>1. IInv => TypeOK
  BY DEF IInv
<1> QED
  BY <1>1, Inductive, PTL

(* Chunked prompts, images and context shifts leave the positions of a     *)
(* sequence consecutive, unless a decode failed.                           *)
THEOREM PositionsConsecutive == Spec => []PositionsFollow
<1>1. IInv => PositionsFollow
  BY DEF IInv, PositionsOK
<1> QED
  BY <1>1, Inductive, PTL

(* No token goes to a position that has a cell, whatever decode failed.    *)
THEOREM PositionsNotReused == Spec => []NoPositionTwice
<1>1. IInv => NoPositionTwice
  BY DEF IInv, PositionsOK
<1> QED
  BY <1>1, Inductive, PTL

(* No session generates with neither items nor logits to go on from.       *)
THEOREM WorkRemains == Spec => []GeneratingHasWork
<1>1. IInv => GeneratingHasWork
  BY DEF IInv
<1> QED
  BY <1>1, Inductive, PTL

(* The shift keeps every text conversation within n_ctx.                   *)
THEOREM ContextHolds == Spec => []WithinContext
<1>1. IInv => WithinContext
  BY DEF IInv
<1> QED
  BY <1>1, Inductive, PTL

-----------------------------------------------------------------------------
(* What is counted in used is what the sessions have in the batch.         *)
Counted == used = Total(batch, Sess)

LEMMA SessFinite == IsFiniteSet(Sess)
  BY SizeAssumption, FS_Interval DEF Sess

LEMMA CountedInit == Init => Counted
<1> SUFFICES ASSUME Init PROVE Counted
  OBVIOUS
<1>1. \A i \in Sess : batch[i] = 0
  BY DEF Init, NoBatch
<1> QED BY <1>1, SessFinite, TotalZero DEF Init, Counted

(* Fill raises both by the same number; every other step leaves both alone *)
(* or empties the batch.                                                   *)
LEMMA CountedStep == IInv /\ Counted /\ [Next]_vars => Counted'
<1> SUFFICES ASSUME IInv, Counted, [Next]_vars PROVE Counted'
  OBVIOUS
<1>1. CASE UNCHANGED <<batch, used>>
  BY <1>1 DEF Counted
<1>2. CASE EmptyBatch
  <2>1. used' = 0 /\ \A i \in Sess : batch'[i] = 0
    BY <1>2 DEF EmptyBatch, NoBatch
  <2> QED BY <2>1, SessFinite, TotalZero DEF Counted
<1>3. CASE Fill
  <2>1. PICK n \in Nat \ {0}, rest \in Seq(Item) : Put(Visited, n, rest)
    BY <1>3, FillPuts DEF IInv
  <2>2. batch' = [batch EXCEPT ![Visited] = @ + n] /\ used' = used + n
    BY <2>1 DEF Put
  <2>3. Visited \in Sess /\ batch \in [Sess -> Nat]
    BY <1>3, VisitedInSess DEF IInv, TypeOK, Fill
  <2> QED BY <2>2, <2>3, SessFinite, TotalRaised DEF Counted
<1>4. CASE Application \/ UNCHANGED vars
  BY <1>1, <1>4 DEF Application, Cancel, GenerateWithMedia, SetPrompt, MediaBody, vars, turn
<1>5. CASE Loop
  BY <1>1, <1>2, <1>3, <1>5 DEF Loop, StartTurn, Skip, PassOver, NothingToDecode, DecodeOk,
     DecodeFail, DelayOver, WakeUp, PassEnd, turn
<1> QED BY <1>4, <1>5 DEF Next

(* A batch is never filled beyond its n_batch native rows, and every row   *)
(* in it is one of some session's: the counter that guards the rows and    *)
(* the counts of the sessions never part.                                  *)
THEOREM RowsSuffice == Spec => []BatchFits
<1>1. IInv /\ Counted => BatchFits
  BY DEF IInv, BatchOK, TypeOK, Counted, BatchFits, SumFunction, Total
<1> QED
  BY <1>1, CountedInit, CountedStep, Inductive, PTL DEF Spec

=============================================================================
