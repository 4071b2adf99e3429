------------------------------ MODULE LedgerProofs ------------------------------
(***************************************************************************)
(* The books of Brokerage: the tables are the sum of the writes that were   *)
(* made, for any number of threads and whatever their interleaving. First   *)
(* come the facts this needs about sums and extrema over finite sets,       *)
(* SumFunctionOnSet of Functions and Max and Min of FiniteSetsExt. The sum  *)
(* is defined by recursion on the set, in the order CHOOSE picks its        *)
(* elements; what the proofs need is that the order does not matter. Each   *)
(* induction looks at a smallest set that would refute the claim.           *)
(***************************************************************************)
EXTENDS BrokerageProofs, FiniteSetTheorems, WellFoundedInduction

-----------------------------------------------------------------------------
(* Sums and extrema over finite sets. *)

\* Among subsets of a finite set there is a smallest one.
LEMMA SmallestSet ==
    ASSUME NEW S, IsFiniteSet(S), NEW Bad \in SUBSET (SUBSET S), Bad # {}
    PROVE  \E T \in Bad : IsFiniteSet(T) /\ \A U \in Bad : U \subseteq T => U = T
<1>1. IsWellFoundedOn(StrictSubsetOrdering(S), FiniteSubsetsOf(S))
  BY FS_StrictSubsetOrderingWellFounded
<1>2. Bad \subseteq FiniteSubsetsOf(S)
  BY FS_FiniteSubsetsOfFinite
<1>3. PICK T \in Bad : \A U \in Bad : ~(<<U, T>> \in StrictSubsetOrdering(S))
  BY <1>1, <1>2, WFMin
<1>4. IsFiniteSet(T)
  BY FS_Subset
<1>5. ASSUME NEW U \in Bad, U \subseteq T
      PROVE  U = T
  BY <1>3, <1>5 DEF StrictSubsetOrdering
<1> QED
  BY <1>4, <1>5

-----------------------------------------------------------------------------
(* The recursion behind SumFunctionOnSet. *)

Pick(s) == CHOOSE x \in s : TRUE
Iterates(g, fn, S) ==
    g = [s \in SUBSET S |-> IF s = {} THEN 0 ELSE fn[Pick(s)] + g[s \ {Pick(s)}]]
Iterator(fn, S) == CHOOSE g : Iterates(g, fn, S)

\* The element the recursion takes next is one of the set.
LEMMA PickIsMember ==
    ASSUME NEW S, S # {}
    PROVE  Pick(S) \in S
  BY DEF Pick

\* The library's sum is the value of that recursion at the whole set.
LEMMA SumIterates ==
    ASSUME NEW fn, NEW S
    PROVE  SumFunctionOnSet(fn, S) = Iterator(fn, S)[S]
  BY Zenon DEF SumFunctionOnSet, FoldFunctionOnSet, MapThenFoldSet, Iterator, Iterates, Pick

\* Two solutions of the recursion agree wherever both are defined.
LEMMA IteratorsAgree ==
    ASSUME NEW fn, NEW S, NEW T, NEW g, NEW h,
           Iterates(g, fn, S), Iterates(h, fn, T),
           NEW s \in SUBSET S, s \in SUBSET T, IsFiniteSet(s)
    PROVE  g[s] = h[s]
<1> DEFINE Bad == {r \in SUBSET s : g[r] # h[r]}
<1> SUFFICES ASSUME Bad # {}
             PROVE  FALSE
  OBVIOUS
<1>1. PICK r \in Bad : IsFiniteSet(r) /\ \A q \in Bad : q \subseteq r => q = r
  <2> Bad \in SUBSET (SUBSET s)
    OBVIOUS
  <2> HIDE DEF Bad
  <2> QED
    BY SmallestSet
<1>2. r \in SUBSET S /\ r \in SUBSET T
  OBVIOUS
<1>3. g[r] = IF r = {} THEN 0 ELSE fn[Pick(r)] + g[r \ {Pick(r)}]
  BY <1>2 DEF Iterates
<1>4. h[r] = IF r = {} THEN 0 ELSE fn[Pick(r)] + h[r \ {Pick(r)}]
  BY <1>2 DEF Iterates
<1>5. r # {}
  BY <1>3, <1>4
<1>6. Pick(r) \in r
  BY <1>5, PickIsMember
<1>7. r \ {Pick(r)} \notin Bad
  BY <1>1, <1>6
<1>8. g[r \ {Pick(r)}] = h[r \ {Pick(r)}]
  BY <1>7
<1> QED
  BY <1>3, <1>4, <1>8

\* On a finite set the recursion has a solution.
LEMMA IteratorExists ==
    ASSUME NEW fn, NEW S, IsFiniteSet(S)
    PROVE  Iterates(Iterator(fn, S), fn, S)
<1> DEFINE Bad == {T \in SUBSET S : ~\E g : Iterates(g, fn, T)}
<1>0. SUFFICES ASSUME Bad # {}
               PROVE  FALSE
  <2>1. \E g : Iterates(g, fn, S)
    BY <1>0
  <2> QED
    BY <2>1 DEF Iterator
<1>1. PICK T \in Bad : IsFiniteSet(T) /\ \A U \in Bad : U \subseteq T => U = T
  <2> Bad \in SUBSET (SUBSET S)
    OBVIOUS
  <2> HIDE DEF Bad
  <2> QED
    BY SmallestSet, <1>0
<1> DEFINE I(s) == Iterator(fn, s)
           value(s) == IF s = {} THEN 0 ELSE fn[Pick(s)] + I(s \ {Pick(s)})[s \ {Pick(s)}]
           g == [s \in SUBSET T |-> value(s)]
<1>2. ASSUME NEW s \in SUBSET T, s # T
      PROVE  Iterates(I(s), fn, s) /\ IsFiniteSet(s)
  <2>1. s \notin Bad
    BY <1>1, <1>2
  <2>2. \E f : Iterates(f, fn, s)
    BY <2>1
  <2>3. IsFiniteSet(s)
    BY <1>1, FS_Subset
  <2> QED
    BY <2>2, <2>3 DEF Iterator
\* At a smaller set the value is what the solution on that set says.
<1>3. ASSUME NEW s \in SUBSET T, s # T
      PROVE  value(s) = I(s)[s]
  <2>1. I(s)[s] = IF s = {} THEN 0 ELSE fn[Pick(s)] + I(s)[s \ {Pick(s)}]
    BY <1>2, <1>3 DEF Iterates
  <2>2. CASE s = {}
    BY <2>1, <2>2
  <2>3. CASE s # {}
    <3> DEFINE r == s \ {Pick(s)}
    <3>1. Pick(s) \in s
      BY <2>3, PickIsMember
    <3>2. r \in SUBSET T /\ r # T /\ r \in SUBSET s /\ r \in SUBSET r
      BY <3>1
    <3>3. Iterates(I(r), fn, r) /\ IsFiniteSet(r)
      BY <3>2, <1>2
    <3>4. Iterates(I(s), fn, s)
      BY <1>2, <1>3
    <3>5. I(s)[r] = I(r)[r]
      <4> HIDE DEF I, r
      <4> QED
        BY <3>2, <3>3, <3>4, IteratorsAgree
    <3> QED
      BY <2>1, <2>3, <3>5
  <2> QED
    BY <2>2, <2>3
<1>4. ASSUME NEW s \in SUBSET T
      PROVE  value(s) = IF s = {} THEN 0 ELSE fn[Pick(s)] + g[s \ {Pick(s)}]
  <2>1. CASE s = {}
    BY <2>1
  <2>2. CASE s # {}
    <3> DEFINE r == s \ {Pick(s)}
    <3>1. Pick(s) \in s
      BY <2>2, PickIsMember
    <3>2. r \in SUBSET T /\ r # T
      BY <3>1
    <3>3. g[r] = value(r)
      BY <3>2
    <3>4. value(r) = I(r)[r]
      <4> HIDE DEF I, r, value
      <4> QED
        BY <3>2, <1>3
    <3> QED
      BY <2>2, <3>3, <3>4
  <2> QED
    BY <2>1, <2>2
<1>5. Iterates(g, fn, T)
  <2> HIDE DEF value
  <2> QED
    BY <1>4 DEF Iterates
<1> QED
  BY <1>5

-----------------------------------------------------------------------------
(* Sums over a finite set. *)

\* The empty sum is zero.
LEMMA SumEmpty ==
    ASSUME NEW fn
    PROVE  SumFunctionOnSet(fn, {}) = 0
<1>1. Iterates(Iterator(fn, {}), fn, {})
  BY IteratorExists, FS_EmptySet
<1> QED
  BY <1>1, SumIterates DEF Iterates

\* One round of the recursion.
LEMMA SumUnfold ==
    ASSUME NEW fn, NEW S, IsFiniteSet(S), S # {}
    PROVE  SumFunctionOnSet(fn, S)
             = fn[Pick(S)] + SumFunctionOnSet(fn, S \ {Pick(S)})
<1> DEFINE R == S \ {Pick(S)}
<1>1. Iterates(Iterator(fn, S), fn, S)
  BY IteratorExists
<1>2. R \in SUBSET S /\ R \in SUBSET R /\ IsFiniteSet(R)
  BY FS_Subset
<1>3. Iterates(Iterator(fn, R), fn, R)
  BY <1>2, IteratorExists
<1>4. Iterator(fn, S)[R] = Iterator(fn, R)[R]
  <2> HIDE DEF R
  <2> QED
    BY <1>1, <1>2, <1>3, IteratorsAgree
<1>5. Iterator(fn, S)[S] = fn[Pick(S)] + Iterator(fn, S)[R]
  BY <1>1 DEF Iterates
<1>6. SumFunctionOnSet(fn, S) = Iterator(fn, S)[S]
  BY SumIterates
<1>7. SumFunctionOnSet(fn, R) = Iterator(fn, R)[R]
  <2> HIDE DEF R
  <2> QED
    BY SumIterates
<1> QED
  BY <1>4, <1>5, <1>6, <1>7

\* A sum of integers over a finite set is an integer.
LEMMA SumIsInt ==
    ASSUME NEW fn, NEW S, IsFiniteSet(S), \A x \in S : fn[x] \in Int
    PROVE  SumFunctionOnSet(fn, S) \in Int
<1> DEFINE Bad == {T \in SUBSET S : SumFunctionOnSet(fn, T) \notin Int}
<1>0. SUFFICES ASSUME Bad # {}
               PROVE  FALSE
  OBVIOUS
<1>1. PICK T \in Bad : IsFiniteSet(T) /\ \A U \in Bad : U \subseteq T => U = T
  <2> Bad \in SUBSET (SUBSET S)
    OBVIOUS
  <2> HIDE DEF Bad
  <2> QED
    BY SmallestSet, <1>0
<1>2. T # {}
  BY SumEmpty
<1>3. Pick(T) \in T
  BY <1>2, PickIsMember
<1>4. SumFunctionOnSet(fn, T \ {Pick(T)}) \in Int
  BY <1>1, <1>3
<1>5. SumFunctionOnSet(fn, T) = fn[Pick(T)] + SumFunctionOnSet(fn, T \ {Pick(T)})
  BY <1>1, <1>2, SumUnfold
<1> QED
  BY <1>3, <1>4, <1>5

\* Any element can be taken out first: the order of the recursion is irrelevant.
LEMMA SumRemove ==
    ASSUME NEW fn, NEW S, IsFiniteSet(S), \A x \in S : fn[x] \in Int, NEW e \in S
    PROVE  SumFunctionOnSet(fn, S) = fn[e] + SumFunctionOnSet(fn, S \ {e})
<1> DEFINE Sum(T) == SumFunctionOnSet(fn, T)
           Bad == {T \in SUBSET S : \E y \in T : Sum(T) # fn[y] + Sum(T \ {y})}
<1>0. SUFFICES ASSUME Bad # {}
               PROVE  FALSE
  OBVIOUS
<1>1. PICK T \in Bad : IsFiniteSet(T) /\ \A U \in Bad : U \subseteq T => U = T
  <2> Bad \in SUBSET (SUBSET S)
    OBVIOUS
  <2> HIDE DEF Bad
  <2> QED
    BY SmallestSet, <1>0
<1>2. PICK y \in T : Sum(T) # fn[y] + Sum(T \ {y})
  OBVIOUS
<1> DEFINE x == Pick(T)
           R == (T \ {x}) \ {y}
<1>3. x \in T /\ T \subseteq S /\ IsFiniteSet(R)
  BY <1>1, PickIsMember, FS_Subset
<1>4. Sum(T) = fn[x] + Sum(T \ {x})
  BY <1>1, <1>3, SumUnfold
<1>5. x # y
  BY <1>2, <1>4
<1>6. Sum(T \ {x}) = fn[y] + Sum(R)
  <2>1. T \ {x} \notin Bad /\ T \ {x} \in SUBSET S /\ y \in T \ {x}
    BY <1>1, <1>3, <1>5
  <2> QED
    BY <2>1
<1>7. Sum(T \ {y}) = fn[x] + Sum(R)
  <2>1. T \ {y} \notin Bad /\ T \ {y} \in SUBSET S /\ x \in T \ {y}
    BY <1>1, <1>3, <1>5
  <2>2. (T \ {y}) \ {x} = R
    OBVIOUS
  <2> QED
    BY <2>1, <2>2
<1>8. Sum(R) \in Int /\ fn[x] \in Int /\ fn[y] \in Int
  <2>1. \A z \in R : fn[z] \in Int
    BY <1>3
  <2> HIDE DEF R
  <2> QED
    BY <1>3, <2>1, SumIsInt
<1> HIDE DEF x, R, Sum
<1> QED
  BY <1>2, <1>4, <1>6, <1>7, <1>8

\* One more element adds its value to the sum, in whatever order it is taken.
LEMMA SumAdd ==
    ASSUME NEW fn, NEW S, IsFiniteSet(S), NEW e, e \notin S,
           \A x \in S : fn[x] \in Int, fn[e] \in Int
    PROVE  SumFunctionOnSet(fn, S \union {e}) = fn[e] + SumFunctionOnSet(fn, S)
<1>1. IsFiniteSet(S \union {e})
  BY FS_AddElement
<1>2. (S \union {e}) \ {e} = S
  OBVIOUS
<1>3. \A x \in S \union {e} : fn[x] \in Int
  OBVIOUS
<1>4. e \in S \union {e}
  OBVIOUS
<1> QED
  BY <1>1, <1>2, <1>3, <1>4, SumRemove

\* Equal summands add up to equal sums.
LEMMA SumSame ==
    ASSUME NEW fn, NEW gn, NEW S, IsFiniteSet(S), \A x \in S : fn[x] = gn[x]
    PROVE  SumFunctionOnSet(fn, S) = SumFunctionOnSet(gn, S)
<1> DEFINE Bad == {T \in SUBSET S : SumFunctionOnSet(fn, T) # SumFunctionOnSet(gn, T)}
<1>0. SUFFICES ASSUME Bad # {}
               PROVE  FALSE
  OBVIOUS
<1>1. PICK T \in Bad : IsFiniteSet(T) /\ \A U \in Bad : U \subseteq T => U = T
  <2> Bad \in SUBSET (SUBSET S)
    OBVIOUS
  <2> HIDE DEF Bad
  <2> QED
    BY SmallestSet, <1>0
<1>2. T # {}
  BY SumEmpty
<1>3. Pick(T) \in T
  BY <1>2, PickIsMember
<1>4. SumFunctionOnSet(fn, T \ {Pick(T)}) = SumFunctionOnSet(gn, T \ {Pick(T)})
  BY <1>1, <1>3
<1>5. SumFunctionOnSet(fn, T) = fn[Pick(T)] + SumFunctionOnSet(fn, T \ {Pick(T)})
  BY <1>1, <1>2, SumUnfold
<1>6. SumFunctionOnSet(gn, T) = gn[Pick(T)] + SumFunctionOnSet(gn, T \ {Pick(T)})
  BY <1>1, <1>2, SumUnfold
<1> QED
  BY <1>3, <1>4, <1>5, <1>6

\* A sum moves by as much as its one summand that changes.
LEMMA SumChanges ==
    ASSUME NEW fn, NEW gn, NEW S, IsFiniteSet(S), NEW e \in S,
           \A x \in S : fn[x] \in Int,
           \A x \in S \ {e} : gn[x] = fn[x], gn[e] \in Int
    PROVE  SumFunctionOnSet(gn, S) = SumFunctionOnSet(fn, S) + gn[e] - fn[e]
<1> DEFINE R == S \ {e}
<1>1. IsFiniteSet(R) /\ \A x \in R : fn[x] \in Int /\ gn[x] = fn[x]
  BY FS_Subset
<1>2. SumFunctionOnSet(fn, R) \in Int
  <2> HIDE DEF R
  <2> QED
    BY <1>1, SumIsInt
<1>3. SumFunctionOnSet(fn, R) = SumFunctionOnSet(gn, R)
  <2> HIDE DEF R
  <2> QED
    BY <1>1, SumSame
<1>4. SumFunctionOnSet(fn, S) = fn[e] + SumFunctionOnSet(fn, R)
  BY SumRemove
<1>5. SumFunctionOnSet(gn, S) = gn[e] + SumFunctionOnSet(gn, R)
  <2>1. \A x \in S : gn[x] \in Int
    BY <1>1
  <2> QED
    BY <2>1, SumRemove
<1> HIDE DEF R
<1> QED
  BY <1>2, <1>3, <1>4, <1>5

\* Summands that are 0 may be left out.
LEMMA SumOfZeros ==
    ASSUME NEW fn, NEW S, IsFiniteSet(S), NEW T \in SUBSET S,
           \A x \in S : fn[x] \in Int, \A x \in S \ T : fn[x] = 0
    PROVE  SumFunctionOnSet(fn, T) = SumFunctionOnSet(fn, S)
<1> DEFINE Sum(U) == SumFunctionOnSet(fn, U)
           Bad == {U \in SUBSET S : T \subseteq U /\ Sum(U) # Sum(T)}
<1>0. SUFFICES ASSUME Bad # {}
               PROVE  FALSE
  OBVIOUS
<1>1. PICK U \in Bad : IsFiniteSet(U) /\ \A V \in Bad : V \subseteq U => V = U
  <2> Bad \in SUBSET (SUBSET S)
    OBVIOUS
  <2> HIDE DEF Bad
  <2> QED
    BY SmallestSet, <1>0
<1>2. PICK x \in U : x \notin T
  OBVIOUS
<1>3. Sum(U) = fn[x] + Sum(U \ {x})
  <2>1. \A y \in U : fn[y] \in Int
    OBVIOUS
  <2> QED
    BY <1>1, <2>1, SumRemove
<1>4. Sum(U \ {x}) = Sum(T)
  BY <1>1, <1>2
<1>5. fn[x] = 0
  BY <1>2
<1>6. Sum(T) \in Int
  <2>1. IsFiniteSet(T) /\ \A y \in T : fn[y] \in Int
    BY FS_Subset
  <2> QED
    BY <2>1, SumIsInt
<1> HIDE DEF Sum
<1> QED
  BY <1>1, <1>3, <1>4, <1>5, <1>6

\* A sum of nothing but zeros is zero.
LEMMA SumIsZero ==
    ASSUME NEW fn, NEW S, IsFiniteSet(S), \A x \in S : fn[x] = 0
    PROVE  SumFunctionOnSet(fn, S) = 0
<1>1. SumFunctionOnSet(fn, {}) = SumFunctionOnSet(fn, S)
  BY SumOfZeros
<1> QED
  BY <1>1, SumEmpty

-----------------------------------------------------------------------------
(* The largest and the smallest of a finite set of integers. *)

\* A finite set of integers that is not empty holds its maximum.
LEMMA MaxIsBound ==
    ASSUME NEW S, S \subseteq Int, IsFiniteSet(S), S # {}
    PROVE  Max(S) \in S /\ \A x \in S : x <= Max(S)
<1> DEFINE Bad == {{y \in S : y >= x} : x \in S}
<1>1. PICK T \in Bad : IsFiniteSet(T) /\ \A U \in Bad : U \subseteq T => U = T
  <2>1. Bad \in SUBSET (SUBSET S)
    OBVIOUS
  <2>2. Bad # {}
    OBVIOUS
  <2> HIDE DEF Bad
  <2> QED
    BY ONLY <2>1, <2>2, SmallestSet, IsFiniteSet(S)
<1>2. PICK m \in S : T = {y \in S : y >= m}
  OBVIOUS
<1>3. ASSUME NEW x \in S, ~(m >= x)
      PROVE  FALSE
  <2> DEFINE U == {y \in S : y >= x}
  <2>1. x \in Int /\ m \in Int /\ x > m
    BY <1>3
  <2>2. \A y \in S : y >= x => y >= m
    BY <2>1
  <2>3. U \subseteq T
    BY <1>2, <2>2
  <2>4. m \in T /\ m \notin U
    BY <1>2, <2>1
  <2>5. U \in Bad
    OBVIOUS
  <2> QED
    BY <1>1, <2>3, <2>4, <2>5
<1>4. \E x \in S : \A y \in S : x >= y
  BY <1>3
<1>5. Max(S) \in S /\ \A y \in S : Max(S) >= y
  BY <1>4 DEF Max
<1> QED
  BY <1>5

\* A finite set of integers that is not empty holds its minimum.
LEMMA MinIsBound ==
    ASSUME NEW S, S \subseteq Int, IsFiniteSet(S), S # {}
    PROVE  Min(S) \in S /\ \A x \in S : Min(S) <= x
<1> DEFINE Bad == {{y \in S : y <= x} : x \in S}
<1>1. PICK T \in Bad : IsFiniteSet(T) /\ \A U \in Bad : U \subseteq T => U = T
  <2>1. Bad \in SUBSET (SUBSET S)
    OBVIOUS
  <2>2. Bad # {}
    OBVIOUS
  <2> HIDE DEF Bad
  <2> QED
    BY ONLY <2>1, <2>2, SmallestSet, IsFiniteSet(S)
<1>2. PICK m \in S : T = {y \in S : y <= m}
  OBVIOUS
<1>3. ASSUME NEW x \in S, ~(m <= x)
      PROVE  FALSE
  <2> DEFINE U == {y \in S : y <= x}
  <2>1. x \in Int /\ m \in Int /\ x < m
    BY <1>3
  <2>2. \A y \in S : y <= x => y <= m
    BY <2>1
  <2>3. U \subseteq T
    BY <1>2, <2>2
  <2>4. m \in T /\ m \notin U
    BY <1>2, <2>1
  <2>5. U \in Bad
    OBVIOUS
  <2> QED
    BY <1>1, <2>3, <2>4, <2>5
<1>4. \E x \in S : \A y \in S : x <= y
  BY <1>3
<1>5. Min(S) \in S /\ \A y \in S : Min(S) <= y
  BY <1>4 DEF Min
<1> QED
  BY <1>5

\* The largest of a finite set of integers and zero is a bound.
LEMMA LargestOf ==
    ASSUME NEW S, S \subseteq Int, IsFiniteSet(S)
    PROVE  Max({0} \union S) \in Nat /\ \A x \in S : x <= Max({0} \union S)
<1> DEFINE T == {0} \union S
<1>1. T \subseteq Int /\ IsFiniteSet(T) /\ T # {} /\ 0 \in T /\ S \subseteq T
  <2>1. IsFiniteSet(S \union {0})
    BY FS_AddElement
  <2>2. T = S \union {0}
    OBVIOUS
  <2> QED
    BY <2>1, <2>2
<1>2. Max(T) \in T /\ \A x \in T : x <= Max(T)
  <2> HIDE DEF T
  <2> QED
    BY ONLY <1>1, MaxIsBound
<1>3. Max(T) \in Int /\ 0 <= Max(T) /\ \A x \in S : x <= Max(T)
  BY <1>1, <1>2
<1> HIDE DEF T
<1>4. Max(T) \in Nat
  BY <1>3
<1> QED
  BY <1>3, <1>4 DEF T


\* The multiples of a number: the one step of counting that is not linear.
LEMMA OneMore ==
    ASSUME NEW k \in Int, NEW L \in Int
    PROVE  (k + 1) * L = k * L + L /\ k * L \in Int
OBVIOUS

-----------------------------------------------------------------------------
(* What one worker's request has contributed to a column so far. *)

MoneyTerm(u, p) ==
    IF "changeAccount" \in done[p] /\ req[p].user = u THEN AccountDelta(p) ELSE 0
MovedTerm(u, b, p) ==
    IF "increaseBankAccount" \in done[p] /\ req[p].user = u /\ local[p].bank = b
    THEN BankDelta(p) ELSE 0
DeliveredTerm(u, c, p) ==
    IF "upsertOwnedStock" \in done[p] /\ req[p].user = u /\ req[p].company = c
    THEN SharesDelta(p) ELSE 0

MoneyOf(u) == [p \in Workers |-> MoneyTerm(u, p)]
MovedOf(u, b) == [p \in Workers |-> MovedTerm(u, b, p)]
DeliveredOf(u, c) == [p \in Workers |-> DeliveredTerm(u, c, p)]

AccountBooked(u) == account[u] = settled[u].account + SumFunctionOnSet(MoneyOf(u), Workers)
BankBooked(u, b) ==
    bank[u][b] = OpeningBalance + settled[u].bank[b] + SumFunctionOnSet(MovedOf(u, b), Workers)
SharesBooked(u, c) ==
    owned[u][c] = settled[u].shares[c] + SumFunctionOnSet(DeliveredOf(u, c), Workers)

\* A transfer has chosen one of the user's bank accounts, the one it names if it
\* names one of them.
Chose(p) ==
    local[p].bank \in Banks /\ (req[p].bank \in Banks => local[p].bank = req[p].bank)

\* What the writes of a worker are, and from where on a transfer has chosen.
Booking(p) ==
    /\ done[p] # {} => done[p] \subseteq Writes(req[p].kind)
    /\ /\ req[p].kind \in Transfers
       /\ \/ pc[p] \in {"selectFromAccountInfo", "changeAccount", "increaseBankAccount"}
          \/ "increaseBankAccount" \in done[p]
       => Chose(p)

BookingInv == \A p \in Workers : Booking(p)
BooksInv ==
    /\ BookingInv
    /\ \A u \in Users : /\ AccountBooked(u)
                        /\ \A b \in Banks : BankBooked(u, b)
                        /\ \A c \in Companies : SharesBooked(u, c)

\* The terms are numbers.
TermsTyped ==
    \A p \in Workers : /\ \A u : MoneyTerm(u, p) \in Int
                       /\ \A u, b : MovedTerm(u, b, p) \in Int
                       /\ \A u, c : DeliveredTerm(u, c, p) \in Int

\* What one request contributes to a column is an integer.
LEMMA TermTypes == TypeInv /\ BookingInv => TermsTyped
<1> SUFFICES ASSUME TypeInv, BookingInv, NEW p \in Workers
             PROVE  /\ \A u : MoneyTerm(u, p) \in Int
                    /\ \A u, b : MovedTerm(u, b, p) \in Int
                    /\ \A u, c : DeliveredTerm(u, c, p) \in Int
  BY DEF TermsTyped
<1>1. CASE done[p] = {}
  BY <1>1 DEF MoneyTerm, MovedTerm, DeliveredTerm
<1>2. CASE done[p] # {}
  <2>1. req[p] \in Requests /\ req[p] \in TransferRequests \union TradeRequests
    BY <1>2 DEF TypeInv, Serving, Requests
  <2>2. AccountDelta(p) \in Int /\ BankDelta(p) \in Int
        /\ (req[p].kind \in Trades => SharesDelta(p) \in Int)
    BY <2>1, WorthType
  <2>3. req[p].kind \in {"deposit", "withdraw", "buy", "sell", "poll"}
    BY <2>1, RequestFields
  <2>4. done[p] \subseteq Writes(req[p].kind)
    BY <1>2 DEF BookingInv, Booking
  <2>5. "upsertOwnedStock" \in Writes(req[p].kind) => req[p].kind \in Trades
    BY <2>3 DEF Writes, Transfers, Trades
  <2> QED
    BY <2>2, <2>4, <2>5 DEF MoneyTerm, MovedTerm, DeliveredTerm
<1> QED
  BY <1>1, <1>2

\* The sum of the terms moves by what the term of one worker does.
LEMMA TermsMove ==
    ASSUME NEW fn, NEW gn, NEW p \in Workers,
           \A q \in Workers : fn[q] \in Int, gn[p] \in Int,
           \A q \in Workers \ {p} : gn[q] = fn[q]
    PROVE  /\ SumFunctionOnSet(fn, Workers) \in Int
           /\ SumFunctionOnSet(gn, Workers)
                = SumFunctionOnSet(fn, Workers) + gn[p] - fn[p]
BY SumIsInt, SumChanges, WorkersAssumption

\* What every step leaves of the other workers, and what it moves.
Frame(p) ==
    \A q \in Workers \ {p} : /\ done'[q] = done[q] /\ req'[q] = req[q]
                             /\ local'[q] = local[q] /\ pc'[q] = pc[q]
Moves(p) ==
    \A u \in Users :
        /\ account'[u] - account[u]
             = (settled'[u].account - settled[u].account) + (MoneyTerm(u, p)' - MoneyTerm(u, p))
        /\ \A b \in Banks :
             bank'[u][b] - bank[u][b]
               = (settled'[u].bank[b] - settled[u].bank[b])
                  + (MovedTerm(u, b, p)' - MovedTerm(u, b, p))
        /\ \A c \in Companies :
             owned'[u][c] - owned[u][c]
               = (settled'[u].shares[c] - settled[u].shares[c])
                  + (DeliveredTerm(u, c, p)' - DeliveredTerm(u, c, p))

\* A thread that takes no step contributes to the columns what it did.
LEMMA FrameTerms ==
    ASSUME NEW q, done'[q] = done[q], req'[q] = req[q], local'[q] = local[q], pc'[q] = pc[q]
    PROVE  /\ \A u : MoneyTerm(u, q)' = MoneyTerm(u, q)
           /\ \A u, b : MovedTerm(u, b, q)' = MovedTerm(u, b, q)
           /\ \A u, c : DeliveredTerm(u, c, q)' = DeliveredTerm(u, c, q)
           /\ Booking(q) => Booking(q)'
<1>1. Worth(q)' = Worth(q)
  BY DEF Worth
<1>2. AccountDelta(q)' = AccountDelta(q) /\ BankDelta(q)' = BankDelta(q)
      /\ SharesDelta(q)' = SharesDelta(q)
  BY <1>1 DEF AccountDelta, BankDelta, SharesDelta
<1> QED
  BY <1>2 DEF MoneyTerm, MovedTerm, DeliveredTerm, Booking, Chose

\* A step of one thread that moves each column by what the thread contributes
\* to it, or settles, keeps the columns equal to the sum of the contributions.
LEMMA BooksMove ==
    ASSUME TypeInv, TypeInv', BooksInv, NEW p \in Workers, Frame(p), Booking(p)', Moves(p)
    PROVE  BooksInv'
<1>1. BookingInv'
  BY FrameTerms DEF Frame, BooksInv, BookingInv
<1>2. TermsTyped
  BY TermTypes DEF BooksInv
<1>3. TermsTyped'
  BY <1>1, TermTypes, PTL
<1>4. /\ \A u \in Users : account[u] \in Int /\ account'[u] \in Int
                          /\ settled[u].account \in Int /\ settled'[u].account \in Int
      /\ \A u \in Users, b \in Banks :
            bank[u][b] \in Int /\ bank'[u][b] \in Int
            /\ settled[u].bank[b] \in Int /\ settled'[u].bank[b] \in Int
      /\ \A u \in Users, c \in Companies :
            owned[u][c] \in Int /\ owned'[u][c] \in Int
            /\ settled[u].shares[c] \in Int /\ settled'[u].shares[c] \in Int
  BY DEF TypeInv, TypeOK, TablesOK, HandlersOK, Ledgers
<1>5. ASSUME NEW u \in Users PROVE AccountBooked(u)'
  <2> DEFINE fn == MoneyOf(u)
             gn == MoneyOf(u)'
             value == account[u]
             value1 == account'[u]
             base == settled[u].account
             base1 == settled'[u].account
  <2>1. gn = [q \in Workers |-> MoneyTerm(u, q)']
    BY DEF MoneyOf
  <2>2. \A q \in Workers \ {p} : MoneyTerm(u, q)' = MoneyTerm(u, q)
    BY FrameTerms DEF Frame
  <2>3. /\ \A q \in Workers : fn[q] \in Int
        /\ gn[p] \in Int /\ gn[p] - fn[p] = MoneyTerm(u, p)' - MoneyTerm(u, p)
        /\ \A q \in Workers \ {p} : gn[q] = fn[q]
    BY <1>2, <1>3, <2>1, <2>2 DEF TermsTyped, MoneyOf
  <2>4. value = base + SumFunctionOnSet(fn, Workers)
    BY DEF BooksInv, AccountBooked
  <2>5. /\ value \in Int /\ value1 \in Int /\ base \in Int /\ base1 \in Int
        /\ value1 - value = (base1 - base) + (gn[p] - fn[p])
    BY <1>4, <2>3 DEF Moves
  <2>6. /\ SumFunctionOnSet(fn, Workers) \in Int
        /\ SumFunctionOnSet(gn, Workers) = SumFunctionOnSet(fn, Workers) + gn[p] - fn[p]
    <3> HIDE DEF fn, gn
    <3> QED
      BY ONLY <2>3, p \in Workers, TermsMove
  <2>7. value1 = base1 + SumFunctionOnSet(gn, Workers)
    <3>1. gn[p] \in Int /\ fn[p] \in Int
      BY <2>3
    <3> HIDE DEF fn, gn, value, value1, base, base1
    <3> QED
      BY ONLY <2>4, <2>5, <2>6, <3>1
  <2> QED
    BY <2>7 DEF AccountBooked
<1>6. ASSUME NEW u \in Users, NEW b \in Banks PROVE BankBooked(u, b)'
  <2> DEFINE fn == MovedOf(u, b)
             gn == MovedOf(u, b)'
             value == bank[u][b]
             value1 == bank'[u][b]
             base == (OpeningBalance + settled[u].bank[b])
             base1 == (OpeningBalance + settled'[u].bank[b])
  <2>1. gn = [q \in Workers |-> MovedTerm(u, b, q)']
    BY DEF MovedOf
  <2>2. \A q \in Workers \ {p} : MovedTerm(u, b, q)' = MovedTerm(u, b, q)
    BY FrameTerms DEF Frame
  <2>3. /\ \A q \in Workers : fn[q] \in Int
        /\ gn[p] \in Int /\ gn[p] - fn[p] = MovedTerm(u, b, p)' - MovedTerm(u, b, p)
        /\ \A q \in Workers \ {p} : gn[q] = fn[q]
    BY <1>2, <1>3, <2>1, <2>2 DEF TermsTyped, MovedOf
  <2>4. value = base + SumFunctionOnSet(fn, Workers)
    BY DEF BooksInv, BankBooked
  <2>5. /\ value \in Int /\ value1 \in Int /\ base \in Int /\ base1 \in Int
        /\ value1 - value = (base1 - base) + (gn[p] - fn[p])
    BY <1>4, <2>3, MoneyAssumption DEF Moves
  <2>6. /\ SumFunctionOnSet(fn, Workers) \in Int
        /\ SumFunctionOnSet(gn, Workers) = SumFunctionOnSet(fn, Workers) + gn[p] - fn[p]
    <3> HIDE DEF fn, gn
    <3> QED
      BY ONLY <2>3, p \in Workers, TermsMove
  <2>7. value1 = base1 + SumFunctionOnSet(gn, Workers)
    <3>1. gn[p] \in Int /\ fn[p] \in Int
      BY <2>3
    <3> HIDE DEF fn, gn, value, value1, base, base1
    <3> QED
      BY ONLY <2>4, <2>5, <2>6, <3>1
  <2> QED
    BY <2>7 DEF BankBooked
<1>7. ASSUME NEW u \in Users, NEW c \in Companies PROVE SharesBooked(u, c)'
  <2> DEFINE fn == DeliveredOf(u, c)
             gn == DeliveredOf(u, c)'
             value == owned[u][c]
             value1 == owned'[u][c]
             base == settled[u].shares[c]
             base1 == settled'[u].shares[c]
  <2>1. gn = [q \in Workers |-> DeliveredTerm(u, c, q)']
    BY DEF DeliveredOf
  <2>2. \A q \in Workers \ {p} : DeliveredTerm(u, c, q)' = DeliveredTerm(u, c, q)
    BY FrameTerms DEF Frame
  <2>3. /\ \A q \in Workers : fn[q] \in Int
        /\ gn[p] \in Int /\ gn[p] - fn[p] = DeliveredTerm(u, c, p)' - DeliveredTerm(u, c, p)
        /\ \A q \in Workers \ {p} : gn[q] = fn[q]
    BY <1>2, <1>3, <2>1, <2>2 DEF TermsTyped, DeliveredOf
  <2>4. value = base + SumFunctionOnSet(fn, Workers)
    BY DEF BooksInv, SharesBooked
  <2>5. /\ value \in Int /\ value1 \in Int /\ base \in Int /\ base1 \in Int
        /\ value1 - value = (base1 - base) + (gn[p] - fn[p])
    BY <1>4, <2>3 DEF Moves
  <2>6. /\ SumFunctionOnSet(fn, Workers) \in Int
        /\ SumFunctionOnSet(gn, Workers) = SumFunctionOnSet(fn, Workers) + gn[p] - fn[p]
    <3> HIDE DEF fn, gn
    <3> QED
      BY ONLY <2>3, p \in Workers, TermsMove
  <2>7. value1 = base1 + SumFunctionOnSet(gn, Workers)
    <3>1. gn[p] \in Int /\ fn[p] \in Int
      BY <2>3
    <3> HIDE DEF fn, gn, value, value1, base, base1
    <3> QED
      BY ONLY <2>4, <2>5, <2>6, <3>1
  <2> QED
    BY <2>7 DEF SharesBooked
<1> QED
  BY <1>1, <1>5, <1>6, <1>7 DEF BooksInv

-----------------------------------------------------------------------------
(* One lemma per kind of step: what it moves, and what it leaves Booking.    *)

\* A thread that works on a request does serve one.
LEMMA WorkBusy == ASSUME NEW p \in Workers, Work(p) PROVE pc[p] # "idle"
BY DEF Work, Call, Open, Refused, Aborted, SidToUid, SelectFromBankAccount,
       SelectFromAccountInfo, ReportBalance, InsertTradeHistory, SelectFromOwnedStock,
       CountOwnedStock, SelectFromAvgPrice, UpsertAvgPrice, UpsertOwnedStock, ChangeAccount,
       IncreaseBankAccount, Calling

\* It leaves every request as it is and every other thread where it is.
LEMMA WorkOthers ==
    ASSUME TypeInv, NEW p \in Workers, Work(p)
    PROVE  req' = req /\ started' = started /\ \A q \in Workers \ {p} : pc'[q] = pc[q]
<1> DEFINE Alone == req' = req /\ started' = started /\ \A q \in Workers \ {p} : pc'[q] = pc[q]
<1> SUFFICES Alone
  OBVIOUS
<1>1. pc \in [Workers -> Calls \union {"idle"}]
  BY DEF TypeInv, TypeOK, HandlersOK
<1>2. \A outcome : Answer(p, outcome) => Alone
  BY <1>1 DEF Answer
<1>3. \A next : Return(p, next) => Alone
  BY <1>1 DEF Return
<1>4. \A writes, next : Commit(p, writes, next) => Alone
  BY <1>1 DEF Commit
<1> HIDE DEF Alone
<1>5. CASE Open(p)
  BY <1>5 DEF Open, Alone
<1>6. CASE \/ Refused(p) \/ Aborted(p) \/ ReportBalance(p) \/ SidToUid(p)
           \/ SelectFromBankAccount(p) \/ SelectFromAccountInfo(p)
  BY <1>2, <1>3, <1>6 DEF Refused, Aborted, ReportBalance, SidToUid, SelectFromBankAccount,
     SelectFromAccountInfo
<1>7. CASE InsertTradeHistory(p) \/ UpsertAvgPrice(p) \/ UpsertOwnedStock(p)
  BY <1>4, <1>7 DEF InsertTradeHistory, UpsertAvgPrice, UpsertOwnedStock
<1>8. CASE SelectFromOwnedStock(p)
  <2>1. req[p].kind \in {"buy", "sell", "poll"}
    BY <1>8, CallFacts DEF SelectFromOwnedStock, Calls, CallsOf
  <2> QED
    BY <1>2, <1>3, <1>8, <2>1 DEF SelectFromOwnedStock
<1>9. CASE CountOwnedStock(p) \/ SelectFromAvgPrice(p)
  BY <1>2, <1>3, <1>9 DEF CountOwnedStock, SelectFromAvgPrice
<1>10. CASE ChangeAccount(p)
  <2>1. \E writes, next : Commit(p, writes, next)
    BY <1>10 DEF ChangeAccount
  <2> QED
    BY <1>4, <2>1
<1>11. CASE IncreaseBankAccount(p)
  BY <1>4, <1>11 DEF IncreaseBankAccount
<1> QED
  BY <1>5, <1>6, <1>7, <1>8, <1>9, <1>10, <1>11 DEF Work, Call

\* Every step of a worker keeps to the worker.
LEMMA WorkFrame ==
    ASSUME TypeInv, NEW p \in Workers, Start(p) \/ Work(p)
    PROVE  Frame(p)
<1>0. /\ pc \in [Workers -> Calls \union {"idle"}] /\ local \in [Workers -> Locals]
      /\ DOMAIN done = Workers /\ DOMAIN req = Workers
      /\ done \in [Workers -> SUBSET Calls]
  BY DEF TypeInv, TypeOK, HandlersOK
<1> DEFINE Rest == \A q \in Workers \ {p} : /\ done'[q] = done[q] /\ req'[q] = req[q]
                                           /\ pc'[q] = pc[q]
           Own == \A q \in Workers \ {p} : local'[q] = local[q]
<1>1. \A outcome : Answer(p, outcome) => Rest
  BY <1>0 DEF Answer
<1>2. \A next : Return(p, next) => Rest
  BY <1>0 DEF Return
<1>3. \A writes, next : Commit(p, writes, next) => Rest /\ Own
  BY <1>0 DEF Commit
<1>4. UNCHANGED local => Own
  OBVIOUS
<1> SUFFICES Rest /\ Own
  BY DEF Frame
<1>5. CASE Start(p) \/ Open(p)
  BY <1>0, <1>5 DEF Start, Open, TypeInv, TypeOK, HandlersOK
<1>6. CASE \/ Refused(p) \/ Aborted(p) \/ SelectFromAccountInfo(p) \/ ReportBalance(p)
           \/ CountOwnedStock(p)
  <2>1. UNCHANGED local
    BY <1>6 DEF Refused, Aborted, SelectFromAccountInfo, ReportBalance, CountOwnedStock
  <2>2. (\E outcome : Answer(p, outcome)) \/ (\E next : Return(p, next))
    BY <1>6 DEF Refused, Aborted, SelectFromAccountInfo, ReportBalance, CountOwnedStock
  <2> QED
    BY <1>1, <1>2, <1>4, <2>1, <2>2
<1>7. CASE SidToUid(p)
  <2>1. UNCHANGED local \/ \E price : local' = [local EXCEPT ![p].price = price]
    BY <1>7 DEF SidToUid
  <2>2. (\E outcome : Answer(p, outcome)) \/ (\E next : Return(p, next))
    BY <1>7 DEF SidToUid
  <2> QED
    BY <1>0, <1>1, <1>2, <2>1, <2>2
<1>8. CASE SelectFromBankAccount(p)
  <2>1. UNCHANGED local \/ \E b : local' = [local EXCEPT ![p].bank = b]
    BY <1>8 DEF SelectFromBankAccount
  <2>2. (\E outcome : Answer(p, outcome)) \/ (\E next : Return(p, next))
    BY <1>8 DEF SelectFromBankAccount
  <2> QED
    BY <1>0, <1>1, <1>2, <2>1, <2>2
<1>9. CASE SelectFromOwnedStock(p)
  <2>1. req[p].kind \in {"buy", "sell", "poll"}
    BY <1>9, CallFacts DEF SelectFromOwnedStock, Calls, CallsOf
  <2>2. \E n : local' = [local EXCEPT ![p].owned = n]
    BY <1>9 DEF SelectFromOwnedStock
  <2>3. (\E outcome : Answer(p, outcome)) \/ (\E next : Return(p, next))
    BY <1>9, <2>1 DEF SelectFromOwnedStock
  <2> QED
    BY <1>0, <1>1, <1>2, <2>2, <2>3
<1>10. CASE SelectFromAvgPrice(p)
  <2>1. \E n : local' = [local EXCEPT ![p].avg = n]
    BY <1>10 DEF SelectFromAvgPrice
  <2>2. \E next : Return(p, next)
    BY <1>10 DEF SelectFromAvgPrice
  <2> QED
    BY <1>0, <1>2, <2>1, <2>2
<1>11. CASE \/ InsertTradeHistory(p) \/ UpsertAvgPrice(p) \/ UpsertOwnedStock(p)
            \/ ChangeAccount(p) \/ IncreaseBankAccount(p)
  <2>1. \E writes, next : Commit(p, writes, next)
    BY <1>11 DEF InsertTradeHistory, UpsertAvgPrice, UpsertOwnedStock, ChangeAccount,
                 IncreaseBankAccount
  <2> QED
    BY <1>3, <2>1
<1> QED
  BY <1>5, <1>6, <1>7, <1>8, <1>9, <1>10, <1>11 DEF Work, Call

\* The columns and what they are sums of are numbers.
Numbers ==
    /\ \A u \in Users : account[u] \in Int /\ settled[u].account \in Int
    /\ \A u \in Users, b \in Banks : bank[u][b] \in Int /\ settled[u].bank[b] \in Int
    /\ \A u \in Users, c \in Companies : owned[u][c] \in Int /\ settled[u].shares[c] \in Int

\* Every entry of the columns and of the settled writes is an integer.
LEMMA ColumnTypes == TypeInv => Numbers
BY DEF TypeInv, TypeOK, TablesOK, HandlersOK, Ledgers, Numbers

\* The locals the terms of a worker depend on.
SameTerms(p) == local'[p].price = local[p].price /\ local'[p].bank = local[p].bank

\* A step that writes none of the three columns moves nothing.
LEMMA QuietMoves ==
    ASSUME TypeInv, BooksInv, NEW p \in Workers,
           UNCHANGED <<account, bank, owned, settled>>, req'[p] = req[p],
           SameTerms(p) \/ done[p] = {},
           \A write \in {"changeAccount", "increaseBankAccount", "upsertOwnedStock"} :
               write \in done'[p] <=> write \in done[p]
    PROVE  Moves(p)
<1>1. Numbers /\ TermsTyped
  BY ColumnTypes, TermTypes DEF BooksInv
<1>2. /\ \A u : MoneyTerm(u, p)' = MoneyTerm(u, p)
      /\ \A u, b : MovedTerm(u, b, p)' = MovedTerm(u, b, p)
      /\ \A u, c : DeliveredTerm(u, c, p)' = DeliveredTerm(u, c, p)
  <2>1. CASE done[p] = {}
    BY <2>1 DEF MoneyTerm, MovedTerm, DeliveredTerm
  <2>2. CASE SameTerms(p)
    BY <2>2, WorthKept DEF SameTerms, MoneyTerm, MovedTerm, DeliveredTerm
  <2> QED
    BY <2>1, <2>2
<1> QED
  BY <1>1, <1>2 DEF Moves, Numbers, TermsTyped

\* So do the steps that only read, answer or open a transaction.
LEMMA ReadBooks ==
    ASSUME TypeInv, AccountedInv, BooksInv, NEW p \in Workers,
           \/ Open(p) \/ Refused(p) \/ Aborted(p) \/ SidToUid(p) \/ SelectFromBankAccount(p)
           \/ SelectFromAccountInfo(p) \/ ReportBalance(p) \/ SelectFromOwnedStock(p)
           \/ CountOwnedStock(p) \/ SelectFromAvgPrice(p)
    PROVE  Moves(p) /\ Booking(p)'
<1>0. /\ pc \in [Workers -> Calls \union {"idle"}] /\ local \in [Workers -> Locals]
      /\ Booking(p)
  BY DEF TypeInv, TypeOK, HandlersOK, BooksInv, BookingInv
<1> DEFINE Answers == (\E outcome : Answer(p, outcome)) /\ UNCHANGED tables
           Returns(next) == Return(p, next) /\ UNCHANGED tables
           Chosen == req[p].kind \in Transfers => Chose(p)'
<1>1. ASSUME Answers, SameTerms(p) \/ done[p] = {}
      PROVE  Moves(p) /\ Booking(p)'
  <2>1. /\ UNCHANGED <<account, bank, owned, settled, req, done>>
        /\ pc'[p] = "idle"
    BY <1>0, <1>1 DEF Answer, tables
  <2>2. Moves(p)
    BY <1>1, <2>1, QuietMoves
  <2>3. Booking(p)'
    BY <1>0, <1>1, <2>1 DEF Booking, Chose, SameTerms
  <2> QED
    BY <2>2, <2>3
<1>2. ASSUME NEW next, Returns(next), SameTerms(p) \/ done[p] = {},
             \/ next \notin {"selectFromAccountInfo", "changeAccount", "increaseBankAccount"}
             \/ Chosen
      PROVE  Moves(p) /\ Booking(p)'
  <2>1. /\ UNCHANGED <<account, bank, owned, settled, req, done>>
        /\ pc'[p] = next
    BY <1>0, <1>2 DEF Return, tables
  <2>2. Moves(p)
    BY <1>2, <2>1, QuietMoves
  <2>3. Booking(p)'
    <3>1. req[p].kind \in Transfers /\ "increaseBankAccount" \in done[p] => Chose(p)'
      BY <1>0, <1>2, <2>1 DEF Booking, Chose, SameTerms
    <3> QED
      BY <1>0, <1>2, <2>1, <3>1 DEF Booking
  <2> QED
    BY <2>2, <2>3
<1>3. CASE Open(p)
  <2>1. UNCHANGED <<account, bank, owned, settled, req, done, local, pc>>
    BY <1>3 DEF Open, tables
  <2> QED
    BY <1>0, <2>1, QuietMoves DEF Booking, Chose, SameTerms
<1>4. CASE Refused(p) \/ Aborted(p) \/ ReportBalance(p)
  BY <1>1, <1>4 DEF Refused, Aborted, ReportBalance, tables, SameTerms
<1>5. CASE SidToUid(p)
  <2>1. done[p] = {} /\ req[p].kind \in {"deposit", "withdraw", "buy", "sell", "poll"}
    BY <1>5, DoneBefore DEF SidToUid, DoneAt, Made, Landed, Calls
  <2>2. CASE Answers /\ UNCHANGED local
    BY <1>1, <2>1, <2>2
  <2>3. CASE Returns(FirstCall(req[p].kind))
    <3>1. \/ FirstCall(req[p].kind) \notin {"selectFromAccountInfo", "changeAccount",
                                           "increaseBankAccount"}
          \/ req[p].kind \notin Transfers
      BY <2>1 DEF FirstCall, Transfers
    <3> QED
      BY <1>2, <2>1, <2>3, <3>1
  <2> QED
    BY <1>5, <2>2, <2>3 DEF SidToUid
<1>6. CASE SelectFromBankAccount(p)
  <2>1. done[p] = {}
    BY <1>6, DoneBefore DEF SelectFromBankAccount, DoneAt, Made, Landed, Calls
  <2>2. CASE Answers
    BY <1>1, <2>1, <2>2
  <2>3. CASE ~Answers
    <3>1. PICK first, second \in Banks :
            /\ first # second
            /\ local' = [local EXCEPT ![p].bank = IF req[p].bank = first THEN first ELSE second]
      BY <1>6, <2>3 DEF SelectFromBankAccount
    <3>2. Banks = {first, second}
      BY <3>1, BanksAssumption
    <3>3. local'[p].bank = IF req[p].bank = first THEN first ELSE second
      BY <1>0, <3>1 DEF Locals
    <3>4. req'[p] = req[p] /\ (Returns("selectFromAccountInfo") \/ Returns("changeAccount"))
      BY <1>6, <2>3 DEF SelectFromBankAccount, Return
    <3>5. Chosen
      BY <3>2, <3>3, <3>4 DEF Chose
    <3> HIDE DEF Answers, Returns, Chosen
    <3> QED
      BY <1>2, <2>1, <3>4, <3>5
  <2> QED
    BY <2>2, <2>3
<1>7. CASE SelectFromAccountInfo(p)
  <2>1. pc[p] = "selectFromAccountInfo" /\ UNCHANGED local
    BY <1>7 DEF SelectFromAccountInfo, Calling
  <2>2. Answers \/ Returns("insertTradeHistory") \/ Returns("changeAccount")
    BY <1>7 DEF SelectFromAccountInfo, tables
  <2>3. req'[p] = req[p] /\ SameTerms(p)
    BY <1>7, <2>1 DEF SelectFromAccountInfo, Answer, Return, SameTerms
  <2>4. Chosen
    BY <1>0, <2>1, <2>3 DEF Booking, Chose
  <2> HIDE DEF Answers, Returns, Chosen
  <2> QED
    BY <1>1, <1>2, <2>2, <2>3, <2>4
<1>8. CASE SelectFromOwnedStock(p)
  <2>1. req[p].kind \in {"buy", "sell", "poll"}
    BY <1>8, CallFacts DEF SelectFromOwnedStock, Calls, CallsOf
  <2>2. SameTerms(p)
    BY <1>0, <1>8 DEF SelectFromOwnedStock, Locals, SameTerms
  <2>3. Answers \/ Returns("selectFromAvgPrice") \/ Returns("countOwnedStock")
    BY <1>8, <2>1 DEF SelectFromOwnedStock, tables
  <2> HIDE DEF Answers, Returns, Chosen
  <2> QED
    BY <1>1, <1>2, <2>2, <2>3
<1>9. CASE CountOwnedStock(p)
  <2>1. SameTerms(p) /\ (Answers \/ Returns("insertTradeHistory"))
    BY <1>9 DEF CountOwnedStock, tables, SameTerms
  <2> HIDE DEF Answers, Returns, Chosen
  <2> QED
    BY <1>1, <1>2, <2>1
<1>10. CASE SelectFromAvgPrice(p)
  <2>1. SameTerms(p) /\ Returns("upsertAvgPrice")
    BY <1>0, <1>10 DEF SelectFromAvgPrice, Locals, SameTerms
  <2> HIDE DEF Answers, Returns, Chosen
  <2> QED
    BY <1>2, <2>1
<1> QED
  BY <1>3, <1>4, <1>5, <1>6, <1>7, <1>8, <1>9, <1>10

\* What a commit leaves of the request, and that its writes belong to it.
LEMMA CommitBooking ==
    ASSUME TypeInv, BooksInv, NEW p \in Workers, NEW call \in Writes(req[p].kind),
           NEW writes, writes \in {{}, {call}},
           NEW next \in {"selectFromOwnedStock", "upsertOwnedStock", "changeAccount",
                         "increaseBankAccount", "reportBalance", "idle"},
           Commit(p, writes, next),
           req[p].kind \in Transfers => pc[p] \in {"changeAccount", "increaseBankAccount"}
    PROVE  /\ Booking(p)'
           /\ done'[p] = done[p] \union writes /\ req'[p] = req[p] /\ settled' = settled
           /\ local' = local
           /\ AccountDelta(p)' = AccountDelta(p) /\ BankDelta(p)' = BankDelta(p)
           /\ SharesDelta(p)' = SharesDelta(p)
<1>1. /\ done'[p] = done[p] \union writes /\ req'[p] = req[p] /\ settled' = settled
      /\ local' = local /\ pc'[p] \in {next, "idle"}
  BY DEF Commit, TypeInv, TypeOK, HandlersOK
<1>2. Booking(p)
  BY DEF BooksInv, BookingInv
<1>3. Booking(p)'
  BY <1>1, <1>2 DEF Booking, Chose
<1> QED
  BY <1>1, <1>3, WorthKept

\* A write moves the column it writes by what it adds to the request's term.
LEMMA WriteBooks ==
    ASSUME TypeInv, AccountedInv, BooksInv, NEW p \in Workers,
           \/ InsertTradeHistory(p) \/ UpsertAvgPrice(p) \/ UpsertOwnedStock(p)
           \/ ChangeAccount(p) \/ IncreaseBankAccount(p)
    PROVE  Moves(p) /\ Booking(p)'
<1> DEFINE u == req[p].user
           kind == req[p].kind
<1>0. Numbers /\ TermsTyped
  BY ColumnTypes, TermTypes DEF BooksInv
<1>1. CASE InsertTradeHistory(p)
  <2> DEFINE next == IF kind = "buy" THEN "selectFromOwnedStock" ELSE "upsertOwnedStock"
  <2>1. /\ Calling(p, "insertTradeHistory") /\ Commit(p, {"insertTradeHistory"}, next)
        /\ UNCHANGED <<account, bank, owned>>
    BY <1>1 DEF InsertTradeHistory
  <2>2. kind \in {"buy", "sell"} /\ "insertTradeHistory" \in Writes(kind) /\ kind \notin Transfers
    BY <2>1, CallFacts DEF Calls, CallsOf, Writes, Transfers
  <2>3. /\ Booking(p)' /\ done'[p] = done[p] \union {"insertTradeHistory"}
        /\ req'[p] = req[p] /\ settled' = settled /\ local' = local
    BY <2>1, <2>2, CommitBooking
  <2> QED
    BY <2>1, <2>3, QuietMoves DEF SameTerms
<1>2. CASE UpsertAvgPrice(p)
  <2>1. /\ Calling(p, "upsertAvgPrice") /\ Commit(p, {"upsertAvgPrice"}, "upsertOwnedStock")
        /\ UNCHANGED <<account, bank, owned>>
    BY <1>2 DEF UpsertAvgPrice
  <2>2. kind = "buy" /\ "upsertAvgPrice" \in Writes(kind) /\ kind \notin Transfers
    BY <2>1, CallFacts DEF Calls, CallsOf, Writes, Transfers
  <2>3. /\ Booking(p)' /\ done'[p] = done[p] \union {"upsertAvgPrice"}
        /\ req'[p] = req[p] /\ settled' = settled /\ local' = local
    BY <2>1, <2>2, CommitBooking
  <2> QED
    BY <2>1, <2>3, QuietMoves DEF SameTerms
<1>3. CASE UpsertOwnedStock(p)
  <2> DEFINE c == req[p].company
  <2>1. /\ Calling(p, "upsertOwnedStock") /\ Commit(p, {"upsertOwnedStock"}, "changeAccount")
        /\ UNCHANGED <<account, bank>> /\ owned' = [owned EXCEPT ![u][c] = @ + SharesDelta(p)]
    BY <1>3 DEF UpsertOwnedStock
  <2>2. /\ kind \in {"buy", "sell"} /\ "upsertOwnedStock" \in Writes(kind)
        /\ kind \notin Transfers /\ u \in Users /\ kind \in Trades /\ req[p] \in Requests
    BY <2>1, CallFacts DEF Calls, CallsOf, Writes, Transfers, Trades
  <2>3. /\ Booking(p)' /\ done'[p] = done[p] \union {"upsertOwnedStock"}
        /\ req'[p] = req[p] /\ settled' = settled /\ local' = local
        /\ AccountDelta(p)' = AccountDelta(p) /\ BankDelta(p)' = BankDelta(p)
        /\ SharesDelta(p)' = SharesDelta(p)
    BY <2>1, <2>2, CommitBooking
  <2>4. "upsertOwnedStock" \notin done[p]
    BY <2>1, <2>2, DoneBefore DEF DoneAt, Made, Landed, Calls
  <2>5. c \in Companies /\ SharesDelta(p) \in Int
    BY <2>2, RequestFields, WorthType
  <2>6. /\ \A v : MoneyTerm(v, p)' = MoneyTerm(v, p)
        /\ \A v, b : MovedTerm(v, b, p)' = MovedTerm(v, b, p)
    BY <2>3 DEF MoneyTerm, MovedTerm
  <2>7. \A v, d : /\ DeliveredTerm(v, d, p) = 0
                  /\ DeliveredTerm(v, d, p)' = IF u = v /\ c = d THEN SharesDelta(p) ELSE 0
    BY <2>3, <2>4 DEF DeliveredTerm
  <2>8. \A v \in Users, d \in Companies :
            owned'[v][d] = IF u = v /\ c = d THEN owned[v][d] + SharesDelta(p) ELSE owned[v][d]
    BY <2>1, <2>2, <2>5 DEF TypeInv, TypeOK, TablesOK
  <2>9. Moves(p)
    <3>1. ASSUME NEW v \in Users
          PROVE  account'[v] - account[v]
                   = (settled'[v].account - settled[v].account) + (MoneyTerm(v, p)' - MoneyTerm(v, p))
      BY <1>0, <2>1, <2>3, <2>6 DEF Numbers, TermsTyped
    <3>2. ASSUME NEW v \in Users, NEW b \in Banks
          PROVE  bank'[v][b] - bank[v][b]
                   = (settled'[v].bank[b] - settled[v].bank[b])
                      + (MovedTerm(v, b, p)' - MovedTerm(v, b, p))
      BY <1>0, <2>1, <2>3, <2>6 DEF Numbers, TermsTyped
    <3>3. ASSUME NEW v \in Users, NEW d \in Companies
          PROVE  owned'[v][d] - owned[v][d]
                   = (settled'[v].shares[d] - settled[v].shares[d])
                      + (DeliveredTerm(v, d, p)' - DeliveredTerm(v, d, p))
      BY <1>0, <2>3, <2>5, <2>7, <2>8 DEF Numbers, TermsTyped
    <3> QED
      BY <3>1, <3>2, <3>3 DEF Moves
  <2> QED
    BY <2>3, <2>9
<1>4. CASE ChangeAccount(p)
  <2> DEFINE writes == IF u \notin Orphans THEN {"changeAccount"} ELSE {}
             next == IF kind \in Transfers THEN "increaseBankAccount" ELSE "reportBalance"
  <2>1. /\ Calling(p, "changeAccount") /\ Commit(p, writes, next)
        /\ UNCHANGED <<bank, owned>>
        /\ account' = IF u \notin Orphans THEN [account EXCEPT ![u] = @ + AccountDelta(p)]
                      ELSE account
    BY <1>4 DEF ChangeAccount
  <2>2. /\ kind \in {"deposit", "withdraw", "buy", "sell"} /\ "changeAccount" \in Writes(kind)
        /\ u \in Users /\ req[p] \in Requests /\ pc[p] = "changeAccount"
    BY <2>1, CallFacts DEF Calling, Calls, CallsOf, Writes, Transfers
  <2>3. /\ Booking(p)' /\ done'[p] = done[p] \union writes
        /\ req'[p] = req[p] /\ settled' = settled /\ local' = local
        /\ AccountDelta(p)' = AccountDelta(p) /\ BankDelta(p)' = BankDelta(p)
        /\ SharesDelta(p)' = SharesDelta(p)
    BY <2>1, <2>2, CommitBooking
  <2>4. "changeAccount" \notin done[p]
    BY <2>1, <2>2, DoneBefore DEF DoneAt, Made, Landed, Calls, Transfers
  <2>5. AccountDelta(p) \in Int
    BY <2>2, WorthType
  <2>6. CASE u \in Orphans
    BY <2>1, <2>3, <2>6, QuietMoves DEF SameTerms
  <2>7. CASE u \notin Orphans
    <3>1. /\ \A v, b : MovedTerm(v, b, p)' = MovedTerm(v, b, p)
          /\ \A v, c : DeliveredTerm(v, c, p)' = DeliveredTerm(v, c, p)
      BY <2>3, <2>7 DEF DeliveredTerm, MovedTerm
    <3>2. \A v : /\ MoneyTerm(v, p) = 0
                 /\ MoneyTerm(v, p)' = IF u = v THEN AccountDelta(p) ELSE 0
      BY <2>3, <2>4, <2>7 DEF MoneyTerm
    <3>3. \A v \in Users : account'[v] = IF u = v THEN account[v] + AccountDelta(p) ELSE account[v]
      BY <2>1, <2>2, <2>7 DEF TypeInv, TypeOK, TablesOK
    <3>4. bank' = bank /\ owned' = owned /\ settled' = settled
      BY <2>1, <2>3
    <3>5. Moves(p)
      BY <1>0, <2>5, <3>1, <3>2, <3>3, <3>4 DEF Moves, Numbers, TermsTyped
    <3> QED
      BY <2>3, <3>5
  <2> QED
    BY <2>3, <2>6, <2>7
<1>5. CASE IncreaseBankAccount(p)
  <2> DEFINE a == local[p].bank
  <2>1. /\ Calling(p, "increaseBankAccount") /\ Commit(p, {"increaseBankAccount"}, "idle")
        /\ UNCHANGED <<account, owned>>
        /\ bank' = [bank EXCEPT ![u][local[p].bank] = @ + BankDelta(p)]
    BY <1>5 DEF IncreaseBankAccount
  <2>2. /\ kind \in Transfers /\ "increaseBankAccount" \in Writes(kind)
        /\ u \in Users /\ req[p] \in Requests /\ pc[p] = "increaseBankAccount"
    BY <2>1, CallFacts DEF Calling, Calls, CallsOf, Writes, Transfers
  <2>3. /\ Booking(p)' /\ done'[p] = done[p] \union {"increaseBankAccount"}
        /\ req'[p] = req[p] /\ settled' = settled /\ local' = local
        /\ AccountDelta(p)' = AccountDelta(p) /\ BankDelta(p)' = BankDelta(p)
        /\ SharesDelta(p)' = SharesDelta(p)
    BY <2>1, <2>2, CommitBooking
  <2>4. "increaseBankAccount" \notin done[p]
    BY <2>1, <2>2, DoneBefore DEF DoneAt, Made, Landed, Calls
  <2>5. BankDelta(p) \in Int
    BY <2>2, WorthType
  <2>6. a \in Banks
    BY <2>2 DEF BooksInv, BookingInv, Booking, Chose
  <2>7. /\ \A v : MoneyTerm(v, p)' = MoneyTerm(v, p)
        /\ \A v, c : DeliveredTerm(v, c, p)' = DeliveredTerm(v, c, p)
    BY <2>3 DEF MoneyTerm, DeliveredTerm
  <2>8. \A v, b : /\ MovedTerm(v, b, p) = 0
                  /\ MovedTerm(v, b, p)' = IF u = v /\ a = b THEN BankDelta(p) ELSE 0
    BY <2>3, <2>4 DEF MovedTerm
  <2>9. \A v \in Users, b \in Banks :
            bank'[v][b] = IF u = v /\ a = b THEN bank[v][b] + BankDelta(p) ELSE bank[v][b]
    BY <2>1, <2>2, <2>5, <2>6 DEF TypeInv, TypeOK, TablesOK
  <2>10. Moves(p)
    BY <1>0, <2>1, <2>3, <2>5, <2>7, <2>8, <2>9 DEF Moves, Numbers, TermsTyped
  <2> QED
    BY <2>3, <2>10
<1> QED
  BY <1>1, <1>2, <1>3, <1>4, <1>5

\* A new request moves what the last one wrote into the settled part.
LEMMA StartBooks ==
    ASSUME TypeInv, BooksInv, NEW p \in Workers, Start(p)
    PROVE  Moves(p) /\ Booking(p)'
<1> DEFINE r == req[p]
           old == settled[r.user]
           money == IfDone(p, "changeAccount", AccountDelta(p))
           moved == IfDone(p, "increaseBankAccount", BankDelta(p))
           shares == IfDone(p, "upsertOwnedStock", SharesDelta(p))
<1>0. Numbers /\ TermsTyped
  BY ColumnTypes, TermTypes DEF BooksInv
<1>1. /\ UNCHANGED <<account, bank, owned>> /\ settled' = SettleLast(p)
      /\ done'[p] = {} /\ pc'[p] = "sidToUid"
  BY DEF Start, tables, TypeInv, TypeOK, HandlersOK
<1>2. /\ \A v : MoneyTerm(v, p)' = 0
      /\ \A v, b : MovedTerm(v, b, p)' = 0
      /\ \A v, c : DeliveredTerm(v, c, p)' = 0
  BY <1>1 DEF MoneyTerm, MovedTerm, DeliveredTerm
<1>3. Booking(p)'
  BY <1>1 DEF Booking
<1>4. CASE done[p] = {}
  <2>1. /\ \A v : MoneyTerm(v, p) = 0
        /\ \A v, b : MovedTerm(v, b, p) = 0
        /\ \A v, c : DeliveredTerm(v, c, p) = 0
    BY <1>4 DEF MoneyTerm, MovedTerm, DeliveredTerm
  <2>2. settled' = settled
    BY <1>1, <1>4 DEF SettleLast
  <2> QED
    BY <1>0, <1>1, <1>2, <1>3, <2>1, <2>2 DEF Moves, Numbers
<1>5. CASE done[p] # {}
  <2>1. /\ r \in Requests /\ r.kind \in Transfers \union Trades /\ r.user \in Users
        /\ (r.kind \in Trades => r.company \in Companies)
        /\ r.kind \in {"deposit", "withdraw", "buy", "sell", "poll"}
    <3>1. r \in TransferRequests \union TradeRequests /\ r \in Requests
      BY <1>5 DEF TypeInv, Serving, Requests
    <3>2. r.kind \in Transfers \union Trades
      BY <3>1 DEF TransferRequests, TradeRequests
    <3> QED
      BY <3>1, <3>2, RequestFields
  <2>2. done[p] \subseteq Writes(r.kind)
    BY <1>5 DEF BooksInv, BookingInv, Booking
  <2>3. /\ "increaseBankAccount" \in done[p] => r.kind \in Transfers
        /\ "upsertOwnedStock" \in done[p] => r.kind \in Trades
    BY <2>1, <2>2 DEF Writes, Transfers, Trades
  <2> DEFINE bank1 == IF r.kind \in Transfers
                      THEN [old.bank EXCEPT ![local[p].bank] = @ + moved] ELSE old.bank
             shares1 == IF r.kind \in Trades
                        THEN [old.shares EXCEPT ![r.company] = @ + shares] ELSE old.shares
             new == [account |-> old.account + money, bank |-> bank1, shares |-> shares1]
  <2>4. settled' = [settled EXCEPT ![r.user] = new]
    BY <1>1, <1>5 DEF SettleLast
  <2>5. settled \in [Users -> Ledgers] /\ old \in Ledgers
    BY <2>1 DEF TypeInv, TypeOK, HandlersOK
  <2>6. /\ money \in Int /\ moved \in Int /\ (r.kind \in Trades => shares \in Int)
    BY <2>1, WorthType DEF IfDone
  <2>7. /\ settled'[r.user] = new
        /\ \A v \in Users \ {r.user} : settled'[v] = settled[v]
    BY <2>1, <2>4, <2>5
  <2>8. /\ \A b \in Banks : bank1[b] = IF r.kind \in Transfers /\ b = local[p].bank
                                       THEN old.bank[b] + moved ELSE old.bank[b]
        /\ \A c \in Companies : shares1[c] = IF r.kind \in Trades /\ c = r.company
                                             THEN old.shares[c] + shares ELSE old.shares[c]
    BY <2>5 DEF Ledgers
  <2>9. /\ \A v : MoneyTerm(v, p) = IF r.user = v THEN money ELSE 0
        /\ \A v, b : MovedTerm(v, b, p)
                       = IF r.user = v /\ r.kind \in Transfers /\ local[p].bank = b THEN moved ELSE 0
        /\ \A v, c : DeliveredTerm(v, c, p)
                       = IF r.user = v /\ r.kind \in Trades /\ r.company = c THEN shares ELSE 0
    BY <2>3 DEF MoneyTerm, MovedTerm, DeliveredTerm, IfDone
  <2>10. Moves(p)
    <3> HIDE DEF money, moved, shares, bank1, shares1
    <3> SUFFICES ASSUME NEW v \in Users
                 PROVE  /\ account'[v] - account[v]
                             = (settled'[v].account - settled[v].account)
                                + (MoneyTerm(v, p)' - MoneyTerm(v, p))
                        /\ \A b \in Banks :
                             bank'[v][b] - bank[v][b]
                               = (settled'[v].bank[b] - settled[v].bank[b])
                                  + (MovedTerm(v, b, p)' - MovedTerm(v, b, p))
                        /\ \A c \in Companies :
                             owned'[v][c] - owned[v][c]
                               = (settled'[v].shares[c] - settled[v].shares[c])
                                  + (DeliveredTerm(v, c, p)' - DeliveredTerm(v, c, p))
      BY DEF Moves
    <3>1. CASE v # r.user
      <4>1. settled'[v] = settled[v] /\ account' = account /\ bank' = bank /\ owned' = owned
        BY <1>1, <2>7, <3>1
      <4>2. /\ MoneyTerm(v, p) = 0 /\ MoneyTerm(v, p)' = 0
            /\ \A b : MovedTerm(v, b, p) = 0 /\ MovedTerm(v, b, p)' = 0
            /\ \A c : DeliveredTerm(v, c, p) = 0 /\ DeliveredTerm(v, c, p)' = 0
        BY <1>2, <2>9, <3>1
      <4> QED
        BY <1>0, <4>1, <4>2 DEF Numbers
    <3>2. CASE v = r.user
      <4>1. /\ settled'[v].account = settled[v].account + money
            /\ settled'[v].bank = bank1 /\ settled'[v].shares = shares1
        BY <2>7, <3>2
      <4>2. account' = account /\ bank' = bank /\ owned' = owned
        BY <1>1
      <4>3. MoneyTerm(v, p) = money /\ MoneyTerm(v, p)' = 0
        BY <1>2, <2>9, <3>2
      <4>4. ASSUME NEW b \in Banks
            PROVE  /\ settled'[v].bank[b] = settled[v].bank[b] + MovedTerm(v, b, p)
                   /\ MovedTerm(v, b, p)' = 0 /\ MovedTerm(v, b, p) \in Int
        BY <1>0, <1>2, <2>6, <2>8, <2>9, <3>2, <4>1 DEF Numbers
      <4>5. ASSUME NEW c \in Companies
            PROVE  /\ settled'[v].shares[c] = settled[v].shares[c] + DeliveredTerm(v, c, p)
                   /\ DeliveredTerm(v, c, p)' = 0 /\ DeliveredTerm(v, c, p) \in Int
        BY <1>0, <1>2, <2>6, <2>8, <2>9, <3>2, <4>1 DEF Numbers
      <4> QED
        BY <1>0, <2>6, <4>1, <4>2, <4>3, <4>4, <4>5 DEF Numbers
    <3> QED
      BY <3>1, <3>2
  <2> QED
    BY <1>3, <2>10
<1> QED
  BY <1>4, <1>5

-----------------------------------------------------------------------------
\* Every step of Brokerage keeps the books inductively balanced.
LEMMA NextBooks ==
    ASSUME TypeInv, AccountedInv, BooksInv, [Next]_vars
    PROVE  BooksInv'
<1>0. TypeInv'
  BY NextTyped
<1>1. ASSUME NEW p \in Workers, Start(p) \/ Work(p)
      PROVE  BooksInv'
  <2>1. Moves(p) /\ Booking(p)'
    BY <1>1, ReadBooks, WriteBooks, StartBooks DEF Work, Call
  <2> QED
    BY <1>0, <1>1, <2>1, WorkFrame, BooksMove
<1>2. CASE UNCHANGED <<account, bank, owned, settled, done, req, local, pc>>
  <2>1. \A p \in Workers : /\ Booking(p)'
                           /\ \A u : MoneyTerm(u, p)' = MoneyTerm(u, p)
                           /\ \A u, b : MovedTerm(u, b, p)' = MovedTerm(u, b, p)
                           /\ \A u, c : DeliveredTerm(u, c, p)' = DeliveredTerm(u, c, p)
    BY <1>2, FrameTerms DEF BooksInv, BookingInv
  <2>2. /\ \A u : MoneyOf(u)' = MoneyOf(u)
        /\ \A u, b : MovedOf(u, b)' = MovedOf(u, b)
        /\ \A u, c : DeliveredOf(u, c)' = DeliveredOf(u, c)
    BY <2>1 DEF MoneyOf, MovedOf, DeliveredOf
  <2> QED
    BY <1>2, <2>1, <2>2 DEF BooksInv, BookingInv, AccountBooked, BankBooked, SharesBooked
<1>3. CASE LoseConnection \/ UNCHANGED vars
  BY <1>2, <1>3 DEF LoseConnection, tables, vars
<1> QED
  BY <1>1, <1>3 DEF Next, Waiting

\* A new server has empty books.
LEMMA InitBooks == Init => BooksInv
<1> SUFFICES ASSUME Init PROVE BooksInv
  OBVIOUS
<1>0. IsFiniteSet(Workers)
  BY WorkersAssumption
<1>1. BookingInv
  BY DEF Init, BookingInv, Booking, NoRequest, Transfers
<1>2. ASSUME NEW u \in Users PROVE AccountBooked(u)
  <2>1. \A p \in Workers : MoneyOf(u)[p] = 0
    BY DEF Init, MoneyOf, MoneyTerm
  <2>2. SumFunctionOnSet(MoneyOf(u), Workers) = 0
    BY <1>0, <2>1, SumIsZero
  <2> QED
    BY <2>2 DEF Init, AccountBooked, NothingSettled
<1>3. ASSUME NEW u \in Users, NEW b \in Banks PROVE BankBooked(u, b)
  <2>1. \A p \in Workers : MovedOf(u, b)[p] = 0
    BY DEF Init, MovedOf, MovedTerm
  <2>2. SumFunctionOnSet(MovedOf(u, b), Workers) = 0
    BY <1>0, <2>1, SumIsZero
  <2> QED
    BY <2>2, MoneyAssumption DEF Init, BankBooked, NothingSettled
<1>4. ASSUME NEW u \in Users, NEW c \in Companies PROVE SharesBooked(u, c)
  <2>1. \A p \in Workers : DeliveredOf(u, c)[p] = 0
    BY DEF Init, DeliveredOf, DeliveredTerm
  <2>2. SumFunctionOnSet(DeliveredOf(u, c), Workers) = 0
    BY <1>0, <2>1, SumIsZero
  <2> QED
    BY <2>2 DEF Init, SharesBooked, NothingSettled
<1> QED
  BY <1>1, <1>2, <1>3, <1>4 DEF BooksInv

\* The terms of all workers add up to those of the writers BooksBalance names.
LEMMA SumOfWriters ==
    ASSUME NEW fn, NEW gn, NEW S \in SUBSET Workers,
           \A p \in Workers : fn[p] \in Int,
           \A p \in S : gn[p] = fn[p],
           \A p \in Workers \ S : fn[p] = 0
    PROVE  SumFunctionOnSet(gn, S) = SumFunctionOnSet(fn, Workers)
<1>1. IsFiniteSet(Workers) /\ IsFiniteSet(S)
  BY WorkersAssumption, FS_Subset
<1>2. SumFunctionOnSet(gn, S) = SumFunctionOnSet(fn, S)
  BY <1>1, SumSame
<1>3. SumFunctionOnSet(fn, S) = SumFunctionOnSet(fn, Workers)
  BY <1>1, SumOfZeros
<1> QED
  BY <1>2, <1>3

\* The per-thread sums over all threads are the sums over the writers that
\* BooksBalance speaks of: the other threads contribute nothing.
LEMMA BooksInvBalances == TypeInv /\ BooksInv => BooksBalance
<1> SUFFICES ASSUME TypeInv, BooksInv
             PROVE  BooksBalance
  OBVIOUS
<1>a. ASSUME NEW p \in Workers
      PROVE  BankAsNamed(p)
  <2>1. Booking(p)
    BY DEF BooksInv, BookingInv
  <2>2. "increaseBankAccount" \in done[p] => req[p].kind \in Transfers
    <3>1. done[p] # {} => req[p].kind \in Transfers \union Trades
      BY DEF TypeInv, Serving, TransferRequests, TradeRequests
    <3> QED
      BY <2>1, <3>1 DEF Booking, Writes, Transfers, Trades
  <2> QED
    BY <2>1, <2>2 DEF Booking, Chose, BankAsNamed
<1> SUFFICES ASSUME NEW u \in Users
             PROVE  /\ account[u] = settled[u].account
                         + SumFunctionOnSet(Money, Writers(u, Transfers \union Trades))
                    /\ \A b \in Banks :
                         bank[u][b] = OpeningBalance + settled[u].bank[b]
                           + SumFunctionOnSet(Moved, {p \in Writers(u, Transfers) : local[p].bank = b})
                    /\ \A c \in Companies :
                         owned[u][c] = settled[u].shares[c]
                           + SumFunctionOnSet(Delivered,
                               {p \in Writers(u, Trades) : req[p].company = c})
  BY <1>a DEF BooksBalance
<1>0. TermsTyped
  BY TermTypes DEF BooksInv
<1>1. \A p \in Workers : done[p] # {} =>
          /\ req[p].kind \in Transfers \union Trades
          /\ "increaseBankAccount" \in done[p] => req[p].kind \in Transfers
          /\ "upsertOwnedStock" \in done[p] => req[p].kind \in Trades
  <2> SUFFICES ASSUME NEW p \in Workers, done[p] # {}
               PROVE  /\ req[p].kind \in Transfers \union Trades
                      /\ "increaseBankAccount" \in done[p] => req[p].kind \in Transfers
                      /\ "upsertOwnedStock" \in done[p] => req[p].kind \in Trades
    OBVIOUS
  <2>1. req[p] \in TransferRequests \union TradeRequests
    BY DEF TypeInv, Serving
  <2>2. req[p].kind \in Transfers \union Trades
    BY <2>1 DEF TransferRequests, TradeRequests
  <2>3. done[p] \subseteq Writes(req[p].kind)
    BY DEF BooksInv, BookingInv, Booking
  <2> QED
    BY <2>2, <2>3 DEF Writes, Transfers, Trades
<1>2. SumFunctionOnSet(Money, Writers(u, Transfers \union Trades))
        = SumFunctionOnSet(MoneyOf(u), Workers)
  <2> DEFINE S == Writers(u, Transfers \union Trades)
             fn == MoneyOf(u)
             gn == Money
  <2>1. /\ S \in SUBSET Workers /\ \A p \in Workers : fn[p] \in Int
        /\ \A p \in S : gn[p] = fn[p]
        /\ \A p \in Workers \ S : fn[p] = 0
    BY <1>0, <1>1 DEF TermsTyped, Money, MoneyOf, MoneyTerm, Writers, IfDone
  <2> HIDE DEF S, fn, gn
  <2>2. SumFunctionOnSet(gn, S) = SumFunctionOnSet(fn, Workers)
    BY ONLY <2>1, SumOfWriters
  <2> QED
    BY <2>2 DEF S, fn, gn
<1>3. ASSUME NEW b \in Banks
      PROVE  SumFunctionOnSet(Moved, {p \in Writers(u, Transfers) : local[p].bank = b})
               = SumFunctionOnSet(MovedOf(u, b), Workers)
  <2> DEFINE S == {p \in Writers(u, Transfers) : local[p].bank = b}
             fn == MovedOf(u, b)
             gn == Moved
  <2>1. /\ S \in SUBSET Workers /\ \A p \in Workers : fn[p] \in Int
        /\ \A p \in S : gn[p] = fn[p]
        /\ \A p \in Workers \ S : fn[p] = 0
    BY <1>0, <1>1 DEF TermsTyped, Moved, MovedOf, MovedTerm, Writers, IfDone
  <2> HIDE DEF S, fn, gn
  <2>2. SumFunctionOnSet(gn, S) = SumFunctionOnSet(fn, Workers)
    BY ONLY <2>1, SumOfWriters
  <2> QED
    BY <2>2 DEF S, fn, gn
<1>4. ASSUME NEW c \in Companies
      PROVE  SumFunctionOnSet(Delivered, {p \in Writers(u, Trades) : req[p].company = c})
               = SumFunctionOnSet(DeliveredOf(u, c), Workers)
  <2> DEFINE S == {p \in Writers(u, Trades) : req[p].company = c}
             fn == DeliveredOf(u, c)
             gn == Delivered
  <2>1. /\ S \in SUBSET Workers /\ \A p \in Workers : fn[p] \in Int
        /\ \A p \in S : gn[p] = fn[p]
        /\ \A p \in Workers \ S : fn[p] = 0
    BY <1>0, <1>1 DEF TermsTyped, Delivered, DeliveredOf, DeliveredTerm, Writers, IfDone
  <2> HIDE DEF S, fn, gn
  <2>2. SumFunctionOnSet(gn, S) = SumFunctionOnSet(fn, Workers)
    BY ONLY <2>1, SumOfWriters
  <2> QED
    BY <2>2 DEF S, fn, gn
<1> QED
  BY <1>2, <1>3, <1>4 DEF BooksInv, AccountBooked, BankBooked, SharesBooked

\* BrokerageProperties!BooksBalance for any number of threads, users and requests:
\* no interleaving loses, doubles or misdirects an increment.
THEOREM BooksAlwaysBalance == Spec => []BooksBalance
<1>1. Init => AccountedInv
  BY DEF Init, AccountedInv, Accounted
<1>2. TypeInv /\ AccountedInv /\ [Next]_vars => AccountedInv'
  BY NextAccounted
<1>3. TypeInv /\ AccountedInv /\ BooksInv /\ [Next]_vars => BooksInv'
  BY NextBooks
<1> QED
  BY <1>1, <1>2, <1>3, InitBooks, BooksInvBalances, TypeCorrect, PTL DEF Spec


-----------------------------------------------------------------------------
(* The largest amounts. *)

\* No request moves more than LargestAmount between the accounts.
LEMMA LargestAmountIs == LargestAmount \in Nat /\ \A a \in Amounts : a <= LargestAmount
<1>1. Amounts \subseteq Int
  BY MoneyAssumption
<1> QED
  BY <1>1, NumbersAssumption, LargestOf DEF LargestAmount

\* No negative transfer takes more than LargestReversal from the side it is meant
\* to give to.
LEMMA LargestReversalIs ==
    LargestReversal \in Nat /\ \A a \in Amounts : -a <= LargestReversal
<1> DEFINE S == {-a : a \in Amounts}
           f == [a \in Amounts |-> -a]
<1>1. f \in Surjection(Amounts, S)
  <2>1. f \in [Amounts -> S]
    OBVIOUS
  <2>2. \A y \in S : \E a \in Amounts : f[a] = y
    OBVIOUS
  <2> QED
    BY <2>1, <2>2 DEF Surjection
<1>2. IsFiniteSet(S)
  BY <1>1, NumbersAssumption, FS_Surjection
<1>3. S \subseteq Int
  <2>1. \A a \in Amounts : a \in Int
    BY MoneyAssumption
  <2> SUFFICES ASSUME NEW a \in Amounts PROVE -a \in Int
    OBVIOUS
  <2> QED
    BY <2>1
<1>4. \A a \in Amounts : -a \in S
  OBVIOUS
<1>5. LargestReversal = Max({0} \union S)
  BY DEF LargestReversal
<1> HIDE DEF S
<1> QED
  BY <1>2, <1>3, <1>4, <1>5, LargestOf
=================================================================================
