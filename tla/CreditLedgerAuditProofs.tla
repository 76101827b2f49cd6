---------------------- MODULE CreditLedgerAuditProofs ----------------------
(***************************************************************************)
(* Proofs about the sums of CreditLedgerAudit and about the keys of the    *)
(* ledger, for every set of accounts and keys, every finite set of         *)
(* operations, payments and adjustments, and every amount.                 *)
(***************************************************************************)
EXTENDS CreditLedgerAudit, CreditLedgerProofs, FiniteSetTheorems,
        WellFoundedInduction, TLAPS

-----------------------------------------------------------------------------
(* Sums over finite sets.  SumFunction adds the values of a function up in *)
(* an order that CHOOSE picks; what the proofs need is that every order    *)
(* gives the same sum.  Each lemma about all sums is proved by looking at  *)
(* a smallest set for which it would fail.                                 *)

\* The element a sum takes out of a set next.
Chosen(s) == CHOOSE x \in s : TRUE

\* g gives every subset of S its sum of f.
Fits(S, f, g) ==
  g = [s \in SUBSET S |->
         IF s = {} THEN 0 ELSE f[Chosen(s)] + g[s \ {Chosen(s)}]]

\* The sum of f over S, as the community modules compute it.
Total(f, S) == (CHOOSE g : Fits(S, f, g))[S]

LEMMA SumIsTotal == ASSUME NEW f PROVE SumFunction(f) = Total(f, DOMAIN f)
BY DEF SumFunction, SumFunctionOnSet, FoldFunctionOnSet, MapThenFoldSet, Total,
       Fits, Chosen

\* Among subsets of a finite set one contains no other.
LEMMA MinimalSet ==
  ASSUME NEW D, IsFiniteSet(D), NEW T, T \subseteq SUBSET D, T # {}
  PROVE  \E s \in T : \A t \in T : t \subseteq s => t = s
<1>1. SUBSET D \subseteq FiniteSubsetsOf(D)
  BY FS_Subset DEF FiniteSubsetsOf
<1>2. PICK s \in T : \A t \in T : <<t, s>> \notin StrictSubsetOrdering(D)
  <2>1. T \subseteq FiniteSubsetsOf(D)
    BY <1>1
  <2> QED
    BY <2>1, WFMin, FS_StrictSubsetOrderingWellFounded
<1> QED
  BY <1>2 DEF StrictSubsetOrdering

LEMMA ChosenIn == ASSUME NEW s, s # {} PROVE Chosen(s) \in s
BY DEF Chosen

LEMMA FitsAt ==
  ASSUME NEW S, NEW f, NEW g, Fits(S, f, g), NEW s \in SUBSET S
  PROVE  /\ s = {} => g[s] = 0
         /\ s # {} => g[s] = f[Chosen(s)] + g[s \ {Chosen(s)}]
<1> DEFINE val(t) == IF t = {} THEN 0 ELSE f[Chosen(t)] + g[t \ {Chosen(t)}]
<1>1. g = [t \in SUBSET S |-> val(t)]
  BY DEF Fits
<1>2. g[s] = val(s)
  <2> HIDE DEF val
  <2> QED BY <1>1
<1> QED
  BY <1>2

LEMMA FitsRestrict ==
  ASSUME NEW S, NEW f, NEW g, Fits(S, f, g), NEW T \in SUBSET S
  PROVE  Fits(T, f, [s \in SUBSET T |-> g[s]])
<1> DEFINE h == [s \in SUBSET T |-> g[s]]
<1>1. \A s \in SUBSET T :
        h[s] = IF s = {} THEN 0 ELSE f[Chosen(s)] + h[s \ {Chosen(s)}]
  <2> TAKE s \in SUBSET T
  <2>1. h[s] = g[s] /\ h[s \ {Chosen(s)}] = g[s \ {Chosen(s)}]
    OBVIOUS
  <2> QED
    BY <2>1, FitsAt
<1>2. h = [s \in SUBSET T |->
             IF s = {} THEN 0 ELSE f[Chosen(s)] + h[s \ {Chosen(s)}]]
  BY <1>1
<1> HIDE DEF h
<1>3. Fits(T, f, h)
  BY <1>2 DEF Fits
<1> QED
  BY <1>3 DEF h

\* There is one such g at most ...
LEMMA FitsUnique ==
  ASSUME NEW S, IsFiniteSet(S), NEW f, NEW g, NEW h, Fits(S, f, g), Fits(S, f, h)
  PROVE  g = h
<1>1. \A s \in SUBSET S : g[s] = h[s]
  <2> DEFINE Bad == {s \in SUBSET S : g[s] # h[s]}
  <2> SUFFICES ASSUME Bad # {}
               PROVE  FALSE
    OBVIOUS
  <2>0. Bad \subseteq SUBSET S
    OBVIOUS
  <2> HIDE DEF Bad
  <2>1. PICK s \in Bad : \A t \in Bad : t \subseteq s => t = s
    BY <2>0, MinimalSet
  <2> USE DEF Bad
  <2>2. s # {}
    BY <2>1, FitsAt
  <2>3. Chosen(s) \in s
    BY <2>2, ChosenIn
  <2>4. g[s \ {Chosen(s)}] = h[s \ {Chosen(s)}]
    BY <2>1, <2>3
  <2> QED
    BY <2>1, <2>2, <2>4, FitsAt
<1>2. /\ g = [s \in SUBSET S |-> g[s]] /\ h = [s \in SUBSET S |-> h[s]]
  BY DEF Fits
<1> QED
  BY <1>1, <1>2

\* ... and at least, if S is finite.
LEMMA FitsExists ==
  ASSUME NEW S, IsFiniteSet(S), NEW f
  PROVE  \E g : Fits(S, f, g)
<1> DEFINE Bad == {s \in SUBSET S : ~ \E g : Fits(s, f, g)}
<1> SUFFICES ASSUME Bad # {}
             PROVE  FALSE
  OBVIOUS
<1>0. Bad \subseteq SUBSET S
  OBVIOUS
<1> HIDE DEF Bad
<1>1. PICK s \in Bad : \A t \in Bad : t \subseteq s => t = s
  BY <1>0, MinimalSet
<1>2. \A t \in SUBSET s : t # s => \E g : Fits(t, f, g)
  BY <1>0, <1>1 DEF Bad
<1> DEFINE G(t) == CHOOSE g : Fits(t, f, g)
           V(t) == G(t)[t]
           new == [t \in SUBSET s |->
                     IF t = {} THEN 0 ELSE f[Chosen(t)] + V(t \ {Chosen(t)})]
<1>3. \A t \in SUBSET s : t # s => Fits(t, f, G(t))
  BY <1>2
<1>4. \A t \in SUBSET s : IsFiniteSet(t)
  BY <1>0, <1>1, FS_Subset
<1> HIDE DEF G
<1>5. ASSUME NEW t \in SUBSET s, t # s
      PROVE  new[t] = V(t)
  <2>1. CASE t = {}
    <3>1. new[t] = 0
      BY <1>5, <2>1
    <3>2. G(t)[t] = 0
      BY <1>3, <1>5, <2>1, FitsAt
    <3> QED
      BY <3>1, <3>2
  <2>2. CASE t # {}
    <3> DEFINE r == t \ {Chosen(t)}
    <3>1. r \in SUBSET t /\ r \in SUBSET s /\ r # s
      BY <1>5, <2>2, ChosenIn
    <3>2. V(t) = f[Chosen(t)] + G(t)[r]
      BY <1>3, <1>5, <2>2, FitsAt
    <3> HIDE DEF r
    <3>3. Fits(r, f, [v \in SUBSET r |-> G(t)[v]])
      BY <1>3, <1>5, <3>1, FitsRestrict
    <3>4. G(r) = [v \in SUBSET r |-> G(t)[v]]
      BY <1>3, <1>4, <3>1, <3>3, FitsUnique
    <3>5. V(r) = G(t)[r]
      BY <3>4
    <3> QED
      BY <1>5, <2>2, <3>2, <3>5 DEF r
  <2> QED
    BY <2>1, <2>2
<1>6. \A t \in SUBSET s :
        new[t] = IF t = {} THEN 0 ELSE f[Chosen(t)] + new[t \ {Chosen(t)}]
  <2> TAKE t \in SUBSET s
  <2>1. CASE t = {}
    BY <2>1
  <2>2. CASE t # {}
    <3>1. t \ {Chosen(t)} \in SUBSET s /\ t \ {Chosen(t)} # s
      BY <2>2, ChosenIn
    <3>2. new[t \ {Chosen(t)}] = V(t \ {Chosen(t)})
      BY <1>5, <3>1
    <3> QED
      BY <2>2, <3>2
  <2> QED
    BY <2>1, <2>2
<1>7. Fits(s, f, new)
  <2>1. new = [t \in SUBSET s |-> new[t]]
    OBVIOUS
  <2> HIDE DEF new
  <2>2. new = [t \in SUBSET s |-> IF t = {} THEN 0 ELSE f[Chosen(t)] + new[t \ {Chosen(t)}]]
    BY <1>6, <2>1
  <2> QED
    BY <2>2 DEF Fits
<1> QED
  BY <1>1, <1>7 DEF Bad

LEMMA TotalFits ==
  ASSUME NEW S, IsFiniteSet(S), NEW f
  PROVE  Fits(S, f, CHOOSE g : Fits(S, f, g))
BY FitsExists

LEMMA TotalEmpty == ASSUME NEW f PROVE Total(f, {}) = 0
BY TotalFits, FitsAt, FS_EmptySet DEF Total

LEMMA TotalChosen ==
  ASSUME NEW S, IsFiniteSet(S), S # {}, NEW f
  PROVE  Total(f, S) = f[Chosen(S)] + Total(f, S \ {Chosen(S)})
<1> DEFINE g == CHOOSE h : Fits(S, f, h)
           r == S \ {Chosen(S)}
<1>1. Fits(S, f, g) /\ IsFiniteSet(r) /\ r \in SUBSET S
  BY TotalFits, FS_Subset
<1>2. Total(f, S) = f[Chosen(S)] + g[r]
  BY <1>1, FitsAt DEF Total
<1> HIDE DEF g, r
<1>3. Fits(r, f, [v \in SUBSET r |-> g[v]])
  BY <1>1, FitsRestrict
<1>4. (CHOOSE h : Fits(r, f, h)) = [v \in SUBSET r |-> g[v]]
  BY <1>1, <1>3, TotalFits, FitsUnique
<1>5. Total(f, r) = g[r]
  BY <1>4 DEF Total
<1> QED
  BY <1>2, <1>5 DEF r

\* The values of f on S can be added up.
IntOn(f, S) == \A x \in S : f[x] \in Int

LEMMA TotalInt ==
  ASSUME NEW S, IsFiniteSet(S), NEW f, IntOn(f, S)
  PROVE  Total(f, S) \in Int
<1> DEFINE Bad == {s \in SUBSET S : Total(f, s) \notin Int}
<1> SUFFICES ASSUME Bad # {}
             PROVE  FALSE
  OBVIOUS
<1>1. Bad \subseteq SUBSET S
  OBVIOUS
<1> HIDE DEF Bad
<1>2. PICK s \in Bad : \A t \in Bad : t \subseteq s => t = s
  BY <1>1, MinimalSet
<1>3. s # {} /\ IsFiniteSet(s)
  <2>1. {} \notin Bad
    BY TotalEmpty DEF Bad
  <2> QED
    BY <1>1, <1>2, <2>1, FS_Subset
<1>4. Total(f, s) = f[Chosen(s)] + Total(f, s \ {Chosen(s)}) /\ Chosen(s) \in s
  BY <1>3, TotalChosen, ChosenIn
<1>5. s \ {Chosen(s)} \notin Bad /\ s \ {Chosen(s)} \in SUBSET S
  BY <1>1, <1>2, <1>4
<1>6. Total(f, s \ {Chosen(s)}) \in Int /\ f[Chosen(s)] \in Int
  BY <1>1, <1>2, <1>4, <1>5 DEF Bad, IntOn
<1> QED
  BY <1>2, <1>4, <1>6 DEF Bad

\* The order does not matter: any element may be taken out first.
LEMMA TotalWithout ==
  ASSUME NEW S, IsFiniteSet(S), NEW f, IntOn(f, S), NEW x \in S
  PROVE  Total(f, S) = f[x] + Total(f, S \ {x})
<1> DEFINE Bad == {s \in SUBSET S : \E y \in s : Total(f, s) # f[y] + Total(f, s \ {y})}
<1> SUFFICES ASSUME Bad # {}
             PROVE  FALSE
  OBVIOUS
<1>1. Bad \subseteq SUBSET S
  OBVIOUS
<1> HIDE DEF Bad
<1>2. PICK s \in Bad : \A t \in Bad : t \subseteq s => t = s
  BY <1>1, MinimalSet
<1>3. PICK y \in s : Total(f, s) # f[y] + Total(f, s \ {y})
  BY <1>2 DEF Bad
<1> DEFINE c == Chosen(s)
<1>4. /\ s \in SUBSET S /\ IsFiniteSet(s)
      /\ Total(f, s) = f[c] + Total(f, s \ {c}) /\ c \in s
  <2>1. s \in SUBSET S /\ IsFiniteSet(s) /\ s # {}
    BY <1>1, <1>2, <1>3, FS_Subset
  <2> QED
    BY <2>1, TotalChosen, ChosenIn
<1> HIDE DEF c
<1>5. c # y
  BY <1>3, <1>4
<1>6. \A t \in SUBSET s : t # s => \A z \in t : Total(f, t) = f[z] + Total(f, t \ {z})
  BY <1>2, <1>4 DEF Bad
<1>7. PICK r : r = (s \ {c}) \ {y} /\ r = (s \ {y}) \ {c}
  OBVIOUS
<1>8. /\ Total(f, s \ {c}) = f[y] + Total(f, r)
      /\ Total(f, s \ {y}) = f[c] + Total(f, r)
  BY <1>3, <1>4, <1>5, <1>6, <1>7
<1>9. Total(f, r) \in Int
  <2>1. IsFiniteSet(r) /\ IntOn(f, r)
    BY <1>4, <1>7, FS_Subset DEF IntOn
  <2> QED
    BY <2>1, TotalInt
<1>10. f[c] \in Int /\ f[y] \in Int
  BY <1>3, <1>4 DEF IntOn
<1> QED
  BY <1>3, <1>4, <1>8, <1>9, <1>10

LEMMA TotalMonotone ==
  ASSUME NEW S, IsFiniteSet(S), NEW f, NEW g, IntOn(f, S), IntOn(g, S),
         \A x \in S : f[x] <= g[x]
  PROVE  Total(f, S) <= Total(g, S)
<1> DEFINE Bad == {s \in SUBSET S : ~ (Total(f, s) <= Total(g, s))}
<1> SUFFICES ASSUME Bad # {}
             PROVE  FALSE
  OBVIOUS
<1>1. Bad \subseteq SUBSET S
  OBVIOUS
<1> HIDE DEF Bad
<1>2. PICK s \in Bad : \A t \in Bad : t \subseteq s => t = s
  BY <1>1, MinimalSet
<1>3. s # {} /\ IsFiniteSet(s)
  <2>1. {} \notin Bad
    <3>1. Total(f, {}) = 0 /\ Total(g, {}) = 0
      BY TotalEmpty
    <3> QED
      BY <3>1 DEF Bad
  <2> QED
    BY <1>1, <1>2, <2>1, FS_Subset
<1> DEFINE c == Chosen(s)
           r == s \ {c}
<1>4. /\ Total(f, s) = f[c] + Total(f, r) /\ Total(g, s) = g[c] + Total(g, r)
      /\ c \in s /\ c \in S
  BY <1>1, <1>2, <1>3, TotalChosen, ChosenIn
<1>5. r \in SUBSET S /\ r # s /\ r \subseteq s /\ IsFiniteSet(r)
  BY <1>1, <1>2, <1>3, <1>4, FS_Subset
<1> HIDE DEF c, r
<1>6. Total(f, r) <= Total(g, r)
  BY <1>2, <1>5 DEF Bad
<1>7. Total(f, r) \in Int /\ Total(g, r) \in Int
  <2>1. IntOn(f, r) /\ IntOn(g, r)
    BY <1>5 DEF IntOn
  <2> QED
    BY <1>5, <2>1, TotalInt
<1>8. f[c] \in Int /\ g[c] \in Int /\ f[c] <= g[c]
  BY <1>4 DEF IntOn
<1>9. Total(f, s) <= Total(g, s)
  BY <1>4, <1>6, <1>7, <1>8
<1> QED
  BY <1>2, <1>9 DEF Bad

LEMMA TotalSame ==
  ASSUME NEW S, IsFiniteSet(S), NEW f, NEW g, IntOn(f, S), \A x \in S : f[x] = g[x]
  PROVE  Total(f, S) = Total(g, S)
<1>1. IntOn(g, S) /\ (\A x \in S : f[x] <= g[x]) /\ (\A x \in S : g[x] <= f[x])
  BY DEF IntOn
<1>2. Total(f, S) <= Total(g, S)
  BY <1>1, TotalMonotone
<1>3. Total(g, S) <= Total(f, S)
  BY <1>1, TotalMonotone
<1>4. Total(f, S) \in Int /\ Total(g, S) \in Int
  BY <1>1, TotalInt
<1> QED
  BY <1>2, <1>3, <1>4

LEMMA TotalZero ==
  ASSUME NEW S, IsFiniteSet(S), NEW f, \A x \in S : f[x] = 0
  PROVE  Total(f, S) = 0
<1> DEFINE Bad == {s \in SUBSET S : Total(f, s) # 0}
<1> SUFFICES ASSUME Bad # {}
             PROVE  FALSE
  OBVIOUS
<1>1. Bad \subseteq SUBSET S
  OBVIOUS
<1> HIDE DEF Bad
<1>2. PICK s \in Bad : \A t \in Bad : t \subseteq s => t = s
  BY <1>1, MinimalSet
<1>3. s # {} /\ IsFiniteSet(s)
  <2>1. {} \notin Bad
    BY TotalEmpty DEF Bad
  <2> QED
    BY <1>1, <1>2, <2>1, FS_Subset
<1>4. /\ Total(f, s) = f[Chosen(s)] + Total(f, s \ {Chosen(s)})
      /\ Chosen(s) \in s /\ Chosen(s) \in S
  BY <1>1, <1>2, <1>3, TotalChosen, ChosenIn
<1>5. Total(f, s \ {Chosen(s)}) = 0
  BY <1>1, <1>2, <1>4 DEF Bad
<1> QED
  BY <1>2, <1>4, <1>5 DEF Bad

LEMMA TotalNatural ==
  ASSUME NEW S, IsFiniteSet(S), NEW f, \A x \in S : f[x] \in Nat
  PROVE  Total(f, S) \in Nat
<1> DEFINE zero == [x \in S |-> 0]
<1>1. Total(zero, S) = 0
  BY TotalZero
<1>2. IntOn(zero, S) /\ IntOn(f, S) /\ \A x \in S : zero[x] <= f[x]
  BY DEF IntOn
<1> HIDE DEF zero
<1>3. Total(zero, S) <= Total(f, S) /\ Total(f, S) \in Int
  BY <1>2, TotalMonotone, TotalInt
<1> QED
  BY <1>1, <1>3

(* The sum of a function, as the properties write it. *)
Summable(f) == IsFiniteSet(DOMAIN f) /\ IntOn(f, DOMAIN f)

LEMMA SumInt == ASSUME NEW f, Summable(f) PROVE SumFunction(f) \in Int
BY SumIsTotal, TotalInt DEF Summable

LEMMA SumEmpty == ASSUME NEW f, DOMAIN f = {} PROVE SumFunction(f) = 0
BY SumIsTotal, TotalEmpty

LEMMA SumSame ==
  ASSUME NEW f, NEW g, Summable(f), DOMAIN g = DOMAIN f,
         \A x \in DOMAIN f : g[x] = f[x]
  PROVE  SumFunction(g) = SumFunction(f)
BY SumIsTotal, TotalSame DEF Summable

\* One more argument adds its value.
LEMMA SumAdded ==
  ASSUME NEW f, NEW g, NEW x, Summable(f), x \notin DOMAIN f, g[x] \in Int,
         DOMAIN g = DOMAIN f \cup {x}, \A y \in DOMAIN f : g[y] = f[y]
  PROVE  Summable(g) /\ SumFunction(g) = SumFunction(f) + g[x]
<1>1. Summable(g)
  BY FS_AddElement DEF Summable, IntOn
<1>2. DOMAIN g \ {x} = DOMAIN f
  OBVIOUS
<1>3. Total(g, DOMAIN g) = g[x] + Total(g, DOMAIN f)
  BY <1>1, <1>2, TotalWithout DEF Summable
<1>4. Total(g, DOMAIN f) = Total(f, DOMAIN f)
  BY TotalSame DEF Summable
<1>5. Total(f, DOMAIN f) \in Int
  BY TotalInt DEF Summable
<1> QED
  BY <1>1, <1>3, <1>4, <1>5, SumIsTotal

\* Another value of one argument moves the sum by as much.
LEMMA SumChanged ==
  ASSUME NEW f, NEW g, NEW x \in DOMAIN f, Summable(f), g[x] \in Int,
         DOMAIN g = DOMAIN f, \A y \in DOMAIN f \ {x} : g[y] = f[y]
  PROVE  Summable(g) /\ SumFunction(g) = SumFunction(f) + (g[x] - f[x])
<1>1. Summable(g)
  BY DEF Summable, IntOn
<1> DEFINE S == DOMAIN f \ {x}
<1>2. IsFiniteSet(S) /\ IntOn(f, S) /\ (\A y \in S : f[y] = g[y]) /\ f[x] \in Int
  BY FS_Subset DEF Summable, IntOn
<1>3. Total(g, DOMAIN f) = g[x] + Total(g, S) /\ Total(f, DOMAIN f) = f[x] + Total(f, S)
  BY <1>1, TotalWithout DEF Summable
<1> HIDE DEF S
<1>4. Total(f, S) = Total(g, S) /\ Total(f, S) \in Int
  BY <1>2, TotalSame, TotalInt
<1> QED
  BY <1>1, <1>2, <1>3, <1>4, SumIsTotal

LEMMA SumMonotone ==
  ASSUME NEW f, NEW g, Summable(f), Summable(g), DOMAIN g = DOMAIN f,
         \A x \in DOMAIN f : f[x] <= g[x]
  PROVE  SumFunction(f) <= SumFunction(g)
BY SumIsTotal, TotalMonotone DEF Summable

LEMMA SumZero ==
  ASSUME NEW f, IsFiniteSet(DOMAIN f), \A x \in DOMAIN f : f[x] = 0
  PROVE  Summable(f) /\ SumFunction(f) = 0
BY SumIsTotal, TotalZero DEF Summable, IntOn

LEMMA SumNatural ==
  ASSUME NEW f, IsFiniteSet(DOMAIN f), \A x \in DOMAIN f : f[x] \in Nat
  PROVE  Summable(f) /\ SumFunction(f) \in Nat
BY SumIsTotal, TotalNatural DEF Summable, IntOn

-----------------------------------------------------------------------------
(* Sums over the rows of a statement *)

\* A number for every row there can be.
Weights == [CreditEntry -> Int]

\* The rows of a statement weighed and added up.
Weighed(w, weight) ==
  SumFunction([i \in DOMAIN w.entries |-> weight[w.entries[i]]])

\* r is w with one more row.
Posts(w, r, row) ==
  /\ r \in Wallet
  /\ row \in CreditEntry
  /\ r.entries = Append(w.entries, row)

LEMMA StatementRows ==
  ASSUME NEW w \in Wallet
  PROVE  /\ w.account \in Account
         /\ w.entries \in Seq(CreditEntry)
         /\ Len(w.entries) \in Nat
         /\ DOMAIN w.entries = 1..Len(w.entries)
         /\ \A i \in DOMAIN w.entries : w.entries[i] \in CreditEntry
         /\ IsFiniteSet(DOMAIN w.entries)
<1>1. w.account \in Account /\ w.entries \in Seq(CreditEntry)
  BY DEF Wallet
<1>2. /\ Len(w.entries) \in Nat
      /\ DOMAIN w.entries = 1..Len(w.entries)
      /\ \A i \in DOMAIN w.entries : w.entries[i] \in CreditEntry
  BY <1>1
<1>3. IsFiniteSet(DOMAIN w.entries)
  BY <1>2, FS_Interval
<1> QED BY <1>1, <1>2, <1>3

\* One more row comes after the others.
LEMMA PostedRows ==
  ASSUME NEW w \in Wallet, NEW r, NEW row, Posts(w, r, row)
  PROVE  /\ Len(w.entries) + 1 \notin DOMAIN w.entries
         /\ DOMAIN r.entries = DOMAIN w.entries \cup {Len(w.entries) + 1}
         /\ r.entries[Len(w.entries) + 1] = row
         /\ \A i \in DOMAIN w.entries : r.entries[i] = w.entries[i]
<1> DEFINE e == w.entries
           f == Append(e, row)
<1>1. /\ e \in Seq(CreditEntry) /\ Len(e) \in Nat
      /\ DOMAIN e = 1..Len(e) /\ row \in CreditEntry /\ r.entries = f
  BY StatementRows DEF Posts
<1>2. /\ DOMAIN f = 1..(Len(e) + 1)
      /\ f[Len(e) + 1] = row
      /\ \A i \in 1..Len(e) : f[i] = e[i]
  BY <1>1
<1>3. 1..(Len(e) + 1) = 1..Len(e) \cup {Len(e) + 1}
  BY <1>1
<1> QED BY <1>1, <1>2, <1>3

LEMMA WeighedSummable ==
  ASSUME NEW w \in Wallet, NEW weight \in Weights
  PROVE  /\ Summable([i \in DOMAIN w.entries |-> weight[w.entries[i]]])
         /\ Weighed(w, weight) \in Int
<1> DEFINE f == [i \in DOMAIN w.entries |-> weight[w.entries[i]]]
<1>1. IsFiniteSet(DOMAIN f) /\ \A i \in DOMAIN f : f[i] \in Int
  BY StatementRows DEF Weights
<1> HIDE DEF f
<1>2. Summable(f)
  BY <1>1 DEF Summable, IntOn
<1>3. SumFunction(f) \in Int
  BY <1>2, SumInt
<1> QED BY <1>2, <1>3 DEF f, Weighed

\* A posted row adds its weight.
LEMMA PostedWeighs ==
  ASSUME NEW w \in Wallet, NEW r, NEW row, Posts(w, r, row),
         NEW weight \in Weights
  PROVE  /\ Weighed(r, weight) = Weighed(w, weight) + weight[row]
         /\ weight[row] \in Int
<1> DEFINE f == [i \in DOMAIN w.entries |-> weight[w.entries[i]]]
           g == [i \in DOMAIN r.entries |-> weight[r.entries[i]]]
           x == Len(w.entries) + 1
<1>1. Summable(f)
  BY WeighedSummable
<1>2. weight[row] \in Int
  BY DEF Weights, Posts
<1>3. /\ x \notin DOMAIN f /\ DOMAIN g = DOMAIN f \cup {x}
      /\ g[x] = weight[row] /\ \A i \in DOMAIN f : g[i] = f[i]
  BY PostedRows
<1> HIDE DEF f, g, x
<1>4. SumFunction(g) = SumFunction(f) + weight[row]
  BY <1>1, <1>2, <1>3, SumAdded
<1> QED BY <1>2, <1>4 DEF f, g, Weighed

\* Weights that agree on the rows of a statement weigh it the same.
LEMMA WeighedSame ==
  ASSUME NEW w \in Wallet, NEW v \in Wallet, v.entries = w.entries,
         NEW weight \in Weights, NEW other \in Weights,
         \A i \in DOMAIN w.entries :
           other[w.entries[i]] = weight[w.entries[i]]
  PROVE  Weighed(v, other) = Weighed(w, weight)
<1> DEFINE f == [i \in DOMAIN w.entries |-> weight[w.entries[i]]]
           g == [i \in DOMAIN v.entries |-> other[v.entries[i]]]
<1>1. Summable(f)
  BY WeighedSummable
<1>2. DOMAIN g = DOMAIN f /\ \A i \in DOMAIN f : g[i] = f[i]
  OBVIOUS
<1> HIDE DEF f, g
<1>3. SumFunction(g) = SumFunction(f)
  BY <1>1, <1>2, SumSame
<1> QED BY <1>3 DEF f, g, Weighed

\* A statement without rows, or whose rows weigh nothing, weighs nothing.
LEMMA WeighedNothing ==
  ASSUME NEW w \in Wallet, NEW weight \in Weights,
         \A i \in DOMAIN w.entries : weight[w.entries[i]] = 0
  PROVE  Weighed(w, weight) = 0
<1> DEFINE f == [i \in DOMAIN w.entries |-> weight[w.entries[i]]]
<1>1. IsFiniteSet(DOMAIN f) /\ \A i \in DOMAIN f : f[i] = 0
  BY StatementRows
<1> HIDE DEF f
<1>2. SumFunction(f) = 0
  BY <1>1, SumZero
<1> QED BY <1>2 DEF f, Weighed

-----------------------------------------------------------------------------
(* What every building block writes on a statement *)

\* What a row records that the sums look at.
Says(row, key, type, amount, available) ==
  /\ row.key = key
  /\ row.type = type
  /\ row.amount = amount
  /\ row.availableDelta = available

\* The debt and the use of r are those of w moved by the row.
Explains(w, r, row) ==
  /\ r.account.creditDebt = w.account.creditDebt + row.debtDelta
  /\ r.account.totalCreditsUsed =
       w.account.totalCreditsUsed
         + (IF row.type = "charge" THEN row.amount ELSE 0)

\* r is w, or w after a recovery of debt that names key.
Recovers(w, r, key) ==
  \/ r = w
  \/ \E row : /\ Posts(w, r, row)
              /\ row.key = <<"debt", key>>
              /\ row.type = "adjustment"
              /\ Explains(w, r, row)

\* r is w after a row and, maybe, a recovery of debt that the row made
\* possible.
Writes(w, r, row) ==
  /\ w \in Wallet
  /\ row.key \in BaseKeys
  /\ \E x : /\ Posts(w, x, row)
            /\ Explains(w, x, row)
            /\ Recovers(x, r, row.key)

LEMMA RowSays ==
  ASSUME NEW account, NEW key, NEW type, NEW amount, NEW available,
         NEW held, NEW debt
  PROVE  LET row == Row(account, key, type, amount, available, held, debt)
         IN Says(row, key, type, amount, available) /\ row.debtDelta = debt
BY DEF Row, Says

LEMMA RecoverDebtRecovers ==
  ASSUME NEW w \in Wallet, NEW key \in BaseKeys
  PROVE  /\ RecoverDebt(w, key) \in Wallet
         /\ Recovers(w, RecoverDebt(w, key), key)
<1> DEFINE a == w.account
           amount == Smaller(a.creditDebt, a.creditsBalance)
           less == -amount
           b == [a EXCEPT !.creditsBalance = @ - amount,
                          !.creditDebt = @ - amount]
           row == Row(b, <<"debt", key>>, "adjustment", amount, less, 0, less)
           r == Post(w, b, row)
<1>1. /\ a \in Account /\ w.entries \in Seq(CreditEntry)
      /\ a.creditsBalance \in Nat /\ a.creditDebt \in Nat
      /\ a.creditsReserved \in Nat /\ a.totalCreditsUsed \in Nat
  BY StatementRows DEF Account
<1>2. /\ amount \in Nat /\ less \in Int
      /\ amount <= a.creditDebt /\ amount <= a.creditsBalance
      /\ a.creditDebt - amount = a.creditDebt + less
  BY <1>1 DEF Smaller
<1>3. /\ b \in Account
      /\ b.creditDebt = a.creditDebt + less
      /\ b.totalCreditsUsed = a.totalCreditsUsed
  <2> HIDE DEF amount, a, less
  <2>1. a.creditsBalance - amount \in Nat /\ a.creditDebt - amount \in Nat
    BY <1>1, <1>2
  <2> QED BY <1>1, <1>2, <2>1 DEF Account
<1>4. CASE amount = 0
  <2>1. RecoverDebt(w, key) = w
    BY <1>4 DEF RecoverDebt
  <2> QED BY <2>1 DEF Recovers
<1>5. CASE amount # 0
  <2>1. RecoverDebt(w, key) = r
    BY <1>5 DEF RecoverDebt
  <2>2. row \in CreditEntry
    <3>1. "adjustment" \in RowTypes /\ <<"debt", key>> \in Keys
      BY KeysInBase DEF RowTypes
    <3> HIDE DEF amount, b, less
    <3> QED BY <3>1, <1>2, <1>3, RowType
  <2>3. /\ row.key = <<"debt", key>> /\ row.type = "adjustment"
        /\ row.debtDelta = less
    BY RowSays DEF Says
  <2> HIDE DEF amount, b, row, less, a
  <2>4. r \in Wallet /\ r.account = b /\ r.entries = Append(w.entries, row)
    BY <1>1, <1>3, <2>2 DEF Post, Wallet
  <2>5. Posts(w, r, row)
    BY <2>2, <2>4 DEF Posts
  <2>6. Explains(w, r, row)
    BY <1>1, <1>3, <2>3, <2>4 DEF Explains, a
  <2> HIDE DEF r
  <2> QED BY <2>1, <2>3, <2>4, <2>5, <2>6 DEF Recovers
<1> QED BY <1>4, <1>5

\* A row that explains what changed is written, with or without the recovery
\* that may follow.
LEMMA PostWrites ==
  ASSUME NEW w \in Wallet, NEW account \in Account, NEW row \in CreditEntry,
         row.key \in BaseKeys,
         account.creditDebt = w.account.creditDebt + row.debtDelta,
         account.totalCreditsUsed =
           w.account.totalCreditsUsed
             + (IF row.type = "charge" THEN row.amount ELSE 0)
  PROVE  LET x == Post(w, account, row)
         IN /\ x \in Wallet
            /\ Writes(w, x, row)
            /\ RecoverDebt(x, row.key) \in Wallet
            /\ Writes(w, RecoverDebt(x, row.key), row)
<1> DEFINE x == Post(w, account, row)
<1>1. x \in Wallet /\ x.account = account /\ x.entries = Append(w.entries, row)
  BY StatementRows DEF Post, Wallet
<1> HIDE DEF x
<1>2. Posts(w, x, row) /\ Explains(w, x, row)
  BY <1>1 DEF Posts, Explains
<1>3. /\ RecoverDebt(x, row.key) \in Wallet
      /\ Recovers(x, RecoverDebt(x, row.key), row.key)
  BY <1>1, RecoverDebtRecovers
<1>4. Recovers(x, x, row.key)
  BY DEF Recovers
<1> QED BY <1>1, <1>2, <1>3, <1>4 DEF Writes, x

\* r is w with one row that says this and leaves the debt alone.
Records(w, r, key, type, amount, available) ==
  \E row : /\ Writes(w, r, row)
           /\ Says(row, key, type, amount, available)
           /\ row.debtDelta = 0

LEMMA EntryRecords ==
  ASSUME NEW w, Sound(w), NEW key \in BaseKeys,
         NEW type \in {"reserve", "charge", "release"}, NEW amount \in Nat,
         NEW available \in Int, NEW held \in Int, Covers(w, available, held)
  PROVE  Records(w, Entry(w, type, amount, available, held, key),
                 key, type, amount, available)
<1> DEFINE a == w.account
           spent == IF type = "charge" THEN amount ELSE 0
           b == [a EXCEPT !.creditsBalance = @ + available,
                          !.creditsReserved = @ + held,
                          !.totalCreditsUsed = @ + spent]
           row == Row(b, key, type, amount, available, held, 0)
           posted == Post(w, b, row)
           r == Entry(w, type, amount, available, held, key)
<1>1. /\ w \in Wallet /\ a \in Account
      /\ a.creditsBalance \in Nat /\ a.creditDebt \in Nat
      /\ a.creditsReserved \in Nat /\ a.totalCreditsUsed \in Nat
  BY SoundType
<1>2. /\ spent \in Nat
      /\ a.creditsBalance + available \in Nat
      /\ a.creditsReserved + held \in Nat
      /\ a.totalCreditsUsed + spent \in Nat
  <2> HIDE DEF a
  <2>1. a.creditsBalance >= -available /\ a.creditsReserved >= -held
    BY DEF Covers, a
  <2> QED BY <1>1, <2>1
<1> HIDE DEF spent
<1>3. /\ b \in Account
      /\ b.creditDebt = a.creditDebt
      /\ b.totalCreditsUsed = a.totalCreditsUsed + spent
  <2> HIDE DEF a
  <2> QED BY <1>1, <1>2 DEF Account
<1>4. row \in CreditEntry
  <2>1. type \in RowTypes /\ key \in Keys
    BY KeysInBase DEF RowTypes
  <2> HIDE DEF b
  <2> QED BY <2>1, <1>3, RowType
<1>5. Says(row, key, type, amount, available) /\ row.debtDelta = 0
  BY RowSays
<1>6. r = IF available > 0 THEN RecoverDebt(posted, key) ELSE posted
  BY DEF Entry, spent
<1> HIDE DEF row, b, r
<1>7. Writes(w, posted, row) /\ Writes(w, RecoverDebt(posted, key), row)
  <2>1. /\ row.key = key
        /\ b.creditDebt = w.account.creditDebt + row.debtDelta
        /\ b.totalCreditsUsed =
             w.account.totalCreditsUsed
               + (IF row.type = "charge" THEN row.amount ELSE 0)
    BY <1>1, <1>2, <1>3, <1>5 DEF Says, spent
  <2> QED BY <2>1, <1>1, <1>3, <1>4, PostWrites
<1> HIDE DEF posted
<1>8. Writes(w, r, row)
  BY <1>6, <1>7
<1> QED BY <1>5, <1>8 DEF Records, r

LEMMA CreditRecords ==
  ASSUME NEW w \in Wallet, NEW key \in BaseKeys,
         NEW type \in RowTypes \ {"charge"}, NEW amount \in Nat
  PROVE  LET b == [w.account EXCEPT !.creditsBalance = @ + amount]
         IN Records(w, RecoverDebt(
                         Post(w, b, Row(b, key, type, amount, amount, 0, 0)),
                         key),
                    key, type, amount, amount)
<1> DEFINE a == w.account
           b == [a EXCEPT !.creditsBalance = @ + amount]
           row == Row(b, key, type, amount, amount, 0, 0)
           posted == Post(w, b, row)
<1>1. /\ a \in Account
      /\ a.creditsBalance \in Nat /\ a.creditDebt \in Nat
      /\ a.creditsReserved \in Nat /\ a.totalCreditsUsed \in Nat
  BY StatementRows DEF Account
<1>2. /\ b \in Account
      /\ b.creditDebt = a.creditDebt
      /\ b.totalCreditsUsed = a.totalCreditsUsed
  <2> HIDE DEF a
  <2>1. a.creditsBalance + amount \in Nat
    BY <1>1
  <2> QED BY <1>1, <2>1 DEF Account
<1>3. row \in CreditEntry
  <2>1. key \in Keys
    BY KeysInBase
  <2>2. type \in RowTypes /\ amount \in Int
    OBVIOUS
  <2> HIDE DEF b
  <2> QED BY <2>1, <2>2, <1>2, RowType
<1>4. Says(row, key, type, amount, amount) /\ row.debtDelta = 0
  BY RowSays
<1> HIDE DEF row, b
<1>5. Writes(w, RecoverDebt(posted, key), row)
  <2>1. /\ row.key = key
        /\ b.creditDebt = w.account.creditDebt + row.debtDelta
        /\ b.totalCreditsUsed =
             w.account.totalCreditsUsed
               + (IF row.type = "charge" THEN row.amount ELSE 0)
    BY <1>1, <1>2, <1>4 DEF Says
  <2> QED BY <2>1, <1>2, <1>3, PostWrites
<1> QED BY <1>4, <1>5 DEF Records, row, b

LEMMA AdjustedRecords ==
  ASSUME NEW w \in Wallet, NEW key \in BaseKeys,
         NEW type \in RowTypes \ {"charge"}, NEW amount \in Int,
         w.account.creditsBalance >= -amount
  PROVE  Records(w, Adjusted(w, key, type, amount), key, type,
                 IF amount < 0 THEN -amount ELSE amount, amount)
<1> DEFINE a == w.account
           size == IF amount < 0 THEN -amount ELSE amount
           b == [a EXCEPT !.creditsBalance = @ + amount]
           row == Row(b, key, type, size, amount, 0, 0)
           posted == Post(w, b, row)
           r == Adjusted(w, key, type, amount)
<1>1. /\ a \in Account
      /\ a.creditsBalance \in Nat /\ a.creditDebt \in Nat
      /\ a.creditsReserved \in Nat /\ a.totalCreditsUsed \in Nat
  BY StatementRows DEF Account
<1>2. size \in Nat /\ a.creditsBalance + amount \in Nat
  BY <1>1
<1>3. /\ b \in Account
      /\ b.creditDebt = a.creditDebt
      /\ b.totalCreditsUsed = a.totalCreditsUsed
  <2> HIDE DEF a
  <2> QED BY <1>1, <1>2 DEF Account
<1>4. row \in CreditEntry
  <2>1. key \in Keys
    BY KeysInBase
  <2> HIDE DEF b, size
  <2> QED BY <2>1, <1>2, <1>3, RowType
<1>5. Says(row, key, type, size, amount) /\ row.debtDelta = 0
  BY RowSays
<1>6. r = IF amount > 0 THEN RecoverDebt(posted, key) ELSE posted
  BY DEF Adjusted
<1> HIDE DEF row, b, r, size
<1>7. Writes(w, posted, row) /\ Writes(w, RecoverDebt(posted, key), row)
  <2>1. /\ row.key = key
        /\ b.creditDebt = w.account.creditDebt + row.debtDelta
        /\ b.totalCreditsUsed =
             w.account.totalCreditsUsed
               + (IF row.type = "charge" THEN row.amount ELSE 0)
    BY <1>1, <1>2, <1>3, <1>5 DEF Says
  <2> QED BY <2>1, <1>3, <1>4, PostWrites
<1> HIDE DEF posted
<1>8. Writes(w, r, row)
  BY <1>6, <1>7
<1>9. Records(w, r, key, type, size, amount)
  BY <1>5, <1>8 DEF Records
<1> QED BY <1>9 DEF r, size

\* A reversal is the only row that says what is owed besides a recovery.
LEMMA TakenBackWrites ==
  ASSUME NEW w \in Wallet, NEW key \in BaseKeys, NEW amount \in Nat
  PROVE  LET debit == Debit(w.account, amount)
             b == TakenBack(w.account, amount)
             r == Post(w, b, Row(b, key, "adjustment", debit, -debit, 0,
                                 amount - debit))
         IN \E row : /\ Writes(w, r, row)
                     /\ Says(row, key, "adjustment", debit, -debit)
<1> DEFINE a == w.account
           debit == Debit(a, amount)
           less == -debit
           owed == amount - debit
           b == TakenBack(a, amount)
           row == Row(b, key, "adjustment", debit, less, 0, owed)
           r == Post(w, b, row)
<1>1. /\ a \in Account
      /\ a.creditsBalance \in Nat /\ a.creditDebt \in Nat
      /\ a.creditsReserved \in Nat /\ a.totalCreditsUsed \in Nat
  BY StatementRows DEF Account
<1>2. /\ debit \in Nat /\ less \in Int /\ owed \in Nat
      /\ debit <= amount /\ debit <= a.creditsBalance
  BY <1>1 DEF Debit, Smaller
<1>3. /\ b \in Account
      /\ b.creditDebt = a.creditDebt + owed
      /\ b.totalCreditsUsed = a.totalCreditsUsed
  <2>1. b = [a EXCEPT !.creditsBalance = @ - debit,
                      !.creditDebt = @ + owed]
    BY DEF TakenBack
  <2> HIDE DEF a, debit, b, owed
  <2>2. a.creditsBalance - debit \in Nat /\ a.creditDebt + owed \in Nat
    BY <1>1, <1>2
  <2> QED BY <2>1, <2>2, <1>1 DEF Account
<1>4. row \in CreditEntry
  <2>1. key \in Keys /\ "adjustment" \in RowTypes
    BY KeysInBase DEF RowTypes
  <2>2. owed \in Int
    BY <1>2
  <2> HIDE DEF b, debit, less, owed
  <2> QED BY <2>1, <2>2, <1>2, <1>3, RowType
<1>5. Says(row, key, "adjustment", debit, less) /\ row.debtDelta = owed
  BY RowSays
<1> HIDE DEF row, b, owed, debit
<1>6. Writes(w, r, row)
  <2>1. /\ row.key = key
        /\ b.creditDebt = w.account.creditDebt + row.debtDelta
        /\ b.totalCreditsUsed =
             w.account.totalCreditsUsed
               + (IF row.type = "charge" THEN row.amount ELSE 0)
    BY <1>1, <1>2, <1>3, <1>5 DEF Says
  <2> QED BY <2>1, <1>3, <1>4, PostWrites
<1> QED BY <1>5, <1>6 DEF row, b, owed, debit

\* What opening leaves: the wallet, or its first row.
LEMMA OpenedRecords ==
  ASSUME IInv, NEW u \in Users
  PROVE  /\ Opened(u) \in Wallet
         /\ wallet[u].account.creditLedgerInitialized =>
              Opened(u) = wallet[u]
         /\ ~wallet[u].account.creditLedgerInitialized =>
              \E amount, type :
                /\ type # "charge"
                /\ Records(wallet[u], Opened(u), <<"opening", u>>, type,
                           amount, wallet[u].account.creditsBalance)
<1> DEFINE w == wallet[u]
           a == w.account
           b == [a EXCEPT !.creditLedgerInitialized = TRUE]
           type == IF u \in LegacyUsers THEN "opening" ELSE "grant"
           amount == a.creditsBalance + a.creditsReserved
           row == Row(b, <<"opening", u>>, type, amount,
                      a.creditsBalance, a.creditsReserved, 0)
           r == Post(w, b, row)
<1>1. w \in Wallet
  BY WalletFunction
<1>2. CASE a.creditLedgerInitialized
  BY <1>1, <1>2 DEF Opened
<1>3. CASE ~a.creditLedgerInitialized
  <2>1. Opened(u) = r
    BY <1>3 DEF Opened
  <2>2. /\ a \in Account
        /\ a.creditsBalance \in Nat /\ a.creditDebt \in Nat
        /\ a.creditsReserved \in Nat /\ a.totalCreditsUsed \in Nat
    BY <1>1, StatementRows DEF Account
  <2>3. /\ b \in Account
        /\ b.creditDebt = a.creditDebt
        /\ b.totalCreditsUsed = a.totalCreditsUsed
    <3> HIDE DEF a
    <3> QED BY <2>2 DEF Account
  <2>4. <<"opening", u>> \in BaseKeys /\ type \in RowTypes \ {"charge"}
    BY DEF BaseKeys, RowTypes
  <2>5. row \in CreditEntry
    <3>1. <<"opening", u>> \in Keys
      BY <2>4, KeysInBase
    <3>2. amount \in Nat /\ a.creditsBalance \in Int /\ a.creditsReserved \in Int
      BY <2>2
    <3> HIDE DEF b, type, amount, a
    <3> QED BY <2>3, <2>4, <3>1, <3>2, RowType
  <2>6. /\ Says(row, <<"opening", u>>, type, amount, a.creditsBalance)
        /\ row.debtDelta = 0
    BY RowSays
  <2> HIDE DEF row, b, type, amount
  <2>7. r \in Wallet /\ Writes(w, r, row)
    <3>1. /\ row.key = <<"opening", u>>
          /\ b.creditDebt = w.account.creditDebt + row.debtDelta
          /\ b.totalCreditsUsed =
               w.account.totalCreditsUsed
                 + (IF row.type = "charge" THEN row.amount ELSE 0)
      BY <2>2, <2>3, <2>4, <2>6 DEF Says
    <3> QED BY <3>1, <1>1, <2>3, <2>4, <2>5, PostWrites
  <2>8. Records(w, r, <<"opening", u>>, type, amount, a.creditsBalance)
    BY <2>6, <2>7 DEF Records
  <2> QED BY <1>3, <2>1, <2>4, <2>7, <2>8
<1> QED BY <1>2, <1>3

-----------------------------------------------------------------------------
(* What every operation writes on the statement of its account *)

\* Only u's wallet changes, and r becomes of it.
Becomes(u, r) ==
  /\ u \in Users
  /\ wallet'[u] = r
  /\ \A v \in Users \ {u} : wallet'[v] = wallet[v]

LEMMA ReplacedBecomes ==
  ASSUME IInv, NEW u \in Users, NEW r, wallet' = [wallet EXCEPT ![u] = r]
  PROVE  Becomes(u, r)
BY WalletFunction DEF Becomes

LEMMA OpenedSoundly ==
  ASSUME IInv, NEW u \in Users
  PROVE  Sound(Opened(u)) /\ Clear(Opened(u)) /\ Opened(u) \in Wallet
<1>1. Accountable(wallet[u])
  BY DEF IInv
<1> QED BY <1>1, OpenedSound, SoundType

LEMMA OpeningBecomes ==
  ASSUME IInv, NEW u \in Users, Opening(u)
  PROVE  Becomes(u, Opened(u))
BY ReplacedBecomes DEF Opening

LEMMA SetActiveBecomes ==
  ASSUME IInv, NEW u \in Users, SetActive(u)
  PROVE  \A v \in Users :
           /\ wallet'[v].entries = wallet[v].entries
           /\ wallet'[v].account.creditsBalance =
                wallet[v].account.creditsBalance
           /\ wallet'[v].account.creditsReserved =
                wallet[v].account.creditsReserved
           /\ wallet'[v].account.creditDebt = wallet[v].account.creditDebt
           /\ wallet'[v].account.totalCreditsUsed =
                wallet[v].account.totalCreditsUsed
           /\ wallet'[v].account.creditLedgerInitialized =
                wallet[v].account.creditLedgerInitialized
<1>1. \A v \in Users : wallet[v].account \in Account /\ wallet[v] \in Wallet
  BY WalletFunction DEF Wallet
<1>2. wallet' = [wallet EXCEPT ![u].account.isActive = ~@]
  BY DEF SetActive
<1> DEFINE a == [wallet[u].account EXCEPT !.isActive = ~@]
           r == [wallet[u] EXCEPT !.account = a]
<1>3. wallet' = [wallet EXCEPT ![u] = r]
  BY <1>2
<1>4. /\ a.creditsBalance = wallet[u].account.creditsBalance
      /\ a.creditsReserved = wallet[u].account.creditsReserved
      /\ a.creditDebt = wallet[u].account.creditDebt
      /\ a.totalCreditsUsed = wallet[u].account.totalCreditsUsed
      /\ a.creditLedgerInitialized = wallet[u].account.creditLedgerInitialized
  BY <1>1 DEF Account
<1> HIDE DEF a
<1>5. r.account = a /\ r.entries = wallet[u].entries
  BY <1>1 DEF Wallet
<1> HIDE DEF r
<1>6. Becomes(u, r)
  BY <1>3, ReplacedBecomes
<1> QED BY <1>4, <1>5, <1>6 DEF Becomes

LEMMA ReserveRecords ==
  ASSUME IInv, NEW u \in Users, NEW o \in Operations, NEW amount \in Budgets,
         Reserve(u, o, amount)
  PROVE  \E r : /\ Becomes(u, r)
                /\ Records(Opened(u), r, <<"reserve", <<o, 0>>>>, "reserve",
                           amount, -amount)
<1> DEFINE w == Opened(u)
           key == <<"reserve", <<o, 0>>>>
           less == -amount
           r == Entry(w, "reserve", amount, less, amount, key)
<1>1. Sound(w)
  BY OpenedSoundly
<1>2. amount \in Nat /\ amount \in Int /\ less \in Int
  BY AmountsAssumption
<1>3. key \in BaseKeys
  BY DEF BaseKeys
<1>4. Covers(w, less, amount) /\ wallet' = [wallet EXCEPT ![u] = r]
  BY DEF Reserve
<1> HIDE DEF w, less, key
<1>5. Records(w, r, key, "reserve", amount, less)
  BY <1>1, <1>2, <1>3, <1>4, EntryRecords
<1>6. Becomes(u, r)
  BY <1>4, ReplacedBecomes
<1> QED BY <1>5, <1>6 DEF w, less, key

LEMMA ReopenRecords ==
  ASSUME IInv, NEW o \in Operations, Reopen(o)
  PROVE  LET u == operation[o].userId
             amount == Remainder(operation[o])
         IN \E r : /\ Becomes(u, r)
                   /\ Records(wallet[u], r,
                        <<"reserve", <<o, operation[o].generation + 1>>>>,
                        "reserve", amount, -amount)
<1> DEFINE u == operation[o].userId
           w == wallet[u]
           amount == Remainder(operation[o])
           key == <<"reserve", <<o, operation[o].generation + 1>>>>
           less == -amount
           r == Entry(w, "reserve", amount, less, amount, key)
<1>1. operation[o] \in CreditOperation /\ u \in Users /\ Sound(w)
  BY OperationOwner DEF Reopen
<1>2. amount \in Nat /\ amount \in Int /\ less \in Int
  <2>1. amount \in Nat
    BY ReopenStep
  <2> QED BY <2>1
<1>3. key \in BaseKeys
  <2>1. operation[o].generation + 1 \in Nat
    BY <1>1 DEF CreditOperation
  <2> QED BY <2>1 DEF BaseKeys
<1>4. Covers(w, less, amount) /\ wallet' = [wallet EXCEPT ![u] = r]
  BY DEF Reopen
<1> HIDE DEF u, w, less, key, amount
<1>5. Records(w, r, key, "reserve", amount, less)
  BY <1>1, <1>2, <1>3, <1>4, EntryRecords
<1>6. Becomes(u, r)
  BY <1>1, <1>4, ReplacedBecomes
<1> QED BY <1>5, <1>6 DEF u, w, less, key, amount

\* r is w with a row of the settlement, if it is not about nothing.
RecordsSome(w, r, key, type, amount, available) ==
  IF amount = 0 THEN r = w ELSE Records(w, r, key, type, amount, available)

LEMMA SettleRecords ==
  ASSUME IInv, NEW o \in Operations,
         NEW total \in 0..operation[o].authorized, Settle(o, total)
  PROVE  LET op == operation[o]
             charge == total - op.charged
             release == op.held - charge
         IN \E x, r :
              /\ Becomes(op.userId, r)
              /\ Sound(x)
              /\ RecordsSome(wallet[op.userId], x,
                   <<"charge", <<o, op.generation>>>>, "charge", charge, 0)
              /\ RecordsSome(x, r, <<"release", <<o, op.generation>>>>,
                   "release", release, release)
<1> DEFINE op == operation[o]
           u == op.userId
           w == wallet[u]
           charge == total - op.charged
           release == op.held - charge
           x == Charged(w, o, charge)
           r == Released(x, o, release)
           chargeKey == <<"charge", <<o, op.generation>>>>
           releaseKey == <<"release", <<o, op.generation>>>>
<1>1. op \in CreditOperation /\ u \in Users /\ Sound(w) /\ Clear(w)
  BY OperationOwner DEF Settle
<1>2. charge \in Nat /\ release \in Nat /\ op.generation \in Nat
  <2>1. charge \in Nat /\ release \in Nat
    BY SettleStep
  <2> QED BY <2>1, <1>1 DEF CreditOperation
<1>3. /\ Covers(w, 0, -charge)
      /\ Covers(x, release, -release)
      /\ wallet' = [wallet EXCEPT ![u] = r]
  BY DEF Settle
<1>4. /\ chargeKey \in BaseKeys /\ releaseKey \in BaseKeys
      /\ -charge \in Int /\ -release \in Int /\ release \in Int
  <2>1. chargeKey \in BaseKeys /\ releaseKey \in BaseKeys
    BY <1>2 DEF BaseKeys
  <2>2. -charge \in Int /\ -release \in Int /\ release \in Int
    BY <1>2
  <2> QED BY <2>1, <2>2
<1>5. /\ x = IF charge = 0 THEN w
             ELSE Entry(w, "charge", charge, 0, -charge, chargeKey)
      /\ r = IF release = 0 THEN x
             ELSE Entry(x, "release", release, release, -release, releaseKey)
  BY DEF Charged, Released
<1> HIDE DEF u, w, charge, release, chargeKey, releaseKey
<1>6. Sound(x)
  BY <1>1, <1>2, <1>3, ChargedSound
<1>7. Becomes(u, r)
  BY <1>1, <1>3, ReplacedBecomes
<1> HIDE DEF x, r, op
<1>8. RecordsSome(w, x, chargeKey, "charge", charge, 0)
  <2> DEFINE less == -charge
  <2>1. less \in Int /\ Covers(w, 0, less)
    BY <1>3, <1>4
  <2>2. x = IF charge = 0 THEN w ELSE Entry(w, "charge", charge, 0, less, chargeKey)
    BY <1>5
  <2> HIDE DEF less
  <2>3. Records(w, Entry(w, "charge", charge, 0, less, chargeKey),
                chargeKey, "charge", charge, 0)
    BY <2>1, <1>1, <1>2, <1>4, EntryRecords
  <2> QED BY <2>2, <2>3 DEF RecordsSome
<1>9. RecordsSome(x, r, releaseKey, "release", release, release)
  <2> DEFINE less == -release
  <2>1. less \in Int /\ Covers(x, release, less)
    BY <1>3, <1>4
  <2>2. r = IF release = 0 THEN x
            ELSE Entry(x, "release", release, release, less, releaseKey)
    BY <1>5
  <2> HIDE DEF less
  <2>3. Records(x, Entry(x, "release", release, release, less, releaseKey),
                releaseKey, "release", release, release)
    BY <2>1, <1>2, <1>4, <1>6, EntryRecords
  <2> QED BY <2>2, <2>3 DEF RecordsSome
<1> QED BY <1>6, <1>7, <1>8, <1>9 DEF u, w, charge, release, chargeKey, releaseKey, op

LEMMA AdjustRecords ==
  ASSUME IInv, NEW u \in Users, NEW k \in AdjustKeys, NEW amount \in Int,
         AdjustCredits(u, k, amount)
  PROVE  \E r, type, size :
           /\ Becomes(u, r)
           /\ type # "charge"
           /\ Records(Opened(u), r, <<"adjust", k>>, type, size, amount)
<1> DEFINE w == Opened(u)
           key == <<"adjust", k>>
           type == IF amount < 0 THEN "adjustment" ELSE "grant"
           size == IF amount < 0 THEN -amount ELSE amount
           r == Adjusted(w, key, type, amount)
<1>1. w \in Wallet
  BY OpenedSoundly
<1>2. key \in BaseKeys /\ type \in RowTypes \ {"charge"}
  BY DEF BaseKeys, RowTypes
<1>3. w.account.creditsBalance >= -amount /\ wallet' = [wallet EXCEPT ![u] = r]
  BY DEF AdjustCredits
<1> HIDE DEF w, key, type
<1>4. Records(w, r, key, type, size, amount)
  BY <1>1, <1>2, <1>3, AdjustedRecords
<1>5. Becomes(u, r)
  BY <1>3, ReplacedBecomes
<1> HIDE DEF r, size
<1> QED BY <1>2, <1>4, <1>5 DEF w, key

LEMMA PackRecords ==
  ASSUME IInv, NEW u \in Users, NEW p \in Payments, NEW credits \in PackSizes,
         PackPayment(u, p, credits)
  PROVE  \E r, size :
           /\ Becomes(u, r)
           /\ Records(Opened(u), r, <<"payment", p>>, "grant", size, credits)
<1> DEFINE w == Opened(u)
           key == <<"payment", p>>
           size == IF credits < 0 THEN -credits ELSE credits
           r == Adjusted(w, key, "grant", credits)
<1>1. w \in Wallet /\ w.account.creditsBalance \in Nat
  BY OpenedSoundly, SoundType
<1>2. key \in BaseKeys /\ "grant" \in RowTypes \ {"charge"}
  BY DEF BaseKeys, RowTypes
<1>3. credits \in Nat /\ credits \in Int
  BY AmountsAssumption
<1>4. wallet' = [wallet EXCEPT ![u] = r]
  BY DEF PackPayment
<1> HIDE DEF w, key
<1>5. w.account.creditsBalance >= -credits
  BY <1>1, <1>3
<1>6. Records(w, r, key, "grant", size, credits)
  BY <1>1, <1>2, <1>3, <1>5, AdjustedRecords
<1>7. Becomes(u, r)
  BY <1>4, ReplacedBecomes
<1> HIDE DEF r, size
<1> QED BY <1>6, <1>7 DEF w, key

LEMMA GrantRecords ==
  ASSUME IInv, NEW u \in Users, NEW p \in Payments,
         NEW allocation \in Allocations, NEW c \in Cycles,
         GrantSubscriptionCycle(u, p, allocation, c)
  PROVE  \E r :
           /\ Becomes(u, r)
           /\ Records(Opened(u), r, <<"payment", p>>, "grant",
                      TopUp(u, c, allocation), TopUp(u, c, allocation))
<1> DEFINE w == Opened(u)
           key == <<"payment", p>>
           amount == TopUp(u, c, allocation)
           b == [w.account EXCEPT !.creditsBalance = @ + amount]
           r == RecoverDebt(
                  Post(w, b, Row(b, key, "grant", amount, amount, 0, 0)), key)
<1>1. w \in Wallet
  BY OpenedSoundly
<1>2. key \in BaseKeys /\ "grant" \in RowTypes \ {"charge"}
  BY DEF BaseKeys, RowTypes
<1>3. amount \in Nat
  BY TopUpType
<1>4. wallet' = [wallet EXCEPT ![u] = r]
  BY DEF GrantSubscriptionCycle
<1> HIDE DEF w, key, amount
<1>5. Records(w, r, key, "grant", amount, amount)
  BY <1>1, <1>2, <1>3, CreditRecords
<1> HIDE DEF b, r
<1>6. Becomes(u, r)
  BY <1>4, ReplacedBecomes
<1> QED BY <1>5, <1>6 DEF w, key, amount

LEMMA AdoptRecords ==
  ASSUME IInv, NEW u \in Users, NEW p \in Payments,
         NEW allocation \in Allocations, NEW c \in Cycles \cup {None},
         AdoptLegacyPayment(u, p, allocation, c)
  PROVE  \E r :
           /\ Becomes(u, r)
           /\ Records(Opened(u), r, <<"payment", p>>, "grant", 0, 0)
<1> DEFINE w == Opened(u)
           key == <<"payment", p>>
           row == Row(w.account, key, "grant", 0, 0, 0, 0)
           r == Post(w, w.account, row)
<1>1. w \in Wallet /\ w.account \in Account
      /\ w.account.creditDebt \in Nat /\ w.account.totalCreditsUsed \in Nat
  BY OpenedSoundly, SoundType
<1>2. key \in BaseKeys /\ key \in Keys /\ "grant" \in RowTypes
  BY KeysInBase DEF BaseKeys, RowTypes
<1>3. wallet' = [wallet EXCEPT ![u] = r]
  BY DEF AdoptLegacyPayment
<1> HIDE DEF w
<1>4. row \in CreditEntry
  BY <1>1, <1>2, RowType
<1>5. Says(row, key, "grant", 0, 0) /\ row.debtDelta = 0
  BY RowSays
<1> HIDE DEF row, key
<1>6. Writes(w, r, row)
  <2>1. /\ row.key = key
        /\ w.account.creditDebt = w.account.creditDebt + row.debtDelta
        /\ w.account.totalCreditsUsed =
             w.account.totalCreditsUsed
               + (IF row.type = "charge" THEN row.amount ELSE 0)
    BY <1>1, <1>5 DEF Says
  <2> QED BY <2>1, <1>1, <1>2, <1>4, PostWrites
<1> HIDE DEF r
<1>7. Becomes(u, r)
  BY <1>3, ReplacedBecomes
<1> QED BY <1>5, <1>6, <1>7 DEF Records, w, key

LEMMA ReverseRecords ==
  ASSUME IInv, NEW p \in Payments, NEW a \in Adjustments,
         NEW share \in ReversalShares(payment[p].granted),
         ReversePayment(p, a, share)
  PROVE  LET u == payment[p].userId
         IN \E r, row :
              /\ Becomes(u, r)
              /\ Writes(wallet[u], r, row)
              /\ row.key = <<"paddle-adjustment", a>>
              /\ row.type = "adjustment"
<1> DEFINE u == payment[p].userId
           w == wallet[u]
           key == <<"paddle-adjustment", a>>
           amount == Taken(p, share)
           debit == Debit(w.account, amount)
           b == TakenBack(w.account, amount)
           r == Post(w, b, Row(b, key, "adjustment", debit, -debit, 0,
                               amount - debit))
<1>1. u \in Users /\ w \in Wallet
  BY PaymentOwner, SoundType DEF ReversePayment
<1>2. amount \in Nat
  BY TakenType
<1>3. key \in BaseKeys
  BY DEF BaseKeys
<1>4. wallet' = [wallet EXCEPT ![u] = r]
  BY DEF ReversePayment, Taken
<1> HIDE DEF w, key, amount, u
<1>5. \E row : Writes(w, r, row) /\ Says(row, key, "adjustment", debit, -debit)
  BY <1>1, <1>2, <1>3, TakenBackWrites
<1> HIDE DEF r, debit
<1>6. Becomes(u, r)
  BY <1>1, <1>4, ReplacedBecomes
<1> QED BY <1>5, <1>6 DEF w, u, key, Says

LEMMA RestoreRecords ==
  ASSUME IInv, NEW a \in Adjustments, RestorePaymentAdjustment(a)
  PROVE  LET u == payment[adjustment[a].payment].userId
             amount == adjustment[a].reversedCredits
         IN \E r, size :
              /\ Becomes(u, r)
              /\ Records(wallet[u], r, <<"paddle-restoration", a>>, "refund",
                         size, amount)
<1> DEFINE p == adjustment[a].payment
           u == payment[p].userId
           w == wallet[u]
           key == <<"paddle-restoration", a>>
           amount == adjustment[a].reversedCredits
           size == IF amount < 0 THEN -amount ELSE amount
           r == Adjusted(w, key, "refund", amount)
<1>1. p \in Payments /\ amount \in Nat
  <2>1. adjustment[a] \in Adjustment
    BY DEF IInv, TypeOK
  <2> QED BY <2>1 DEF Adjustment, RestorePaymentAdjustment
<1>2. u # None
  BY DEF IInv, OwnersKnown, AdjustmentsOwned, RestorePaymentAdjustment
<1>3. u \in Users /\ w \in Wallet /\ w.account.creditsBalance \in Nat
  BY <1>1, <1>2, PaymentOwner, SoundType
<1>4. key \in BaseKeys /\ "refund" \in RowTypes \ {"charge"}
  BY DEF BaseKeys, RowTypes
<1>5. wallet' = [wallet EXCEPT ![u] = r]
  BY DEF RestorePaymentAdjustment
<1> HIDE DEF w, key, u, amount
<1>6. w.account.creditsBalance >= -amount /\ amount \in Int
  BY <1>1, <1>3
<1>7. Records(w, r, key, "refund", size, amount)
  BY <1>3, <1>4, <1>6, AdjustedRecords
<1> HIDE DEF r, size
<1>8. Becomes(u, r)
  BY <1>3, <1>5, ReplacedBecomes
<1> QED BY <1>7, <1>8 DEF w, u, amount, key

LEMMA RefundRecords ==
  ASSUME IInv, NEW o \in Operations, NEW g \in 0..MaxGeneration,
         NEW k \in RefundKeys, NEW amount \in RefundAmounts,
         Refund(o, g, k, amount)
  PROVE  LET u == operation[o].userId
         IN \E r : /\ Becomes(u, r)
                   /\ Records(wallet[u], r, <<"refund", k>>, "refund",
                              amount, amount)
<1> DEFINE u == operation[o].userId
           w == wallet[u]
           key == <<"refund", k>>
           b == [w.account EXCEPT !.creditsBalance = @ + amount]
           r == RecoverDebt(
                  Post(w, b, Row(b, key, "refund", amount, amount, 0, 0)), key)
<1>1. u \in Users /\ w \in Wallet
  <2>1. operation[o].status # "none"
    BY DEF Refund, IInv, OwnersKnown, OperationsOwned
  <2> QED BY <2>1, OperationOwner, SoundType
<1>2. amount \in Nat
  BY AmountsAssumption
<1>3. key \in BaseKeys /\ "refund" \in RowTypes \ {"charge"}
  BY DEF BaseKeys, RowTypes
<1>4. wallet' = [wallet EXCEPT ![u] = r]
  BY DEF Refund
<1> HIDE DEF w, key, u
<1>5. Records(w, r, key, "refund", amount, amount)
  BY <1>1, <1>2, <1>3, CreditRecords
<1> HIDE DEF b, r
<1>6. Becomes(u, r)
  BY <1>1, <1>4, ReplacedBecomes
<1> QED BY <1>5, <1>6 DEF w, u, key

-----------------------------------------------------------------------------
(* The rows explain what an account owes and what it used *)

DebtWeight == [row \in CreditEntry |-> row.debtDelta]

ChargeWeight ==
  [row \in CreditEntry |-> IF row.type = "charge" THEN row.amount ELSE 0]

Explained(w) ==
  /\ w.account.creditDebt = Weighed(w, DebtWeight)
  /\ w.account.totalCreditsUsed = Weighed(w, ChargeWeight)

EveryoneExplained == \A u \in Users : Explained(wallet[u])

LEMMA ExplainingWeights == DebtWeight \in Weights /\ ChargeWeight \in Weights
BY DEF DebtWeight, ChargeWeight, Weights, CreditEntry

LEMMA PostsExplained ==
  ASSUME NEW w \in Wallet, Explained(w), NEW r, NEW row, Posts(w, r, row),
         Explains(w, r, row)
  PROVE  Explained(r)
<1>1. /\ Weighed(r, DebtWeight) = Weighed(w, DebtWeight) + DebtWeight[row]
      /\ Weighed(r, ChargeWeight) = Weighed(w, ChargeWeight) + ChargeWeight[row]
  BY ExplainingWeights, PostedWeighs
<1>2. /\ DebtWeight[row] = row.debtDelta
      /\ ChargeWeight[row] = IF row.type = "charge" THEN row.amount ELSE 0
  BY DEF Posts, DebtWeight, ChargeWeight
<1> QED BY <1>1, <1>2 DEF Explained, Explains

LEMMA WritesExplained ==
  ASSUME NEW w, NEW r, NEW row, Writes(w, r, row), Explained(w)
  PROVE  r \in Wallet /\ Explained(r)
<1>1. PICK x : /\ Posts(w, x, row) /\ Explains(w, x, row)
               /\ Recovers(x, r, row.key)
  BY DEF Writes
<1>2. x \in Wallet /\ Explained(x)
  BY <1>1, PostsExplained DEF Writes, Posts
<1>3. CASE r = x
  BY <1>2, <1>3
<1>4. CASE \E debt : Posts(x, r, debt) /\ Explains(x, r, debt)
  BY <1>2, <1>4, PostsExplained DEF Posts
<1> QED BY <1>1, <1>3, <1>4 DEF Recovers

LEMMA RecordsExplained ==
  ASSUME NEW w, NEW r, NEW key, NEW type, NEW amount, NEW available,
         Explained(w), w \in Wallet,
         \/ Records(w, r, key, type, amount, available)
         \/ RecordsSome(w, r, key, type, amount, available)
  PROVE  r \in Wallet /\ Explained(r)
BY WritesExplained DEF Records, RecordsSome

LEMMA OpenedExplained ==
  ASSUME IInv, EveryoneExplained, NEW u \in Users
  PROVE  Opened(u) \in Wallet /\ Explained(Opened(u))
<1>1. Explained(wallet[u]) /\ wallet[u] \in Wallet
  BY WalletFunction DEF EveryoneExplained
<1>2. CASE wallet[u].account.creditLedgerInitialized
  BY <1>1, <1>2, OpenedRecords
<1>3. CASE ~wallet[u].account.creditLedgerInitialized
  <2>1. PICK amount, type :
          Records(wallet[u], Opened(u), <<"opening", u>>, type, amount,
                  wallet[u].account.creditsBalance)
    BY <1>3, OpenedRecords
  <2> QED BY <1>1, <2>1, RecordsExplained
<1> QED BY <1>2, <1>3

LEMMA BecomesExplained ==
  ASSUME EveryoneExplained, NEW u, NEW r, Becomes(u, r), Explained(r)
  PROVE  EveryoneExplained'
<1> SUFFICES ASSUME NEW v \in Users PROVE Explained(wallet'[v])
  BY DEF EveryoneExplained
<1> QED BY DEF Becomes, EveryoneExplained

\* The same account in any other respect, the same rows: the same explanation.
LEMMA SameExplained ==
  ASSUME NEW w \in Wallet, NEW v \in Wallet, Explained(w),
         v.entries = w.entries,
         v.account.creditDebt = w.account.creditDebt,
         v.account.totalCreditsUsed = w.account.totalCreditsUsed
  PROVE  Explained(v)
<1>1. /\ Weighed(v, DebtWeight) = Weighed(w, DebtWeight)
      /\ Weighed(v, ChargeWeight) = Weighed(w, ChargeWeight)
  BY ExplainingWeights, WeighedSame
<1> QED BY <1>1 DEF Explained

LEMMA InitExplained == Init => EveryoneExplained
<1> SUFFICES ASSUME Init, NEW u \in Users PROVE Explained(wallet[u])
  BY DEF EveryoneExplained
<1>1. wallet[u] \in Wallet
  BY InitIInv, WalletFunction
<1>2. /\ wallet[u].entries = <<>>
      /\ wallet[u].account.creditDebt = 0
      /\ wallet[u].account.totalCreditsUsed = 0
  BY DEF Init
<1>3. \A i \in DOMAIN wallet[u].entries : FALSE
  BY <1>2
<1>4. /\ Weighed(wallet[u], DebtWeight) = 0
      /\ Weighed(wallet[u], ChargeWeight) = 0
  BY <1>1, <1>3, ExplainingWeights, WeighedNothing
<1> QED BY <1>2, <1>4 DEF Explained

LEMMA NextExplained ==
  IInv /\ IInv' /\ EveryoneExplained /\ [Next]_vars => EveryoneExplained'
<1> SUFFICES ASSUME IInv, IInv', EveryoneExplained, [Next]_vars
             PROVE  EveryoneExplained'
  OBVIOUS
<1>0. \A u \in Users : Opened(u) \in Wallet /\ Explained(Opened(u))
  BY OpenedExplained
<1> DEFINE Fine(u) == \E r : Becomes(u, r) /\ Explained(r)
<1>1. ASSUME NEW u, Fine(u)
      PROVE  EveryoneExplained'
  BY <1>1, BecomesExplained
<1>2. CASE UNCHANGED vars
  BY <1>2 DEF EveryoneExplained, vars
<1>3. ASSUME NEW u \in Users, Opening(u)
      PROVE  Fine(u)
  BY <1>0, <1>3, OpeningBecomes
<1>4. ASSUME NEW u \in Users, SetActive(u)
      PROVE  EveryoneExplained'
  <2> SUFFICES ASSUME NEW v \in Users PROVE Explained(wallet'[v])
    BY DEF EveryoneExplained
  <2>1. wallet[v] \in Wallet /\ wallet'[v] \in Wallet /\ Explained(wallet[v])
    BY WalletFunction DEF EveryoneExplained, IInv, TypeOK
  <2>2. /\ wallet'[v].entries = wallet[v].entries
        /\ wallet'[v].account.creditDebt = wallet[v].account.creditDebt
        /\ wallet'[v].account.totalCreditsUsed =
             wallet[v].account.totalCreditsUsed
    BY <1>4, SetActiveBecomes
  <2> QED BY <2>1, <2>2, SameExplained
<1>5. ASSUME NEW u \in Users, NEW o \in Operations, NEW amount \in Budgets,
             Reserve(u, o, amount)
      PROVE  Fine(u)
  BY <1>0, <1>5, ReserveRecords, RecordsExplained
<1>6. ASSUME NEW o \in Operations, Reopen(o)
      PROVE  \E u : Fine(u)
  <2>1. /\ operation[o].userId \in Users
        /\ wallet[operation[o].userId] \in Wallet
        /\ Explained(wallet[operation[o].userId])
    BY <1>6, OperationOwner, SoundType DEF Reopen, EveryoneExplained
  <2> QED BY <1>6, <2>1, ReopenRecords, RecordsExplained
<1>7. ASSUME NEW o \in Operations, NEW total \in 0..operation[o].authorized,
             Settle(o, total)
      PROVE  \E u : Fine(u)
  <2> DEFINE u == operation[o].userId
             charge == total - operation[o].charged
             release == operation[o].held - charge
  <2>1. /\ u \in Users /\ wallet[u] \in Wallet /\ Explained(wallet[u])
    BY <1>7, OperationOwner, SoundType DEF Settle, EveryoneExplained
  <2>2. PICK x, r :
          /\ Becomes(u, r)
          /\ RecordsSome(wallet[u], x,
               <<"charge", <<o, operation[o].generation>>>>, "charge",
               charge, 0)
          /\ RecordsSome(x, r, <<"release", <<o, operation[o].generation>>>>,
               "release", release, release)
    BY <1>7, SettleRecords
  <2>3. x \in Wallet /\ Explained(x)
    BY <2>1, <2>2, RecordsExplained
  <2>4. Explained(r)
    BY <2>2, <2>3, RecordsExplained
  <2> QED BY <2>2, <2>4
<1>8. ASSUME NEW u \in Users, NEW k \in AdjustKeys, NEW amount \in Int,
             AdjustCredits(u, k, amount)
      PROVE  Fine(u)
  BY <1>0, <1>8, AdjustRecords, RecordsExplained
<1>9. ASSUME NEW u \in Users, NEW p \in Payments, NEW credits \in PackSizes,
             PackPayment(u, p, credits)
      PROVE  Fine(u)
  BY <1>0, <1>9, PackRecords, RecordsExplained
<1>10. ASSUME NEW u \in Users, NEW p \in Payments,
              NEW allocation \in Allocations, NEW c \in Cycles,
              GrantSubscriptionCycle(u, p, allocation, c)
       PROVE  Fine(u)
  BY <1>0, <1>10, GrantRecords, RecordsExplained
<1>11. ASSUME NEW u \in Users, NEW p \in Payments,
              NEW allocation \in Allocations, NEW c \in Cycles \cup {None},
              AdoptLegacyPayment(u, p, allocation, c)
       PROVE  Fine(u)
  BY <1>0, <1>11, AdoptRecords, RecordsExplained
<1>12. ASSUME NEW p \in Payments, NEW a \in Adjustments,
              NEW share \in ReversalShares(payment[p].granted),
              ReversePayment(p, a, share)
       PROVE  \E u : Fine(u)
  <2>1. /\ payment[p].userId \in Users
        /\ wallet[payment[p].userId] \in Wallet
        /\ Explained(wallet[payment[p].userId])
    BY <1>12, PaymentOwner, SoundType DEF ReversePayment, EveryoneExplained
  <2>2. PICK r, row : /\ Becomes(payment[p].userId, r)
                      /\ Writes(wallet[payment[p].userId], r, row)
    BY <1>12, ReverseRecords
  <2> QED BY <2>1, <2>2, WritesExplained
<1>13. ASSUME NEW a \in Adjustments, RestorePaymentAdjustment(a)
       PROVE  \E u : Fine(u)
  <2> DEFINE u == payment[adjustment[a].payment].userId
  <2>1. u \in Users
    BY <1>13, RestoreStep DEF Transaction
  <2>2. wallet[u] \in Wallet /\ Explained(wallet[u])
    BY <2>1, WalletFunction DEF EveryoneExplained
  <2> QED BY <1>13, <2>2, RestoreRecords, RecordsExplained
<1>14. ASSUME NEW o \in Operations, NEW g \in 0..MaxGeneration,
              NEW k \in RefundKeys, NEW amount \in RefundAmounts,
              Refund(o, g, k, amount)
       PROVE  \E u : Fine(u)
  <2> DEFINE u == operation[o].userId
  <2>1. u \in Users
    BY <1>14, RefundStep DEF Transaction
  <2>2. wallet[u] \in Wallet /\ Explained(wallet[u])
    BY <2>1, WalletFunction DEF EveryoneExplained
  <2>3. PICK r : /\ Becomes(u, r)
                 /\ Records(wallet[u], r, <<"refund", k>>, "refund",
                            amount, amount)
    BY <1>14, RefundRecords
  <2> QED BY <2>2, <2>3, RecordsExplained
<1>15. \A size \in AdjustSizes : size \in Int /\ -size \in Int
  BY AmountsAssumption
<1> HIDE DEF Fine
<1> QED
  BY <1>1, <1>2, <1>3, <1>4, <1>5, <1>6, <1>7, <1>8, <1>9, <1>10, <1>11,
     <1>12, <1>13, <1>14, <1>15 DEF Next

LEMMA ExplainedInvariance == Spec => []EveryoneExplained
<1> QED BY InitExplained, NextExplained, Invariance, PTL DEF Spec

\* The debt of every account is what the rows of its statement add up to.
THEOREM DebtsAreExplained == Spec => []DebtExplained
<1>1. IInv /\ EveryoneExplained => DebtExplained
  <2> SUFFICES ASSUME IInv, EveryoneExplained, NEW u \in Users
               PROVE  wallet[u].account.creditDebt =
                        SumRows(u, LAMBDA row : row.debtDelta)
    BY DEF DebtExplained
  <2> DEFINE f == [i \in DOMAIN wallet[u].entries |->
                     wallet[u].entries[i].debtDelta]
             g == [i \in DOMAIN wallet[u].entries |->
                     DebtWeight[wallet[u].entries[i]]]
  <2>1. \A i \in DOMAIN wallet[u].entries : wallet[u].entries[i] \in CreditEntry
    BY WalletFunction, StatementRows
  <2>2. f = g
    BY <2>1 DEF DebtWeight
  <2>3. SumRows(u, LAMBDA row : row.debtDelta) = SumFunction(f)
    BY DEF SumRows
  <2>4. Weighed(wallet[u], DebtWeight) = SumFunction(g)
    BY DEF Weighed
  <2> HIDE DEF f, g
  <2> QED BY <2>2, <2>3, <2>4 DEF EveryoneExplained, Explained
<1> QED BY <1>1, Invariance, ExplainedInvariance, PTL

-----------------------------------------------------------------------------
(* The operations of an account explain what it holds and used *)

OperationWeights == [CreditOperation -> Int]

\* The operations of an account weighed and added up.
OwnedBy(u) == {o \in Operations : operation[o].userId = u}
Owned(u, weight) == SumFunction([o \in OwnedBy(u) |-> weight[operation[o]]])

HeldWeight == [op \in CreditOperation |-> op.held]
ChargedWeight == [op \in CreditOperation |-> op.charged]

Backed ==
  \A u \in Users :
    /\ wallet[u].account.creditsReserved = Owned(u, HeldWeight)
    /\ wallet[u].account.totalCreditsUsed = Owned(u, ChargedWeight)

LEMMA BackingWeights ==
  HeldWeight \in OperationWeights /\ ChargedWeight \in OperationWeights
BY DEF HeldWeight, ChargedWeight, OperationWeights, CreditOperation

LEMMA OwnedSummable ==
  ASSUME IInv, NEW u, NEW weight \in OperationWeights
  PROVE  /\ Summable([o \in OwnedBy(u) |-> weight[operation[o]]])
         /\ Owned(u, weight) \in Int
<1> DEFINE f == [o \in OwnedBy(u) |-> weight[operation[o]]]
<1>1. OwnedBy(u) \subseteq Operations /\ IsFiniteSet(OwnedBy(u))
  <2>1. OwnedBy(u) \subseteq Operations
    BY DEF OwnedBy
  <2> QED BY <2>1, FiniteAssumption, FS_Subset
<1>2. \A o \in Operations : weight[operation[o]] \in Int
  BY DEF IInv, TypeOK, OperationWeights
<1>3. IsFiniteSet(DOMAIN f) /\ \A o \in DOMAIN f : f[o] \in Int
  BY <1>1, <1>2
<1> HIDE DEF f
<1>4. Summable(f)
  BY <1>3 DEF Summable, IntOn
<1>5. SumFunction(f) \in Int
  BY <1>4, SumInt
<1> QED BY <1>4, <1>5 DEF f, Owned

\* One operation written for its account moves the sum of that account by
\* what the operation moved, and no other sum.
LEMMA OwnedMoves ==
  ASSUME IInv, NEW u \in Users, NEW o \in Operations,
         operation'[o] \in CreditOperation,
         operation'[o].userId = u, operation[o].userId \in {None, u},
         \A q \in Operations : q # o => operation'[q] = operation[q],
         NEW weight \in OperationWeights
  PROVE  /\ Owned(u, weight)' =
              Owned(u, weight)
                + (weight[operation'[o]]
                     - (IF operation[o].userId = None THEN 0
                        ELSE weight[operation[o]]))
         /\ \A v \in Users \ {u} : Owned(v, weight)' = Owned(v, weight)
<1> DEFINE F(v) == [q \in OwnedBy(v) |-> weight[operation[q]]]
           G(v) == [q \in {p \in Operations : operation'[p].userId = v} |->
                      weight[operation'[q]]]
<1>1. \A v : Summable(F(v)) /\ Owned(v, weight) = SumFunction(F(v))
  <2> TAKE v
  <2>1. Summable(F(v))
    BY OwnedSummable
  <2>2. Owned(v, weight) = SumFunction(F(v))
    BY DEF Owned
  <2> QED BY <2>1, <2>2
<1>2. \A v : Owned(v, weight)' = SumFunction(G(v))
  BY DEF Owned, OwnedBy
<1>3. weight[operation'[o]] \in Int /\ weight[operation[o]] \in Int
  BY DEF OperationWeights, IInv, TypeOK
<1>4. u # None
  BY UsersAssumption
<1>5. ASSUME NEW v \in Users \ {u}
      PROVE  SumFunction(G(v)) = SumFunction(F(v))
  <2> DEFINE f == F(v)
             g == G(v)
  <2>1. operation[o].userId # v
    BY UsersAssumption
  <2>2. DOMAIN g = DOMAIN f
    BY <2>1 DEF OwnedBy
  <2>3. \A q \in DOMAIN f : g[q] = f[q]
    BY <2>1, <2>2 DEF OwnedBy
  <2>4. Summable(f)
    BY <1>1
  <2> HIDE DEF f, g
  <2>5. SumFunction(g) = SumFunction(f)
    BY <2>2, <2>3, <2>4, SumSame
  <2> QED BY <2>5 DEF f, g
<1>6. SumFunction(G(u)) =
        SumFunction(F(u)) + (weight[operation'[o]]
                               - (IF operation[o].userId = None THEN 0
                                  ELSE weight[operation[o]]))
  <2> DEFINE f == F(u)
             g == G(u)
  <2>0. Summable(f)
    BY <1>1
  <2>1. CASE operation[o].userId = None
    <3>1. /\ o \notin DOMAIN f /\ g[o] = weight[operation'[o]]
          /\ DOMAIN g = DOMAIN f \cup {o}
      BY <1>4, <2>1 DEF OwnedBy
    <3>2. \A q \in DOMAIN f : g[q] = f[q]
      BY <3>1 DEF OwnedBy
    <3> HIDE DEF f, g
    <3>3. SumFunction(g) = SumFunction(f) + g[o]
      BY <1>3, <2>0, <3>1, <3>2, SumAdded
    <3>4. SumFunction(g) = SumFunction(f) + (weight[operation'[o]] - 0)
      BY <1>3, <3>1, <3>3
    <3> QED BY <2>1, <3>4 DEF f, g
  <2>2. CASE operation[o].userId = u
    <3>1. /\ o \in DOMAIN f /\ g[o] = weight[operation'[o]]
          /\ f[o] = weight[operation[o]] /\ DOMAIN g = DOMAIN f
      BY <2>2 DEF OwnedBy
    <3>2. \A q \in DOMAIN f \ {o} : g[q] = f[q]
      BY <3>1 DEF OwnedBy
    <3> HIDE DEF f, g
    <3>3. SumFunction(g) = SumFunction(f) + (g[o] - f[o])
      BY <1>3, <2>0, <3>1, <3>2, SumChanged
    <3> QED BY <1>4, <2>2, <3>1, <3>3 DEF f, g
  <2> QED BY <2>1, <2>2
<1> HIDE DEF F, G
<1> QED BY <1>1, <1>2, <1>5, <1>6

\* A transaction that writes no operation keeps them in step.
LEMMA UnmovedBacked ==
  ASSUME IInv, Backed, NEW u, NEW n \in Int, Transaction(u, n, 0, 0),
         operation' = operation
  PROVE  Backed'
<1>1. ASSUME NEW v \in Users
      PROVE  /\ wallet'[v].account.creditsReserved =
                  wallet[v].account.creditsReserved
             /\ wallet'[v].account.totalCreditsUsed =
                  wallet[v].account.totalCreditsUsed
  BY TransactionMoves, WalletNumbers
<1>2. \A v, weight : Owned(v, weight)' = Owned(v, weight)
  BY DEF Owned, OwnedBy
<1> QED BY <1>1, <1>2 DEF Backed

\* One that writes an operation moves the account by what the operation moved.
LEMMA MovedBacked ==
  ASSUME IInv, Backed, NEW u, NEW n \in Int, NEW h \in Int, NEW s \in Int,
         Transaction(u, n, h, s),
         NEW o \in Operations, operation'[o] \in CreditOperation,
         operation'[o].userId = u, operation[o].userId \in {None, u},
         \A q \in Operations : q # o => operation'[q] = operation[q],
         h = operation'[o].held
               - (IF operation[o].userId = None THEN 0 ELSE operation[o].held),
         s = operation'[o].charged
               - (IF operation[o].userId = None THEN 0
                  ELSE operation[o].charged)
  PROVE  Backed'
<1>1. u \in Users
  BY DEF Transaction
<1>2. operation[o] \in CreditOperation
  BY DEF IInv, TypeOK
<1>3. /\ Owned(u, HeldWeight)' = Owned(u, HeldWeight) + h
      /\ Owned(u, ChargedWeight)' = Owned(u, ChargedWeight) + s
      /\ \A v \in Users \ {u} :
           /\ Owned(v, HeldWeight)' = Owned(v, HeldWeight)
           /\ Owned(v, ChargedWeight)' = Owned(v, ChargedWeight)
  <2>1. /\ HeldWeight[operation'[o]] = operation'[o].held
        /\ HeldWeight[operation[o]] = operation[o].held
        /\ ChargedWeight[operation'[o]] = operation'[o].charged
        /\ ChargedWeight[operation[o]] = operation[o].charged
    BY <1>2 DEF HeldWeight, ChargedWeight
  <2>2. /\ Owned(u, HeldWeight)' =
             Owned(u, HeldWeight)
               + (HeldWeight[operation'[o]]
                    - (IF operation[o].userId = None THEN 0
                       ELSE HeldWeight[operation[o]]))
        /\ \A v \in Users \ {u} :
             Owned(v, HeldWeight)' = Owned(v, HeldWeight)
    BY <1>1, BackingWeights, OwnedMoves
  <2>3. /\ Owned(u, ChargedWeight)' =
             Owned(u, ChargedWeight)
               + (ChargedWeight[operation'[o]]
                    - (IF operation[o].userId = None THEN 0
                       ELSE ChargedWeight[operation[o]]))
        /\ \A v \in Users \ {u} :
             Owned(v, ChargedWeight)' = Owned(v, ChargedWeight)
    BY <1>1, BackingWeights, OwnedMoves
  <2> QED BY <2>1, <2>2, <2>3
<1>4. /\ wallet'[u].account.creditsReserved =
           wallet[u].account.creditsReserved + h
      /\ wallet'[u].account.totalCreditsUsed =
           wallet[u].account.totalCreditsUsed + s
      /\ \A v \in Users \ {u} : wallet'[v] = wallet[v]
  BY ONLY IInv, n \in Int, h \in Int, s \in Int, Transaction(u, n, h, s),
          TransactionMoves
<1> QED BY <1>1, <1>3, <1>4 DEF Backed

LEMMA InitBacked == Init => Backed
<1> SUFFICES ASSUME Init, NEW u \in Users
             PROVE  /\ wallet[u].account.creditsReserved = Owned(u, HeldWeight)
                    /\ wallet[u].account.totalCreditsUsed =
                         Owned(u, ChargedWeight)
  BY DEF Backed
<1>1. OwnedBy(u) = {}
  BY UsersAssumption DEF Init, OwnedBy
<1>2. \A weight : Owned(u, weight) = 0
  <2> TAKE weight
  <2> DEFINE f == [o \in OwnedBy(u) |-> weight[operation[o]]]
  <2>1. DOMAIN f = {}
    BY <1>1
  <2> HIDE DEF f
  <2>2. SumFunction(f) = 0
    BY <2>1, SumEmpty
  <2> QED BY <2>2 DEF f, Owned
<1> QED BY <1>2 DEF Init

LEMMA NextBacked == IInv /\ IInv' /\ Backed /\ [Next]_vars => Backed'
<1> SUFFICES ASSUME IInv, IInv', Backed, [Next]_vars
             PROVE  Backed'
  OBVIOUS
<1>0. /\ operation \in [Operations -> CreditOperation]
      /\ operation' \in [Operations -> CreditOperation]
      /\ \A o \in Operations : operation'[o] \in CreditOperation
  BY DEF IInv, TypeOK
<1>1. CASE UNCHANGED vars
  BY <1>1 DEF Backed, Owned, OwnedBy, vars
<1>2. ASSUME NEW u \in Users, Opening(u)
      PROVE  Backed'
  <2>1. Transaction(u, 0, 0, 0) /\ operation' = operation
    BY <1>2, OpeningStep DEF Opening
  <2> QED BY <2>1, UnmovedBacked
<1>3. ASSUME NEW u \in Users, SetActive(u)
      PROVE  Backed'
  <2>1. \A v, weight : Owned(v, weight)' = Owned(v, weight)
    BY <1>3 DEF Owned, OwnedBy, SetActive
  <2> QED BY <1>3, <2>1, SetActiveBecomes DEF Backed
<1>4. ASSUME NEW u \in Users, NEW o \in Operations, NEW amount \in Budgets,
             Reserve(u, o, amount)
      PROVE  Backed'
  <2> DEFINE less == -amount
  <2>1. amount \in Nat /\ less \in Int /\ Transaction(u, less, amount, 0)
    BY <1>4, ReserveStep
  <2>2. /\ operation'[o].userId = u /\ operation'[o].held = amount
        /\ operation'[o].charged = 0
        /\ \A q \in Operations : q # o => operation'[q] = operation[q]
    BY <1>0, <1>4 DEF Reserve
  <2>3. operation[o].userId = None
    BY <1>4 DEF Reserve, IInv, OwnersKnown, OperationsOwned
  <2> HIDE DEF less
  <2>4. amount = amount - 0 /\ 0 = 0 - 0 /\ amount \in Int
    BY <2>1
  <2> QED BY <1>0, <2>1, <2>2, <2>3, <2>4, MovedBacked
<1>5. ASSUME NEW o \in Operations, Reopen(o)
      PROVE  Backed'
  <2> DEFINE u == operation[o].userId
             amount == Remainder(operation[o])
             less == -amount
  <2>1. amount \in Nat /\ Transaction(u, less, amount, 0)
    BY <1>5, ReopenStep
  <2>2. operation[o].status = "settled" /\ operation[o].held = 0
    BY <1>5 DEF Reopen, IInv, HoldIsRemainder
  <2>3. u \in Users /\ u # None
    BY <2>2, UsersAssumption, OperationOwner
  <2>4. /\ operation'[o].userId = u /\ operation'[o].held = amount
        /\ operation'[o].charged = operation[o].charged
        /\ \A q \in Operations : q # o => operation'[q] = operation[q]
    BY <1>0, <1>5 DEF Reopen
  <2>5. operation[o].charged \in Nat
    BY <1>0 DEF CreditOperation
  <2>6. less \in Int /\ amount \in Int
    BY <2>1
  <2> HIDE DEF less, amount
  <2>7. /\ amount = operation'[o].held - operation[o].held
        /\ 0 = operation'[o].charged - operation[o].charged
    BY <2>1, <2>2, <2>4, <2>5
  <2> QED BY <1>0, <2>1, <2>3, <2>4, <2>6, <2>7, MovedBacked
<1>6. ASSUME NEW o \in Operations, NEW total \in 0..operation[o].authorized,
             Settle(o, total)
      PROVE  Backed'
  <2> DEFINE u == operation[o].userId
             held == operation[o].held
             charge == total - operation[o].charged
             release == held - charge
             less == -held
  <2>1. charge \in Nat /\ release \in Nat /\ Transaction(u, release, less, charge)
    BY <1>6, SettleStep
  <2>2. held \in Nat /\ less \in Int
    BY <1>0 DEF CreditOperation
  <2>3. u \in Users /\ u # None
    BY <1>6, UsersAssumption, OperationOwner DEF Settle
  <2>4. /\ operation'[o].userId = u /\ operation'[o].held = 0
        /\ operation'[o].charged = total
        /\ \A q \in Operations : q # o => operation'[q] = operation[q]
    BY <1>0, <1>6 DEF Settle
  <2>5. /\ less = operation'[o].held - operation[o].held
        /\ charge = operation'[o].charged - operation[o].charged
        /\ release \in Int /\ charge \in Int
    BY <2>1, <2>2, <2>4
  <2> HIDE DEF charge, release, less
  <2> QED BY <1>0, <2>1, <2>2, <2>3, <2>4, <2>5, MovedBacked
<1>7. ASSUME NEW u, NEW n \in Int, Transaction(u, n, 0, 0),
             operation' = operation
      PROVE  Backed'
  BY <1>7, UnmovedBacked
<1>8. ASSUME NEW u \in Users, NEW k \in AdjustKeys, NEW amount \in Int,
             AdjustCredits(u, k, amount)
      PROVE  Backed'
  BY <1>7, <1>8, AdjustStep DEF AdjustCredits
<1>9. ASSUME NEW u \in Users, NEW p \in Payments, NEW credits \in PackSizes,
             PackPayment(u, p, credits)
      PROVE  Backed'
  <2>1. credits \in Nat /\ Transaction(u, credits, 0, 0)
    BY <1>9, PackStep
  <2>2. credits \in Int
    BY <2>1
  <2> QED BY <1>7, <1>9, <2>1, <2>2 DEF PackPayment
<1>10. ASSUME NEW u \in Users, NEW p \in Payments,
              NEW allocation \in Allocations, NEW c \in Cycles,
              GrantSubscriptionCycle(u, p, allocation, c)
       PROVE  Backed'
  <2> DEFINE amount == TopUp(u, c, allocation)
  <2>1. Transaction(u, amount, 0, 0) /\ amount \in Nat
    BY <1>10, GrantStep, TopUpType
  <2> HIDE DEF amount
  <2>2. amount \in Int
    BY <2>1
  <2> QED BY <1>7, <1>10, <2>1, <2>2 DEF GrantSubscriptionCycle
<1>11. ASSUME NEW u \in Users, NEW p \in Payments,
              NEW allocation \in Allocations, NEW c \in Cycles \cup {None},
              AdoptLegacyPayment(u, p, allocation, c)
       PROVE  Backed'
  <2>1. Transaction(u, 0, 0, 0) /\ operation' = operation
    BY <1>11, AdoptStep DEF AdoptLegacyPayment
  <2> QED BY <2>1, UnmovedBacked
<1>12. ASSUME NEW p \in Payments, NEW a \in Adjustments,
              NEW share \in ReversalShares(payment[p].granted),
              ReversePayment(p, a, share)
       PROVE  Backed'
  <2> DEFINE less == -Taken(p, share)
  <2>1. less \in Int
    BY TakenType
  <2>2. Transaction(payment[p].userId, less, 0, 0) /\ operation' = operation
    BY <1>12, ReverseStep DEF ReversePayment
  <2> HIDE DEF less
  <2> QED BY <1>7, <2>1, <2>2
<1>13. ASSUME NEW a \in Adjustments, RestorePaymentAdjustment(a)
       PROVE  Backed'
  <2> DEFINE amount == adjustment[a].reversedCredits
  <2>1. /\ amount \in Nat
        /\ Transaction(payment[adjustment[a].payment].userId, amount, 0, 0)
    BY <1>13, RestoreStep
  <2>2. operation' = operation
    BY <1>13 DEF RestorePaymentAdjustment
  <2> HIDE DEF amount
  <2>3. amount \in Int
    BY <2>1
  <2> QED BY <1>7, <2>1, <2>2, <2>3
<1>14. ASSUME NEW o \in Operations, NEW g \in 0..MaxGeneration,
              NEW k \in RefundKeys, NEW amount \in RefundAmounts,
              Refund(o, g, k, amount)
       PROVE  Backed'
  <2>1. amount \in Nat /\ Transaction(operation[o].userId, amount, 0, 0)
    BY <1>14, RefundStep
  <2>2. operation' = operation
    BY <1>14 DEF Refund
  <2>3. amount \in Int
    BY <2>1
  <2> QED BY <1>7, <2>1, <2>2, <2>3
<1>15. \A size \in AdjustSizes : size \in Int /\ -size \in Int
  BY AmountsAssumption
<1> QED
  BY <1>1, <1>2, <1>3, <1>4, <1>5, <1>6, <1>8, <1>9, <1>10, <1>11,
     <1>12, <1>13, <1>14, <1>15 DEF Next

LEMMA BackedInvariance == Spec => []Backed
<1> QED BY InitBacked, NextBacked, Invariance, PTL DEF Spec

\* Every account holds what its operations hold and has used what they were
\* charged, which is what its charge rows add up to.
THEOREM OperationsBackWallets == Spec => []OperationsBackWallet
<1>1. IInv /\ EveryoneExplained /\ Backed => OperationsBackWallet
  <2> SUFFICES ASSUME IInv, EveryoneExplained, Backed, NEW u \in Users
               PROVE  LET account == wallet[u].account
                      IN /\ account.creditsReserved =
                              SumOperations(u, LAMBDA op : op.held)
                         /\ account.totalCreditsUsed =
                              SumOperations(u, LAMBDA op : op.charged)
                         /\ account.totalCreditsUsed =
                              SumRows(u, LAMBDA row :
                                IF row.type = "charge" THEN row.amount ELSE 0)
    BY DEF OperationsBackWallet
  <2>1. \A o \in Operations : operation[o] \in CreditOperation
    BY DEF IInv, TypeOK
  <2>2. SumOperations(u, LAMBDA op : op.held) = Owned(u, HeldWeight)
    <3> DEFINE f == [o \in OwnedBy(u) |-> operation[o].held]
               g == [o \in OwnedBy(u) |-> HeldWeight[operation[o]]]
    <3>1. f = g
      BY <2>1 DEF HeldWeight, OwnedBy
    <3>2. SumOperations(u, LAMBDA op : op.held) = SumFunction(f)
      BY DEF SumOperations, OwnedBy
    <3>3. Owned(u, HeldWeight) = SumFunction(g)
      BY DEF Owned
    <3> HIDE DEF f, g
    <3> QED BY <3>1, <3>2, <3>3
  <2>3. SumOperations(u, LAMBDA op : op.charged) = Owned(u, ChargedWeight)
    <3> DEFINE f == [o \in OwnedBy(u) |-> operation[o].charged]
               g == [o \in OwnedBy(u) |-> ChargedWeight[operation[o]]]
    <3>1. f = g
      BY <2>1 DEF ChargedWeight, OwnedBy
    <3>2. SumOperations(u, LAMBDA op : op.charged) = SumFunction(f)
      BY DEF SumOperations, OwnedBy
    <3>3. Owned(u, ChargedWeight) = SumFunction(g)
      BY DEF Owned
    <3> HIDE DEF f, g
    <3> QED BY <3>1, <3>2, <3>3
  <2>4. SumRows(u, LAMBDA row : IF row.type = "charge" THEN row.amount ELSE 0)
          = Weighed(wallet[u], ChargeWeight)
    <3> DEFINE f == [i \in DOMAIN wallet[u].entries |->
                       IF wallet[u].entries[i].type = "charge"
                       THEN wallet[u].entries[i].amount ELSE 0]
               g == [i \in DOMAIN wallet[u].entries |->
                       ChargeWeight[wallet[u].entries[i]]]
    <3>1. \A i \in DOMAIN wallet[u].entries :
            wallet[u].entries[i] \in CreditEntry
      BY WalletFunction, StatementRows
    <3>2. f = g
      BY <3>1 DEF ChargeWeight
    <3>3. SumRows(u, LAMBDA row :
            IF row.type = "charge" THEN row.amount ELSE 0) = SumFunction(f)
      BY DEF SumRows
    <3>4. Weighed(wallet[u], ChargeWeight) = SumFunction(g)
      BY DEF Weighed
    <3> HIDE DEF f, g
    <3> QED BY <3>2, <3>3, <3>4
  <2> QED
    BY <2>2, <2>3, <2>4 DEF EveryoneExplained, Explained, Backed
<1> QED BY <1>1, Invariance, ExplainedInvariance, BackedInvariance, PTL

-----------------------------------------------------------------------------
(* The keys of the ledger *)

KeysOf(w) == {w.entries[i].key : i \in DOMAIN w.entries}

\* What a row has to say whatever its account: nothing was paid again for a
\* payment of before the ledger, and the row with the key of a charge is one.
Lawful ==
  {row \in CreditEntry :
     /\ row.key \in {"payment"} \X OldPayments => row.availableDelta = 0
     /\ row.key[1] = "charge" => row.type = "charge"}

\* A statement of lawful rows that repeats no key and names the row before
\* every recovery of debt.
Neat(w) ==
  /\ w \in Wallet
  /\ \A i \in DOMAIN w.entries : w.entries[i] \in Lawful
  /\ \A i, j \in DOMAIN w.entries :
       w.entries[i].key = w.entries[j].key => i = j
  /\ \A key \in BaseKeys : <<"debt", key>> \in KeysOf(w) => key \in KeysOf(w)

\* r is the statement w with rows of the keys B and their recoveries.
Adds(w, r, B) ==
  /\ Neat(r)
  /\ KeysOf(w) \cup B \subseteq KeysOf(r)
  /\ KeysOf(r) \subseteq KeysOf(w) \cup B \cup ({"debt"} \X B)

LEMMA BaseKeysAreNoDebts ==
  ASSUME NEW key \in BaseKeys
  PROVE  /\ key[1] # "debt"
         /\ \A k : key # <<"debt", k>>
BY DEF BaseKeys

LEMMA PostsAdds ==
  ASSUME NEW w \in Wallet, NEW r, NEW row, Posts(w, r, row),
         \A i \in DOMAIN w.entries : w.entries[i] \in Lawful,
         \A i, j \in DOMAIN w.entries :
           w.entries[i].key = w.entries[j].key => i = j,
         row.key \notin KeysOf(w), row \in Lawful
  PROVE  /\ r \in Wallet
         /\ KeysOf(r) = KeysOf(w) \cup {row.key}
         /\ \A i \in DOMAIN r.entries : r.entries[i] \in Lawful
         /\ \A i, j \in DOMAIN r.entries :
              r.entries[i].key = r.entries[j].key => i = j
<1>1. PICK n : /\ n \notin DOMAIN w.entries
               /\ DOMAIN r.entries = DOMAIN w.entries \cup {n}
               /\ r.entries[n] = row
               /\ \A i \in DOMAIN w.entries : r.entries[i] = w.entries[i]
  BY PostedRows
<1>2. r \in Wallet
  BY DEF Posts
<1>3. KeysOf(r) = KeysOf(w) \cup {row.key}
  BY <1>1 DEF KeysOf
<1>4. \A i \in DOMAIN w.entries : w.entries[i].key # row.key
  BY DEF KeysOf
<1>5. \A i \in DOMAIN r.entries : r.entries[i] \in Lawful
  BY <1>1
<1>6. \A i, j \in DOMAIN r.entries :
        r.entries[i].key = r.entries[j].key => i = j
  BY <1>1, <1>4
<1> QED BY <1>2, <1>3, <1>5, <1>6

LEMMA WritesAdds ==
  ASSUME NEW w, NEW r, NEW row, Writes(w, r, row), Neat(w),
         row.key \notin KeysOf(w), row \in Lawful
  PROVE  Adds(w, r, {row.key}) /\ row.key \in BaseKeys
<1> DEFINE key == row.key
<1>1. PICK x : Posts(w, x, row) /\ Recovers(x, r, row.key)
  BY DEF Writes
<1>2. /\ w \in Wallet /\ key \in BaseKeys
      /\ \A i \in DOMAIN w.entries : w.entries[i] \in Lawful
      /\ \A i, j \in DOMAIN w.entries :
           w.entries[i].key = w.entries[j].key => i = j
      /\ \A k \in BaseKeys : <<"debt", k>> \in KeysOf(w) => k \in KeysOf(w)
  BY DEF Writes, Neat
<1>3. /\ x \in Wallet
      /\ KeysOf(x) = KeysOf(w) \cup {key}
      /\ \A i \in DOMAIN x.entries : x.entries[i] \in Lawful
      /\ \A i, j \in DOMAIN x.entries :
           x.entries[i].key = x.entries[j].key => i = j
  BY <1>1, <1>2, PostsAdds
<1>4. \A k \in BaseKeys : <<"debt", k>> \in KeysOf(x) => k \in KeysOf(x)
  BY <1>2, <1>3, BaseKeysAreNoDebts
<1>5. CASE r = x
  BY <1>2, <1>3, <1>4, <1>5 DEF Adds, Neat
<1>6. CASE \E debt : Posts(x, r, debt) /\ debt.key = <<"debt", key>>
  <2>1. PICK debt : Posts(x, r, debt) /\ debt.key = <<"debt", key>>
    BY <1>6
  <2>2. debt.key \notin KeysOf(x)
    BY <1>2, <1>3, <2>1, BaseKeysAreNoDebts
  <2>3. debt \in Lawful
    BY <2>1 DEF Posts, Lawful
  <2>4. /\ r \in Wallet
        /\ KeysOf(r) = KeysOf(x) \cup {<<"debt", key>>}
        /\ \A i \in DOMAIN r.entries : r.entries[i] \in Lawful
        /\ \A i, j \in DOMAIN r.entries :
             r.entries[i].key = r.entries[j].key => i = j
    BY <1>3, <2>1, <2>2, <2>3, PostsAdds
  <2>5. \A k \in BaseKeys : <<"debt", k>> \in KeysOf(r) => k \in KeysOf(r)
    BY <1>3, <1>4, <2>4
  <2>6. Neat(r)
    BY <2>4, <2>5 DEF Neat
  <2>7. KeysOf(r) \subseteq KeysOf(w) \cup {key} \cup ({"debt"} \X {key})
    BY <1>3, <2>4
  <2> QED BY <1>2, <1>3, <2>4, <2>6, <2>7 DEF Adds
<1> QED BY <1>1, <1>5, <1>6 DEF Recovers

LEMMA RecordsAdds ==
  ASSUME NEW w, NEW r, NEW key, NEW type, NEW amount, NEW available,
         Records(w, r, key, type, amount, available), Neat(w),
         key \notin KeysOf(w),
         key \in {"payment"} \X OldPayments => available = 0,
         key[1] = "charge" => type = "charge"
  PROVE  Adds(w, r, {key}) /\ key \in BaseKeys
<1>1. PICK row : Writes(w, r, row) /\ Says(row, key, type, amount, available)
  BY DEF Records
<1>2. row \in Lawful
  BY <1>1 DEF Writes, Posts, Says, Lawful
<1> QED BY <1>1, <1>2, WritesAdds DEF Says

LEMMA RecordsSomeAdds ==
  ASSUME NEW w, NEW r, NEW key, NEW type, NEW amount, NEW available,
         RecordsSome(w, r, key, type, amount, available), Neat(w),
         key \notin KeysOf(w), key \in BaseKeys,
         key \notin {"payment"} \X OldPayments,
         key[1] = "charge" => type = "charge"
  PROVE  \E B \in SUBSET {key} : Adds(w, r, B)
<1>1. CASE amount = 0
  <2>1. r = w
    BY <1>1 DEF RecordsSome
  <2>2. Adds(w, r, {})
    BY <2>1 DEF Adds
  <2> QED BY <2>2
<1>2. CASE amount # 0
  <2>1. Records(w, r, key, type, amount, available)
    BY <1>2 DEF RecordsSome
  <2>2. Adds(w, r, {key})
    BY <2>1, RecordsAdds
  <2> QED BY <2>2
<1> QED BY <1>1, <1>2

LEMMA AddsTwice ==
  ASSUME NEW w, NEW x, NEW r, NEW B, NEW C, Adds(w, x, B), Adds(x, r, C)
  PROVE  Adds(w, r, B \cup C)
BY DEF Adds

\* What the documents say about the keys on u's statement.
Known(u, key) ==
  /\ \A v \in Users : key = <<"opening", v>> => v = u
  /\ \A o \in Operations, g \in Nat :
       /\ key = <<"reserve", <<o, g>>>> =>
            operation[o].userId = u /\ g <= operation[o].generation
       /\ key \in {<<"charge", <<o, g>>>>, <<"release", <<o, g>>>>} =>
            /\ operation[o].userId = u
            /\ \/ g < operation[o].generation
               \/ g = operation[o].generation /\ operation[o].status = "settled"
  /\ \A p \in Payments : key = <<"payment", p>> => payment[p].userId = u
  /\ \A a \in Adjustments :
       key \in {<<"paddle-adjustment", a>>, <<"paddle-restoration", a>>} =>
         adjustment[a].payment # None

LedgerKeys ==
  /\ \A u \in Users : Neat(wallet[u])
  /\ \A u, v \in Users : u # v => KeysOf(wallet[u]) \cap KeysOf(wallet[v]) = {}
  /\ \A u \in Users : \A key \in KeysOf(wallet[u]) : Known(u, key)
  /\ \A p \in Payments :
       payment[p].userId # None =>
         <<"payment", p>> \in KeysOf(wallet[payment[p].userId])
  /\ \A a \in Adjustments :
       adjustment[a].payment # None =>
         \E u \in Users : <<"paddle-adjustment", a>> \in KeysOf(wallet[u])

\* Documents only move on: an operation keeps its account, is retried or stays
\* settled, and payments and adjustments stay what they are.
Onward ==
  /\ \A o \in Operations :
       operation[o].userId # None =>
         /\ operation'[o].userId = operation[o].userId
         /\ \/ operation'[o].generation > operation[o].generation
            \/ /\ operation'[o].generation = operation[o].generation
               /\ operation[o].status = "settled" =>
                    operation'[o].status = "settled"
  /\ \A p \in Payments :
       payment[p].userId # None => payment'[p].userId = payment[p].userId
  /\ \A a \in Adjustments :
       adjustment[a].payment # None => adjustment'[a].payment # None

LEMMA KnownOnward ==
  ASSUME IInv, IInv', Onward, NEW u \in Users, NEW key, Known(u, key)
  PROVE  Known(u, key)'
<1>1. u # None
  BY UsersAssumption
<1>2. ASSUME NEW o \in Operations
      PROVE  operation[o].generation \in Nat /\ operation'[o].generation \in Nat
  BY DEF IInv, TypeOK, CreditOperation
<1>3. ASSUME NEW o \in Operations, NEW g \in Nat, key = <<"reserve", <<o, g>>>>
      PROVE  operation'[o].userId = u /\ g <= operation'[o].generation
  <2>1. operation[o].userId = u /\ g <= operation[o].generation
    BY <1>3 DEF Known
  <2> QED BY <1>1, <1>2, <2>1 DEF Onward
<1>4. ASSUME NEW o \in Operations, NEW g \in Nat,
             key \in {<<"charge", <<o, g>>>>, <<"release", <<o, g>>>>}
      PROVE  /\ operation'[o].userId = u
             /\ \/ g < operation'[o].generation
                \/ /\ g = operation'[o].generation
                   /\ operation'[o].status = "settled"
  <2>1. /\ operation[o].userId = u
        /\ \/ g < operation[o].generation
           \/ g = operation[o].generation /\ operation[o].status = "settled"
    BY <1>4 DEF Known
  <2> QED BY <1>1, <1>2, <2>1 DEF Onward
<1>5. ASSUME NEW p \in Payments, key = <<"payment", p>>
      PROVE  payment'[p].userId = u
  BY <1>1, <1>5 DEF Known, Onward
<1>6. ASSUME NEW a \in Adjustments,
             key \in {<<"paddle-adjustment", a>>, <<"paddle-restoration", a>>}
      PROVE  adjustment'[a].payment # None
  BY <1>6 DEF Known, Onward
<1>7. \A v \in Users : key = <<"opening", v>> => v = u
  BY DEF Known
<1> QED BY <1>3, <1>4, <1>5, <1>6, <1>7 DEF Known

\* Debts are known whoever owes them.
LEMMA DebtsKnown ==
  ASSUME NEW u, NEW k
  PROVE  Known(u, <<"debt", k>>)'
BY DEF Known

\* A step that adds new keys to one statement, explained by the documents it
\* writes, keeps the keys in order.
LEMMA KeysStep ==
  ASSUME IInv, IInv', LedgerKeys, Onward, NEW u, NEW r, Becomes(u, r),
         NEW B \in SUBSET BaseKeys, Adds(wallet[u], r, B),
         \A v \in Users \ {u} : B \cap KeysOf(wallet[v]) = {},
         \A key \in B : Known(u, key)',
         \A p \in Payments :
           \/ payment'[p].userId \in {None, payment[p].userId}
           \/ payment'[p].userId = u /\ <<"payment", p>> \in B,
         \A a \in Adjustments :
           \/ adjustment'[a].payment = None
           \/ adjustment[a].payment # None
           \/ <<"paddle-adjustment", a>> \in B
  PROVE  LedgerKeys'
<1>1. /\ u \in Users /\ wallet'[u] = r
      /\ \A v \in Users \ {u} : wallet'[v] = wallet[v]
  BY DEF Becomes
<1>2. /\ Neat(r)
      /\ KeysOf(wallet[u]) \cup B \subseteq KeysOf(r)
      /\ KeysOf(r) \subseteq KeysOf(wallet[u]) \cup B \cup ({"debt"} \X B)
  BY DEF Adds
<1>3. \A v \in Users : Neat(wallet[v])
  BY DEF LedgerKeys
<1>4. \A v \in Users : Neat(wallet'[v])
  BY <1>1, <1>2, <1>3
<1>5. ASSUME NEW v \in Users \ {u}
      PROVE  KeysOf(r) \cap KeysOf(wallet[v]) = {}
  <2>1. \A key \in B : <<"debt", key>> \notin KeysOf(wallet[v])
    BY <1>3 DEF Neat
  <2>2. KeysOf(wallet[u]) \cap KeysOf(wallet[v]) = {}
    BY <1>1 DEF LedgerKeys
  <2>3. B \cap KeysOf(wallet[v]) = {}
    OBVIOUS
  <2> QED BY <1>2, <2>1, <2>2, <2>3
<1>6. \A v, z \in Users : v # z => KeysOf(wallet'[v]) \cap KeysOf(wallet'[z]) = {}
  <2> SUFFICES ASSUME NEW v \in Users, NEW z \in Users, v # z
               PROVE  KeysOf(wallet'[v]) \cap KeysOf(wallet'[z]) = {}
    OBVIOUS
  <2>1. CASE v = u
    BY <1>1, <1>5, <2>1
  <2>2. CASE z = u
    BY <1>1, <1>5, <2>2
  <2>3. CASE v # u /\ z # u
    BY <1>1, <2>3 DEF LedgerKeys
  <2> QED BY <2>1, <2>2, <2>3
<1>7. ASSUME NEW v \in Users, NEW key \in KeysOf(wallet'[v])
      PROVE  Known(v, key)'
  <2>1. CASE key \in KeysOf(wallet[v])
    BY <2>1, KnownOnward DEF LedgerKeys
  <2>2. CASE key \notin KeysOf(wallet[v])
    <3>1. v = u /\ key \in B \cup ({"debt"} \X B)
      BY <1>1, <1>2, <1>7, <2>2
    <3>2. CASE key \in B
      BY <3>1, <3>2
    <3>3. CASE key \in {"debt"} \X B
      <4>1. PICK k \in B : key = <<"debt", k>>
        BY <3>3
      <4> QED BY <4>1, DebtsKnown
    <3> QED BY <3>1, <3>2, <3>3
  <2> QED BY <2>1, <2>2
<1>8. \A v \in Users : KeysOf(wallet[v]) \subseteq KeysOf(wallet'[v])
  BY <1>1, <1>2
<1>9. ASSUME NEW p \in Payments, payment'[p].userId # None
      PROVE  <<"payment", p>> \in KeysOf(wallet'[payment'[p].userId])
  <2>1. CASE payment'[p].userId = payment[p].userId
    <3>1. /\ payment[p].userId \in Users
          /\ <<"payment", p>> \in KeysOf(wallet[payment[p].userId])
      BY <1>9, <2>1, PaymentOwner DEF LedgerKeys
    <3> QED BY <1>8, <2>1, <3>1
  <2>2. CASE payment'[p].userId = u /\ <<"payment", p>> \in B
    BY <1>1, <1>2, <2>2
  <2> QED BY <1>9, <2>1, <2>2
<1>10. ASSUME NEW a \in Adjustments, adjustment'[a].payment # None
       PROVE  \E v \in Users : <<"paddle-adjustment", a>> \in KeysOf(wallet'[v])
  <2>1. CASE adjustment[a].payment # None
    BY <1>8, <2>1 DEF LedgerKeys
  <2>2. CASE <<"paddle-adjustment", a>> \in B
    BY <1>1, <1>2, <2>2
  <2> QED BY <1>10, <2>1, <2>2
<1> QED BY <1>4, <1>6, <1>7, <1>9, <1>10 DEF LedgerKeys

LEMMA FreshKeys ==
  ASSUME NEW key, Fresh(key)
  PROVE  \A v \in Users : key \notin KeysOf(wallet[v])
BY DEF Fresh, KeysOf

\* Opening adds the opening row, if anything.
LEMMA OpenedAdds ==
  ASSUME IInv, LedgerKeys, NEW u \in Users
  PROVE  \E B \in SUBSET {<<"opening", u>>} : Adds(wallet[u], Opened(u), B)
<1>1. Neat(wallet[u])
  BY DEF LedgerKeys
<1>2. CASE wallet[u].account.creditLedgerInitialized
  <2>1. Opened(u) = wallet[u]
    BY <1>2, OpenedRecords
  <2>2. Adds(wallet[u], Opened(u), {})
    BY <1>1, <2>1 DEF Adds
  <2> QED BY <2>2
<1>3. CASE ~wallet[u].account.creditLedgerInitialized
  <2>1. PICK amount, type :
          Records(wallet[u], Opened(u), <<"opening", u>>, type, amount,
                  wallet[u].account.creditsBalance)
    BY <1>3, OpenedRecords
  <2>2. KeysOf(wallet[u]) = {}
    <3>1. wallet[u].entries = <<>>
      BY <1>3 DEF IInv, Accountable
    <3> QED BY <3>1 DEF KeysOf
  <2>3. /\ <<"opening", u>> \notin {"payment"} \X OldPayments
        /\ <<"opening", u>>[1] # "charge"
    OBVIOUS
  <2>4. Adds(wallet[u], Opened(u), {<<"opening", u>>})
    BY <1>1, <2>1, <2>2, <2>3, RecordsAdds
  <2> QED BY <2>4
<1> QED BY <1>2, <1>3

LEMMA OpeningKeyIsOwn ==
  ASSUME LedgerKeys, NEW u \in Users
  PROVE  /\ Known(u, <<"opening", u>>)'
         /\ \A v \in Users \ {u} : <<"opening", u>> \notin KeysOf(wallet[v])
         /\ <<"opening", u>> \in BaseKeys
<1>1. \A v \in Users \ {u} : <<"opening", u>> \notin KeysOf(wallet[v])
  BY DEF LedgerKeys, Known
<1> QED BY <1>1 DEF Known, BaseKeys

\* A transaction that writes one row with a new key, opening the account
\* first if need be, keeps the keys in order.
LEMMA RowStep ==
  ASSUME IInv, IInv', LedgerKeys, Onward, NEW u \in Users, NEW r,
         Becomes(u, r), NEW row, Writes(Opened(u), r, row), row \in Lawful,
         row.key # <<"opening", u>>,
         \A v \in Users : row.key \notin KeysOf(wallet[v]),
         Known(u, row.key)',
         \A p \in Payments :
           \/ payment'[p].userId \in {None, payment[p].userId}
           \/ payment'[p].userId = u /\ row.key = <<"payment", p>>,
         \A a \in Adjustments :
           \/ adjustment'[a].payment = None
           \/ adjustment[a].payment # None
           \/ row.key = <<"paddle-adjustment", a>>
  PROVE  LedgerKeys'
<1>1. PICK A \in SUBSET {<<"opening", u>>} : Adds(wallet[u], Opened(u), A)
  BY OpenedAdds
<1>2. row.key \in BaseKeys
  BY DEF Writes
<1>3. row.key \notin KeysOf(Opened(u)) /\ Neat(Opened(u))
  BY <1>1, <1>2, BaseKeysAreNoDebts DEF Adds
<1>4. Adds(Opened(u), r, {row.key})
  BY <1>3, WritesAdds
<1> DEFINE B == A \cup {row.key}
<1>5. Adds(wallet[u], r, B)
  BY <1>1, <1>4, AddsTwice
<1>6. /\ B \in SUBSET BaseKeys
      /\ \A v \in Users \ {u} : B \cap KeysOf(wallet[v]) = {}
      /\ \A key \in B : key = <<"opening", u>> \/ key = row.key
      /\ row.key \in B
  BY <1>2, OpeningKeyIsOwn
<1> HIDE DEF B
<1>7. \A key \in B : Known(u, key)'
  <2> SUFFICES ASSUME NEW key \in B PROVE Known(u, key)'
    OBVIOUS
  <2>1. CASE key = <<"opening", u>>
    BY <2>1, OpeningKeyIsOwn
  <2>2. CASE key = row.key
    <3>1. PICK k : k = row.key /\ Known(u, k)'
      OBVIOUS
    <3> QED BY <2>2, <3>1
  <2> QED BY <1>6, <2>1, <2>2
<1>8. \A p \in Payments :
        \/ payment'[p].userId \in {None, payment[p].userId}
        \/ payment'[p].userId = u /\ <<"payment", p>> \in B
  BY <1>6
<1>9. \A a \in Adjustments :
        \/ adjustment'[a].payment = None
        \/ adjustment[a].payment # None
        \/ <<"paddle-adjustment", a>> \in B
  BY <1>6
<1> QED BY <1>5, <1>6, <1>7, <1>8, <1>9, KeysStep

LEMMA RecordStep ==
  ASSUME IInv, IInv', LedgerKeys, Onward, NEW u \in Users, NEW r,
         Becomes(u, r), NEW key, NEW type, NEW amount, NEW available,
         Records(Opened(u), r, key, type, amount, available),
         key \in {"payment"} \X OldPayments => available = 0,
         key[1] = "charge" => type = "charge",
         key # <<"opening", u>>,
         \A v \in Users : key \notin KeysOf(wallet[v]),
         Known(u, key)',
         \A p \in Payments :
           \/ payment'[p].userId \in {None, payment[p].userId}
           \/ payment'[p].userId = u /\ key = <<"payment", p>>,
         adjustment' = adjustment
  PROVE  LedgerKeys'
<1>1. PICK row : /\ Writes(Opened(u), r, row)
                 /\ Says(row, key, type, amount, available)
  BY DEF Records
<1>2. row \in Lawful /\ row.key = key
  BY <1>1 DEF Writes, Posts, Says, Lawful
<1>3. \A a \in Adjustments :
        adjustment'[a].payment = None \/ adjustment[a].payment # None
  OBVIOUS
<1> QED BY <1>1, <1>2, <1>3, RowStep

LEMMA InitKeys == Init => LedgerKeys
<1> SUFFICES ASSUME Init PROVE LedgerKeys
  OBVIOUS
<1>1. ASSUME NEW u \in Users
      PROVE  /\ wallet[u] \in Wallet
             /\ DOMAIN wallet[u].entries = {}
             /\ KeysOf(wallet[u]) = {}
  <2>1. wallet[u] \in Wallet
    BY InitIInv, WalletFunction
  <2>2. wallet[u].entries = <<>>
    BY DEF Init
  <2>3. DOMAIN wallet[u].entries = {}
    BY <2>2
  <2> QED BY <2>1, <2>3 DEF KeysOf
<1>2. \A u \in Users : Neat(wallet[u])
  BY <1>1 DEF Neat
<1>3. /\ \A p \in Payments : payment[p].userId = None
      /\ \A a \in Adjustments : adjustment[a].payment = None
  BY DEF Init
<1> QED BY <1>1, <1>2, <1>3 DEF LedgerKeys

\* What opened accounts have in common with the cases of the next lemma.
LEMMA OwnerOpened ==
  ASSUME IInv
  PROVE  /\ \A o \in Operations : operation[o].status # "none" =>
              /\ operation[o].userId \in Users
              /\ Opened(operation[o].userId) = wallet[operation[o].userId]
         /\ \A p \in Payments : payment[p].userId # None =>
              /\ payment[p].userId \in Users
              /\ Opened(payment[p].userId) = wallet[payment[p].userId]
<1>1. ASSUME NEW o \in Operations, operation[o].status # "none"
      PROVE  /\ operation[o].userId \in Users
             /\ Opened(operation[o].userId) = wallet[operation[o].userId]
  <2>1. /\ operation[o].userId \in Users
        /\ wallet[operation[o].userId].account.creditLedgerInitialized
    BY <1>1, OperationOwner, SoundType
  <2> QED BY <2>1, OpenedRecords
<1>2. ASSUME NEW p \in Payments, payment[p].userId # None
      PROVE  /\ payment[p].userId \in Users
             /\ Opened(payment[p].userId) = wallet[payment[p].userId]
  <2>1. /\ payment[p].userId \in Users
        /\ wallet[payment[p].userId].account.creditLedgerInitialized
    BY <1>2, PaymentOwner, SoundType
  <2> QED BY <2>1, OpenedRecords
<1> QED BY <1>1, <1>2

LEMMA NextKeys ==
  IInv /\ IInv' /\ LedgerKeys /\ [Next]_vars => LedgerKeys'
<1> SUFFICES ASSUME IInv, IInv', LedgerKeys, [Next]_vars
             PROVE  LedgerKeys'
  OBVIOUS
<1>0. /\ operation \in [Operations -> CreditOperation]
      /\ payment \in [Payments -> Payment]
      /\ adjustment \in [Adjustments -> Adjustment]
  BY DEF IInv, TypeOK
<1>a. ASSUME operation' = operation, payment' = payment,
             adjustment' = adjustment
      PROVE  Onward
  BY <1>0, <1>a DEF Onward, CreditOperation
<1>b. ASSUME operation' = operation, payment' = payment,
             adjustment' = adjustment,
             \A v \in Users : wallet'[v].entries = wallet[v].entries
      PROVE  LedgerKeys'
  <2>1. \A v \in Users : KeysOf(wallet'[v]) = KeysOf(wallet[v])
    BY <1>b DEF KeysOf
  <2>2. \A v \in Users : Neat(wallet'[v])
    <3> SUFFICES ASSUME NEW v \in Users PROVE Neat(wallet'[v])
      OBVIOUS
    <3>1. Neat(wallet[v]) /\ wallet'[v] \in Wallet
      BY DEF LedgerKeys, IInv, TypeOK
    <3> QED BY <1>b, <2>1, <3>1 DEF Neat
  <2>3. \A v \in Users : \A key \in KeysOf(wallet'[v]) : Known(v, key)'
    BY <1>a, <1>b, <2>1, KnownOnward DEF LedgerKeys
  <2>4. ASSUME NEW p \in Payments, payment[p].userId # None
        PROVE  <<"payment", p>> \in KeysOf(wallet'[payment[p].userId])
    BY <2>1, <2>4, PaymentOwner DEF LedgerKeys
  <2>5. ASSUME NEW a \in Adjustments, adjustment[a].payment # None
        PROVE  \E v \in Users : <<"paddle-adjustment", a>> \in KeysOf(wallet'[v])
    BY <2>1, <2>5 DEF LedgerKeys
  <2> QED BY <1>b, <2>1, <2>2, <2>3, <2>4, <2>5 DEF LedgerKeys
<1>1. CASE UNCHANGED vars
  BY <1>1, <1>b DEF vars
<1>2. ASSUME NEW u \in Users, Opening(u)
      PROVE  LedgerKeys'
  <2>1. /\ operation' = operation /\ payment' = payment
        /\ adjustment' = adjustment
    BY <1>2 DEF Opening
  <2>2. PICK B \in SUBSET {<<"opening", u>>} : Adds(wallet[u], Opened(u), B)
    BY OpenedAdds
  <2>3. /\ B \in SUBSET BaseKeys
        /\ \A v \in Users \ {u} : B \cap KeysOf(wallet[v]) = {}
        /\ \A key \in B : Known(u, key)'
    BY OpeningKeyIsOwn
  <2>4. Onward
    BY <1>a, <2>1
  <2>5. /\ \A p \in Payments : payment'[p].userId \in {None, payment[p].userId}
        /\ \A a \in Adjustments :
             adjustment'[a].payment = None \/ adjustment[a].payment # None
    BY <2>1
  <2>6. Becomes(u, Opened(u))
    BY <1>2, OpeningBecomes
  <2> QED BY <2>2, <2>3, <2>4, <2>5, <2>6, KeysStep
<1>3. ASSUME NEW u \in Users, SetActive(u)
      PROVE  LedgerKeys'
  BY <1>3, <1>b, SetActiveBecomes DEF SetActive
<1>4. ASSUME NEW u \in Users, NEW o \in Operations, NEW amount \in Budgets,
             Reserve(u, o, amount)
      PROVE  LedgerKeys'
  <2> DEFINE key == <<"reserve", <<o, 0>>>>
  <2>1. /\ payment' = payment /\ adjustment' = adjustment
        /\ operation[o].status = "none"
        /\ operation'[o].userId = u /\ operation'[o].generation = 0
        /\ \A q \in Operations : q # o => operation'[q] = operation[q]
    BY <1>0, <1>4 DEF Reserve
  <2>2. operation[o].userId = None
    BY <2>1 DEF IInv, OwnersKnown, OperationsOwned
  <2>3. Onward
    BY <1>0, <2>1, <2>2 DEF Onward, CreditOperation
  <2>4. Known(u, key)'
    BY <2>1 DEF Known
  <2>5. \A v \in Users : key \notin KeysOf(wallet[v])
    <3> SUFFICES ASSUME NEW v \in Users, key \in KeysOf(wallet[v])
                 PROVE  FALSE
      OBVIOUS
    <3>1. operation[o].userId = v
      BY DEF LedgerKeys, Known
    <3> QED BY <2>2, <3>1, UsersAssumption
  <2>6. /\ key \notin {"payment"} \X OldPayments /\ key[1] # "charge"
        /\ key # <<"opening", u>>
    OBVIOUS
  <2>7. PICK r : /\ Becomes(u, r)
                 /\ Records(Opened(u), r, key, "reserve", amount, -amount)
    BY <1>4, ReserveRecords
  <2> HIDE DEF key
  <2> QED BY <2>1, <2>3, <2>4, <2>5, <2>6, <2>7, RecordStep
<1>5. ASSUME NEW o \in Operations, Reopen(o)
      PROVE  LedgerKeys'
  <2> DEFINE n == operation[o].generation + 1
             amount == Remainder(operation[o])
  <2>1. /\ payment' = payment /\ adjustment' = adjustment
        /\ operation[o].status = "settled"
        /\ operation'[o].userId = operation[o].userId
        /\ operation'[o].generation = n
        /\ \A q \in Operations : q # o => operation'[q] = operation[q]
    BY <1>0, <1>5 DEF Reopen
  <2>2. operation[o].generation \in Nat
    BY <1>0 DEF CreditOperation
  <2>3. Onward
    BY <1>0, <2>1, <2>2 DEF Onward, CreditOperation
  <2>4. PICK u \in Users : u = operation[o].userId /\ Opened(u) = wallet[u]
    BY <2>1, OwnerOpened
  <2>5. PICK key : key = <<"reserve", <<o, n>>>>
    OBVIOUS
  <2>6. Known(u, key)'
    BY <2>1, <2>4, <2>5 DEF Known
  <2>7. \A v \in Users : key \notin KeysOf(wallet[v])
    <3> SUFFICES ASSUME NEW v \in Users, key \in KeysOf(wallet[v])
                 PROVE  FALSE
      OBVIOUS
    <3>1. Known(v, key)
      BY DEF LedgerKeys
    <3>2. n \in Nat
      BY <2>2
    <3>3. n <= operation[o].generation
      BY <2>5, <3>1, <3>2 DEF Known
    <3> QED BY <2>2, <3>3
  <2>8. /\ key \notin {"payment"} \X OldPayments /\ key[1] # "charge"
        /\ key # <<"opening", u>>
    BY <2>5
  <2>9. PICK r : /\ Becomes(u, r)
                 /\ Records(Opened(u), r, key, "reserve", amount, -amount)
    BY <1>5, <2>4, <2>5, ReopenRecords
  <2> QED BY <2>1, <2>3, <2>6, <2>7, <2>8, <2>9, RecordStep
<1>6. ASSUME NEW o \in Operations, NEW total \in 0..operation[o].authorized,
             Settle(o, total)
      PROVE  LedgerKeys'
  <2> DEFINE g == operation[o].generation
             charge == total - operation[o].charged
             release == operation[o].held - charge
  <2>1. /\ payment' = payment /\ adjustment' = adjustment
        /\ operation[o].status = "reserved"
        /\ operation'[o].userId = operation[o].userId
        /\ operation'[o].generation = g
        /\ operation'[o].status = "settled"
        /\ \A q \in Operations : q # o => operation'[q] = operation[q]
    BY <1>0, <1>6 DEF Settle
  <2>2. g \in Nat
    BY <1>0 DEF CreditOperation
  <2>3. Onward
    BY <1>0, <2>1, <2>2 DEF Onward, CreditOperation
  <2>4. PICK u \in Users : u = operation[o].userId
    BY <2>1, OwnerOpened
  <2>5. PICK c, e : /\ c = <<"charge", <<o, g>>>>
                    /\ e = <<"release", <<o, g>>>>
    OBVIOUS
  <2>6. Known(u, c)' /\ Known(u, e)'
    BY <2>1, <2>4, <2>5 DEF Known
  <2>7. \A v \in Users : c \notin KeysOf(wallet[v]) /\ e \notin KeysOf(wallet[v])
    <3> SUFFICES ASSUME NEW v \in Users, NEW key \in {c, e},
                        key \in KeysOf(wallet[v])
                 PROVE  FALSE
      OBVIOUS
    <3>1. Known(v, key)
      BY DEF LedgerKeys
    <3>2. \/ g < operation[o].generation
          \/ g = operation[o].generation /\ operation[o].status = "settled"
      BY <2>2, <2>5, <3>1 DEF Known
    <3> QED BY <2>1, <2>2, <3>2
  <2>8. /\ c \in BaseKeys /\ e \in BaseKeys /\ c # e
        /\ c \notin {"payment"} \X OldPayments
        /\ e \notin {"payment"} \X OldPayments /\ e[1] # "charge"
    BY <2>2, <2>5 DEF BaseKeys
  <2>9. PICK x, r :
          /\ Becomes(u, r)
          /\ RecordsSome(wallet[u], x, c, "charge", charge, 0)
          /\ RecordsSome(x, r, e, "release", release, release)
    BY <1>6, <2>4, <2>5, SettleRecords
  <2>10. PICK C \in SUBSET {c} : Adds(wallet[u], x, C)
    BY <2>7, <2>8, <2>9, RecordsSomeAdds DEF LedgerKeys
  <2>11. Neat(x) /\ e \notin KeysOf(x)
    BY <2>7, <2>8, <2>10, BaseKeysAreNoDebts DEF Adds
  <2>12. PICK E \in SUBSET {e} : Adds(x, r, E)
    BY <2>8, <2>9, <2>11, RecordsSomeAdds
  <2> DEFINE B == C \cup E
  <2>13. Adds(wallet[u], r, B)
    BY <2>10, <2>12, AddsTwice
  <2>14. /\ B \in SUBSET BaseKeys
         /\ \A v \in Users \ {u} : B \cap KeysOf(wallet[v]) = {}
         /\ \A key \in B : Known(u, key)'
    BY <2>6, <2>7, <2>8
  <2>15. /\ \A p \in Payments : payment'[p].userId \in {None, payment[p].userId}
         /\ \A a \in Adjustments :
              adjustment'[a].payment = None \/ adjustment[a].payment # None
    BY <2>1
  <2> HIDE DEF B
  <2> QED BY <2>3, <2>9, <2>13, <2>14, <2>15, KeysStep
<1>7. ASSUME NEW u \in Users, NEW k \in AdjustKeys, NEW amount \in Int,
             AdjustCredits(u, k, amount)
      PROVE  LedgerKeys'
  <2> DEFINE key == <<"adjust", k>>
  <2>1. /\ operation' = operation /\ payment' = payment
        /\ adjustment' = adjustment /\ Fresh(key)
    BY <1>7 DEF AdjustCredits
  <2>2. Onward
    BY <1>a, <2>1
  <2>3. Known(u, key)'
    BY DEF Known
  <2>4. /\ key \notin {"payment"} \X OldPayments /\ key[1] # "charge"
        /\ key # <<"opening", u>>
    OBVIOUS
  <2>5. PICK r, type, size : /\ Becomes(u, r)
                             /\ Records(Opened(u), r, key, type, size, amount)
    BY <1>7, AdjustRecords
  <2> HIDE DEF key
  <2> QED BY <2>1, <2>2, <2>3, <2>4, <2>5, FreshKeys, RecordStep
<1>8. ASSUME NEW u \in Users, NEW p \in Payments, NEW r, NEW amount,
             NEW available, Becomes(u, r),
             Records(Opened(u), r, <<"payment", p>>, "grant", amount, available),
             p \in OldPayments => available = 0,
             Fresh(<<"payment", p>>),
             operation' = operation, adjustment' = adjustment,
             NEW row \in Payment, row.userId = u,
             payment' = [payment EXCEPT ![p] = row]
      PROVE  LedgerKeys'
  <2> DEFINE key == <<"payment", p>>
  <2>1. /\ payment'[p].userId = u
        /\ \A q \in Payments : q # p => payment'[q] = payment[q]
    BY <1>0, <1>8
  <2>2. \A v \in Users : key \notin KeysOf(wallet[v])
    BY <1>8, FreshKeys
  <2>3. payment[p].userId = None
    BY <2>2, PaymentOwner DEF LedgerKeys
  <2>4. Onward
    BY <1>0, <1>8, <2>1, <2>3 DEF Onward, CreditOperation
  <2>5. Known(u, key)'
    BY <2>1 DEF Known
  <2>6. /\ key \in {"payment"} \X OldPayments => available = 0
        /\ key[1] # "charge" /\ key # <<"opening", u>>
    BY <1>8
  <2>7. \A q \in Payments :
          \/ payment'[q].userId \in {None, payment[q].userId}
          \/ payment'[q].userId = u /\ key = <<"payment", q>>
    BY <2>1
  <2>8. Records(Opened(u), r, key, "grant", amount, available)
    BY <1>8
  <2> HIDE DEF key
  <2> QED BY <1>8, <2>2, <2>4, <2>5, <2>6, <2>7, <2>8, RecordStep
<1>9. ASSUME NEW u \in Users, NEW p \in Payments, NEW credits \in PackSizes,
             PackPayment(u, p, credits)
      PROVE  LedgerKeys'
  <2> DEFINE row == [userId |-> u, cycle |-> None, allocation |-> 0,
                     granted |-> credits]
  <2>1. row \in Payment /\ row.userId = u
    <3>1. credits \in Nat
      BY AmountsAssumption
    <3> QED BY <3>1 DEF Payment
  <2>2. /\ operation' = operation /\ adjustment' = adjustment
        /\ Fresh(<<"payment", p>>) /\ p \notin OldPayments
        /\ payment' = [payment EXCEPT ![p] = row]
    BY <1>9 DEF PackPayment
  <2>3. PICK r, size :
          /\ Becomes(u, r)
          /\ Records(Opened(u), r, <<"payment", p>>, "grant", size, credits)
    BY <1>9, PackRecords
  <2> HIDE DEF row
  <2> QED BY <1>8, <2>1, <2>2, <2>3
<1>10. ASSUME NEW u \in Users, NEW p \in Payments,
              NEW allocation \in Allocations, NEW c \in Cycles,
              GrantSubscriptionCycle(u, p, allocation, c)
       PROVE  LedgerKeys'
  <2> DEFINE amount == TopUp(u, c, allocation)
             row == [userId |-> u, cycle |-> c, allocation |-> allocation,
                     granted |-> amount]
  <2>1. row \in Payment /\ row.userId = u
    <3>1. amount \in Nat /\ allocation \in Nat
      BY TopUpType
    <3> HIDE DEF amount
    <3> QED BY <3>1 DEF Payment
  <2>2. /\ operation' = operation /\ adjustment' = adjustment
        /\ Fresh(<<"payment", p>>) /\ p \notin OldPayments
        /\ payment' = [payment EXCEPT ![p] = row]
    BY <1>10 DEF GrantSubscriptionCycle, PreLedger
  <2>3. PICK r :
          /\ Becomes(u, r)
          /\ Records(Opened(u), r, <<"payment", p>>, "grant", amount, amount)
    BY <1>10, GrantRecords
  <2> HIDE DEF row, amount
  <2> QED BY <1>8, <2>1, <2>2, <2>3
<1>11. ASSUME NEW u \in Users, NEW p \in Payments,
              NEW allocation \in Allocations, NEW c \in Cycles \cup {None},
              AdoptLegacyPayment(u, p, allocation, c)
       PROVE  LedgerKeys'
  <2> DEFINE row == [userId |-> u, cycle |-> c, allocation |-> allocation,
                     granted |-> allocation]
  <2>1. row \in Payment /\ row.userId = u
    <3>1. allocation \in Nat
      BY AmountsAssumption
    <3> QED BY <3>1 DEF Payment
  <2>2. /\ operation' = operation /\ adjustment' = adjustment
        /\ Fresh(<<"payment", p>>)
        /\ payment' = [payment EXCEPT ![p] = row]
    BY <1>11 DEF AdoptLegacyPayment
  <2>3. PICK r :
          /\ Becomes(u, r)
          /\ Records(Opened(u), r, <<"payment", p>>, "grant", 0, 0)
    BY <1>11, AdoptRecords
  <2> HIDE DEF row
  <2> QED BY <1>8, <2>1, <2>2, <2>3
<1>12. ASSUME NEW p \in Payments, NEW a \in Adjustments,
              NEW share \in ReversalShares(payment[p].granted),
              ReversePayment(p, a, share)
       PROVE  LedgerKeys'
  <2>1. /\ operation' = operation /\ payment' = payment
        /\ adjustment'[a].payment = p
        /\ \A b \in Adjustments : b # a => adjustment'[b] = adjustment[b]
        /\ payment[p].userId # None /\ Fresh(<<"paddle-adjustment", a>>)
    BY <1>0, <1>12 DEF ReversePayment
  <2>2. p # None
    BY UsersAssumption
  <2>3. PICK u \in Users : u = payment[p].userId /\ Opened(u) = wallet[u]
    BY <2>1, OwnerOpened
  <2>4. PICK r, row : /\ Becomes(u, r)
                      /\ Writes(Opened(u), r, row)
                      /\ row.key = <<"paddle-adjustment", a>>
    BY <1>12, <2>3, ReverseRecords
  <2>5. row \in Lawful
    BY <2>4 DEF Writes, Posts, Lawful
  <2>6. Onward
    BY <1>0, <2>1, <2>2 DEF Onward, CreditOperation
  <2>7. Known(u, row.key)'
    <3>1. PICK k : k = row.key
      OBVIOUS
    <3>2. Known(u, k)'
      BY <2>1, <2>2, <2>4, <3>1 DEF Known
    <3> QED BY <3>1, <3>2
  <2>8. /\ row.key # <<"opening", u>>
        /\ \A v \in Users : row.key \notin KeysOf(wallet[v])
    BY <2>1, <2>4, FreshKeys
  <2>9. /\ \A q \in Payments : payment'[q].userId \in {None, payment[q].userId}
        /\ \A b \in Adjustments :
             \/ adjustment'[b].payment = None
             \/ adjustment[b].payment # None
             \/ row.key = <<"paddle-adjustment", b>>
    BY <2>1, <2>4
  <2> QED BY <2>4, <2>5, <2>6, <2>7, <2>8, <2>9, RowStep
<1>13. ASSUME NEW a \in Adjustments, RestorePaymentAdjustment(a)
       PROVE  LedgerKeys'
  <2> DEFINE key == <<"paddle-restoration", a>>
  <2>1. /\ operation' = operation /\ payment' = payment
        /\ adjustment' = adjustment
        /\ adjustment[a].payment # None /\ Fresh(key)
    BY <1>13 DEF RestorePaymentAdjustment
  <2>2. /\ adjustment[a].payment \in Payments
        /\ payment[adjustment[a].payment].userId # None
    BY <1>0, <2>1 DEF Adjustment, IInv, OwnersKnown, AdjustmentsOwned
  <2>3. PICK u \in Users : /\ u = payment[adjustment[a].payment].userId
                           /\ Opened(u) = wallet[u]
    BY <2>2, OwnerOpened
  <2>4. Onward
    BY <1>a, <2>1
  <2>5. Known(u, key)'
    BY <2>1 DEF Known
  <2>6. /\ key \notin {"payment"} \X OldPayments /\ key[1] # "charge"
        /\ key # <<"opening", u>>
    OBVIOUS
  <2>7. PICK r, size :
          /\ Becomes(u, r)
          /\ Records(Opened(u), r, key, "refund", size,
                     adjustment[a].reversedCredits)
    BY <1>13, <2>3, RestoreRecords
  <2> HIDE DEF key
  <2> QED BY <2>1, <2>4, <2>5, <2>6, <2>7, FreshKeys, RecordStep
<1>14. ASSUME NEW o \in Operations, NEW g \in 0..MaxGeneration,
              NEW k \in RefundKeys, NEW amount \in RefundAmounts,
              Refund(o, g, k, amount)
       PROVE  LedgerKeys'
  <2> DEFINE key == <<"refund", k>>
  <2>1. /\ operation' = operation /\ payment' = payment
        /\ adjustment' = adjustment
        /\ operation[o].userId # None /\ Fresh(key)
    BY <1>14 DEF Refund
  <2>2. operation[o].status # "none"
    BY <2>1 DEF IInv, OwnersKnown, OperationsOwned
  <2>3. PICK u \in Users : u = operation[o].userId /\ Opened(u) = wallet[u]
    BY <2>2, OwnerOpened
  <2>4. Onward
    BY <1>a, <2>1
  <2>5. Known(u, key)'
    BY DEF Known
  <2>6. /\ key \notin {"payment"} \X OldPayments /\ key[1] # "charge"
        /\ key # <<"opening", u>>
    OBVIOUS
  <2>7. PICK r : /\ Becomes(u, r)
                 /\ Records(Opened(u), r, key, "refund", amount, amount)
    BY <1>14, <2>3, RefundRecords
  <2> HIDE DEF key
  <2> QED BY <2>1, <2>4, <2>5, <2>6, <2>7, FreshKeys, RecordStep
<1>15. \A size \in AdjustSizes : size \in Int /\ -size \in Int
  BY AmountsAssumption
<1> QED
  BY <1>1, <1>2, <1>3, <1>4, <1>5, <1>6, <1>7, <1>9, <1>10, <1>11,
     <1>12, <1>13, <1>14, <1>15 DEF Next

LEMMA KeysInvariance == Spec => []LedgerKeys
<1> QED BY InitKeys, NextKeys, Invariance, PTL DEF Spec

\* No key of the ledger is ever used twice, whichever account it is about, and
\* no payment of before the ledger brings credits again.
THEOREM PaymentsCountedOnce == Spec => []PaymentsCountOnce
<1>1. LedgerKeys => KeysUnique
  <2> SUFFICES ASSUME LedgerKeys, NEW u \in Users, NEW v \in Users,
                      NEW i \in DOMAIN wallet[u].entries,
                      NEW j \in DOMAIN wallet[v].entries,
                      wallet[u].entries[i].key = wallet[v].entries[j].key
               PROVE  u = v /\ i = j
    BY DEF KeysUnique
  <2>1. /\ wallet[u].entries[i].key \in KeysOf(wallet[u])
        /\ wallet[v].entries[j].key \in KeysOf(wallet[v])
    BY DEF KeysOf
  <2>2. u = v
    BY <2>1 DEF LedgerKeys
  <2>3. Neat(wallet[u])
    BY DEF LedgerKeys
  <2> QED BY <2>2, <2>3 DEF Neat
<1>2. LedgerKeys => OldPaymentsNotRegranted
  BY DEF LedgerKeys, Neat, Lawful, OldPaymentsNotRegranted
<1> QED BY <1>1, <1>2, KeysInvariance, PTL DEF PaymentsCountOnce

-----------------------------------------------------------------------------
(* What a step leaves on the statements, by the kind of the rows it writes *)

RowsOf(w) == {w.entries[i] : i \in DOMAIN w.entries}

\* Weights of rows that are no recoveries of debt.
BlindWeights ==
  {weight \in Weights :
     \A row \in CreditEntry : row.key[1] = "debt" => weight[row] = 0}

\* r is w after the row, for whom recoveries of debt do not count.
Follows(w, r, row) ==
  /\ row \in CreditEntry /\ row.key \in BaseKeys
  /\ RowsOf(w) \cup {row} \subseteq RowsOf(r)
  /\ \A x \in RowsOf(r) :
       x \in RowsOf(w) \/ x = row \/ x.key = <<"debt", row.key>>
  /\ \A weight \in BlindWeights :
       Weighed(r, weight) = Weighed(w, weight) + weight[row]

LEMMA PostsRows ==
  ASSUME NEW w \in Wallet, NEW r, NEW row, Posts(w, r, row)
  PROVE  RowsOf(r) = RowsOf(w) \cup {row}
<1>1. PICK n : /\ DOMAIN r.entries = DOMAIN w.entries \cup {n}
               /\ r.entries[n] = row
               /\ n \notin DOMAIN w.entries
               /\ \A i \in DOMAIN w.entries : r.entries[i] = w.entries[i]
  BY PostedRows
<1> QED BY <1>1 DEF RowsOf

LEMMA RowsTyped ==
  ASSUME NEW w \in Wallet
  PROVE  /\ RowsOf(w) \subseteq CreditEntry
         /\ KeysOf(w) = {row.key : row \in RowsOf(w)}
<1>1. \A i \in DOMAIN w.entries : w.entries[i] \in CreditEntry
  BY StatementRows
<1> QED BY <1>1 DEF RowsOf, KeysOf

LEMMA WritesFollows ==
  ASSUME NEW w, NEW r, NEW row, Writes(w, r, row)
  PROVE  r \in Wallet /\ Follows(w, r, row)
<1>1. PICK x : Posts(w, x, row) /\ Recovers(x, r, row.key)
  BY DEF Writes
<1>2. /\ w \in Wallet /\ x \in Wallet /\ row \in CreditEntry
      /\ row.key \in BaseKeys
      /\ RowsOf(x) = RowsOf(w) \cup {row}
  BY <1>1, PostsRows DEF Writes, Posts
<1>3. ASSUME NEW weight \in BlindWeights
      PROVE  /\ Weighed(x, weight) = Weighed(w, weight) + weight[row]
             /\ Weighed(x, weight) \in Int
  BY <1>1, <1>2, PostedWeighs, WeighedSummable DEF BlindWeights
<1>4. CASE r = x
  BY <1>2, <1>3, <1>4 DEF Follows
<1>5. CASE \E debt : Posts(x, r, debt) /\ debt.key = <<"debt", row.key>>
  <2>1. PICK debt : Posts(x, r, debt) /\ debt.key = <<"debt", row.key>>
    BY <1>5
  <2>2. r \in Wallet /\ debt \in CreditEntry /\ RowsOf(r) = RowsOf(x) \cup {debt}
    BY <1>2, <2>1, PostsRows DEF Posts
  <2>3. ASSUME NEW weight \in BlindWeights
        PROVE  Weighed(r, weight) = Weighed(w, weight) + weight[row]
    <3>1. Weighed(r, weight) = Weighed(x, weight) + weight[debt]
      BY <1>2, <2>1, PostedWeighs DEF BlindWeights
    <3>2. weight[debt] = 0
      BY <2>1, <2>2 DEF BlindWeights
    <3> QED BY <1>3, <3>1, <3>2
  <2> QED BY <1>2, <2>1, <2>2, <2>3 DEF Follows
<1> QED BY <1>1, <1>4, <1>5 DEF Recovers

\* What opening does to the rows of an account: nothing, or a first row.
LEMMA OpenedFollows ==
  ASSUME IInv, NEW u \in Users
  PROVE  \/ Opened(u) = wallet[u]
         \/ /\ ~wallet[u].account.creditLedgerInitialized
            /\ RowsOf(wallet[u]) = {}
            /\ \A weight \in Weights : Weighed(wallet[u], weight) = 0
            /\ \E row, type, amount :
                 /\ Follows(wallet[u], Opened(u), row)
                 /\ Says(row, <<"opening", u>>, type, amount,
                         wallet[u].account.creditsBalance)
<1>1. CASE wallet[u].account.creditLedgerInitialized
  BY <1>1, OpenedRecords
<1>2. CASE ~wallet[u].account.creditLedgerInitialized
  <2>1. PICK amount, type :
          Records(wallet[u], Opened(u), <<"opening", u>>, type, amount,
                  wallet[u].account.creditsBalance)
    BY <1>2, OpenedRecords
  <2>2. PICK row : /\ Writes(wallet[u], Opened(u), row)
                   /\ Says(row, <<"opening", u>>, type, amount,
                           wallet[u].account.creditsBalance)
    BY <2>1 DEF Records
  <2>3. Follows(wallet[u], Opened(u), row)
    BY <2>2, WritesFollows
  <2>4. wallet[u].entries = <<>> /\ wallet[u] \in Wallet
    BY <1>2 DEF IInv, Accountable
  <2>5. DOMAIN wallet[u].entries = {}
    BY <2>4
  <2>6. /\ RowsOf(wallet[u]) = {}
        /\ \A weight \in Weights : Weighed(wallet[u], weight) = 0
    BY <2>4, <2>5, WeighedNothing DEF RowsOf
  <2> QED BY <1>2, <2>2, <2>3, <2>6
<1> QED BY <1>1, <1>2

\* The step writes only rows whose key is of a kind in K.
Touches(K) ==
  /\ \A v \in Users : RowsOf(wallet[v]) \subseteq RowsOf(wallet'[v])
  /\ \A v \in Users : \A x \in RowsOf(wallet'[v]) :
       x \in RowsOf(wallet[v]) \/ x.key[1] \in K
  /\ \A weight \in Weights :
       (\A row \in CreditEntry : row.key[1] \in K => weight[row] = 0) =>
         \A v \in Users : Weighed(wallet'[v], weight) = Weighed(wallet[v], weight)

\* The step writes the row on u's statement, after the one that opens it if u
\* is not opened yet.
Inscribes(u, row) ==
  /\ u \in Users
  /\ Follows(Opened(u), wallet'[u], row)
  /\ \A v \in Users \ {u} : wallet'[v] = wallet[v]

LEMMA UnwrittenTouches ==
  ASSUME IInv, IInv', NEW K,
         \A v \in Users : wallet'[v].entries = wallet[v].entries
  PROVE  Touches(K)
<1>1. \A v \in Users : RowsOf(wallet'[v]) = RowsOf(wallet[v])
  BY DEF RowsOf
<1>2. ASSUME NEW weight \in Weights, NEW v \in Users
      PROVE  Weighed(wallet'[v], weight) = Weighed(wallet[v], weight)
  BY DEF Weighed
<1> QED BY <1>1, <1>2 DEF Touches

LEMMA RecordsInscribes ==
  ASSUME NEW u, NEW r, NEW key, NEW type, NEW amount, NEW available,
         Becomes(u, r), Records(Opened(u), r, key, type, amount, available)
  PROVE  \E row : Inscribes(u, row) /\ Says(row, key, type, amount, available)
<1>1. PICK row : /\ Writes(Opened(u), r, row)
                 /\ Says(row, key, type, amount, available)
  BY DEF Records
<1>2. Follows(Opened(u), r, row)
  BY <1>1, WritesFollows
<1> QED BY <1>1, <1>2 DEF Inscribes, Becomes

LEMMA FollowsTouches ==
  ASSUME NEW w \in Wallet, NEW r, NEW row, Follows(w, r, row), NEW K,
         "debt" \in K, row.key[1] \in K
  PROVE  /\ RowsOf(w) \subseteq RowsOf(r)
         /\ \A x \in RowsOf(r) : x \in RowsOf(w) \/ x.key[1] \in K
         /\ \A weight \in Weights :
              (\A x \in CreditEntry : x.key[1] \in K => weight[x] = 0) =>
                Weighed(r, weight) = Weighed(w, weight)
<1>1. /\ RowsOf(w) \subseteq RowsOf(r)
      /\ \A x \in RowsOf(r) : x \in RowsOf(w) \/ x.key[1] \in K
  BY DEF Follows
<1>2. ASSUME NEW weight \in Weights,
             \A x \in CreditEntry : x.key[1] \in K => weight[x] = 0
      PROVE  Weighed(r, weight) = Weighed(w, weight)
  <2>1. weight \in BlindWeights
    BY <1>2 DEF BlindWeights
  <2>2. Weighed(r, weight) = Weighed(w, weight) + weight[row]
    BY <2>1 DEF Follows
  <2>3. weight[row] = 0 /\ Weighed(w, weight) \in Int
    BY <1>2, WeighedSummable DEF Follows
  <2> QED BY <2>2, <2>3
<1> QED BY <1>1, <1>2

LEMMA OpenedTouches ==
  ASSUME IInv, NEW u \in Users, NEW K, "debt" \in K, "opening" \in K
  PROVE  /\ RowsOf(wallet[u]) \subseteq RowsOf(Opened(u))
         /\ \A x \in RowsOf(Opened(u)) : x \in RowsOf(wallet[u]) \/ x.key[1] \in K
         /\ \A weight \in Weights :
              (\A x \in CreditEntry : x.key[1] \in K => weight[x] = 0) =>
                Weighed(Opened(u), weight) = Weighed(wallet[u], weight)
<1>1. wallet[u] \in Wallet
  BY WalletFunction
<1>2. CASE Opened(u) = wallet[u]
  BY <1>2
<1>3. CASE \E row, type, amount :
             /\ Follows(wallet[u], Opened(u), row)
             /\ Says(row, <<"opening", u>>, type, amount,
                     wallet[u].account.creditsBalance)
  <2>1. PICK row : /\ Follows(wallet[u], Opened(u), row)
                   /\ row.key = <<"opening", u>>
    BY <1>3 DEF Says
  <2>2. row.key[1] \in K
    BY <2>1
  <2> QED BY <1>1, <2>1, <2>2, FollowsTouches
<1> QED BY <1>2, <1>3, OpenedFollows

LEMMA OpeningTouches ==
  ASSUME IInv, NEW u \in Users, Opening(u), NEW K,
         "debt" \in K, "opening" \in K
  PROVE  Touches(K)
BY OpeningBecomes, OpenedTouches DEF Becomes, Touches

LEMMA InscribesTouches ==
  ASSUME IInv, NEW u, NEW row, Inscribes(u, row), NEW K,
         "debt" \in K, "opening" \in K, row.key[1] \in K
  PROVE  Touches(K)
<1>1. /\ u \in Users /\ Follows(Opened(u), wallet'[u], row)
      /\ \A v \in Users \ {u} : wallet'[v] = wallet[v]
  BY DEF Inscribes
<1>2. Opened(u) \in Wallet
  BY <1>1, OpenedSoundly
<1>3. /\ RowsOf(wallet[u]) \subseteq RowsOf(wallet'[u])
      /\ \A x \in RowsOf(wallet'[u]) : x \in RowsOf(wallet[u]) \/ x.key[1] \in K
      /\ \A weight \in Weights :
           (\A x \in CreditEntry : x.key[1] \in K => weight[x] = 0) =>
             Weighed(wallet'[u], weight) = Weighed(wallet[u], weight)
  <2>1. /\ RowsOf(wallet[u]) \subseteq RowsOf(Opened(u))
        /\ \A x \in RowsOf(Opened(u)) :
             x \in RowsOf(wallet[u]) \/ x.key[1] \in K
        /\ \A weight \in Weights :
             (\A x \in CreditEntry : x.key[1] \in K => weight[x] = 0) =>
               Weighed(Opened(u), weight) = Weighed(wallet[u], weight)
    BY <1>1, OpenedTouches
  <2>2. /\ RowsOf(Opened(u)) \subseteq RowsOf(wallet'[u])
        /\ \A x \in RowsOf(wallet'[u]) :
             x \in RowsOf(Opened(u)) \/ x.key[1] \in K
        /\ \A weight \in Weights :
             (\A x \in CreditEntry : x.key[1] \in K => weight[x] = 0) =>
               Weighed(wallet'[u], weight) = Weighed(Opened(u), weight)
    BY <1>1, <1>2, FollowsTouches
  <2> QED BY <2>1, <2>2
<1> QED BY <1>1, <1>3 DEF Touches

LEMMA SettleTouches ==
  ASSUME IInv, NEW o \in Operations,
         NEW total \in 0..operation[o].authorized, Settle(o, total), NEW K,
         "debt" \in K, "charge" \in K, "release" \in K
  PROVE  Touches(K)
<1> DEFINE u == operation[o].userId
           charge == total - operation[o].charged
           release == operation[o].held - charge
           c == <<"charge", <<o, operation[o].generation>>>>
           e == <<"release", <<o, operation[o].generation>>>>
<1>1. u \in Users /\ wallet[u] \in Wallet
  BY OperationOwner, SoundType DEF Settle
<1>2. PICK x, r : /\ Becomes(u, r)
                  /\ Sound(x)
                  /\ RecordsSome(wallet[u], x, c, "charge", charge, 0)
                  /\ RecordsSome(x, r, e, "release", release, release)
  BY SettleRecords
<1>3. ASSUME NEW w \in Wallet, NEW z, NEW key, NEW type, NEW amount,
             NEW available, key[1] \in K,
             RecordsSome(w, z, key, type, amount, available)
      PROVE  /\ RowsOf(w) \subseteq RowsOf(z)
             /\ \A y \in RowsOf(z) : y \in RowsOf(w) \/ y.key[1] \in K
             /\ \A weight \in Weights :
                  (\A y \in CreditEntry : y.key[1] \in K => weight[y] = 0) =>
                    Weighed(z, weight) = Weighed(w, weight)
  <2>1. CASE z = w
    BY <2>1
  <2>2. CASE Records(w, z, key, type, amount, available)
    <3>1. PICK row : Writes(w, z, row) /\ row.key = key
      BY <2>2 DEF Records, Says
    <3> QED BY <1>3, <3>1, WritesFollows, FollowsTouches
  <2> QED BY <1>3, <2>1, <2>2 DEF RecordsSome
<1>4. c[1] \in K /\ e[1] \in K /\ x \in Wallet
  BY <1>2, SoundType
<1> HIDE DEF u, charge, release, c, e
<1>5. /\ RowsOf(wallet[u]) \subseteq RowsOf(x)
      /\ \A y \in RowsOf(x) : y \in RowsOf(wallet[u]) \/ y.key[1] \in K
      /\ \A weight \in Weights :
           (\A y \in CreditEntry : y.key[1] \in K => weight[y] = 0) =>
             Weighed(x, weight) = Weighed(wallet[u], weight)
  BY <1>1, <1>2, <1>3, <1>4
<1>6. /\ RowsOf(x) \subseteq RowsOf(r)
      /\ \A y \in RowsOf(r) : y \in RowsOf(x) \/ y.key[1] \in K
      /\ \A weight \in Weights :
           (\A y \in CreditEntry : y.key[1] \in K => weight[y] = 0) =>
             Weighed(r, weight) = Weighed(x, weight)
  BY <1>2, <1>3, <1>4
<1>7. /\ wallet'[u] = r /\ \A v \in Users \ {u} : wallet'[v] = wallet[v]
  BY <1>2 DEF Becomes
<1> QED BY <1>1, <1>5, <1>6, <1>7 DEF Touches

LEMMA PackInscribes ==
  ASSUME IInv, NEW u \in Users, NEW p \in Payments, NEW credits \in PackSizes,
         PackPayment(u, p, credits)
  PROVE  \E row, size :
           Inscribes(u, row) /\ Says(row, <<"payment", p>>, "grant", size, credits)
BY PackRecords, RecordsInscribes

LEMMA GrantInscribes ==
  ASSUME IInv, NEW u \in Users, NEW p \in Payments,
         NEW allocation \in Allocations, NEW c \in Cycles,
         GrantSubscriptionCycle(u, p, allocation, c)
  PROVE  \E row :
           /\ Inscribes(u, row)
           /\ Says(row, <<"payment", p>>, "grant", TopUp(u, c, allocation),
                   TopUp(u, c, allocation))
BY GrantRecords, RecordsInscribes

LEMMA AdoptInscribes ==
  ASSUME IInv, NEW u \in Users, NEW p \in Payments,
         NEW allocation \in Allocations, NEW c \in Cycles \cup {None},
         AdoptLegacyPayment(u, p, allocation, c)
  PROVE  \E row :
           Inscribes(u, row) /\ Says(row, <<"payment", p>>, "grant", 0, 0)
BY AdoptRecords, RecordsInscribes

LEMMA AdjustInscribes ==
  ASSUME IInv, NEW u \in Users, NEW k \in AdjustKeys, NEW amount \in Int,
         AdjustCredits(u, k, amount)
  PROVE  \E row, type, size :
           Inscribes(u, row) /\ Says(row, <<"adjust", k>>, type, size, amount)
<1>1. PICK r, type, size :
        /\ Becomes(u, r)
        /\ Records(Opened(u), r, <<"adjust", k>>, type, size, amount)
  BY AdjustRecords
<1> QED BY <1>1, RecordsInscribes

LEMMA ReserveInscribes ==
  ASSUME IInv, NEW u \in Users, NEW o \in Operations, NEW amount \in Budgets,
         Reserve(u, o, amount)
  PROVE  \E row : Inscribes(u, row) /\ row.key = <<"reserve", <<o, 0>>>>
<1>1. PICK r : /\ Becomes(u, r)
               /\ Records(Opened(u), r, <<"reserve", <<o, 0>>>>, "reserve",
                          amount, -amount)
  BY ReserveRecords
<1> QED BY <1>1, RecordsInscribes DEF Says

LEMMA ReopenInscribes ==
  ASSUME IInv, NEW o \in Operations, Reopen(o)
  PROVE  \E row : /\ Inscribes(operation[o].userId, row)
                  /\ row.key = <<"reserve", <<o, operation[o].generation + 1>>>>
<1>1. Opened(operation[o].userId) = wallet[operation[o].userId]
  BY OwnerOpened DEF Reopen
<1>2. PICK r : /\ Becomes(operation[o].userId, r)
               /\ Records(wallet[operation[o].userId], r,
                    <<"reserve", <<o, operation[o].generation + 1>>>>,
                    "reserve", Remainder(operation[o]),
                    -Remainder(operation[o]))
  BY ReopenRecords
<1> QED BY <1>1, <1>2, RecordsInscribes DEF Says

LEMMA ReverseInscribes ==
  ASSUME IInv, NEW p \in Payments, NEW a \in Adjustments,
         NEW share \in ReversalShares(payment[p].granted),
         ReversePayment(p, a, share)
  PROVE  \E row : /\ Inscribes(payment[p].userId, row)
                  /\ row.key = <<"paddle-adjustment", a>>
                  /\ Opened(payment[p].userId) = wallet[payment[p].userId]
<1>1. Opened(payment[p].userId) = wallet[payment[p].userId]
  BY OwnerOpened DEF ReversePayment
<1>2. PICK r, row : /\ Becomes(payment[p].userId, r)
                    /\ Writes(wallet[payment[p].userId], r, row)
                    /\ row.key = <<"paddle-adjustment", a>>
  BY ReverseRecords
<1>3. Follows(wallet[payment[p].userId], r, row)
  BY <1>2, WritesFollows
<1> QED BY <1>1, <1>2, <1>3 DEF Inscribes, Becomes

LEMMA RestoreInscribes ==
  ASSUME IInv, NEW a \in Adjustments, RestorePaymentAdjustment(a)
  PROVE  LET u == payment[adjustment[a].payment].userId
         IN \E row : /\ Inscribes(u, row)
                     /\ row.key = <<"paddle-restoration", a>>
                     /\ Opened(u) = wallet[u]
                     /\ adjustment[a].payment \in Payments
                     /\ adjustment[a].reversedCredits \in Nat
<1>1. /\ adjustment[a].payment \in Payments
      /\ adjustment[a].reversedCredits \in Nat
      /\ payment[adjustment[a].payment].userId # None
  BY DEF RestorePaymentAdjustment, Adjustment, IInv, TypeOK, OwnersKnown,
         AdjustmentsOwned
<1>2. PICK u \in Users : /\ u = payment[adjustment[a].payment].userId
                         /\ Opened(u) = wallet[u]
  BY <1>1, OwnerOpened
<1>3. PICK r, size : /\ Becomes(u, r)
                     /\ Records(wallet[u], r, <<"paddle-restoration", a>>,
                                "refund", size, adjustment[a].reversedCredits)
  BY <1>2, RestoreRecords
<1>4. PICK row : Inscribes(u, row) /\ row.key = <<"paddle-restoration", a>>
  BY <1>2, <1>3, RecordsInscribes DEF Says
<1> QED BY <1>1, <1>2, <1>4

LEMMA RefundInscribes ==
  ASSUME IInv, NEW o \in Operations, NEW g \in 0..MaxGeneration,
         NEW k \in RefundKeys, NEW amount \in RefundAmounts,
         Refund(o, g, k, amount)
  PROVE  LET u == operation[o].userId
         IN \E row : /\ Inscribes(u, row)
                     /\ Says(row, <<"refund", k>>, "refund", amount, amount)
                     /\ Opened(u) = wallet[u]
<1>1. operation[o].status # "none"
  BY DEF Refund, IInv, OwnersKnown, OperationsOwned
<1>2. PICK u \in Users : u = operation[o].userId /\ Opened(u) = wallet[u]
  BY <1>1, OwnerOpened
<1>3. PICK r : /\ Becomes(u, r)
               /\ Records(wallet[u], r, <<"refund", k>>, "refund", amount, amount)
  BY <1>2, RefundRecords
<1>4. PICK row : /\ Inscribes(u, row)
                 /\ Says(row, <<"refund", k>>, "refund", amount, amount)
  BY <1>2, <1>3, RecordsInscribes
<1> QED BY <1>2, <1>4

\* Payments, reversals and refunds stay what they are.
PaymentsStay ==
  /\ payment' = payment /\ adjustment' = adjustment
  /\ cycleGranted' = cycleGranted /\ reversed' = reversed

\* What a step does, as the properties of payments and refunds see it.
LEMMA StepKinds ==
  ASSUME IInv, IInv', [Next]_vars
  PROVE  \/ /\ PaymentsStay /\ refunded' = refunded
            /\ \/ Touches({"debt", "opening", "reserve", "adjust"})
               \/ \E o \in Operations :
                    \E total \in 0..operation[o].authorized : Settle(o, total)
         \/ \E u \in Users, p \in Payments, credits \in PackSizes :
              PackPayment(u, p, credits)
         \/ \E u \in Users, p \in Payments, allocation \in Allocations,
               c \in Cycles : GrantSubscriptionCycle(u, p, allocation, c)
         \/ \E u \in Users, p \in Payments, allocation \in Allocations,
               c \in Cycles \cup {None} :
              AdoptLegacyPayment(u, p, allocation, c)
         \/ \E p \in Payments, a \in Adjustments :
              \E share \in ReversalShares(payment[p].granted) :
                ReversePayment(p, a, share)
         \/ \E a \in Adjustments : RestorePaymentAdjustment(a)
         \/ \E o \in Operations, g \in 0..MaxGeneration, k \in RefundKeys,
               amount \in RefundAmounts : Refund(o, g, k, amount)
<1> DEFINE K == {"debt", "opening", "reserve", "adjust"}
           Quiet == /\ PaymentsStay /\ refunded' = refunded
                    /\ Touches(K)
<1>0. \A u, row : Inscribes(u, row) /\ row.key[1] \in K => Touches(K)
  <2> TAKE u, row
  <2> HAVE Inscribes(u, row) /\ row.key[1] \in K
  <2>1. "debt" \in K /\ "opening" \in K
    OBVIOUS
  <2> HIDE DEF K
  <2> QED BY <2>1, InscribesTouches
<1>1. CASE UNCHANGED vars
  <2>1. \A v \in Users : wallet'[v].entries = wallet[v].entries
    BY <1>1 DEF vars
  <2>2. Touches(K)
    BY <2>1, UnwrittenTouches
  <2> QED BY <1>1, <2>2 DEF vars, PaymentsStay
<1>2. ASSUME NEW u \in Users, Opening(u)
      PROVE  Quiet
  <2>1. "debt" \in K /\ "opening" \in K
    OBVIOUS
  <2> HIDE DEF K
  <2>2. Touches(K)
    BY <1>2, <2>1, OpeningTouches
  <2> QED BY <1>2, <2>2 DEF Opening, PaymentsStay
<1>3. ASSUME NEW u \in Users, SetActive(u)
      PROVE  Quiet
  <2>1. Touches(K)
    BY <1>3, SetActiveBecomes, UnwrittenTouches
  <2> QED BY <1>3, <2>1 DEF SetActive, PaymentsStay
<1>4. ASSUME NEW u \in Users, NEW o \in Operations, NEW amount \in Budgets,
             Reserve(u, o, amount)
      PROVE  Quiet
  <2>1. PICK row : Inscribes(u, row) /\ row.key = <<"reserve", <<o, 0>>>>
    BY <1>4, ReserveInscribes
  <2>2. row.key[1] \in K
    BY <2>1
  <2> QED BY <1>0, <1>4, <2>1, <2>2 DEF Reserve, PaymentsStay
<1>5. ASSUME NEW o \in Operations, Reopen(o)
      PROVE  Quiet
  <2>1. PICK row : /\ Inscribes(operation[o].userId, row)
                   /\ row.key = <<"reserve", <<o, operation[o].generation + 1>>>>
    BY <1>5, ReopenInscribes
  <2>2. row.key[1] \in K
    BY <2>1
  <2> QED BY <1>0, <1>5, <2>1, <2>2 DEF Reopen, PaymentsStay
<1>6. ASSUME NEW o \in Operations, NEW total \in 0..operation[o].authorized,
             Settle(o, total)
      PROVE  PaymentsStay /\ refunded' = refunded
  BY <1>6 DEF Settle, PaymentsStay
<1>7. ASSUME NEW u \in Users, NEW k \in AdjustKeys, NEW amount \in Int,
             AdjustCredits(u, k, amount)
      PROVE  Quiet
  <2>1. PICK row, type, size : /\ Inscribes(u, row)
                               /\ Says(row, <<"adjust", k>>, type, size, amount)
    BY <1>7, AdjustInscribes
  <2>2. row.key[1] \in K
    BY <2>1 DEF Says
  <2> QED BY <1>0, <1>7, <2>1, <2>2 DEF AdjustCredits, PaymentsStay
<1>8. \A size \in AdjustSizes : size \in Int /\ -size \in Int
  BY AmountsAssumption
<1> HIDE DEF Quiet
<1>9. CASE Quiet
  BY <1>9 DEF Quiet
<1> QED
  <2>1. CASE \E u \in Users, k \in AdjustKeys, size \in AdjustSizes :
               AdjustCredits(u, k, size) \/ AdjustCredits(u, k, -size)
    BY <1>7, <1>8, <1>9, <2>1
  <2>2. CASE \E o \in Operations :
               \E total \in 0..operation[o].authorized : Settle(o, total)
    BY <1>6, <2>2
  <2>3. CASE \E u \in Users : Opening(u) \/ SetActive(u)
    BY <1>2, <1>3, <1>9, <2>3
  <2>4. CASE \E u \in Users, o \in Operations, amount \in Budgets :
               Reserve(u, o, amount)
    BY <1>4, <1>9, <2>4
  <2>5. CASE \E o \in Operations : Reopen(o)
    BY <1>5, <1>9, <2>5
  <2> QED BY <1>1, <1>9, <2>1, <2>2, <2>3, <2>4, <2>5 DEF Next

-----------------------------------------------------------------------------
(* What is reversed of a payment is what its adjustments took that were not *)
(* restored since                                                          *)

Restored(a) ==
  \E v \in Users : \E row \in RowsOf(wallet[v]) :
    row.key = <<"paddle-restoration", a>>

\* The adjustments of p that stand.
Standing(p) ==
  {a \in Adjustments : adjustment[a].payment = p /\ ~Restored(a)}

StandingCredits(p) ==
  SumFunction([a \in Standing(p) |-> adjustment[a].reversedCredits])

ReversalsStand ==
  \A p \in Payments :
    /\ reversed[p] = StandingCredits(p)
    /\ reversed[p] <= payment[p].granted

LEMMA RestoredKeys ==
  ASSUME IInv, NEW a
  PROVE  Restored(a) <=>
           \E v \in Users : <<"paddle-restoration", a>> \in KeysOf(wallet[v])
<1>1. \A v \in Users : KeysOf(wallet[v]) = {row.key : row \in RowsOf(wallet[v])}
  BY WalletFunction, RowsTyped
<1> QED BY <1>1 DEF Restored

LEMMA RestoredTouches ==
  ASSUME NEW K, Touches(K), "paddle-restoration" \notin K, NEW a
  PROVE  Restored(a)' <=> Restored(a)
<1>1. ASSUME NEW v \in Users, NEW row \in RowsOf(wallet'[v]),
             row.key = <<"paddle-restoration", a>>
      PROVE  row \in RowsOf(wallet[v])
  <2>1. row.key[1] = "paddle-restoration"
    BY <1>1
  <2> QED BY <2>1 DEF Touches
<1>2. \A v \in Users : RowsOf(wallet[v]) \subseteq RowsOf(wallet'[v])
  BY DEF Touches
<1> QED BY <1>1, <1>2 DEF Restored

LEMMA StandingSummable ==
  ASSUME IInv, NEW p
  PROVE  /\ Summable([a \in Standing(p) |-> adjustment[a].reversedCredits])
         /\ StandingCredits(p) \in Nat
<1> DEFINE f == [a \in Standing(p) |-> adjustment[a].reversedCredits]
<1>1. IsFiniteSet(Standing(p))
  <2>1. Standing(p) \subseteq Adjustments
    BY DEF Standing
  <2> QED BY <2>1, FiniteAssumption, FS_Subset
<1>2. \A a \in DOMAIN f : f[a] \in Nat
  BY DEF Standing, IInv, TypeOK, Adjustment
<1>3. IsFiniteSet(DOMAIN f)
  BY <1>1
<1> HIDE DEF f
<1>4. Summable(f) /\ SumFunction(f) \in Nat
  BY <1>2, <1>3, SumNatural
<1> QED BY <1>4 DEF f, StandingCredits

LEMMA UnownedStands ==
  ASSUME IInv, NEW p \in Payments, payment[p].userId = None
  PROVE  StandingCredits(p) = 0
<1> DEFINE f == [a \in Standing(p) |-> adjustment[a].reversedCredits]
<1>1. DOMAIN f = {}
  <2>1. p # None
    BY UsersAssumption
  <2> QED BY <2>1 DEF Standing, IInv, OwnersKnown, AdjustmentsOwned
<1> HIDE DEF f
<1>2. SumFunction(f) = 0
  BY <1>1, SumEmpty
<1> QED BY <1>2 DEF f, StandingCredits

LEMMA StandingStays ==
  ASSUME adjustment' = adjustment,
         \A a \in Adjustments : Restored(a)' <=> Restored(a), NEW p
  PROVE  StandingCredits(p)' = StandingCredits(p)
<1>1. Standing(p)' = Standing(p)
  BY DEF Standing
<1> QED BY <1>1 DEF StandingCredits

\* A key that is not in the ledger is not the one of a recorded payment.
LEMMA FreshPayment ==
  ASSUME IInv, LedgerKeys, NEW p \in Payments, Fresh(<<"payment", p>>)
  PROVE  payment[p].userId = None
BY FreshKeys, PaymentOwner DEF LedgerKeys

LEMMA InitStand == Init => ReversalsStand
<1> SUFFICES ASSUME Init, NEW p \in Payments
             PROVE  /\ reversed[p] = StandingCredits(p)
                    /\ reversed[p] <= payment[p].granted
  BY DEF ReversalsStand
<1>1. /\ payment[p].userId = None /\ payment[p].granted = 0
      /\ reversed[p] = 0
  BY DEF Init
<1> QED BY <1>1, InitIInv, UnownedStands

LEMMA NextStand ==
  IInv /\ IInv' /\ LedgerKeys /\ ReversalsStand /\ [Next]_vars
    => ReversalsStand'
<1> SUFFICES ASSUME IInv, IInv', LedgerKeys, ReversalsStand, [Next]_vars
             PROVE  ReversalsStand'
  OBVIOUS
<1>0. /\ payment \in [Payments -> Payment]
      /\ payment' \in [Payments -> Payment]
      /\ adjustment \in [Adjustments -> Adjustment]
      /\ reversed \in [Payments -> Int]
  BY DEF IInv, TypeOK
<1>1. CASE PaymentsStay /\ \E K : Touches(K) /\ "paddle-restoration" \notin K
  <2>1. \A a \in Adjustments : Restored(a)' <=> Restored(a)
    BY <1>1, RestoredTouches
  <2>2. \A p \in Payments : StandingCredits(p)' = StandingCredits(p)
    BY <1>1, <2>1, StandingStays DEF PaymentsStay
  <2> QED BY <1>1, <2>2 DEF PaymentsStay, ReversalsStand
<1>2. ASSUME NEW u, NEW p \in Payments, NEW row, Inscribes(u, row),
             row.key = <<"payment", p>>, Fresh(<<"payment", p>>),
             \A q \in Payments : q # p => payment'[q] = payment[q],
             adjustment' = adjustment, reversed' = reversed
      PROVE  ReversalsStand'
  <2>1. Touches({"debt", "opening", "payment"})
    BY <1>2, InscribesTouches
  <2>2. \A a \in Adjustments : Restored(a)' <=> Restored(a)
    BY <2>1, RestoredTouches
  <2>3. \A q \in Payments : StandingCredits(q)' = StandingCredits(q)
    BY <1>2, <2>2, StandingStays
  <2>4. reversed[p] = 0
    BY <1>2, FreshPayment, UnownedStands DEF ReversalsStand
  <2>5. payment'[p].granted \in Nat
    BY <1>0 DEF Payment
  <2> QED BY <1>2, <2>3, <2>4, <2>5 DEF ReversalsStand
<1>3. ASSUME NEW u \in Users, NEW p \in Payments, NEW credits \in PackSizes,
             PackPayment(u, p, credits)
      PROVE  ReversalsStand'
  <2>1. PICK row, size : /\ Inscribes(u, row)
                         /\ Says(row, <<"payment", p>>, "grant", size, credits)
    BY <1>3, PackInscribes
  <2>2. /\ Fresh(<<"payment", p>>)
        /\ adjustment' = adjustment /\ reversed' = reversed
        /\ \A q \in Payments : q # p => payment'[q] = payment[q]
    BY <1>0, <1>3 DEF PackPayment
  <2> QED BY <1>2, <2>1, <2>2 DEF Says
<1>4. ASSUME NEW u \in Users, NEW p \in Payments,
             NEW allocation \in Allocations, NEW c \in Cycles,
             GrantSubscriptionCycle(u, p, allocation, c)
      PROVE  ReversalsStand'
  <2>1. PICK row : /\ Inscribes(u, row)
                   /\ Says(row, <<"payment", p>>, "grant",
                           TopUp(u, c, allocation), TopUp(u, c, allocation))
    BY <1>4, GrantInscribes
  <2>2. /\ Fresh(<<"payment", p>>)
        /\ adjustment' = adjustment /\ reversed' = reversed
        /\ \A q \in Payments : q # p => payment'[q] = payment[q]
    BY <1>0, <1>4 DEF GrantSubscriptionCycle
  <2> QED BY <1>2, <2>1, <2>2 DEF Says
<1>5. ASSUME NEW u \in Users, NEW p \in Payments,
             NEW allocation \in Allocations, NEW c \in Cycles \cup {None},
             AdoptLegacyPayment(u, p, allocation, c)
      PROVE  ReversalsStand'
  <2>1. PICK row : /\ Inscribes(u, row)
                   /\ Says(row, <<"payment", p>>, "grant", 0, 0)
    BY <1>5, AdoptInscribes
  <2>2. /\ Fresh(<<"payment", p>>)
        /\ adjustment' = adjustment /\ reversed' = reversed
        /\ \A q \in Payments : q # p => payment'[q] = payment[q]
    BY <1>0, <1>5 DEF AdoptLegacyPayment
  <2> QED BY <1>2, <2>1, <2>2 DEF Says
<1>6. ASSUME NEW p \in Payments, NEW a \in Adjustments,
             NEW share \in ReversalShares(payment[p].granted),
             ReversePayment(p, a, share)
      PROVE  ReversalsStand'
  <2> DEFINE amount == Taken(p, share)
             f == [b \in Standing(p) |-> adjustment[b].reversedCredits]
             now == {b \in Adjustments :
                       adjustment'[b].payment = p /\ ~Restored(b)}
             g == [b \in now |-> adjustment'[b].reversedCredits]
  <2>1. PICK row : /\ Inscribes(payment[p].userId, row)
                   /\ row.key = <<"paddle-adjustment", a>>
    BY <1>6, ReverseInscribes
  <2>2. Touches({"debt", "opening", "paddle-adjustment"})
    BY <2>1, InscribesTouches
  <2>3. \A b \in Adjustments : Restored(b)' <=> Restored(b)
    BY <2>2, RestoredTouches
  <2>4. /\ payment' = payment
        /\ adjustment'[a].payment = p /\ adjustment'[a].reversedCredits = amount
        /\ \A b \in Adjustments : b # a => adjustment'[b] = adjustment[b]
        /\ reversed'[p] = reversed[p] + amount
        /\ \A q \in Payments : q # p => reversed'[q] = reversed[q]
        /\ Fresh(<<"paddle-adjustment", a>>)
    BY <1>0, <1>6 DEF ReversePayment, Taken
  <2>5. adjustment[a].payment = None /\ p # None
    BY <2>4, FreshKeys, UsersAssumption DEF LedgerKeys
  <2>6. ~Restored(a)
    <3>1. \A v \in Users : <<"paddle-restoration", a>> \notin KeysOf(wallet[v])
      BY <2>5 DEF LedgerKeys, Known
    <3> QED BY <3>1, RestoredKeys
  <2>7. /\ amount \in Nat /\ reversed[p] \in Int
        /\ reversed[p] + amount <= payment[p].granted
    <3>1. payment[p].granted \in Nat /\ reversed[p] <= payment[p].granted
      BY <1>0 DEF ReversalsStand, Payment
    <3>2. amount \in Nat /\ reversed[p] \in Int
      BY TakenType
    <3>3. amount <= payment[p].granted - reversed[p]
      <4>1. share \in Nat
        BY <3>1 DEF ReversalShares
      <4> QED BY <3>1, <3>2, <4>1 DEF Taken, Smaller, StillGranted, Larger
    <3> HIDE DEF amount
    <3> QED BY <3>1, <3>2, <3>3
  <2>8. StandingCredits(p)' = StandingCredits(p) + amount
    <3>1. StandingCredits(p)' = SumFunction(g)
      <4>1. Standing(p)' = now
        BY <2>3 DEF Standing
      <4> QED BY <4>1 DEF StandingCredits
    <3>2. /\ a \notin DOMAIN f /\ g[a] = amount
          /\ DOMAIN g = DOMAIN f \cup {a}
          /\ \A b \in DOMAIN f : g[b] = f[b]
      BY <2>4, <2>5, <2>6 DEF Standing
    <3>3. Summable(f) /\ StandingCredits(p) = SumFunction(f)
      BY StandingSummable DEF StandingCredits
    <3>4. amount \in Int
      BY <2>7
    <3> HIDE DEF f, g, now, amount
    <3>5. SumFunction(g) = SumFunction(f) + amount
      BY <3>2, <3>3, <3>4, SumAdded
    <3> QED BY <3>1, <3>3, <3>5
  <2>9. ASSUME NEW q \in Payments \ {p}
        PROVE  StandingCredits(q)' = StandingCredits(q)
    <3>1. Standing(q)' = Standing(q)
      <4>1. q # None
        BY UsersAssumption
      <4> QED BY <2>3, <2>4, <2>5, <4>1 DEF Standing
    <3>2. a \notin Standing(q)
      BY <2>5, UsersAssumption DEF Standing
    <3>3. [b \in Standing(q) |-> adjustment'[b].reversedCredits]
            = [b \in Standing(q) |-> adjustment[b].reversedCredits]
      BY <2>4, <3>2 DEF Standing
    <3> QED BY <3>1, <3>3 DEF StandingCredits
  <2> HIDE DEF amount
  <2> QED BY <2>4, <2>7, <2>8, <2>9 DEF ReversalsStand
<1>7. ASSUME NEW a \in Adjustments, RestorePaymentAdjustment(a)
      PROVE  ReversalsStand'
  <2>1. PICK p \in Payments : p = adjustment[a].payment
    BY <1>7, RestoreInscribes
  <2>2. PICK amount \in Nat : amount = adjustment[a].reversedCredits
    BY <1>7, RestoreInscribes
  <2>3. PICK u, row : /\ Inscribes(u, row)
                      /\ row.key = <<"paddle-restoration", a>>
    BY <1>7, RestoreInscribes
  <2> DEFINE f == [b \in Standing(p) |-> adjustment[b].reversedCredits]
             less == Standing(p) \ {a}
             g == [b \in less |-> adjustment[b].reversedCredits]
  <2>4. /\ payment' = payment /\ adjustment' = adjustment
        /\ reversed'[p] = reversed[p] - amount
        /\ \A q \in Payments : q # p => reversed'[q] = reversed[q]
        /\ Fresh(<<"paddle-restoration", a>>)
    BY <1>0, <1>7, <2>1, <2>2 DEF RestorePaymentAdjustment
  <2>5. ~Restored(a)
    BY <2>4, FreshKeys, RestoredKeys
  <2>6. /\ Restored(a)'
        /\ \A b \in Adjustments \ {a} : Restored(b)' <=> Restored(b)
    <3>1. /\ u \in Users /\ row \in RowsOf(wallet'[u])
          /\ \A v \in Users : RowsOf(wallet[v]) \subseteq RowsOf(wallet'[v])
      <4>1. Touches({"debt", "opening", "paddle-restoration"})
        BY <2>3, InscribesTouches
      <4> QED BY <2>3, <4>1 DEF Inscribes, Follows, Touches
    <3>2. ASSUME NEW b \in Adjustments \ {a}, NEW v \in Users,
                 NEW x \in RowsOf(wallet'[v]),
                 x.key = <<"paddle-restoration", b>>
          PROVE  x \in RowsOf(wallet[v])
      <4>1. CASE v = u
        <5>1. x \in RowsOf(Opened(u))
          BY <2>3, <3>2, <4>1 DEF Inscribes, Follows
        <5>2. \/ x \in RowsOf(wallet[u])
              \/ x.key[1] \in {"debt", "opening"}
          BY <3>1, <5>1, OpenedTouches
        <5> QED BY <3>2, <4>1, <5>2
      <4>2. CASE v # u
        BY <2>3, <4>2 DEF Inscribes
      <4> QED BY <4>1, <4>2
    <3> QED BY <2>3, <3>1, <3>2 DEF Restored
  <2>7. StandingCredits(p)' = StandingCredits(p) - amount
    <3>1. StandingCredits(p)' = SumFunction(g)
      <4>1. Standing(p)' = less
        BY <2>4, <2>6 DEF Standing
      <4> QED BY <2>4, <4>1 DEF StandingCredits
    <3>2. /\ a \notin DOMAIN g /\ f[a] = amount /\ amount \in Int
          /\ DOMAIN f = DOMAIN g \cup {a}
          /\ \A b \in DOMAIN g : f[b] = g[b]
          /\ DOMAIN g \subseteq DOMAIN f
      BY <2>1, <2>2, <2>5 DEF Standing
    <3>3. Summable(f) /\ StandingCredits(p) = SumFunction(f)
      BY StandingSummable DEF StandingCredits
    <3> HIDE DEF f, g
    <3>4. Summable(g)
      BY <3>2, <3>3, FS_Subset DEF Summable, IntOn
    <3>5. SumFunction(f) = SumFunction(g) + amount /\ SumFunction(g) \in Int
      BY <3>2, <3>4, SumAdded, SumInt
    <3> QED BY <3>1, <3>3, <3>5
  <2>8. ASSUME NEW q \in Payments \ {p}
        PROVE  StandingCredits(q)' = StandingCredits(q)
    <3>1. Standing(q)' = Standing(q)
      BY <2>1, <2>4, <2>6 DEF Standing
    <3> QED BY <2>4, <3>1 DEF StandingCredits
  <2>9. reversed[p] - amount <= payment[p].granted
    <3>1. /\ reversed[p] \in Int /\ payment[p].granted \in Int
          /\ reversed[p] <= payment[p].granted
      BY <1>0 DEF ReversalsStand, Payment
    <3> QED BY <3>1
  <2> QED BY <2>4, <2>7, <2>8, <2>9 DEF ReversalsStand
<1>8. ASSUME NEW o \in Operations, NEW total \in 0..operation[o].authorized,
             Settle(o, total), PaymentsStay
      PROVE  ReversalsStand'
  <2>1. Touches({"debt", "charge", "release"})
    BY <1>8, SettleTouches
  <2> QED BY <1>1, <1>8, <2>1
<1>9. ASSUME NEW o \in Operations, NEW g \in 0..MaxGeneration,
             NEW k \in RefundKeys, NEW amount \in RefundAmounts,
             Refund(o, g, k, amount)
      PROVE  ReversalsStand'
  <2>1. PICK row : /\ Inscribes(operation[o].userId, row)
                   /\ Says(row, <<"refund", k>>, "refund", amount, amount)
    BY <1>9, RefundInscribes
  <2>2. row.key[1] = "refund"
    BY <2>1 DEF Says
  <2>3. Touches({"debt", "opening", "refund"})
    BY <2>1, <2>2, InscribesTouches
  <2>4. PaymentsStay
    BY <1>9 DEF Refund, PaymentsStay
  <2> QED BY <1>1, <2>3, <2>4
<1>10. CASE PaymentsStay /\ Touches({"debt", "opening", "reserve", "adjust"})
  BY <1>1, <1>10
<1> QED
  BY <1>3, <1>4, <1>5, <1>6, <1>7, <1>8, <1>9, <1>10, StepKinds

LEMMA StandInvariance == Spec => []ReversalsStand
<1> QED BY InitStand, NextStand, KeysInvariance, Invariance, PTL DEF Spec

\* What is reversed of a payment is at least nothing and at most what the
\* payment brought, however often it is reversed in part and restored.
THEOREM ReversalsStayWithinGrants == Spec => []ReversalsWithinGrant
<1>1. IInv /\ ReversalsStand => ReversalsWithinGrant
  <2> SUFFICES ASSUME IInv, ReversalsStand, NEW p \in Payments
               PROVE  0 <= reversed[p] /\ reversed[p] <= payment[p].granted
    BY DEF ReversalsWithinGrant
  <2>1. StandingCredits(p) \in Nat
    BY StandingSummable
  <2> QED BY <2>1 DEF ReversalsStand
<1> QED BY <1>1, Invariance, StandInvariance, PTL

-----------------------------------------------------------------------------
(* Credits are conserved *)

InflowWeight == [row \in CreditEntry |-> Inflow(row)]

\* What an account has, holds and has used, less what it owes.
Worth(w) == Net(w) + w.account.creditsReserved + w.account.totalCreditsUsed

Conserved ==
  \A u \in Users :
    wallet[u].account.creditLedgerInitialized =>
      Worth(wallet[u]) = Weighed(wallet[u], InflowWeight) - ReversedOf(u)

LEMMA InflowWeighs ==
  /\ InflowWeight \in Weights
  /\ InflowWeight \in BlindWeights
  /\ \A row \in CreditEntry :
       InflowWeight[row] =
         IF row.key[1] \in {"opening", "payment", "adjust", "refund"}
         THEN row.availableDelta ELSE 0
<1>1. \A row \in CreditEntry :
        InflowWeight[row] =
          IF row.key[1] \in {"opening", "payment", "adjust", "refund"}
          THEN row.availableDelta ELSE 0
  BY DEF InflowWeight, Inflow
<1>2. InflowWeight \in Weights
  BY DEF InflowWeight, Inflow, Weights, CreditEntry
<1> QED BY <1>1, <1>2 DEF BlindWeights

LEMMA ReversedSummable ==
  ASSUME IInv, NEW u
  PROVE  /\ Summable([p \in {q \in Payments : payment[q].userId = u} |->
                        reversed[p]])
         /\ ReversedOf(u) \in Int
<1> DEFINE mine == {q \in Payments : payment[q].userId = u}
           f == [p \in mine |-> reversed[p]]
<1>1. IsFiniteSet(mine)
  <2>1. mine \subseteq Payments
    OBVIOUS
  <2> QED BY <2>1, FiniteAssumption, FS_Subset
<1>2. IsFiniteSet(DOMAIN f) /\ \A p \in DOMAIN f : f[p] \in Int
  BY <1>1 DEF IInv, TypeOK
<1> HIDE DEF f
<1>3. Summable(f)
  BY <1>2 DEF Summable, IntOn
<1>4. SumFunction(f) \in Int
  BY <1>3, SumInt
<1> QED BY <1>3, <1>4 DEF f, ReversedOf

LEMMA ReversedStays ==
  ASSUME payment' = payment, reversed' = reversed, NEW u
  PROVE  ReversedOf(u)' = ReversedOf(u)
BY DEF ReversedOf

\* A payment that brings its credits was not reversed before.
LEMMA ReversedJoins ==
  ASSUME IInv, ReversalsStand, NEW p \in Payments, payment[p].userId = None,
         \A q \in Payments : q # p => payment'[q] = payment[q],
         reversed' = reversed, NEW u \in Users
  PROVE  ReversedOf(u)' = ReversedOf(u)
<1> DEFINE mine == {q \in Payments : payment[q].userId = u}
           now == {q \in Payments : payment'[q].userId = u}
           f == [q \in mine |-> reversed[q]]
           g == [q \in now |-> reversed[q]]
<1>1. Summable(f) /\ ReversedOf(u) = SumFunction(f)
  BY ReversedSummable DEF ReversedOf
<1>2. ReversedOf(u)' = SumFunction(g)
  BY DEF ReversedOf
<1>3. reversed[p] = 0
  BY UnownedStands DEF ReversalsStand
<1>4. p \notin mine /\ (now = mine \/ now = mine \cup {p})
  BY UsersAssumption
<1>5. CASE now = mine
  BY <1>1, <1>2, <1>5
<1>6. CASE now = mine \cup {p}
  <2>1. /\ p \notin DOMAIN f /\ DOMAIN g = DOMAIN f \cup {p}
        /\ g[p] = 0 /\ \A q \in DOMAIN f : g[q] = f[q]
    BY <1>3, <1>4, <1>6
  <2> HIDE DEF f, g, mine, now
  <2>2. SumFunction(g) = SumFunction(f) + 0 /\ SumFunction(f) \in Int
    BY <1>1, <2>1, SumAdded, SumInt
  <2> QED BY <1>1, <1>2, <2>2
<1> QED BY <1>4, <1>5, <1>6

LEMMA ReversedMoves ==
  ASSUME IInv, NEW p \in Payments, payment' = payment, NEW e \in Int,
         reversed'[p] = reversed[p] + e,
         \A q \in Payments : q # p => reversed'[q] = reversed[q]
  PROVE  /\ ReversedOf(payment[p].userId)' = ReversedOf(payment[p].userId) + e
         /\ \A v : v # payment[p].userId => ReversedOf(v)' = ReversedOf(v)
<1>1. PICK u : u = payment[p].userId
  OBVIOUS
<1>2. ReversedOf(u)' = ReversedOf(u) + e
  <2> DEFINE mine == {q \in Payments : payment[q].userId = u}
             f == [q \in mine |-> reversed[q]]
             g == [q \in mine |-> reversed'[q]]
  <2>1. Summable(f) /\ ReversedOf(u) = SumFunction(f)
    BY ReversedSummable DEF ReversedOf
  <2>2. ReversedOf(u)' = SumFunction(g)
    BY DEF ReversedOf
  <2>3. reversed[p] \in Int
    BY DEF IInv, TypeOK
  <2>4. /\ p \in DOMAIN f /\ DOMAIN g = DOMAIN f
        /\ f[p] = reversed[p] /\ g[p] = reversed[p] + e
        /\ \A q \in DOMAIN f \ {p} : g[q] = f[q]
    BY <1>1
  <2> HIDE DEF f, g, mine
  <2>5. g[p] \in Int /\ g[p] - f[p] = e
    BY <2>3, <2>4
  <2>6. SumFunction(g) = SumFunction(f) + e
    BY <2>1, <2>4, <2>5, SumChanged
  <2> QED BY <2>1, <2>2, <2>6
<1>3. ASSUME NEW v, v # u
      PROVE  ReversedOf(v)' = ReversedOf(v)
  <2> DEFINE mine == {q \in Payments : payment[q].userId = v}
  <2>1. [q \in mine |-> reversed'[q]] = [q \in mine |-> reversed[q]]
    BY <1>1, <1>3
  <2> QED BY <2>1 DEF ReversedOf
<1> QED BY <1>1, <1>2, <1>3

LEMMA WorthMoves ==
  ASSUME IInv, IInv', NEW u, NEW n \in Int, NEW h \in Int, NEW s \in Int,
         Transaction(u, n, h, s)
  PROVE  /\ u \in Users
         /\ Worth(wallet[u]) \in Int
         /\ Worth(wallet'[u]) = Worth(wallet[u]) + (n + h + s)
         /\ \A v \in Users \ {u} : wallet'[v] = wallet[v]
<1>1. u \in Users
  BY DEF Transaction
<1>2. /\ Net(wallet[u]) \in Int
      /\ wallet[u].account.creditsReserved \in Int
      /\ wallet[u].account.totalCreditsUsed \in Int
  BY <1>1, WalletNumbers
<1>3. /\ Net(wallet'[u]) = Net(wallet[u]) + n
      /\ wallet'[u].account.creditsReserved =
           wallet[u].account.creditsReserved + h
      /\ wallet'[u].account.totalCreditsUsed =
           wallet[u].account.totalCreditsUsed + s
      /\ \A v \in Users \ {u} : wallet'[v] = wallet[v]
  BY TransactionMoves
<1> QED BY <1>1, <1>2, <1>3 DEF Worth

\* The opening row says what an account is worth that was not opened yet.
LEMMA OpenedConserved ==
  ASSUME IInv, EveryoneExplained, Conserved, NEW u \in Users
  PROVE  Worth(wallet[u]) = Weighed(Opened(u), InflowWeight) - ReversedOf(u)
<1>1. CASE wallet[u].account.creditLedgerInitialized
  BY <1>1, OpenedRecords DEF Conserved
<1>2. CASE ~wallet[u].account.creditLedgerInitialized
  <2>1. /\ wallet[u].account.creditDebt = 0
        /\ wallet[u].account.creditsReserved = 0
        /\ wallet[u].account.creditsBalance \in Nat
    BY <1>2, WalletNumbers DEF IInv, Accountable
  <2>2. Opened(u) # wallet[u]
    BY <1>2, OpenedSoundly, SoundType
  <2>3. PICK row, type, amount :
          /\ Follows(wallet[u], Opened(u), row)
          /\ Says(row, <<"opening", u>>, type, amount,
                  wallet[u].account.creditsBalance)
    BY <2>2, OpenedFollows
  <2>4. \A weight \in Weights : Weighed(wallet[u], weight) = 0
    BY <2>2, OpenedFollows
  <2>5. wallet[u].account.totalCreditsUsed = 0
    BY <2>4, ExplainingWeights DEF EveryoneExplained, Explained
  <2>6. InflowWeight[row] = wallet[u].account.creditsBalance
    BY <2>3, InflowWeighs DEF Follows, Says
  <2>7. Weighed(Opened(u), InflowWeight) = wallet[u].account.creditsBalance
    <3>1. Weighed(Opened(u), InflowWeight) =
            Weighed(wallet[u], InflowWeight) + InflowWeight[row]
      BY <2>3, InflowWeighs DEF Follows
    <3> QED BY <2>1, <2>4, <2>6, <3>1, InflowWeighs
  <2>8. ReversedOf(u) = 0
    <3> DEFINE f == [p \in {q \in Payments : payment[q].userId = u} |->
                       reversed[p]]
    <3>1. DOMAIN f = {}
      BY <1>2, UsersAssumption DEF IInv, OwnersKnown, PaymentsOwned
    <3> HIDE DEF f
    <3>2. SumFunction(f) = 0
      BY <3>1, SumEmpty
    <3> QED BY <3>2 DEF f, ReversedOf
  <2> QED BY <2>1, <2>5, <2>7, <2>8 DEF Worth, Net
<1> QED BY <1>1, <1>2

\* A transaction that moves an account by what its row brings, less what it
\* reverses, conserves credits.
LEMMA InscribesConserves ==
  ASSUME IInv, IInv', EveryoneExplained, Conserved,
         NEW u, NEW row, Inscribes(u, row), NEW n \in Int, NEW h \in Int,
         NEW s \in Int, Transaction(u, n, h, s), NEW e \in Int,
         ReversedOf(u)' = ReversedOf(u) + e,
         \A v \in Users \ {u} : ReversedOf(v)' = ReversedOf(v),
         n + h + s = InflowWeight[row] - e
  PROVE  Conserved'
<1>1. /\ u \in Users
      /\ Worth(wallet[u]) \in Int
      /\ Worth(wallet'[u]) = Worth(wallet[u]) + (n + h + s)
      /\ \A v \in Users \ {u} : wallet'[v] = wallet[v]
  BY WorthMoves
<1>2. Worth(wallet[u]) = Weighed(Opened(u), InflowWeight) - ReversedOf(u)
  BY <1>1, OpenedConserved
<1>3. /\ Weighed(wallet'[u], InflowWeight) =
           Weighed(Opened(u), InflowWeight) + InflowWeight[row]
      /\ row \in CreditEntry
  BY InflowWeighs DEF Inscribes, Follows
<1>4. /\ Weighed(Opened(u), InflowWeight) \in Int
      /\ InflowWeight[row] \in Int
      /\ ReversedOf(u) \in Int
  BY <1>1, <1>3, OpenedSoundly, InflowWeighs, WeighedSummable,
     ReversedSummable DEF Weights
<1>5. Worth(wallet'[u]) =
        Weighed(wallet'[u], InflowWeight) - (ReversedOf(u) + e)
  BY <1>1, <1>2, <1>3, <1>4
<1> QED BY <1>1, <1>5 DEF Conserved

LEMMA InitConserved == Init => Conserved
BY DEF Init, Conserved

LEMMA NextConserved ==
  IInv /\ IInv' /\ EveryoneExplained /\ LedgerKeys /\ ReversalsStand
    /\ Conserved /\ [Next]_vars
  => Conserved'
<1> SUFFICES ASSUME IInv, IInv', EveryoneExplained, LedgerKeys,
                    ReversalsStand, Conserved, [Next]_vars
             PROVE  Conserved'
  OBVIOUS
<1>0. /\ payment \in [Payments -> Payment]
      /\ reversed \in [Payments -> Int]
      /\ adjustment \in [Adjustments -> Adjustment]
  BY DEF IInv, TypeOK
<1>a. ASSUME NEW u, NEW row, Inscribes(u, row), NEW n \in Int, NEW h \in Int,
             NEW s \in Int, Transaction(u, n, h, s),
             \A v \in Users : ReversedOf(v)' = ReversedOf(v),
             n + h + s = InflowWeight[row]
      PROVE  Conserved'
  <2>1. u \in Users /\ row \in CreditEntry
    BY <1>a DEF Inscribes, Follows
  <2>2. ReversedOf(u) \in Int /\ InflowWeight[row] \in Int
    BY <2>1, ReversedSummable, InflowWeighs DEF Weights
  <2>3. /\ ReversedOf(u)' = ReversedOf(u) + 0
        /\ n + h + s = InflowWeight[row] - 0
    BY <1>a, <2>1, <2>2
  <2> QED BY <1>a, <2>1, <2>3, InscribesConserves
<1>b. \A u, row : Inscribes(u, row) =>
        InflowWeight[row] =
          IF row.key[1] \in {"opening", "payment", "adjust", "refund"}
          THEN row.availableDelta ELSE 0
  BY InflowWeighs DEF Inscribes, Follows
<1>c. payment' = payment /\ reversed' = reversed =>
        \A v \in Users : ReversedOf(v)' = ReversedOf(v)
  BY ReversedStays
<1>1. CASE UNCHANGED vars
  <2>1. wallet' = wallet /\ payment' = payment /\ reversed' = reversed
    BY <1>1 DEF vars
  <2> QED BY <1>c, <2>1 DEF Conserved
<1>2. ASSUME NEW u \in Users, Opening(u)
      PROVE  Conserved'
  <2>1. payment' = payment /\ reversed' = reversed
    BY <1>2 DEF Opening
  <2>2. /\ wallet'[u] = Opened(u)
        /\ \A v \in Users \ {u} : wallet'[v] = wallet[v]
    BY <1>2, OpeningBecomes DEF Becomes
  <2>3. Worth(wallet'[u]) = Worth(wallet[u]) + (0 + 0 + 0) /\ Worth(wallet[u]) \in Int
    BY <1>2, OpeningStep, WorthMoves
  <2>4. Worth(wallet[u]) = Weighed(Opened(u), InflowWeight) - ReversedOf(u)
    BY OpenedConserved
  <2>5. Worth(wallet'[u]) = Weighed(wallet'[u], InflowWeight) - ReversedOf(u)
    BY <2>2, <2>3, <2>4
  <2> QED BY <1>c, <2>1, <2>2, <2>5 DEF Conserved
<1>3. ASSUME NEW u \in Users, SetActive(u)
      PROVE  Conserved'
  <2>1. payment' = payment /\ reversed' = reversed
    BY <1>3 DEF SetActive
  <2>2. ASSUME NEW v \in Users
        PROVE  /\ Worth(wallet'[v]) = Worth(wallet[v])
               /\ wallet'[v].account.creditLedgerInitialized =
                    wallet[v].account.creditLedgerInitialized
               /\ wallet'[v].entries = wallet[v].entries
    BY <1>3, SetActiveBecomes DEF Worth, Net
  <2>3. ASSUME NEW v \in Users
        PROVE  Weighed(wallet'[v], InflowWeight) = Weighed(wallet[v], InflowWeight)
    BY <2>2 DEF Weighed
  <2> QED BY <1>c, <2>1, <2>2, <2>3 DEF Conserved
<1>4. ASSUME NEW u \in Users, NEW o \in Operations, NEW amount \in Budgets,
             Reserve(u, o, amount)
      PROVE  Conserved'
  <2> DEFINE less == -amount
  <2>1. amount \in Nat /\ Transaction(u, less, amount, 0)
    BY <1>4, ReserveStep
  <2>2. PICK row : Inscribes(u, row) /\ row.key = <<"reserve", <<o, 0>>>>
    BY <1>4, ReserveInscribes
  <2>3. InflowWeight[row] = 0
    BY <1>b, <2>2
  <2>4. less \in Int /\ amount \in Int /\ less + amount + 0 = InflowWeight[row]
    BY <2>1, <2>3
  <2>5. payment' = payment /\ reversed' = reversed
    BY <1>4 DEF Reserve
  <2> HIDE DEF less
  <2> QED BY <1>a, <1>c, <2>1, <2>2, <2>4, <2>5
<1>5. ASSUME NEW o \in Operations, Reopen(o)
      PROVE  Conserved'
  <2> DEFINE amount == Remainder(operation[o])
             less == -amount
  <2>1. amount \in Nat /\ Transaction(operation[o].userId, less, amount, 0)
    BY <1>5, ReopenStep
  <2>2. PICK row : /\ Inscribes(operation[o].userId, row)
                   /\ row.key = <<"reserve", <<o, operation[o].generation + 1>>>>
    BY <1>5, ReopenInscribes
  <2>3. InflowWeight[row] = 0
    BY <1>b, <2>2
  <2>4. less \in Int /\ amount \in Int /\ less + amount + 0 = InflowWeight[row]
    BY <2>1, <2>3
  <2>5. payment' = payment /\ reversed' = reversed
    BY <1>5 DEF Reopen
  <2> HIDE DEF less, amount
  <2> QED BY <1>a, <1>c, <2>1, <2>2, <2>4, <2>5
<1>6. ASSUME NEW o \in Operations, NEW total \in 0..operation[o].authorized,
             Settle(o, total)
      PROVE  Conserved'
  <2>1. PICK u \in Users : /\ u = operation[o].userId
                           /\ wallet[u].account.creditLedgerInitialized
    BY <1>6, OperationOwner, SoundType DEF Settle
  <2> DEFINE held == operation[o].held
             charge == total - operation[o].charged
             release == held - charge
             less == -held
  <2>2. charge \in Nat /\ release \in Nat /\ Transaction(u, release, less, charge)
    BY <1>6, <2>1, SettleStep
  <2>3. held \in Nat /\ total \in Nat /\ operation[o].charged \in Nat
    <3>1. /\ operation[o].held \in Nat /\ operation[o].charged \in Nat
          /\ operation[o].authorized \in Nat
      BY DEF IInv, TypeOK, CreditOperation
    <3> QED BY <3>1
  <2>4. /\ release \in Int /\ less \in Int /\ charge \in Int
        /\ release + less + charge = 0
    BY <2>2, <2>3
  <2> HIDE DEF release, less, charge
  <2>5. /\ Worth(wallet'[u]) = Worth(wallet[u]) + (release + less + charge)
        /\ Worth(wallet[u]) \in Int
        /\ \A v \in Users \ {u} : wallet'[v] = wallet[v]
    BY ONLY <2>2, <2>4, IInv, IInv', WorthMoves
  <2>6. Weighed(wallet'[u], InflowWeight) = Weighed(wallet[u], InflowWeight)
    <3>1. Touches({"debt", "charge", "release"})
      BY <1>6, SettleTouches
    <3>2. \A row \in CreditEntry :
            row.key[1] \in {"debt", "charge", "release"} => InflowWeight[row] = 0
      BY InflowWeighs
    <3> QED BY <3>1, <3>2, InflowWeighs DEF Touches
  <2>7. payment' = payment /\ reversed' = reversed
    BY <1>6 DEF Settle
  <2>8. Worth(wallet'[u]) = Weighed(wallet'[u], InflowWeight) - ReversedOf(u)
    BY <2>1, <2>4, <2>5, <2>6 DEF Conserved
  <2> QED BY <1>c, <2>5, <2>7, <2>8 DEF Conserved
<1>7. ASSUME NEW u \in Users, NEW k \in AdjustKeys, NEW amount \in Int,
             AdjustCredits(u, k, amount)
      PROVE  Conserved'
  <2>1. Transaction(u, amount, 0, 0)
    BY <1>7, AdjustStep
  <2>2. PICK row, type, size :
          /\ Inscribes(u, row)
          /\ Says(row, <<"adjust", k>>, type, size, amount)
    BY <1>7, AdjustInscribes
  <2>3. InflowWeight[row] = amount
    BY <1>b, <2>2 DEF Says
  <2>4. payment' = payment /\ reversed' = reversed
    BY <1>7 DEF AdjustCredits
  <2>5. amount + 0 + 0 = InflowWeight[row]
    BY <2>3
  <2> QED BY <1>a, <1>c, <2>1, <2>2, <2>4, <2>5
<1>8. ASSUME NEW u \in Users, NEW p \in Payments, NEW row, Inscribes(u, row),
             NEW n \in Int, Transaction(u, n, 0, 0),
             row.key = <<"payment", p>>, row.availableDelta = n,
             Fresh(<<"payment", p>>),
             \A q \in Payments : q # p => payment'[q] = payment[q],
             reversed' = reversed
      PROVE  Conserved'
  <2>1. InflowWeight[row] = n
    BY <1>b, <1>8
  <2>2. \A v \in Users : ReversedOf(v)' = ReversedOf(v)
    BY <1>8, FreshPayment, ReversedJoins
  <2>3. n + 0 + 0 = InflowWeight[row]
    BY <2>1
  <2> QED BY <1>a, <1>8, <2>2, <2>3
<1>9. ASSUME NEW u \in Users, NEW p \in Payments, NEW credits \in PackSizes,
             PackPayment(u, p, credits)
      PROVE  Conserved'
  <2>1. PICK row, size : /\ Inscribes(u, row)
                         /\ Says(row, <<"payment", p>>, "grant", size, credits)
    BY <1>9, PackInscribes
  <2>2. /\ Fresh(<<"payment", p>>) /\ reversed' = reversed
        /\ \A q \in Payments : q # p => payment'[q] = payment[q]
    BY <1>0, <1>9 DEF PackPayment
  <2>3. credits \in Nat /\ Transaction(u, credits, 0, 0)
    BY <1>9, PackStep
  <2>4. credits \in Int
    BY <2>3
  <2> QED BY <1>8, <2>1, <2>2, <2>3, <2>4 DEF Says
<1>10. ASSUME NEW u \in Users, NEW p \in Payments,
              NEW allocation \in Allocations, NEW c \in Cycles,
              GrantSubscriptionCycle(u, p, allocation, c)
       PROVE  Conserved'
  <2> DEFINE amount == TopUp(u, c, allocation)
  <2>1. PICK row : /\ Inscribes(u, row)
                   /\ Says(row, <<"payment", p>>, "grant", amount, amount)
    BY <1>10, GrantInscribes
  <2>2. /\ Fresh(<<"payment", p>>) /\ reversed' = reversed
        /\ \A q \in Payments : q # p => payment'[q] = payment[q]
    BY <1>0, <1>10 DEF GrantSubscriptionCycle
  <2>3. amount \in Nat /\ Transaction(u, amount, 0, 0)
    BY <1>10, GrantStep, TopUpType
  <2> HIDE DEF amount
  <2>4. amount \in Int
    BY <2>3
  <2> QED BY <1>8, <2>1, <2>2, <2>3, <2>4 DEF Says
<1>11. ASSUME NEW u \in Users, NEW p \in Payments,
              NEW allocation \in Allocations, NEW c \in Cycles \cup {None},
              AdoptLegacyPayment(u, p, allocation, c)
       PROVE  Conserved'
  <2>1. PICK row : /\ Inscribes(u, row)
                   /\ Says(row, <<"payment", p>>, "grant", 0, 0)
    BY <1>11, AdoptInscribes
  <2>2. /\ Fresh(<<"payment", p>>) /\ reversed' = reversed
        /\ \A q \in Payments : q # p => payment'[q] = payment[q]
    BY <1>0, <1>11 DEF AdoptLegacyPayment
  <2>3. Transaction(u, 0, 0, 0)
    BY <1>11, AdoptStep
  <2> QED BY <1>8, <2>1, <2>2, <2>3 DEF Says
<1>12. ASSUME NEW p \in Payments, NEW u, u = payment[p].userId,
              NEW row, Inscribes(u, row),
              row.key[1] \in {"paddle-adjustment", "paddle-restoration"},
              NEW e \in Int, NEW n \in Int, n = -e, Transaction(u, n, 0, 0),
              payment' = payment, reversed'[p] = reversed[p] + e,
              \A q \in Payments : q # p => reversed'[q] = reversed[q]
       PROVE  Conserved'
  <2>1. InflowWeight[row] = 0
    BY <1>b, <1>12
  <2>2. /\ ReversedOf(u)' = ReversedOf(u) + e
        /\ \A v \in Users \ {u} : ReversedOf(v)' = ReversedOf(v)
    BY <1>12, ReversedMoves
  <2>3. n + 0 + 0 = InflowWeight[row] - e
    BY <1>12, <2>1
  <2> QED BY <1>12, <2>2, <2>3, InscribesConserves
<1>13. ASSUME NEW p \in Payments, NEW a \in Adjustments,
              NEW share \in ReversalShares(payment[p].granted),
              ReversePayment(p, a, share)
       PROVE  Conserved'
  <2> DEFINE amount == Taken(p, share)
             less == -amount
  <2>1. PICK row : /\ Inscribes(payment[p].userId, row)
                   /\ row.key = <<"paddle-adjustment", a>>
    BY <1>13, ReverseInscribes
  <2>2. /\ amount \in Int /\ less \in Int
        /\ Transaction(payment[p].userId, less, 0, 0)
    <3>1. amount \in Nat
      BY TakenType
    <3>2. Transaction(payment[p].userId, less, 0, 0)
      BY <1>13, ReverseStep
    <3> QED BY <3>1, <3>2
  <2>3. /\ payment' = payment /\ reversed'[p] = reversed[p] + amount
        /\ \A q \in Payments : q # p => reversed'[q] = reversed[q]
    BY <1>0, <1>13 DEF ReversePayment, Taken
  <2>4. less = -amount /\ row.key[1] \in {"paddle-adjustment", "paddle-restoration"}
    BY <2>1
  <2> HIDE DEF less, amount
  <2> QED BY <1>12, <2>1, <2>2, <2>3, <2>4
<1>14. ASSUME NEW a \in Adjustments, RestorePaymentAdjustment(a)
       PROVE  Conserved'
  <2>1. PICK p \in Payments : p = adjustment[a].payment
    BY <1>14, RestoreInscribes
  <2>2. PICK amount \in Nat : amount = adjustment[a].reversedCredits
    BY <1>14, RestoreInscribes
  <2>3. PICK row : /\ Inscribes(payment[p].userId, row)
                   /\ row.key = <<"paddle-restoration", a>>
    BY <1>14, <2>1, RestoreInscribes
  <2>4. Transaction(payment[p].userId, amount, 0, 0)
    BY <1>14, <2>1, <2>2, RestoreStep
  <2> DEFINE e == -amount
  <2>5. /\ payment' = payment /\ reversed'[p] = reversed[p] + e
        /\ \A q \in Payments : q # p => reversed'[q] = reversed[q]
    <3>1. /\ payment' = payment /\ reversed'[p] = reversed[p] - amount
          /\ \A q \in Payments : q # p => reversed'[q] = reversed[q]
      BY <1>0, <1>14, <2>1, <2>2 DEF RestorePaymentAdjustment
    <3>2. reversed[p] \in Int
      BY <1>0
    <3> QED BY <3>1, <3>2
  <2>6. /\ e \in Int /\ amount \in Int /\ amount = -e
        /\ row.key[1] \in {"paddle-adjustment", "paddle-restoration"}
    BY <2>3
  <2> HIDE DEF e
  <2> QED BY <1>12, <2>3, <2>4, <2>5, <2>6
<1>15. ASSUME NEW o \in Operations, NEW g \in 0..MaxGeneration,
              NEW k \in RefundKeys, NEW amount \in RefundAmounts,
              Refund(o, g, k, amount)
       PROVE  Conserved'
  <2>1. amount \in Nat /\ Transaction(operation[o].userId, amount, 0, 0)
    BY <1>15, RefundStep
  <2>2. PICK row : /\ Inscribes(operation[o].userId, row)
                   /\ Says(row, <<"refund", k>>, "refund", amount, amount)
    BY <1>15, RefundInscribes
  <2>3. InflowWeight[row] = amount
    BY <1>b, <2>2 DEF Says
  <2>4. payment' = payment /\ reversed' = reversed
    BY <1>15 DEF Refund
  <2>5. amount \in Int /\ amount + 0 + 0 = InflowWeight[row]
    BY <2>1, <2>3
  <2> QED BY <1>a, <1>c, <2>1, <2>2, <2>4, <2>5
<1>16. \A size \in AdjustSizes : size \in Int /\ -size \in Int
  BY AmountsAssumption
<1> QED
  BY <1>1, <1>2, <1>3, <1>4, <1>5, <1>6, <1>7, <1>9, <1>10, <1>11, <1>13,
     <1>14, <1>15, <1>16 DEF Next

LEMMA ConservedInvariance == Spec => []Conserved
<1> QED BY InitConserved, NextConserved, Invariance, ExplainedInvariance,
           KeysInvariance, StandInvariance, PTL DEF Spec

\* What an account has, holds and has used, less what it owes, is what its rows
\* brought from outside less what is reversed of its payments.
THEOREM CreditsAreConserved == Spec => []CreditsConserved
<1>1. IInv /\ Conserved => CreditsConserved
  <2> SUFFICES ASSUME IInv, Conserved, NEW u \in Users,
                      wallet[u].account.creditLedgerInitialized
               PROVE  wallet[u].account.creditsBalance
                        + wallet[u].account.creditsReserved
                        + wallet[u].account.totalCreditsUsed
                        - wallet[u].account.creditDebt
                      = SumRows(u, Inflow) - ReversedOf(u)
    BY DEF CreditsConserved
  <2>1. SumRows(u, Inflow) = Weighed(wallet[u], InflowWeight)
    <3> DEFINE f == [i \in DOMAIN wallet[u].entries |->
                       Inflow(wallet[u].entries[i])]
               g == [i \in DOMAIN wallet[u].entries |->
                       InflowWeight[wallet[u].entries[i]]]
    <3>1. \A i \in DOMAIN wallet[u].entries :
            wallet[u].entries[i] \in CreditEntry
      BY WalletFunction, StatementRows
    <3>2. f = g
      BY <3>1 DEF InflowWeight
    <3>3. SumRows(u, Inflow) = SumFunction(f)
      BY DEF SumRows
    <3>4. Weighed(wallet[u], InflowWeight) = SumFunction(g)
      BY DEF Weighed
    <3> HIDE DEF f, g
    <3> QED BY <3>2, <3>3, <3>4
  <2>2. Worth(wallet[u]) = Weighed(wallet[u], InflowWeight) - ReversedOf(u)
    BY DEF Conserved
  <2> QED BY <2>1, <2>2, WalletNumbers DEF Worth, Net
<1> QED BY <1>1, Invariance, ConservedInvariance, PTL

-----------------------------------------------------------------------------
(* What is refunded of a charge is what the refund rows gave back of it *)

RefundWeight ==
  [row \in CreditEntry |-> IF row.key[1] = "refund" THEN row.amount ELSE 0]

ChargeKeys == {"charge"} \X (Operations \X (0..MaxGeneration))

\* A charge row weighs what is refunded of the charge.
ReturnedWeight(given) ==
  [row \in CreditEntry |->
     IF row.key \in ChargeKeys THEN given[row.key[2][1]][row.key[2][2]] ELSE 0]

RefundsMatch ==
  /\ \A u \in Users :
       Weighed(wallet[u], RefundWeight) =
         Weighed(wallet[u], ReturnedWeight(refunded))
  /\ \A u \in Users : \A row \in RowsOf(wallet[u]) :
       \A o \in Operations, g \in 0..MaxGeneration :
         row.key = <<"charge", <<o, g>>>> => refunded[o][g] <= row.amount
  /\ \A o \in Operations, g \in 0..MaxGeneration :
       refunded[o][g] # 0 =>
         \E u \in Users : <<"charge", <<o, g>>>> \in KeysOf(wallet[u])

LEMMA RefundWeighs ==
  /\ RefundWeight \in Weights
  /\ RefundWeight \in BlindWeights
  /\ \A row \in CreditEntry :
       RefundWeight[row] = IF row.key[1] = "refund" THEN row.amount ELSE 0
<1>1. \A row \in CreditEntry :
        RefundWeight[row] = IF row.key[1] = "refund" THEN row.amount ELSE 0
  BY DEF RefundWeight
<1>2. RefundWeight \in Weights
  BY DEF RefundWeight, Weights, CreditEntry
<1> QED BY <1>1, <1>2 DEF BlindWeights

LEMMA ChargeKeysAre ==
  ASSUME NEW key \in ChargeKeys
  PROVE  \E o \in Operations, g \in 0..MaxGeneration :
           key = <<"charge", <<o, g>>>>
BY DEF ChargeKeys

LEMMA ReturnedWeighs ==
  ASSUME NEW given \in [Operations -> [0..MaxGeneration -> Nat]]
  PROVE  /\ ReturnedWeight(given) \in Weights
         /\ ReturnedWeight(given) \in BlindWeights
         /\ \A row \in CreditEntry :
              row.key[1] # "charge" => ReturnedWeight(given)[row] = 0
         /\ \A row \in CreditEntry, o \in Operations, g \in 0..MaxGeneration :
              row.key = <<"charge", <<o, g>>>> =>
                ReturnedWeight(given)[row] = given[o][g]
         /\ \A row \in CreditEntry :
              row.key \notin ChargeKeys => ReturnedWeight(given)[row] = 0
<1> DEFINE W == ReturnedWeight(given)
<1>1. \A row \in CreditEntry :
        W[row] = IF row.key \in ChargeKeys
                 THEN given[row.key[2][1]][row.key[2][2]] ELSE 0
  BY DEF ReturnedWeight
<1>2. \A row \in CreditEntry : row.key[1] # "charge" => row.key \notin ChargeKeys
  BY DEF ChargeKeys
<1>3. ASSUME NEW row \in CreditEntry, NEW o \in Operations,
             NEW g \in 0..MaxGeneration, row.key = <<"charge", <<o, g>>>>
      PROVE  W[row] = given[o][g]
  <2>1. row.key \in ChargeKeys /\ row.key[2][1] = o /\ row.key[2][2] = g
    BY <1>3 DEF ChargeKeys
  <2> QED BY <1>1, <2>1
<1>4. ASSUME NEW row \in CreditEntry
      PROVE  W[row] \in Int
  <2>1. CASE row.key \in ChargeKeys
    <3>1. PICK o \in Operations, g \in 0..MaxGeneration :
            row.key = <<"charge", <<o, g>>>>
      BY <2>1, ChargeKeysAre
    <3>2. W[row] = given[o][g] /\ given[o][g] \in Nat
      BY <1>3, <3>1
    <3> QED BY <3>2
  <2>2. CASE row.key \notin ChargeKeys
    BY <1>1, <2>2
  <2> QED BY <2>1, <2>2
<1>5. W \in Weights
  <2>1. W = [row \in CreditEntry |-> W[row]]
    BY DEF ReturnedWeight
  <2> HIDE DEF W
  <2> QED BY <1>4, <2>1 DEF Weights
<1> HIDE DEF W
<1>6. W \in BlindWeights
  BY <1>1, <1>2, <1>5 DEF BlindWeights
<1> QED BY <1>1, <1>2, <1>3, <1>5, <1>6 DEF W

\* A settlement writes a charge or not, and then a release or not.
LEMMA SettleFollows ==
  ASSUME IInv, NEW o \in Operations,
         NEW total \in 0..operation[o].authorized, Settle(o, total)
  PROVE  LET u == operation[o].userId
             g == operation[o].generation
         IN /\ u \in Users
            /\ \A v \in Users \ {u} : wallet'[v] = wallet[v]
            /\ \E x \in Wallet :
                 /\ \/ x = wallet[u]
                    \/ \E row : /\ Follows(wallet[u], x, row)
                                /\ row.key = <<"charge", <<o, g>>>>
                 /\ \/ wallet'[u] = x
                    \/ \E row : /\ Follows(x, wallet'[u], row)
                                /\ row.key = <<"release", <<o, g>>>>
<1> DEFINE u == operation[o].userId
           charge == total - operation[o].charged
           release == operation[o].held - charge
           c == <<"charge", <<o, operation[o].generation>>>>
           e == <<"release", <<o, operation[o].generation>>>>
<1>1. u \in Users
  BY OperationOwner DEF Settle
<1>2. PICK x, r : /\ Becomes(u, r)
                  /\ Sound(x)
                  /\ RecordsSome(wallet[u], x, c, "charge", charge, 0)
                  /\ RecordsSome(x, r, e, "release", release, release)
  BY SettleRecords
<1>3. /\ x \in Wallet /\ wallet'[u] = r
      /\ \A v \in Users \ {u} : wallet'[v] = wallet[v]
  BY <1>2, SoundType DEF Becomes
<1> HIDE DEF u, charge, release, c, e
<1>4. ASSUME NEW w, NEW z, NEW key, NEW type, NEW amount, NEW available,
             RecordsSome(w, z, key, type, amount, available)
      PROVE  z = w \/ \E row : Follows(w, z, row) /\ row.key = key
  <2>1. CASE z = w
    BY <2>1
  <2>2. CASE Records(w, z, key, type, amount, available)
    <3>1. PICK row : Writes(w, z, row) /\ row.key = key
      BY <2>2 DEF Records, Says
    <3> QED BY <3>1, WritesFollows
  <2> QED BY <1>4, <2>1, <2>2 DEF RecordsSome
<1>5. x = wallet[u] \/ \E row : Follows(wallet[u], x, row) /\ row.key = c
  BY <1>2, <1>4
<1>6. r = x \/ \E row : Follows(x, r, row) /\ row.key = e
  BY <1>2, <1>4
<1> QED BY <1>1, <1>3, <1>5, <1>6 DEF u, c, e

\* A step that writes neither charges nor refunds keeps them matched.
LEMMA UnrefundedMatch ==
  ASSUME IInv, IInv', RefundsMatch, refunded' = refunded,
         NEW K, Touches(K), "charge" \notin K, "refund" \notin K
  PROVE  RefundsMatch'
<1> DEFINE W == ReturnedWeight(refunded)
<1>1. refunded \in [Operations -> [0..MaxGeneration -> Nat]]
  BY DEF IInv, TypeOK
<1>2. /\ \A row \in CreditEntry : row.key[1] \in K => W[row] = 0
      /\ W \in Weights
  BY <1>1, ReturnedWeighs
<1>3. \A row \in CreditEntry : row.key[1] \in K => RefundWeight[row] = 0
  BY RefundWeighs
<1> HIDE DEF W
<1>4. \A u \in Users :
        /\ Weighed(wallet'[u], W) = Weighed(wallet[u], W)
        /\ Weighed(wallet'[u], RefundWeight) = Weighed(wallet[u], RefundWeight)
  BY <1>2, <1>3, RefundWeighs DEF Touches
<1>5. \A u \in Users : Weighed(wallet'[u], RefundWeight) = Weighed(wallet'[u], W)
  BY <1>4 DEF RefundsMatch, W
<1>6. ASSUME NEW u \in Users, NEW row \in RowsOf(wallet'[u]),
             NEW o \in Operations, NEW g \in 0..MaxGeneration,
             row.key = <<"charge", <<o, g>>>>
      PROVE  refunded[o][g] <= row.amount
  <2>1. row.key[1] = "charge"
    BY <1>6
  <2>2. row \in RowsOf(wallet[u])
    BY <2>1 DEF Touches
  <2> QED BY <1>6, <2>2 DEF RefundsMatch
<1>7. \A u \in Users : KeysOf(wallet[u]) \subseteq KeysOf(wallet'[u])
  <2> SUFFICES ASSUME NEW u \in Users
               PROVE  KeysOf(wallet[u]) \subseteq KeysOf(wallet'[u])
    OBVIOUS
  <2>1. wallet[u] \in Wallet /\ wallet'[u] \in Wallet
    BY DEF IInv, TypeOK
  <2>2. RowsOf(wallet[u]) \subseteq RowsOf(wallet'[u])
    BY DEF Touches
  <2> QED BY <2>1, <2>2, RowsTyped
<1> QED BY <1>5, <1>6, <1>7 DEF RefundsMatch, W

\* What is refunded of one charge rises, and nothing else.
Raises(given, new, o, g, amount) ==
  /\ given \in [Operations -> [0..MaxGeneration -> Nat]]
  /\ new \in [Operations -> [0..MaxGeneration -> Nat]]
  /\ o \in Operations /\ g \in 0..MaxGeneration /\ amount \in Nat
  /\ new[o][g] = given[o][g] + amount
  /\ \A q \in Operations, h \in 0..MaxGeneration :
       <<q, h>> # <<o, g>> => new[q][h] = given[q][h]

\* Raising what is refunded of one charge raises the statement with its row.
LEMMA ReturnedRises ==
  ASSUME NEW given, NEW new, NEW o, NEW g, NEW amount,
         Raises(given, new, o, g, amount), NEW w, Neat(w)
  PROVE  /\ <<"charge", <<o, g>>>> \in KeysOf(w) =>
              Weighed(w, ReturnedWeight(new)) =
                Weighed(w, ReturnedWeight(given)) + amount
         /\ <<"charge", <<o, g>>>> \notin KeysOf(w) =>
              Weighed(w, ReturnedWeight(new)) =
                Weighed(w, ReturnedWeight(given))
<1> DEFINE key == <<"charge", <<o, g>>>>
           V == ReturnedWeight(given)
           W == ReturnedWeight(new)
<1>0. /\ given \in [Operations -> [0..MaxGeneration -> Nat]]
      /\ new \in [Operations -> [0..MaxGeneration -> Nat]]
      /\ o \in Operations /\ g \in 0..MaxGeneration /\ amount \in Nat
      /\ new[o][g] = given[o][g] + amount
      /\ \A q \in Operations, h \in 0..MaxGeneration :
           <<q, h>> # <<o, g>> => new[q][h] = given[q][h]
  BY DEF Raises
<1>1. w \in Wallet /\ V \in Weights /\ W \in Weights
  BY <1>0, ReturnedWeighs DEF Neat
<1>2. ASSUME NEW row \in CreditEntry, row.key # key
      PROVE  W[row] = V[row]
  <2>1. CASE row.key \in ChargeKeys
    <3>1. PICK q \in Operations, h \in 0..MaxGeneration :
            row.key = <<"charge", <<q, h>>>>
      BY <2>1, ChargeKeysAre
    <3>2. <<q, h>> # <<o, g>>
      BY <1>2, <3>1
    <3>3. W[row] = new[q][h] /\ V[row] = given[q][h]
      BY <1>0, <3>1, ReturnedWeighs
    <3> QED BY <1>0, <3>2, <3>3
  <2>2. CASE row.key \notin ChargeKeys
    BY <1>0, <2>2, ReturnedWeighs
  <2> QED BY <2>1, <2>2
<1>3. ASSUME NEW row \in CreditEntry, row.key = key
      PROVE  W[row] = V[row] + amount
  BY <1>0, <1>3, ReturnedWeighs
<1> HIDE DEF V, W, key
<1>4. \A i \in DOMAIN w.entries : w.entries[i] \in CreditEntry
  BY <1>1, StatementRows
<1>5. ASSUME key \notin KeysOf(w)
      PROVE  Weighed(w, W) = Weighed(w, V)
  <2>1. \A i \in DOMAIN w.entries : w.entries[i].key # key
    BY <1>5 DEF KeysOf
  <2> QED BY <1>1, <1>2, <1>4, <2>1, WeighedSame
<1>6. ASSUME key \in KeysOf(w)
      PROVE  Weighed(w, W) = Weighed(w, V) + amount
  <2>1. PICK i \in DOMAIN w.entries : w.entries[i].key = key
    BY <1>6 DEF KeysOf
  <2>2. \A j \in DOMAIN w.entries \ {i} : w.entries[j].key # key
    BY <2>1 DEF Neat
  <2> DEFINE f == [j \in DOMAIN w.entries |-> V[w.entries[j]]]
             h == [j \in DOMAIN w.entries |-> W[w.entries[j]]]
  <2>3. Summable(f)
    BY <1>1, WeighedSummable
  <2>4. /\ V[w.entries[i]] \in Int /\ W[w.entries[i]] \in Int
        /\ W[w.entries[i]] = V[w.entries[i]] + amount
    BY <1>1, <1>3, <1>4, <2>1 DEF Weights
  <2>5. /\ i \in DOMAIN f /\ DOMAIN h = DOMAIN f
        /\ f[i] = V[w.entries[i]] /\ h[i] = W[w.entries[i]]
    OBVIOUS
  <2>6. ASSUME NEW j \in DOMAIN f \ {i}
        PROVE  h[j] = f[j]
    <3>1. w.entries[j] \in CreditEntry /\ w.entries[j].key # key
      BY <1>4, <2>2
    <3>2. W[w.entries[j]] = V[w.entries[j]]
      BY <1>2, <3>1
    <3> QED BY <3>2
  <2> HIDE DEF f, h
  <2>7. SumFunction(h) = SumFunction(f) + (h[i] - f[i])
    BY <2>3, <2>4, <2>5, <2>6, SumChanged
  <2>8. h[i] - f[i] = amount
    BY <1>0, <2>4, <2>5
  <2> QED BY <2>7, <2>8 DEF f, h, Weighed
<1> QED BY <1>5, <1>6 DEF V, W, key

\* The charge of a running operation is not written yet: nothing is refunded
\* of it.
LEMMA UnchargedUnrefunded ==
  ASSUME IInv, LedgerKeys, RefundsMatch, NEW o \in Operations,
         operation[o].status = "reserved", operation[o].generation \in 0..MaxGeneration
  PROVE  refunded[o][operation[o].generation] = 0
<1> DEFINE g == operation[o].generation
<1>1. SUFFICES ASSUME refunded[o][g] # 0
               PROVE  FALSE
  OBVIOUS
<1>2. PICK u \in Users : <<"charge", <<o, g>>>> \in KeysOf(wallet[u])
  BY <1>1 DEF RefundsMatch
<1>3. Known(u, <<"charge", <<o, g>>>>)
  BY <1>2 DEF LedgerKeys
<1>4. g \in Nat
  OBVIOUS
<1>5. g < g \/ operation[o].status = "settled"
  BY <1>3, <1>4 DEF Known
<1> QED BY <1>4, <1>5

LEMMA SettleMatches ==
  ASSUME IInv, IInv', LedgerKeys, RefundsMatch, NEW o \in Operations,
         NEW total \in 0..operation[o].authorized, Settle(o, total)
  PROVE  RefundsMatch'
<1> DEFINE W == ReturnedWeight(refunded)
           c == <<"charge", <<o, operation[o].generation>>>>
           e == <<"release", <<o, operation[o].generation>>>>
<1>0. /\ refunded \in [Operations -> [0..MaxGeneration -> Nat]]
      /\ refunded' = refunded
      /\ operation[o].status = "reserved"
  BY DEF IInv, TypeOK, Settle
<1>1. PICK u \in Users, x \in Wallet :
        /\ \A v \in Users \ {u} : wallet'[v] = wallet[v]
        /\ x = wallet[u] \/ \E row : Follows(wallet[u], x, row) /\ row.key = c
        /\ wallet'[u] = x \/ \E row : Follows(x, wallet'[u], row) /\ row.key = e
  BY SettleFollows
<1>2. ASSUME NEW row \in CreditEntry, row.key = c
      PROVE  /\ W[row] = 0 /\ RefundWeight[row] = 0
             /\ \A q \in Operations, g \in 0..MaxGeneration :
                  row.key = <<"charge", <<q, g>>>> => refunded[q][g] <= row.amount
  <2>1. ASSUME NEW q \in Operations, NEW g \in 0..MaxGeneration,
               row.key = <<"charge", <<q, g>>>>
        PROVE  W[row] = 0 /\ refunded[q][g] <= row.amount
    <3>1. q = o /\ g = operation[o].generation
      BY <1>2, <2>1
    <3>2. refunded[q][g] = 0
      BY <1>0, <3>1, UnchargedUnrefunded
    <3>3. W[row] = 0
      BY <1>0, <2>1, <3>2, ReturnedWeighs
    <3>4. row.amount \in Nat
      BY DEF CreditEntry
    <3> QED BY <3>2, <3>3, <3>4
  <2>2. W[row] = 0
    <3>1. CASE row.key \in ChargeKeys
      <4>1. PICK q \in Operations, g \in 0..MaxGeneration :
              row.key = <<"charge", <<q, g>>>>
        BY <3>1, ChargeKeysAre
      <4> QED BY <2>1, <4>1
    <3>2. CASE row.key \notin ChargeKeys
      BY <1>0, <3>2, ReturnedWeighs
    <3> QED BY <3>1, <3>2
  <2>3. RefundWeight[row] = 0
    BY <1>2, RefundWeighs
  <2> QED BY <2>1, <2>2, <2>3
<1>3. ASSUME NEW row \in CreditEntry, row.key = e
      PROVE  W[row] = 0 /\ RefundWeight[row] = 0
  BY <1>0, <1>3, ReturnedWeighs, RefundWeighs
<1>4. W \in BlindWeights /\ RefundWeight \in BlindWeights /\ BlindWeights \subseteq Weights
  BY <1>0, ReturnedWeighs, RefundWeighs DEF BlindWeights
<1>5. wallet[u] \in Wallet /\ wallet'[u] \in Wallet
  BY DEF IInv, TypeOK
<1> HIDE DEF W
<1>6. ASSUME NEW weight \in BlindWeights,
             \A row \in CreditEntry : row.key \in {c, e} => weight[row] = 0
      PROVE  Weighed(wallet'[u], weight) = Weighed(wallet[u], weight)
  <2>1. Weighed(wallet[u], weight) \in Int /\ Weighed(x, weight) \in Int
    BY <1>4, <1>5, WeighedSummable
  <2>2. Weighed(x, weight) = Weighed(wallet[u], weight)
    <3>1. CASE \E row : Follows(wallet[u], x, row) /\ row.key = c
      <4>1. PICK row : Follows(wallet[u], x, row) /\ row.key = c
        BY <3>1
      <4>2. /\ Weighed(x, weight) = Weighed(wallet[u], weight) + weight[row]
            /\ row \in CreditEntry
        BY <4>1 DEF Follows
      <4>3. weight[row] = 0
        BY <1>6, <4>1, <4>2
      <4> QED BY <2>1, <4>2, <4>3
    <3> QED BY <1>1, <3>1
  <2>3. Weighed(wallet'[u], weight) = Weighed(x, weight)
    <3>1. CASE \E row : Follows(x, wallet'[u], row) /\ row.key = e
      <4>1. PICK row : Follows(x, wallet'[u], row) /\ row.key = e
        BY <3>1
      <4>2. /\ Weighed(wallet'[u], weight) = Weighed(x, weight) + weight[row]
            /\ row \in CreditEntry
        BY <4>1 DEF Follows
      <4>3. weight[row] = 0
        BY <1>6, <4>1, <4>2
      <4> QED BY <2>1, <4>2, <4>3
    <3> QED BY <1>1, <3>1
  <2> QED BY <2>2, <2>3
<1>7. ASSUME NEW v \in Users
      PROVE  /\ Weighed(wallet'[v], W) = Weighed(wallet[v], W)
             /\ Weighed(wallet'[v], RefundWeight) = Weighed(wallet[v], RefundWeight)
  BY <1>1, <1>2, <1>3, <1>4, <1>6
<1>8. ASSUME NEW row \in RowsOf(wallet'[u])
      PROVE  \/ row \in RowsOf(wallet[u])
             \/ row.key = c
             \/ row.key[1] # "charge"
  <2>1. row \in RowsOf(x) \/ row.key[1] # "charge"
    BY <1>1, <1>8 DEF Follows
  <2>2. ASSUME row \in RowsOf(x)
        PROVE  row \in RowsOf(wallet[u]) \/ row.key = c \/ row.key[1] # "charge"
    BY <1>1, <2>2 DEF Follows
  <2> QED BY <2>1, <2>2
<1>9. ASSUME NEW v \in Users, NEW row \in RowsOf(wallet'[v]),
             NEW q \in Operations, NEW g \in 0..MaxGeneration,
             row.key = <<"charge", <<q, g>>>>
      PROVE  refunded[q][g] <= row.amount
  <2>1. CASE row \in RowsOf(wallet[v])
    BY <1>9, <2>1 DEF RefundsMatch
  <2>2. CASE row \notin RowsOf(wallet[v])
    <3>1. v = u
      BY <1>1, <1>9, <2>2
    <3>2. row.key[1] = "charge"
      BY <1>9
    <3>3. row.key = c /\ row \in CreditEntry
      BY <1>5, <1>8, <1>9, <2>2, <3>1, <3>2, RowsTyped
    <3> QED BY <1>2, <1>9, <3>3
  <2> QED BY <2>1, <2>2
<1>10. \A v \in Users : KeysOf(wallet[v]) \subseteq KeysOf(wallet'[v])
  <2>1. RowsOf(wallet[u]) \subseteq RowsOf(wallet'[u])
    BY <1>1 DEF Follows
  <2>2. KeysOf(wallet[u]) \subseteq KeysOf(wallet'[u])
    BY <1>5, <2>1, RowsTyped
  <2> QED BY <1>1, <2>2
<1>11. \A v \in Users : Weighed(wallet'[v], RefundWeight) = Weighed(wallet'[v], W)
  BY <1>7 DEF RefundsMatch, W
<1> QED BY <1>0, <1>9, <1>10, <1>11 DEF RefundsMatch, W

LEMMA RefundMatches ==
  ASSUME IInv, IInv', LedgerKeys, LedgerKeys', RefundsMatch, NEW o \in Operations,
         NEW g \in 0..MaxGeneration, NEW k \in RefundKeys,
         NEW amount \in RefundAmounts, Refund(o, g, k, amount)
  PROVE  RefundsMatch'
<1> DEFINE V == ReturnedWeight(refunded)
           W == ReturnedWeight(refunded')
           c == <<"charge", <<o, g>>>>
<1>0. /\ refunded \in [Operations -> [0..MaxGeneration -> Nat]]
      /\ refunded' \in [Operations -> [0..MaxGeneration -> Nat]]
      /\ amount \in Nat
  BY AmountsAssumption DEF IInv, TypeOK
<1>1. PICK u, row : /\ u = operation[o].userId
                    /\ Inscribes(u, row)
                    /\ Says(row, <<"refund", k>>, "refund", amount, amount)
                    /\ Opened(u) = wallet[u]
  BY RefundInscribes
<1>2. /\ u \in Users /\ row \in CreditEntry
      /\ Follows(wallet[u], wallet'[u], row)
      /\ row.key = <<"refund", k>> /\ row.amount = amount
      /\ \A v \in Users \ {u} : wallet'[v] = wallet[v]
  BY <1>1 DEF Inscribes, Follows, Says
<1>3. \A v \in Users : wallet[v] \in Wallet /\ wallet'[v] \in Wallet
  BY DEF IInv, TypeOK
<1>4. /\ refunded'[o][g] = refunded[o][g] + amount
      /\ \A q \in Operations, h \in 0..MaxGeneration :
           <<q, h>> # <<o, g>> => refunded'[q][h] = refunded[q][h]
  BY <1>0 DEF Refund
<1>5. PICK i \in DOMAIN wallet[u].entries :
        /\ wallet[u].entries[i].key = c
        /\ refunded[o][g] + amount <= wallet[u].entries[i].amount
  BY <1>1 DEF Refund, Refundable
<1>6. /\ V \in BlindWeights /\ W \in BlindWeights /\ RefundWeight \in BlindWeights
      /\ V \in Weights /\ W \in Weights /\ RefundWeight \in Weights
  BY <1>0, ReturnedWeighs, RefundWeighs
<1>7. \A v \in Users : KeysOf(wallet[v]) \subseteq KeysOf(wallet'[v])
  <2>1. KeysOf(wallet[u]) \subseteq KeysOf(wallet'[u])
    <3>1. RowsOf(wallet[u]) \subseteq RowsOf(wallet'[u])
      BY <1>2 DEF Follows
    <3> QED BY <1>2, <1>3, <3>1, RowsTyped
  <2> QED BY <1>2, <2>1
<1>8. c \in KeysOf(wallet[u])
  BY <1>5 DEF KeysOf
<1>9. \A v \in Users \ {u} : c \notin KeysOf(wallet[v])
  BY <1>2, <1>8 DEF LedgerKeys
<1>10. ASSUME NEW w, Neat(w)
       PROVE  /\ c \in KeysOf(w) => Weighed(w, W) = Weighed(w, V) + amount
              /\ c \notin KeysOf(w) => Weighed(w, W) = Weighed(w, V)
  <2>1. Raises(refunded, refunded', o, g, amount)
    BY <1>0, <1>4 DEF Raises
  <2> QED BY <1>10, <2>1, ReturnedRises
<1>11. Weighed(wallet'[u], RefundWeight) = Weighed(wallet'[u], W)
  <2>1. Weighed(wallet'[u], RefundWeight) =
          Weighed(wallet[u], RefundWeight) + RefundWeight[row]
    BY <1>2, <1>6 DEF Follows
  <2>2. Weighed(wallet'[u], W) = Weighed(wallet[u], W) + W[row]
    BY <1>2, <1>6 DEF Follows
  <2>3. RefundWeight[row] = amount /\ W[row] = 0
    BY <1>0, <1>2, RefundWeighs, ReturnedWeighs
  <2>4. Neat(wallet[u])
    BY <1>2 DEF LedgerKeys
  <2>5. Weighed(wallet[u], W) = Weighed(wallet[u], V) + amount
    BY <1>8, <1>10, <2>4
  <2>6. Weighed(wallet[u], RefundWeight) = Weighed(wallet[u], V)
    BY <1>2 DEF RefundsMatch
  <2>7. Weighed(wallet[u], V) \in Int
    BY <1>2, <1>3, <1>6, WeighedSummable
  <2> HIDE DEF V, W
  <2> QED BY <1>0, <2>1, <2>2, <2>3, <2>5, <2>6, <2>7
<1>12. ASSUME NEW v \in Users \ {u}
       PROVE  Weighed(wallet'[v], RefundWeight) = Weighed(wallet'[v], W)
  <2>1. Neat(wallet[v])
    BY DEF LedgerKeys
  <2>2. Weighed(wallet[v], W) = Weighed(wallet[v], V)
    BY <1>9, <1>10, <2>1
  <2> QED BY <1>2, <2>2 DEF RefundsMatch
<1>13. ASSUME NEW v \in Users, NEW y \in RowsOf(wallet'[v]),
              NEW q \in Operations, NEW h \in 0..MaxGeneration,
              y.key = <<"charge", <<q, h>>>>
       PROVE  refunded'[q][h] <= y.amount
  <2>1. y.key[1] = "charge"
    BY <1>13
  <2>2. y \in RowsOf(wallet[v])
    <3>1. CASE v = u
      <4>1. y \in RowsOf(wallet[u]) \/ y = row \/ y.key = <<"debt", row.key>>
        BY <1>2, <1>13, <3>1 DEF Follows
      <4> QED BY <1>2, <2>1, <3>1, <4>1
    <3>2. CASE v # u
      BY <1>2, <1>13, <3>2
    <3> QED BY <3>1, <3>2
  <2>3. CASE <<q, h>> # <<o, g>>
    BY <1>4, <1>13, <2>2, <2>3 DEF RefundsMatch
  <2>4. CASE <<q, h>> = <<o, g>>
    <3>1. y.key = c
      BY <1>13, <2>4
    <3>2. c \in KeysOf(wallet[v])
      BY <1>3, <2>2, <3>1, RowsTyped
    <3>3. v = u
      BY <1>9, <3>2
    <3>4. PICK j \in DOMAIN wallet[u].entries : y = wallet[u].entries[j]
      BY <2>2, <3>3 DEF RowsOf
    <3>5. j = i
      BY <1>2, <1>5, <3>1, <3>4 DEF LedgerKeys, Neat
    <3>6. refunded'[o][g] <= y.amount
      BY <1>4, <1>5, <3>4, <3>5
    <3>7. q = o /\ h = g
      BY <2>4
    <3> QED BY <3>6, <3>7
  <2> QED BY <2>3, <2>4
<1>14. ASSUME NEW q \in Operations, NEW h \in 0..MaxGeneration,
              refunded'[q][h] # 0
       PROVE  \E v \in Users : <<"charge", <<q, h>>>> \in KeysOf(wallet'[v])
  <2>1. CASE <<q, h>> # <<o, g>>
    <3>1. refunded[q][h] # 0
      BY <1>4, <1>14, <2>1
    <3>2. PICK v \in Users : <<"charge", <<q, h>>>> \in KeysOf(wallet[v])
      BY <3>1 DEF RefundsMatch
    <3> QED BY <1>7, <3>2
  <2>2. CASE <<q, h>> = <<o, g>>
    BY <1>2, <1>7, <1>8, <2>2
  <2> QED BY <2>1, <2>2
<1>15. \A v \in Users : Weighed(wallet'[v], RefundWeight) = Weighed(wallet'[v], W)
  BY <1>11, <1>12
<1> QED BY <1>13, <1>14, <1>15 DEF RefundsMatch

LEMMA InitMatch == Init => RefundsMatch
<1> SUFFICES ASSUME Init PROVE RefundsMatch
  OBVIOUS
<1>1. /\ \A u \in Users : wallet[u].entries = <<>>
      /\ \A o \in Operations, g \in 0..MaxGeneration : refunded[o][g] = 0
      /\ refunded \in [Operations -> [0..MaxGeneration -> Nat]]
  BY DEF Init
<1>2. \A u \in Users : wallet[u] \in Wallet
  BY InitIInv DEF IInv, TypeOK
<1>3. ASSUME NEW u \in Users
      PROVE  /\ RowsOf(wallet[u]) = {}
             /\ Weighed(wallet[u], RefundWeight) = 0
             /\ Weighed(wallet[u], ReturnedWeight(refunded)) = 0
  <2>1. DOMAIN wallet[u].entries = {}
    BY <1>1
  <2> QED BY <1>1, <1>2, <2>1, WeighedNothing, RefundWeighs, ReturnedWeighs
          DEF RowsOf
<1> QED BY <1>1, <1>3 DEF RefundsMatch

LEMMA NextMatch ==
  IInv /\ IInv' /\ LedgerKeys /\ LedgerKeys' /\ RefundsMatch /\ [Next]_vars
  => RefundsMatch'
<1> SUFFICES ASSUME IInv, IInv', LedgerKeys, LedgerKeys', RefundsMatch,
                    [Next]_vars
             PROVE  RefundsMatch'
  OBVIOUS
<1>0. ASSUME NEW u, NEW row, Inscribes(u, row), refunded' = refunded,
             row.key[1] \in {"payment", "paddle-adjustment", "paddle-restoration"}
      PROVE  RefundsMatch'
  <2> DEFINE K == {"debt", "opening", "payment", "paddle-adjustment",
                   "paddle-restoration"}
  <2>1. /\ "debt" \in K /\ "opening" \in K /\ row.key[1] \in K
        /\ "charge" \notin K /\ "refund" \notin K
    BY <1>0
  <2> HIDE DEF K
  <2>2. Touches(K)
    BY <1>0, <2>1, InscribesTouches
  <2> QED BY <1>0, <2>1, <2>2, UnrefundedMatch
<1>1. CASE /\ refunded' = refunded
           /\ Touches({"debt", "opening", "reserve", "adjust"})
  <2> DEFINE K == {"debt", "opening", "reserve", "adjust"}
  <2>1. "charge" \notin K /\ "refund" \notin K /\ Touches(K)
    BY <1>1
  <2> HIDE DEF K
  <2> QED BY <1>1, <2>1, UnrefundedMatch
<1>2. ASSUME NEW o \in Operations, NEW total \in 0..operation[o].authorized,
             Settle(o, total)
      PROVE  RefundsMatch'
  BY <1>2, SettleMatches
<1>3. ASSUME NEW u \in Users, NEW p \in Payments, NEW credits \in PackSizes,
             PackPayment(u, p, credits)
      PROVE  RefundsMatch'
  <2>1. PICK row : Inscribes(u, row) /\ row.key = <<"payment", p>>
    BY <1>3, PackInscribes DEF Says
  <2> QED BY <1>0, <1>3, <2>1 DEF PackPayment
<1>4. ASSUME NEW u \in Users, NEW p \in Payments,
             NEW allocation \in Allocations, NEW c \in Cycles,
             GrantSubscriptionCycle(u, p, allocation, c)
      PROVE  RefundsMatch'
  <2>1. PICK row : Inscribes(u, row) /\ row.key = <<"payment", p>>
    BY <1>4, GrantInscribes DEF Says
  <2> QED BY <1>0, <1>4, <2>1 DEF GrantSubscriptionCycle
<1>5. ASSUME NEW u \in Users, NEW p \in Payments,
             NEW allocation \in Allocations, NEW c \in Cycles \cup {None},
             AdoptLegacyPayment(u, p, allocation, c)
      PROVE  RefundsMatch'
  <2>1. PICK row : Inscribes(u, row) /\ row.key = <<"payment", p>>
    BY <1>5, AdoptInscribes DEF Says
  <2> QED BY <1>0, <1>5, <2>1 DEF AdoptLegacyPayment
<1>6. ASSUME NEW p \in Payments, NEW a \in Adjustments,
             NEW share \in ReversalShares(payment[p].granted),
             ReversePayment(p, a, share)
      PROVE  RefundsMatch'
  <2>1. PICK row : /\ Inscribes(payment[p].userId, row)
                   /\ row.key = <<"paddle-adjustment", a>>
    BY <1>6, ReverseInscribes
  <2> QED BY <1>0, <1>6, <2>1 DEF ReversePayment
<1>7. ASSUME NEW a \in Adjustments, RestorePaymentAdjustment(a)
      PROVE  RefundsMatch'
  <2>1. PICK row : /\ Inscribes(payment[adjustment[a].payment].userId, row)
                   /\ row.key = <<"paddle-restoration", a>>
    BY <1>7, RestoreInscribes
  <2> QED BY <1>0, <1>7, <2>1 DEF RestorePaymentAdjustment
<1>8. ASSUME NEW o \in Operations, NEW g \in 0..MaxGeneration,
             NEW k \in RefundKeys, NEW amount \in RefundAmounts,
             Refund(o, g, k, amount)
      PROVE  RefundsMatch'
  BY <1>8, RefundMatches
<1> QED BY <1>1, <1>2, <1>3, <1>4, <1>5, <1>6, <1>7, <1>8, StepKinds

LEMMA MatchInvariance == Spec => []RefundsMatch
<1> QED BY InitMatch, NextMatch, Invariance, KeysInvariance, PTL DEF Spec

\* What service refunds give back to an account never exceeds what it was
\* charged for delivered work.
THEOREM RefundsStayWithinCharges == Spec => []RefundsWithinCharges
<1>1. IInv /\ LedgerKeys /\ RefundsMatch => RefundsWithinCharges
  <2> SUFFICES ASSUME IInv, LedgerKeys, RefundsMatch, NEW u \in Users
               PROVE  SumRows(u, LAMBDA row :
                                   IF row.key[1] = "refund"
                                   THEN row.amount ELSE 0)
                        <= SumRows(u, LAMBDA row :
                                        IF row.type = "charge"
                                        THEN row.amount ELSE 0)
    BY DEF RefundsWithinCharges
  <2> DEFINE W == ReturnedWeight(refunded)
             rows == wallet[u].entries
             a == [i \in DOMAIN rows |->
                     IF rows[i].key[1] = "refund" THEN rows[i].amount ELSE 0]
             b == [i \in DOMAIN rows |->
                     IF rows[i].type = "charge" THEN rows[i].amount ELSE 0]
             d == [i \in DOMAIN rows |-> RefundWeight[rows[i]]]
             e == [i \in DOMAIN rows |-> W[rows[i]]]
  <2>1. /\ wallet[u] \in Wallet
        /\ \A i \in DOMAIN rows : rows[i] \in CreditEntry
        /\ IsFiniteSet(DOMAIN rows)
    BY WalletFunction, StatementRows
  <2>2. SumRows(u, LAMBDA row : IF row.key[1] = "refund"
                                THEN row.amount ELSE 0) = SumFunction(a)
    BY DEF SumRows
  <2>3. SumRows(u, LAMBDA row : IF row.type = "charge"
                                THEN row.amount ELSE 0) = SumFunction(b)
    BY DEF SumRows
  <2>4. a = d
    BY <2>1, RefundWeighs
  <2>5. SumFunction(d) = SumFunction(e)
    BY DEF RefundsMatch, Weighed
  <2>6. refunded \in [Operations -> [0..MaxGeneration -> Nat]]
    BY DEF IInv, TypeOK
  <2>7. \A i \in DOMAIN rows : W[rows[i]] <= (IF rows[i].type = "charge"
                                              THEN rows[i].amount ELSE 0)
    <3> SUFFICES ASSUME NEW i \in DOMAIN rows
                 PROVE  W[rows[i]] <= (IF rows[i].type = "charge"
                                       THEN rows[i].amount ELSE 0)
      OBVIOUS
    <3>0. rows[i] \in CreditEntry /\ rows[i].amount \in Nat
      BY <2>1 DEF CreditEntry
    <3>1. CASE rows[i].key \in ChargeKeys
      <4>1. PICK o \in Operations, g \in 0..MaxGeneration :
              rows[i].key = <<"charge", <<o, g>>>>
        BY <3>1, ChargeKeysAre
      <4>2. W[rows[i]] = refunded[o][g]
        BY <2>6, <3>0, <4>1, ReturnedWeighs
      <4>3. refunded[o][g] <= rows[i].amount
        BY <4>1 DEF RefundsMatch, RowsOf
      <4>4. rows[i].key[1] = "charge"
        BY <4>1
      <4>5. rows[i].type = "charge"
        BY <4>4 DEF LedgerKeys, Neat, Lawful
      <4> QED BY <4>2, <4>3, <4>5
    <3>2. CASE rows[i].key \notin ChargeKeys
      <4>1. W[rows[i]] = 0
        BY <2>6, <3>0, <3>2, ReturnedWeighs
      <4> QED BY <3>0, <4>1
    <3> QED BY <3>1, <3>2
  <2>8. /\ DOMAIN e = DOMAIN rows /\ DOMAIN b = DOMAIN rows
        /\ \A i \in DOMAIN b : b[i] \in Nat
        /\ \A i \in DOMAIN e : e[i] <= b[i]
    BY <2>1, <2>7 DEF CreditEntry
  <2>9. Summable(e)
    BY <2>1, <2>6, ReturnedWeighs, WeighedSummable
  <2> HIDE DEF a, b, d, e
  <2>10. Summable(b)
    BY <2>1, <2>8, SumNatural
  <2>11. SumFunction(e) <= SumFunction(b)
    BY <2>8, <2>9, <2>10, SumMonotone
  <2> QED BY <2>2, <2>3, <2>4, <2>5, <2>11
<1> QED BY <1>1, Invariance, KeysInvariance, MatchInvariance, PTL

-----------------------------------------------------------------------------
(* What the payments of one cycle bring together *)

\* A finite set of numbers has a largest one.
LEMMA LargestExists ==
  ASSUME NEW D, IsFiniteSet(D), D # {}, NEW f, \A x \in D : f[x] \in Int
  PROVE  \E m \in D : \A x \in D : f[x] <= f[m]
<1> DEFINE above(x) == {y \in D : f[y] > f[x]}
           T == {above(x) : x \in D}
<1>0. T \subseteq SUBSET D
  OBVIOUS
<1>1. T # {}
  <2>1. PICK x \in D : TRUE
    OBVIOUS
  <2>2. above(x) \in T
    OBVIOUS
  <2> QED BY <2>2
<1> HIDE DEF T
<1>2. PICK s \in T : \A t \in T : t \subseteq s => t = s
  BY <1>0, <1>1, MinimalSet
<1> USE DEF T
<1>3. PICK m \in D : s = above(m)
  OBVIOUS
<1>4. ASSUME NEW y \in D, f[y] > f[m]
      PROVE  FALSE
  <2>1. above(y) \subseteq above(m)
    BY <1>4
  <2>2. y \in above(m) /\ y \notin above(y)
    BY <1>4
  <2>3. above(y) \in T
    OBVIOUS
  <2> QED BY <1>2, <1>3, <2>1, <2>2, <2>3
<1>5. \A x \in D : f[x] <= f[m]
  BY <1>4
<1> QED BY <1>5

\* The row of a payment weighs what the payment brought.
BroughtWeight(p) ==
  [row \in CreditEntry |->
     IF row.key = <<"payment", p>> THEN row.availableDelta ELSE 0]

Brought(u, p) == Weighed(wallet[u], BroughtWeight(p))

\* The payments of a cycle of an account.
Mine(u, c) ==
  {p \in Payments : payment[p].userId = u /\ payment[p].cycle = c}

Together(u, c) == SumFunction([p \in Mine(u, c) |-> Brought(u, p)])

\* The payments of a cycle bring at most what the cycle was granted, and never
\* more than one of them allocates.
CyclesCapped ==
  \A u \in Users, c \in Cycles :
    /\ Together(u, c) <= cycleGranted[u][c]
    /\ Mine(u, c) # {} =>
         \E p \in Mine(u, c) : Together(u, c) <= payment[p].allocation

LEMMA BroughtWeighs ==
  ASSUME NEW p
  PROVE  /\ BroughtWeight(p) \in Weights
         /\ BroughtWeight(p) \in BlindWeights
         /\ \A row \in CreditEntry :
              BroughtWeight(p)[row] =
                IF row.key = <<"payment", p>> THEN row.availableDelta ELSE 0
<1>1. \A row \in CreditEntry :
        BroughtWeight(p)[row] =
          IF row.key = <<"payment", p>> THEN row.availableDelta ELSE 0
  BY DEF BroughtWeight
<1>2. BroughtWeight(p) \in Weights
  BY DEF BroughtWeight, Weights, CreditEntry
<1>3. \A row \in CreditEntry :
        row.key[1] = "debt" => row.key # <<"payment", p>>
  OBVIOUS
<1> QED BY <1>1, <1>2, <1>3 DEF BlindWeights

LEMMA TogetherSummable ==
  ASSUME IInv, NEW u \in Users, NEW c
  PROVE  /\ Summable([p \in Mine(u, c) |-> Brought(u, p)])
         /\ Together(u, c) \in Int
         /\ IsFiniteSet(Mine(u, c))
<1> DEFINE f == [p \in Mine(u, c) |-> Brought(u, p)]
<1>1. IsFiniteSet(Mine(u, c))
  <2>1. Mine(u, c) \subseteq Payments
    BY DEF Mine
  <2> QED BY <2>1, FiniteAssumption, FS_Subset
<1>2. wallet[u] \in Wallet
  BY WalletFunction
<1>3. \A p \in DOMAIN f : f[p] \in Int
  BY <1>2, BroughtWeighs, WeighedSummable DEF Brought
<1>4. IsFiniteSet(DOMAIN f)
  BY <1>1
<1> HIDE DEF f
<1>5. Summable(f)
  BY <1>3, <1>4 DEF Summable, IntOn
<1>6. SumFunction(f) \in Int
  BY <1>5, SumInt
<1> QED BY <1>1, <1>5, <1>6 DEF f, Together

\* A step that writes no row of a payment leaves the cycles alone.
LEMMA UnpaidCapped ==
  ASSUME CyclesCapped, NEW K, Touches(K), "payment" \notin K,
         payment' = payment, cycleGranted' = cycleGranted
  PROVE  CyclesCapped'
<1>1. \A u \in Users : \A p : Brought(u, p)' = Brought(u, p)
  <2> SUFFICES ASSUME NEW u \in Users, NEW p
               PROVE  Brought(u, p)' = Brought(u, p)
    OBVIOUS
  <2>1. \A row \in CreditEntry :
          row.key[1] \in K => row.key # <<"payment", p>>
    OBVIOUS
  <2>2. \A row \in CreditEntry : row.key[1] \in K => BroughtWeight(p)[row] = 0
    BY <2>1, BroughtWeighs
  <2> QED BY <2>2, BroughtWeighs DEF Brought, Touches
<1>2. \A u, c : Mine(u, c)' = Mine(u, c)
  BY DEF Mine
<1>3. \A u \in Users : \A c : Together(u, c)' = Together(u, c)
  <2> SUFFICES ASSUME NEW u \in Users, NEW c
               PROVE  Together(u, c)' = Together(u, c)
    OBVIOUS
  <2>1. [p \in Mine(u, c) |-> Brought(u, p)'] = [p \in Mine(u, c) |-> Brought(u, p)]
    BY <1>1
  <2> QED BY <1>2, <2>1 DEF Together
<1> QED BY <1>2, <1>3 DEF CyclesCapped

\* The payment p of cycle d of u is processed, and brings n.
Pays(u, p, d, n) ==
  /\ u \in Users /\ p \in Payments
  /\ Fresh(<<"payment", p>>)
  /\ \E row : /\ Inscribes(u, row)
              /\ row.key = <<"payment", p>> /\ row.availableDelta = n
  /\ payment'[p].userId = u /\ payment'[p].cycle = d
  /\ \A q \in Payments \ {p} : payment'[q] = payment[q]

LEMMA PaysBrings ==
  ASSUME IInv, LedgerKeys, NEW u, NEW p, NEW d, NEW n, Pays(u, p, d, n)
  PROVE  /\ Brought(u, p)' = n
         /\ \A v \in Users : \A q : q # p => Brought(v, q)' = Brought(v, q)
<1>1. PICK row : /\ Inscribes(u, row)
                 /\ row.key = <<"payment", p>> /\ row.availableDelta = n
  BY DEF Pays
<1>2. /\ u \in Users /\ row \in CreditEntry
      /\ Follows(Opened(u), wallet'[u], row)
      /\ \A v \in Users \ {u} : wallet'[v] = wallet[v]
  BY <1>1 DEF Inscribes, Follows
<1>3. ASSUME NEW q
      PROVE  /\ Brought(u, q)' = Brought(u, q) + BroughtWeight(q)[row]
             /\ Brought(u, q) \in Int
  <2> DEFINE K == {"debt", "opening"}
             W == BroughtWeight(q)
  <2>1. \A x \in CreditEntry : x.key[1] \in K => x.key # <<"payment", q>>
    OBVIOUS
  <2>2. /\ W \in Weights /\ W \in BlindWeights
        /\ \A x \in CreditEntry : x.key[1] \in K => W[x] = 0
    BY <2>1, BroughtWeighs
  <2>3. "debt" \in K /\ "opening" \in K
    OBVIOUS
  <2> HIDE DEF K, W
  <2>4. Weighed(Opened(u), W) = Weighed(wallet[u], W)
    BY <1>2, <2>2, <2>3, OpenedTouches
  <2>5. Weighed(wallet'[u], W) = Weighed(Opened(u), W) + W[row]
    BY <1>2, <2>2 DEF Follows
  <2>6. wallet[u] \in Wallet
    BY <1>2, WalletFunction
  <2>7. Weighed(wallet[u], W) \in Int
    BY <2>2, <2>6, WeighedSummable
  <2> QED BY <2>4, <2>5, <2>7 DEF Brought, W
<1>4. Brought(u, p) = 0
  <2>1. <<"payment", p>> \notin KeysOf(wallet[u])
    BY <1>2, FreshKeys DEF Pays
  <2>2. wallet[u] \in Wallet
    BY <1>2, WalletFunction
  <2>3. \A i \in DOMAIN wallet[u].entries :
          /\ wallet[u].entries[i] \in CreditEntry
          /\ wallet[u].entries[i].key # <<"payment", p>>
    BY <2>1, <2>2, StatementRows DEF KeysOf
  <2>4. \A i \in DOMAIN wallet[u].entries :
          BroughtWeight(p)[wallet[u].entries[i]] = 0
    BY <2>3, BroughtWeighs
  <2> QED BY <2>2, <2>4, BroughtWeighs, WeighedNothing DEF Brought
<1>5. BroughtWeight(p)[row] = n /\ n \in Int
  BY <1>1, <1>2, BroughtWeighs DEF CreditEntry
<1>6. ASSUME NEW q, q # p
      PROVE  Brought(u, q)' = Brought(u, q)
  <2>1. BroughtWeight(q)[row] = 0
    BY <1>1, <1>2, <1>6, BroughtWeighs
  <2> QED BY <1>3, <2>1
<1>7. \A v \in Users \ {u} : \A q : Brought(v, q)' = Brought(v, q)
  BY <1>2 DEF Brought
<1>8. Brought(u, p)' = n
  BY <1>3, <1>4, <1>5
<1> QED BY <1>6, <1>7, <1>8

\* A payment joins its cycle with what it brings; other cycles stay.
LEMMA PaysJoins ==
  ASSUME IInv, LedgerKeys, NEW u, NEW p, NEW d, NEW n \in Int,
         Pays(u, p, d, n), NEW v \in Users, NEW c
  PROVE  /\ <<v, c>> # <<u, d>> =>
              /\ Mine(v, c)' = Mine(v, c)
              /\ Together(v, c)' = Together(v, c)
         /\ <<v, c>> = <<u, d>> =>
              /\ Mine(v, c)' = Mine(v, c) \cup {p}
              /\ Together(v, c)' = Together(v, c) + n
         /\ p \notin Mine(v, c)
<1>1. payment[p].userId = None /\ u \in Users /\ p \in Payments
  BY FreshPayment DEF Pays
<1>2. p \notin Mine(v, c)
  BY <1>1, UsersAssumption DEF Mine
<1>3. \A q \in Mine(v, c) : Brought(v, q)' = Brought(v, q)
  BY <1>2, PaysBrings
<1> DEFINE f == [q \in Mine(v, c) |-> Brought(v, q)]
           g == [q \in Mine(v, c)' |-> Brought(v, q)']
<1>4. Together(v, c) = SumFunction(f) /\ Together(v, c)' = SumFunction(g)
  BY DEF Together
<1>5. CASE <<v, c>> # <<u, d>>
  <2>1. Mine(v, c)' = Mine(v, c)
    BY <1>1, <1>2, <1>5 DEF Mine, Pays
  <2>2. g = f
    BY <1>3, <2>1
  <2> QED BY <1>2, <1>4, <1>5, <2>1, <2>2
<1>6. CASE <<v, c>> = <<u, d>>
  <2>1. Mine(v, c)' = Mine(v, c) \cup {p}
    BY <1>1, <1>2, <1>6 DEF Mine, Pays
  <2>2. Brought(v, p)' = n
    BY <1>6, PaysBrings
  <2>3. /\ p \notin DOMAIN f /\ g[p] = n /\ DOMAIN g = DOMAIN f \cup {p}
        /\ \A q \in DOMAIN f : g[q] = f[q]
    BY <1>2, <1>3, <2>1, <2>2
  <2>4. Summable(f)
    BY TogetherSummable
  <2> HIDE DEF f, g
  <2>5. SumFunction(g) = SumFunction(f) + n
    BY <2>3, <2>4, SumAdded
  <2> QED BY <1>2, <1>4, <1>6, <2>1, <2>5
<1> QED BY <1>5, <1>6

\* A payment that brings what is left of its allocation, or nothing.
LEMMA PaysCapped ==
  ASSUME IInv, IInv', LedgerKeys, CyclesCapped, NEW u, NEW p, NEW d,
         NEW n \in Nat, Pays(u, p, d, n), payment'[p].allocation \in Nat,
         \A v \in Users, c \in Cycles :
           /\ cycleGranted'[v][c] >= cycleGranted[v][c]
           /\ <<v, c>> = <<u, d>> =>
                /\ cycleGranted'[v][c] >= cycleGranted[v][c] + n
                /\ n # 0 =>
                     cycleGranted[v][c] + n <= payment'[p].allocation
  PROVE  CyclesCapped'
<1> SUFFICES ASSUME NEW v \in Users, NEW c \in Cycles
             PROVE  /\ Together(v, c)' <= cycleGranted'[v][c]
                    /\ Mine(v, c)' # {} =>
                         \E q \in Mine(v, c)' :
                           Together(v, c)' <= payment'[q].allocation
  BY DEF CyclesCapped
<1>1. /\ Together(v, c) <= cycleGranted[v][c]
      /\ Mine(v, c) # {} =>
           \E q \in Mine(v, c) : Together(v, c) <= payment[q].allocation
  BY DEF CyclesCapped
<1>2. /\ Together(v, c) \in Int
      /\ cycleGranted[v][c] \in Int /\ cycleGranted'[v][c] \in Int
      /\ cycleGranted'[v][c] >= cycleGranted[v][c]
  <2>1. Together(v, c) \in Int
    BY TogetherSummable
  <2>2. /\ cycleGranted \in [Users -> [Cycles -> Nat]]
        /\ cycleGranted' \in [Users -> [Cycles -> Nat]]
    BY DEF IInv, TypeOK
  <2> QED BY <2>1, <2>2
<1>3. /\ p \notin Mine(v, c)
      /\ \A q \in Payments \ {p} : payment'[q] = payment[q]
      /\ Mine(v, c) \subseteq Payments
  <2>1. p \notin Mine(v, c)
    BY PaysJoins
  <2>2. \A q \in Payments \ {p} : payment'[q] = payment[q]
    BY DEF Pays
  <2> QED BY <2>1, <2>2 DEF Mine
<1>4. CASE <<v, c>> # <<u, d>>
  <2>1. Mine(v, c)' = Mine(v, c) /\ Together(v, c)' = Together(v, c)
    BY <1>4, PaysJoins
  <2> QED BY <1>1, <1>2, <1>3, <2>1
<1>5. CASE <<v, c>> = <<u, d>>
  <2>1. /\ Mine(v, c)' = Mine(v, c) \cup {p}
        /\ Together(v, c)' = Together(v, c) + n
    BY <1>5, PaysJoins
  <2>2. /\ cycleGranted'[v][c] >= cycleGranted[v][c] + n
        /\ n # 0 => cycleGranted[v][c] + n <= payment'[p].allocation
    BY <1>5
  <2>3. Together(v, c)' <= cycleGranted'[v][c]
    BY <1>1, <1>2, <2>1, <2>2
  <2>4. CASE n # 0
    <3>1. Together(v, c)' <= payment'[p].allocation
      BY <1>1, <1>2, <2>1, <2>2, <2>4
    <3> QED BY <2>1, <2>3, <3>1
  <2>5. CASE n = 0 /\ Mine(v, c) # {}
    <3>1. PICK q \in Mine(v, c) : Together(v, c) <= payment[q].allocation
      BY <1>1, <2>5
    <3>2. q \in Mine(v, c)' /\ payment'[q] = payment[q]
      BY <1>3, <2>1
    <3>3. Together(v, c)' <= payment'[q].allocation
      BY <1>2, <2>1, <2>5, <3>1, <3>2
    <3> QED BY <2>3, <3>2, <3>3
  <2>6. CASE n = 0 /\ Mine(v, c) = {}
    <3> DEFINE f == [q \in Mine(v, c) |-> Brought(v, q)]
    <3>1. DOMAIN f = {}
      BY <2>6
    <3> HIDE DEF f
    <3>2. SumFunction(f) = 0
      BY <3>1, SumEmpty
    <3>3. Together(v, c) = 0
      BY <3>2 DEF f, Together
    <3>4. Together(v, c)' <= payment'[p].allocation
      BY <2>1, <2>6, <3>3
    <3> QED BY <2>1, <2>3, <3>4
  <2> QED BY <2>4, <2>5, <2>6
<1> QED BY <1>4, <1>5

LEMMA InitCapped == Init => CyclesCapped
<1> SUFFICES ASSUME Init, NEW u \in Users, NEW c \in Cycles
             PROVE  /\ Together(u, c) <= cycleGranted[u][c]
                    /\ Mine(u, c) = {}
  BY DEF CyclesCapped
<1>1. Mine(u, c) = {} /\ cycleGranted[u][c] = 0
  BY UsersAssumption DEF Init, Mine
<1> DEFINE f == [p \in Mine(u, c) |-> Brought(u, p)]
<1>2. DOMAIN f = {}
  BY <1>1
<1> HIDE DEF f
<1>3. SumFunction(f) = 0
  BY <1>2, SumEmpty
<1>4. Together(u, c) = 0
  BY <1>3 DEF f, Together
<1> QED BY <1>1, <1>4

LEMMA NextCapped ==
  IInv /\ IInv' /\ LedgerKeys /\ CyclesCapped /\ [Next]_vars => CyclesCapped'
<1> SUFFICES ASSUME IInv, IInv', LedgerKeys, CyclesCapped, [Next]_vars
             PROVE  CyclesCapped'
  OBVIOUS
<1>0. /\ payment \in [Payments -> Payment]
      /\ cycleGranted \in [Users -> [Cycles -> Nat]]
      /\ cycleGranted' \in [Users -> [Cycles -> Nat]]
      /\ None \notin Cycles
      /\ Allocations \subseteq Nat /\ PackSizes \subseteq Nat
  BY UsersAssumption, AmountsAssumption DEF IInv, TypeOK
<1>a. ASSUME NEW u, NEW row, Inscribes(u, row),
             payment' = payment, cycleGranted' = cycleGranted,
             row.key[1] \in {"paddle-adjustment", "paddle-restoration", "refund"}
      PROVE  CyclesCapped'
  <2> DEFINE K == {"debt", "opening", "paddle-adjustment",
                   "paddle-restoration", "refund"}
  <2>1. /\ "debt" \in K /\ "opening" \in K /\ row.key[1] \in K
        /\ "payment" \notin K
    BY <1>a
  <2> HIDE DEF K
  <2>2. Touches(K)
    BY <1>a, <2>1, InscribesTouches
  <2> QED BY <1>a, <2>1, <2>2, UnpaidCapped
<1>1. CASE /\ PaymentsStay
           /\ Touches({"debt", "opening", "reserve", "adjust"})
  <2> DEFINE K == {"debt", "opening", "reserve", "adjust"}
  <2>1. "payment" \notin K /\ Touches(K)
    BY <1>1
  <2> HIDE DEF K
  <2> QED BY <1>1, <2>1, UnpaidCapped DEF PaymentsStay
<1>2. ASSUME NEW o \in Operations, NEW total \in 0..operation[o].authorized,
             Settle(o, total)
      PROVE  CyclesCapped'
  <2> DEFINE K == {"debt", "charge", "release"}
  <2>1. /\ "debt" \in K /\ "charge" \in K /\ "release" \in K
        /\ "payment" \notin K
    OBVIOUS
  <2> HIDE DEF K
  <2>2. Touches(K)
    BY <1>2, <2>1, SettleTouches
  <2> QED BY <1>2, <2>1, <2>2, UnpaidCapped DEF Settle
<1>3. ASSUME NEW u \in Users, NEW p \in Payments, NEW credits \in PackSizes,
             PackPayment(u, p, credits)
      PROVE  CyclesCapped'
  <2>1. PICK row, size : /\ Inscribes(u, row)
                         /\ Says(row, <<"payment", p>>, "grant", size, credits)
    BY <1>3, PackInscribes
  <2>2. /\ Fresh(<<"payment", p>>) /\ cycleGranted' = cycleGranted
        /\ payment'[p].userId = u /\ payment'[p].cycle = None
        /\ payment'[p].allocation = 0
        /\ \A q \in Payments \ {p} : payment'[q] = payment[q]
    BY <1>0, <1>3 DEF PackPayment
  <2>3. Pays(u, p, None, credits)
    BY <2>1, <2>2 DEF Pays, Says
  <2>4. credits \in Nat /\ payment'[p].allocation \in Nat
    BY <1>0, <2>2
  <2>5. ASSUME NEW v \in Users, NEW c \in Cycles
        PROVE  /\ cycleGranted'[v][c] >= cycleGranted[v][c]
               /\ <<v, c>> # <<u, None>>
    BY <1>0, <2>2
  <2> QED BY <2>3, <2>4, <2>5, PaysCapped
<1>4. ASSUME NEW u \in Users, NEW p \in Payments,
             NEW allocation \in Allocations, NEW d \in Cycles,
             GrantSubscriptionCycle(u, p, allocation, d)
      PROVE  CyclesCapped'
  <2>1. PICK n : n = TopUp(u, d, allocation)
    OBVIOUS
  <2>2. PICK row : /\ Inscribes(u, row)
                   /\ Says(row, <<"payment", p>>, "grant", n, n)
    BY <1>4, <2>1, GrantInscribes
  <2>3. /\ Fresh(<<"payment", p>>)
        /\ payment'[p].userId = u /\ payment'[p].cycle = d
        /\ payment'[p].allocation = allocation
        /\ \A q \in Payments \ {p} : payment'[q] = payment[q]
        /\ cycleGranted'[u][d] = cycleGranted[u][d] + n
        /\ \A v \in Users, c \in Cycles : <<v, c>> # <<u, d>> =>
             cycleGranted'[v][c] = cycleGranted[v][c]
    BY <1>0, <1>4, <2>1 DEF GrantSubscriptionCycle
  <2>4. Pays(u, p, d, n)
    BY <2>2, <2>3 DEF Pays, Says
  <2>5. /\ n \in Nat /\ allocation \in Nat /\ cycleGranted[u][d] \in Nat
        /\ n # 0 => cycleGranted[u][d] + n <= allocation
    <3>1. n \in Nat /\ allocation \in Nat /\ cycleGranted[u][d] \in Nat
      BY <2>1, TopUpType
    <3>2. n = IF 0 < allocation - cycleGranted[u][d]
              THEN allocation - cycleGranted[u][d] ELSE 0
      BY <2>1 DEF TopUp, Larger
    <3> QED BY <3>1, <3>2
  <2>6. ASSUME NEW v \in Users, NEW c \in Cycles
        PROVE  /\ cycleGranted'[v][c] >= cycleGranted[v][c]
               /\ <<v, c>> = <<u, d>> =>
                    /\ cycleGranted'[v][c] >= cycleGranted[v][c] + n
                    /\ n # 0 =>
                         cycleGranted[v][c] + n <= payment'[p].allocation
    <3>1. CASE <<v, c>> # <<u, d>>
      BY <1>0, <2>3, <3>1
    <3>2. CASE <<v, c>> = <<u, d>>
      <4>1. v = u /\ c = d
        BY <3>2
      <4> QED BY <2>3, <2>5, <4>1
    <3> QED BY <3>1, <3>2
  <2>7. payment'[p].allocation \in Nat
    BY <2>3, <2>5
  <2> QED BY <2>4, <2>5, <2>6, <2>7, PaysCapped
<1>5. ASSUME NEW u \in Users, NEW p \in Payments,
             NEW allocation \in Allocations, NEW d \in Cycles \cup {None},
             AdoptLegacyPayment(u, p, allocation, d)
      PROVE  CyclesCapped'
  <2>1. PICK row : /\ Inscribes(u, row)
                   /\ Says(row, <<"payment", p>>, "grant", 0, 0)
    BY <1>5, AdoptInscribes
  <2>2. /\ Fresh(<<"payment", p>>)
        /\ payment'[p].userId = u /\ payment'[p].cycle = d
        /\ payment'[p].allocation = allocation
        /\ \A q \in Payments \ {p} : payment'[q] = payment[q]
    BY <1>0, <1>5 DEF AdoptLegacyPayment
  <2>3. Pays(u, p, d, 0)
    BY <2>1, <2>2 DEF Pays, Says
  <2>4. payment'[p].allocation \in Nat /\ allocation \in Nat /\ 0 \in Nat
    BY <1>0, <2>2
  <2>5. ASSUME NEW v \in Users, NEW c \in Cycles
        PROVE  /\ cycleGranted'[v][c] >= cycleGranted[v][c]
               /\ cycleGranted'[v][c] >= cycleGranted[v][c] + 0
    <3>1. cycleGranted[v][c] \in Nat /\ cycleGranted'[v][c] \in Nat
      BY <1>0
    <3>2. CASE d = None
      BY <1>5, <3>1, <3>2 DEF AdoptLegacyPayment
    <3>3. CASE d # None
      <4>1. cycleGranted' =
              [cycleGranted EXCEPT ![u][d] = @ + allocation]
        BY <1>5, <3>3 DEF AdoptLegacyPayment
      <4>2. \/ cycleGranted'[v][c] = cycleGranted[v][c]
            \/ cycleGranted'[v][c] = cycleGranted[v][c] + allocation
        BY <1>0, <4>1
      <4> QED BY <2>4, <3>1, <4>2
    <3> QED BY <3>2, <3>3
  <2> QED BY <2>3, <2>4, <2>5, PaysCapped
<1>6. ASSUME NEW p \in Payments, NEW a \in Adjustments,
             NEW share \in ReversalShares(payment[p].granted),
             ReversePayment(p, a, share)
      PROVE  CyclesCapped'
  <2>1. PICK row : /\ Inscribes(payment[p].userId, row)
                   /\ row.key = <<"paddle-adjustment", a>>
    BY <1>6, ReverseInscribes
  <2> QED BY <1>6, <1>a, <2>1 DEF ReversePayment
<1>7. ASSUME NEW a \in Adjustments, RestorePaymentAdjustment(a)
      PROVE  CyclesCapped'
  <2>1. PICK row : /\ Inscribes(payment[adjustment[a].payment].userId, row)
                   /\ row.key = <<"paddle-restoration", a>>
    BY <1>7, RestoreInscribes
  <2> QED BY <1>7, <1>a, <2>1 DEF RestorePaymentAdjustment
<1>8. ASSUME NEW o \in Operations, NEW g \in 0..MaxGeneration,
             NEW k \in RefundKeys, NEW amount \in RefundAmounts,
             Refund(o, g, k, amount)
      PROVE  CyclesCapped'
  <2>1. PICK row : /\ Inscribes(operation[o].userId, row)
                   /\ row.key = <<"refund", k>>
    BY <1>8, RefundInscribes DEF Says
  <2>2. payment' = payment /\ cycleGranted' = cycleGranted
    BY <1>8 DEF Refund
  <2>3. row.key[1] = "refund"
    BY <2>1
  <2> QED BY <1>a, <2>1, <2>2, <2>3
<1>9. CASE PaymentsStay /\ \E o \in Operations :
             \E total \in 0..operation[o].authorized : Settle(o, total)
  BY <1>2, <1>9
<1> QED BY <1>1, <1>3, <1>4, <1>5, <1>6, <1>7, <1>8, <1>9, StepKinds

LEMMA CappedInvariance == Spec => []CyclesCapped
<1> QED BY InitCapped, NextCapped, Invariance, KeysInvariance, PTL DEF Spec

\* The payments of one billing cycle, in whatever order they are processed and
\* whichever plan changes they stand for, together bring an account at most the
\* largest allocation among them.
THEOREM CyclesStayWithinLargestAllocation ==
  Spec => []CycleWithinLargestAllocation
<1>1. IInv /\ CyclesCapped => CycleWithinLargestAllocation
  <2> SUFFICES ASSUME IInv, CyclesCapped, NEW u \in Users, NEW c \in Cycles,
                      Mine(u, c) # {}
               PROVE  SumFunction([p \in Mine(u, c) |->
                                     SumRows(u, LAMBDA row :
                                               IF row.key = <<"payment", p>>
                                               THEN row.availableDelta ELSE 0)])
                        <= Max({payment[p].allocation : p \in Mine(u, c)})
    BY DEF CycleWithinLargestAllocation, Mine
  <2>1. ASSUME NEW p
        PROVE  SumRows(u, LAMBDA row : IF row.key = <<"payment", p>>
                                       THEN row.availableDelta ELSE 0)
               = Brought(u, p)
    <3> DEFINE rows == wallet[u].entries
               f == [i \in DOMAIN rows |-> IF rows[i].key = <<"payment", p>>
                                           THEN rows[i].availableDelta ELSE 0]
               g == [i \in DOMAIN rows |-> BroughtWeight(p)[rows[i]]]
    <3>1. \A i \in DOMAIN rows : rows[i] \in CreditEntry
      BY WalletFunction, StatementRows
    <3>2. f = g
      BY <3>1, BroughtWeighs
    <3>3. SumRows(u, LAMBDA row : IF row.key = <<"payment", p>>
                                  THEN row.availableDelta ELSE 0)
            = SumFunction(f)
      BY DEF SumRows
    <3>4. Brought(u, p) = SumFunction(g)
      BY DEF Brought, Weighed
    <3> HIDE DEF f, g
    <3> QED BY <3>2, <3>3, <3>4
  <2> DEFINE a == [p \in Mine(u, c) |->
                     SumRows(u, LAMBDA row : IF row.key = <<"payment", p>>
                                             THEN row.availableDelta ELSE 0)]
             b == [p \in Mine(u, c) |-> Brought(u, p)]
             S == {payment[p].allocation : p \in Mine(u, c)}
  <2>2. a = b
    BY <2>1
  <2>3. Together(u, c) = SumFunction(b)
    BY DEF Together
  <2>4. PICK q \in Mine(u, c) : Together(u, c) <= payment[q].allocation
    BY DEF CyclesCapped
  <2>5. \A p \in Mine(u, c) : payment[p].allocation \in Int
    BY DEF IInv, TypeOK, Payment, Mine
  <2>6. PICK m \in Mine(u, c) :
          \A p \in Mine(u, c) : payment[p].allocation <= payment[m].allocation
    <3> DEFINE f == [p \in Mine(u, c) |-> payment[p].allocation]
    <3>1. IsFiniteSet(Mine(u, c))
      BY TogetherSummable
    <3>2. \A p \in Mine(u, c) : f[p] \in Int /\ f[p] = payment[p].allocation
      BY <2>5
    <3> HIDE DEF f
    <3>3. PICK m \in Mine(u, c) : \A p \in Mine(u, c) : f[p] <= f[m]
      BY <3>1, <3>2, LargestExists
    <3> QED BY <3>2, <3>3
  <2>7. \E x \in S : \A y \in S : x >= y
    BY <2>5, <2>6
  <2>8. Max(S) \in S /\ \A y \in S : Max(S) >= y
    BY <2>7 DEF Max
  <2>9. /\ Max(S) >= payment[q].allocation /\ Max(S) \in Int
        /\ Together(u, c) \in Int /\ payment[q].allocation \in Int
    BY <2>5, <2>8, TogetherSummable
  <2> HIDE DEF a, b, S
  <2>10. SumFunction(a) <= Max(S)
    BY <2>2, <2>3, <2>4, <2>9
  <2> QED BY <2>10 DEF a, S
<1> QED BY <1>1, Invariance, CappedInvariance, PTL

=============================================================================
