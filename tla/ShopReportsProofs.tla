-------------------------- MODULE ShopReportsProofs --------------------------
(***************************************************************************)
(* What ShopReports says of the dashboards and the log holds for every     *)
(* number of clerks, items, orders and hours: the reports of the stock     *)
(* agree (HistoryIsCurrent), a unit is counted once (CountedOnce), and the *)
(* figures of a page add up with what it leaves out (TotalsAddUp).         *)
(*                                                                         *)
(* The reports are sums over finite sets.  Their laws are proved first, by *)
(* the least counterexample among the subsets of a finite set.             *)
(***************************************************************************)
EXTENDS ShopReports, FiniteSetTheorems, TLAPS

(* The invariant.                                                           *)

\* The rows, counted or weighed; nothing is left of one that is not in stock, but the
\* weight of an archived one.
RowsOK ==
  /\ row = [i \in Items |-> row[i]]
  /\ \A i \in Items :
       /\ row[i] \in [status : {"none", "in_stock", "sold", "archived"},
                      quantity : Nat, weight : Nat]
       /\ i \notin Weighed => row[i].weight = 0
       /\ row[i].status # "in_stock" => row[i].quantity = 0
       /\ row[i].status \in {"none", "sold"} => row[i].weight = 0

\* The snapshots of an item are of different hours, and the last is its row.
HistoryOK ==
  /\ IsFiniteSet(history)
  /\ \A h \in history : /\ h.item \in Items /\ h.at \in 0..clock
                        /\ {h.sale, h.quantity, h.weight} \subseteq Nat
  /\ \A g, h \in history : g.item = h.item /\ g.at = h.at => g = h
  /\ \A i \in Items :
       \/ row[i] = Missing /\ \A h \in history : h.item # i
       \/ \E h \in history :
            /\ h.item = i /\ h.quantity = row[i].quantity /\ h.weight = row[i].weight
            /\ \A g \in history : g.item = i => g.at <= h.at

\* So with rates.
RatesOK ==
  /\ rate \in [Metals -> Nat]
  /\ \A h \in rateHistory : h.metal \in Metals /\ h.at \in 0..clock /\ h.rate \in Nat
  /\ \A g, h \in rateHistory : g.metal = h.metal /\ g.at = h.at => g = h
  /\ \A m \in Metals :
       \/ rate[m] = 0 /\ \A h \in rateHistory : h.metal # m
       \/ rate[m] # 0 /\ \E h \in rateHistory :
            /\ h.metal = m /\ h.rate = rate[m]
            /\ \A g \in rateHistory : g.metal = m => g.at <= h.at

\* What a transaction wrote it wrote from the rows as they still are, later than all there
\* is about them.
WroteOK(t) ==
  /\ t.order \in Orders /\ t.when \in t.at..clock
  /\ DOMAIN t.rows = Touched(t.order)
  /\ \A i \in Touched(t.order) : t.rows[i] = After(t.order, i)
  /\ t.order.kind = "sell" =>
       \A i \in Touched(t.order) : /\ row[i].status = "in_stock"
                                   /\ Left(i, row[i]) >= t.order.lines[i]
                                   /\ t.prices[i] \in Nat
  /\ t.order.kind \in {"update", "archive"} => row[t.order.item].status = "in_stock"
  /\ t.order.kind = "create" => row[t.order.item] = Missing
  /\ \A h \in history : h.item \in Touched(t.order) => h.at < t.when
  /\ t.order.kind = "rate" => \A h \in rateHistory : h.metal = t.order.metal => h.at < t.when

TxnsOK ==
  /\ txn = [c \in Clerks |-> txn[c]]
  /\ \A c \in Clerks :
       /\ txn[c].phase \in {"idle", "begun", "wrote"}
       /\ txn[c].phase # "idle" => txn[c].at \in 0..clock
       /\ txn[c].phase = "wrote" => WroteOK(txn[c])

\* No two have written the same row.
LocksOK == \A c, d \in Writing : c # d => c \notin Holders(txn[d].order)

SalesOK ==
  /\ IsFiniteSet(sales)
  /\ \A s \in sales :
       /\ s.id \in 1..Cardinality(sales) /\ s.at \in 0..clock
       /\ DOMAIN s.lines \subseteq Items
       /\ \A i \in DOMAIN s.lines : {s.lines[i].amount, s.lines[i].price} \subseteq Nat
  /\ \A r, s \in sales : r.id = s.id => r = s

\* Each line of a sale has its snapshot and each snapshot of a sale its line, by which it
\* differs from the one before it.
LinesOK ==
  /\ \A h \in history : h.sale # 0 =>
       \E s \in sales : /\ s.id = h.sale /\ s.at <= h.at /\ h.item \in DOMAIN s.lines
                        /\ s.lines[h.item].amount = Taken(h)
  /\ \A s \in sales : \A i \in DOMAIN s.lines :
       \E h \in history : h.item = i /\ h.sale = s.id
  /\ \A g, h \in history : g.item = h.item /\ g.sale = h.sale /\ h.sale # 0 => g = h

\* So with the log.
LogOK ==
  /\ IsFiniteSet(log)
  /\ \A e \in log :
       /\ e.event \in {"sale_completed", "item_sold"}
       /\ \E s \in sales :
            /\ s.id = e.sale /\ s.at = e.at
            /\ e.event = "sale_completed" => e.total = Value(s)
            /\ e.event = "item_sold" =>
                 e.item \in DOMAIN s.lines /\ e.amount = s.lines[e.item].amount
  /\ \A s \in sales : \A i \in DOMAIN s.lines :
       \E e \in log : e.event = "item_sold" /\ e.sale = s.id /\ e.item = i
  /\ \A e, f \in {g \in log : g.event = "item_sold"} :
       e.sale = f.sale /\ e.item = f.item => e = f

IInv ==
  /\ clock \in Hours
  /\ RowsOK /\ HistoryOK /\ RatesOK /\ TxnsOK /\ LocksOK /\ SalesOK /\ LinesOK /\ LogOK

-----------------------------------------------------------------------------
(* Sums over finite sets.                                                   *)

\* Among sets of subsets of a finite set there is a smallest one: induction over finite
\* sets, in a form that takes a set where the library's takes a predicate.
LEMMA Smallest ==
  ASSUME NEW S, IsFiniteSet(S), NEW T, T \subseteq SUBSET S, T # {}
  PROVE  \E x \in T : \A y \in T : y \subseteq x => y = x
PROOF
<1>1. FiniteSubsetsOf(S) = SUBSET S
  BY FS_FiniteSubsetsOfFinite
<1>2. IsWellFoundedOn(StrictSubsetOrdering(S), SUBSET S)
  BY <1>1, FS_StrictSubsetOrderingWellFounded
<1>3. PICK x \in T : \A y \in T : ~ (<<y, x>> \in StrictSubsetOrdering(S))
  BY <1>2, WFMin
<1>4. ASSUME NEW y \in T, y \subseteq x, y # x PROVE FALSE
  <2>1. <<y, x>> \in (SUBSET S) \X (SUBSET S)
    OBVIOUS
  <2>2. <<y, x>> \in StrictSubsetOrdering(S)
    BY <2>1, <1>4 DEF StrictSubsetOrdering
  <2> QED BY <2>2, <1>3
<1> QED BY <1>4

\* A sum over S as a function of the subsets of S, and that there is one such function.
Pick(s) == CHOOSE x \in s : TRUE
Adds(f, g, S) ==
  g = [s \in SUBSET S |-> IF s = {} THEN 0 ELSE f[Pick(s)] + g[s \ {Pick(s)}]]

\* The element a sum takes first is one of its set.
LEMMA PickIn == ASSUME NEW s, s # {} PROVE Pick(s) \in s
PROOF BY Zenon DEF Pick

\* The library's sum, unfolded to such a function.
LEMMA SumIs ==
  ASSUME NEW f, NEW S
  PROVE  SumFunctionOnSet(f, S) = (CHOOSE g : Adds(f, g, S))[S]
PROOF BY Zenon DEF SumFunctionOnSet, FoldFunctionOnSet, MapThenFoldSet, Adds, Pick

\* The two equations of such a function.
LEMMA AddsAt ==
  ASSUME NEW f, NEW g, NEW S, Adds(f, g, S), NEW s \in SUBSET S
  PROVE  /\ s = {} => g[s] = 0
         /\ s # {} => g[s] = f[Pick(s)] + g[s \ {Pick(s)}]
PROOF BY DEF Adds

\* Two such functions agree on what both sum over.
LEMMA AddsAgree ==
  ASSUME NEW f, NEW S, IsFiniteSet(S), NEW U, U \subseteq S, NEW g, NEW h,
         Adds(f, g, S), Adds(f, h, U)
  PROVE  g[U] = h[U]
PROOF
<1> DEFINE Bad == {s \in SUBSET U : g[s] # h[s]}
<1>1. SUFFICES ASSUME Bad # {} PROVE FALSE
  OBVIOUS
<1>2. Bad \subseteq SUBSET S
  OBVIOUS
<1> HIDE DEF Bad
<1>3. PICK s \in Bad : \A y \in Bad : y \subseteq s => y = s
  BY <1>1, <1>2, Smallest
<1>4. s \in SUBSET U /\ s \in SUBSET S /\ g[s] # h[s]
  BY <1>3 DEF Bad
<1>5. s # {}
  BY <1>4, AddsAt
<1> DEFINE x == Pick(s)
<1>6. x \in s
  BY <1>5, PickIn
<1>7. g[s] = f[x] + g[s \ {x}] /\ h[s] = f[x] + h[s \ {x}]
  BY <1>4, <1>5, AddsAt
<1>8. s \ {x} \notin Bad
  BY <1>3, <1>6
<1>9. g[s \ {x}] = h[s \ {x}]
  BY <1>8, <1>4 DEF Bad
<1> QED BY <1>4, <1>7, <1>9

\* There is one, for a finite set.
LEMMA AddsExists ==
  ASSUME NEW f, NEW S, IsFiniteSet(S)
  PROVE  \E g : Adds(f, g, S)
PROOF
<1> DEFINE Bad == {s \in SUBSET S : ~ \E g : Adds(f, g, s)}
<1>1. SUFFICES ASSUME Bad # {} PROVE FALSE
  OBVIOUS
<1>2. Bad \subseteq SUBSET S
  OBVIOUS
<1> HIDE DEF Bad
<1>3. PICK s \in Bad : \A y \in Bad : y \subseteq s => y = s
  BY <1>1, <1>2, Smallest
<1>4. s \in SUBSET S /\ ~ \E g : Adds(f, g, s)
  BY <1>3 DEF Bad
<1> DEFINE G(t) == CHOOSE g : Adds(f, g, t)
           value(t) == IF t = {} THEN 0
                       ELSE f[Pick(t)] + G(t \ {Pick(t)})[t \ {Pick(t)}]
           h == [t \in SUBSET s |-> value(t)]
<1>5. ASSUME NEW t, t \in SUBSET s, t # s PROVE Adds(f, G(t), t)
  <2>1. t \notin Bad
    BY <1>5, <1>3
  <2>2. \E g : Adds(f, g, t)
    BY <2>1, <1>5, <1>4 DEF Bad
  <2> HIDE DEF Bad
  <2> QED BY <2>2
<1>6. ASSUME NEW t \in SUBSET s, t # s PROVE G(t)[t] = value(t)
  <2>1. Adds(f, G(t), t)
    BY <1>5, <1>6
  <2> HIDE DEF G
  <2>2. CASE t = {}
    BY <2>1, <2>2, AddsAt
  <2>3. CASE t # {}
    <3> DEFINE x == Pick(t)
    <3>1. x \in t
      BY <2>3, PickIn
    <3>2. G(t)[t] = f[x] + G(t)[t \ {x}]
      BY <2>1, <2>3, AddsAt
    <3>3. Adds(f, G(t \ {x}), t \ {x})
      BY <1>5, <1>6, <3>1
    <3>4. IsFiniteSet(t)
      BY <1>4, FS_Subset
    <3> HIDE DEF x
    <3>5. G(t)[t \ {x}] = G(t \ {x})[t \ {x}]
      BY <2>1, <3>3, <3>4, AddsAgree
    <3> USE DEF x
    <3> QED BY <3>2, <3>5, <2>3
  <2> QED BY <2>2, <2>3
<1> HIDE DEF G
<1>7. \A t \in SUBSET s : h[t] = IF t = {} THEN 0 ELSE f[Pick(t)] + h[t \ {Pick(t)}]
  <2> SUFFICES ASSUME NEW t \in SUBSET s, t # {}
               PROVE  h[t] = f[Pick(t)] + h[t \ {Pick(t)}]
    OBVIOUS
  <2> DEFINE u == t \ {Pick(t)}
  <2>1. Pick(t) \in t
    BY PickIn
  <2>2. u \in SUBSET s /\ u # s
    BY <2>1
  <2>3. G(u)[u] = value(u)
    BY <2>2, <1>6
  <2>4. h[u] = value(u)
    BY <2>2
  <2>5. h[t] = f[Pick(t)] + G(u)[u]
    OBVIOUS
  <2> QED BY <2>3, <2>4, <2>5
<1>8. DOMAIN h = SUBSET s /\ h = [t \in DOMAIN h |-> h[t]]
  OBVIOUS
<1> HIDE DEF h
<1>9. Adds(f, h, s)
  BY <1>7, <1>8 DEF Adds
<1> QED BY <1>9, <1>4

\* The two equations of a sum over a finite set.
LEMMA SumStep ==
  ASSUME NEW f, NEW S, IsFiniteSet(S), S # {}
  PROVE  /\ Pick(S) \in S
         /\ SumFunctionOnSet(f, S) = f[Pick(S)] + SumFunctionOnSet(f, S \ {Pick(S)})
PROOF
<1> DEFINE G(t) == CHOOSE g : Adds(f, g, t)
           x == Pick(S)
<1>1. \A t : IsFiniteSet(t) => Adds(f, G(t), t)
  BY AddsExists
<1>2. \A t : SumFunctionOnSet(f, t) = G(t)[t]
  BY SumIs
<1> HIDE DEF G
<1>3. x \in S /\ IsFiniteSet(S \ {x})
  BY PickIn, FS_Subset
<1>4. G(S)[S] = f[x] + G(S)[S \ {x}]
  BY <1>1, AddsAt
<1> HIDE DEF x
<1>5. G(S)[S \ {x}] = G(S \ {x})[S \ {x}]
  <2>1. Adds(f, G(S), S) /\ Adds(f, G(S \ {x}), S \ {x})
    BY <1>1, <1>3
  <2>2. S \ {x} \subseteq S
    OBVIOUS
  <2> QED BY <2>1, <2>2, AddsAgree
<1> USE DEF x
<1> QED BY <1>2, <1>3, <1>4, <1>5

\* Nothing sums to 0.
LEMMA SumEmpty == ASSUME NEW f PROVE SumFunctionOnSet(f, {}) = 0
PROOF
<1> DEFINE G == CHOOSE g : Adds(f, g, {})
<1>1. Adds(f, G, {})
  BY AddsExists, FS_EmptySet
<1>2. SumFunctionOnSet(f, {}) = G[{}]
  BY SumIs
<1> HIDE DEF G
<1> QED BY <1>1, <1>2, AddsAt

\* A sum depends on what is summed, is a number, and takes its elements in any order.
LEMMA SumSame ==
  ASSUME NEW f, NEW g, NEW S, IsFiniteSet(S), \A x \in S : f[x] = g[x]
  PROVE  SumFunctionOnSet(f, S) = SumFunctionOnSet(g, S)
PROOF
<1> DEFINE Bad == {s \in SUBSET S : SumFunctionOnSet(f, s) # SumFunctionOnSet(g, s)}
<1>1. SUFFICES ASSUME Bad # {} PROVE FALSE
  OBVIOUS
<1>2. Bad \subseteq SUBSET S
  OBVIOUS
<1> HIDE DEF Bad
<1>3. PICK s \in Bad : \A y \in Bad : y \subseteq s => y = s
  BY <1>1, <1>2, Smallest
<1>4. s \in SUBSET S /\ SumFunctionOnSet(f, s) # SumFunctionOnSet(g, s) /\ IsFiniteSet(s)
  BY <1>3, FS_Subset DEF Bad
<1>5. s # {}
  BY <1>4, SumEmpty
<1>6. Pick(s) \in s /\ s \ {Pick(s)} \notin Bad
  BY <1>3, <1>5, PickIn
<1>7. SumFunctionOnSet(f, s \ {Pick(s)}) = SumFunctionOnSet(g, s \ {Pick(s)})
  BY <1>6, <1>4 DEF Bad
<1>8. f[Pick(s)] = g[Pick(s)]
  BY <1>6, <1>4
<1> QED BY <1>4, <1>5, <1>7, <1>8, SumStep

\* A sum of integers is one.
LEMMA SumType ==
  ASSUME NEW f, NEW S, IsFiniteSet(S), \A x \in S : f[x] \in Int
  PROVE  SumFunctionOnSet(f, S) \in Int
PROOF
<1> DEFINE Bad == {s \in SUBSET S : SumFunctionOnSet(f, s) \notin Int}
<1>1. SUFFICES ASSUME Bad # {} PROVE FALSE
  OBVIOUS
<1>2. Bad \subseteq SUBSET S
  OBVIOUS
<1> HIDE DEF Bad
<1>3. PICK s \in Bad : \A y \in Bad : y \subseteq s => y = s
  BY <1>1, <1>2, Smallest
<1>4. s \in SUBSET S /\ SumFunctionOnSet(f, s) \notin Int /\ IsFiniteSet(s)
  BY <1>3, FS_Subset DEF Bad
<1>5. s # {}
  BY <1>4, SumEmpty
<1>6. Pick(s) \in s /\ s \ {Pick(s)} \notin Bad
  BY <1>3, <1>5, PickIn
<1>7. SumFunctionOnSet(f, s \ {Pick(s)}) \in Int
  BY <1>6, <1>4 DEF Bad
<1>8. f[Pick(s)] \in Int
  BY <1>6, <1>4
<1> QED BY <1>4, <1>5, <1>7, <1>8, SumStep

\* Whichever element is taken first.
LEMMA SumRemove ==
  ASSUME NEW f, NEW S, IsFiniteSet(S), \A x \in S : f[x] \in Int, NEW e \in S
  PROVE  SumFunctionOnSet(f, S) = f[e] + SumFunctionOnSet(f, S \ {e})
PROOF
<1> DEFINE Bad == {s \in SUBSET S : \E x \in s :
                     SumFunctionOnSet(f, s) # f[x] + SumFunctionOnSet(f, s \ {x})}
<1>1. SUFFICES ASSUME Bad # {} PROVE FALSE
  OBVIOUS
<1>2. Bad \subseteq SUBSET S
  OBVIOUS
<1> HIDE DEF Bad
<1>3. PICK s \in Bad : \A y \in Bad : y \subseteq s => y = s
  BY <1>1, <1>2, Smallest
<1>4. s \in SUBSET S /\ IsFiniteSet(s)
  BY <1>3, FS_Subset DEF Bad
<1>5. PICK x \in s : SumFunctionOnSet(f, s) # f[x] + SumFunctionOnSet(f, s \ {x})
  BY <1>3 DEF Bad
<1> DEFINE c == Pick(s)
<1>6. c \in s /\ SumFunctionOnSet(f, s) = f[c] + SumFunctionOnSet(f, s \ {c})
  BY <1>4, <1>5, SumStep
<1> HIDE DEF c
<1>7. c # x
  BY <1>5, <1>6
<1>8. s \ {c} \notin Bad /\ s \ {x} \notin Bad
  BY <1>3, <1>6, <1>5
<1>9. SumFunctionOnSet(f, s \ {c}) = f[x] + SumFunctionOnSet(f, (s \ {c}) \ {x})
  BY <1>8, <1>7, <1>5, <1>4 DEF Bad
<1>10. SumFunctionOnSet(f, s \ {x}) = f[c] + SumFunctionOnSet(f, (s \ {x}) \ {c})
  BY <1>8, <1>7, <1>6, <1>4 DEF Bad
<1>11. (s \ {x}) \ {c} = (s \ {c}) \ {x}
  OBVIOUS
<1>12. SumFunctionOnSet(f, (s \ {c}) \ {x}) \in Int
  <2>1. IsFiniteSet((s \ {c}) \ {x})
    BY <1>4, FS_Subset
  <2>2. \A y \in (s \ {c}) \ {x} : f[y] \in Int
    BY <1>4
  <2> QED BY <2>1, <2>2, SumType
<1>13. f[x] \in Int /\ f[c] \in Int
  BY <1>4, <1>5, <1>6
<1> DEFINE A == SumFunctionOnSet(f, s \ {c})
           B == SumFunctionOnSet(f, s \ {x})
           R == SumFunctionOnSet(f, (s \ {c}) \ {x})
<1>14. /\ A = f[x] + R /\ B = f[c] + R /\ R \in Int
       /\ SumFunctionOnSet(f, s) = f[c] + A /\ SumFunctionOnSet(f, s) # f[x] + B
  BY <1>5, <1>6, <1>9, <1>10, <1>11, <1>12
<1> HIDE DEF A, B, R
<1> QED BY <1>13, <1>14

\* One element more.
LEMMA SumAdd ==
  ASSUME NEW f, NEW S, IsFiniteSet(S), \A x \in S : f[x] \in Int,
         NEW e, e \notin S, f[e] \in Int
  PROVE  SumFunctionOnSet(f, S \cup {e}) = f[e] + SumFunctionOnSet(f, S)
PROOF
<1>1. IsFiniteSet(S \cup {e})
  BY FS_AddElement
<1>2. \A x \in S \cup {e} : f[x] \in Int
  OBVIOUS
<1>3. (S \cup {e}) \ {e} = S
  OBVIOUS
<1>4. SumFunctionOnSet(f, S \cup {e}) = f[e] + SumFunctionOnSet(f, (S \cup {e}) \ {e})
  BY <1>1, <1>2, SumRemove
<1> QED BY <1>3, <1>4

\* Sums over disjoint sets add up.
LEMMA SumUnion ==
  ASSUME NEW f, NEW S, NEW U, IsFiniteSet(S), IsFiniteSet(U), S \cap U = {},
         \A x \in S \cup U : f[x] \in Int
  PROVE  SumFunctionOnSet(f, S \cup U) = SumFunctionOnSet(f, S) + SumFunctionOnSet(f, U)
PROOF
<1> DEFINE Bad == {u \in SUBSET U : SumFunctionOnSet(f, S \cup u) #
                     SumFunctionOnSet(f, S) + SumFunctionOnSet(f, u)}
<1>1. SUFFICES ASSUME Bad # {} PROVE FALSE
  OBVIOUS
<1>2. Bad \subseteq SUBSET U
  OBVIOUS
<1> HIDE DEF Bad
<1>3. PICK u \in Bad : \A y \in Bad : y \subseteq u => y = u
  BY <1>1, <1>2, Smallest
<1>4. /\ u \in SUBSET U /\ IsFiniteSet(u)
      /\ SumFunctionOnSet(f, S \cup u) # SumFunctionOnSet(f, S) + SumFunctionOnSet(f, u)
  BY <1>3, FS_Subset DEF Bad
<1>5. SumFunctionOnSet(f, S) \in Int
  BY SumType
<1>6. u # {}
  <2> SUFFICES ASSUME u = {} PROVE FALSE
    OBVIOUS
  <2>1. S \cup u = S
    OBVIOUS
  <2> QED BY <2>1, <1>4, <1>5, SumEmpty
<1>7. PICK x : x \in u
  BY <1>6
<1> DEFINE r == u \ {x}
<1>8. r \notin Bad /\ r \in SUBSET U /\ IsFiniteSet(r) /\ x \notin S \cup r /\ x \in U
  BY <1>3, <1>4, <1>7, FS_Subset
<1>9. u = r \cup {x} /\ S \cup u = (S \cup r) \cup {x}
  BY <1>7
<1> HIDE DEF r
<1>10. SumFunctionOnSet(f, S \cup r) = SumFunctionOnSet(f, S) + SumFunctionOnSet(f, r)
  BY <1>8 DEF Bad
<1>11. IsFiniteSet(S \cup r)
  BY <1>8, FS_Union
<1>12. SumFunctionOnSet(f, u) = f[x] + SumFunctionOnSet(f, r)
  BY <1>8, <1>9, SumAdd
<1>13. SumFunctionOnSet(f, S \cup u) = f[x] + SumFunctionOnSet(f, S \cup r)
  BY <1>8, <1>9, <1>11, SumAdd
<1>14. SumFunctionOnSet(f, r) \in Int /\ f[x] \in Int
  BY <1>8, SumType
<1> QED BY <1>4, <1>5, <1>10, <1>12, <1>13, <1>14

\* Zeros sum to 0.
LEMMA SumZero ==
  ASSUME NEW f, NEW S, IsFiniteSet(S), \A x \in S : f[x] = 0
  PROVE  SumFunctionOnSet(f, S) = 0
PROOF
<1> DEFINE Bad == {s \in SUBSET S : SumFunctionOnSet(f, s) # 0}
<1>1. SUFFICES ASSUME Bad # {} PROVE FALSE
  OBVIOUS
<1>2. Bad \subseteq SUBSET S
  OBVIOUS
<1> HIDE DEF Bad
<1>3. PICK s \in Bad : \A y \in Bad : y \subseteq s => y = s
  BY <1>1, <1>2, Smallest
<1>4. s \in SUBSET S /\ SumFunctionOnSet(f, s) # 0 /\ IsFiniteSet(s)
  BY <1>3, FS_Subset DEF Bad
<1>5. s # {}
  BY <1>4, SumEmpty
<1>6. Pick(s) \in s /\ s \ {Pick(s)} \notin Bad
  BY <1>3, <1>5, PickIn
<1>7. SumFunctionOnSet(f, s \ {Pick(s)}) = 0
  BY <1>6, <1>4 DEF Bad
<1>8. f[Pick(s)] = 0
  BY <1>6, <1>4
<1> QED BY <1>4, <1>5, <1>7, <1>8, SumStep

\* What counts nothing may be left out.
LEMMA SumSubset ==
  ASSUME NEW f, NEW S, IsFiniteSet(S), NEW U, U \subseteq S,
         \A x \in U : f[x] \in Int, \A x \in S \ U : f[x] = 0
  PROVE  SumFunctionOnSet(f, S) = SumFunctionOnSet(f, U)
PROOF
<1>1. IsFiniteSet(U) /\ IsFiniteSet(S \ U)
  BY FS_Subset
<1>2. S = U \cup (S \ U) /\ U \cap (S \ U) = {}
  OBVIOUS
<1>3. \A x \in U \cup (S \ U) : f[x] \in Int
  OBVIOUS
<1>4. SumFunctionOnSet(f, S) = SumFunctionOnSet(f, U) + SumFunctionOnSet(f, S \ U)
  <2>1. SumFunctionOnSet(f, U \cup (S \ U)) =
          SumFunctionOnSet(f, U) + SumFunctionOnSet(f, S \ U)
    BY <1>1, <1>2, <1>3, SumUnion
  <2> QED BY <2>1, <1>2, Zenon
<1>5. SumFunctionOnSet(f, S \ U) = 0 /\ SumFunctionOnSet(f, U) \in Int
  BY <1>1, SumZero, SumType
<1> QED BY <1>4, <1>5

\* The sum of a sum of two is the sum of their sums.
LEMMA SumPlus ==
  ASSUME NEW f, NEW g, NEW h, NEW S, IsFiniteSet(S),
         \A x \in S : f[x] \in Int /\ g[x] \in Int /\ h[x] = f[x] + g[x]
  PROVE  SumFunctionOnSet(h, S) = SumFunctionOnSet(f, S) + SumFunctionOnSet(g, S)
PROOF
<1> DEFINE Bad == {s \in SUBSET S : SumFunctionOnSet(h, s) #
                     SumFunctionOnSet(f, s) + SumFunctionOnSet(g, s)}
<1>1. SUFFICES ASSUME Bad # {} PROVE FALSE
  OBVIOUS
<1>2. Bad \subseteq SUBSET S
  OBVIOUS
<1> HIDE DEF Bad
<1>3. PICK s \in Bad : \A y \in Bad : y \subseteq s => y = s
  BY <1>1, <1>2, Smallest
<1>4. /\ s \in SUBSET S /\ IsFiniteSet(s)
      /\ SumFunctionOnSet(h, s) # SumFunctionOnSet(f, s) + SumFunctionOnSet(g, s)
  BY <1>3, FS_Subset DEF Bad
<1>5. s # {}
  <2> SUFFICES ASSUME s = {} PROVE FALSE
    OBVIOUS
  <2>1. /\ SumFunctionOnSet(f, s) = 0 /\ SumFunctionOnSet(g, s) = 0
        /\ SumFunctionOnSet(h, s) = 0
    BY SumEmpty
  <2> QED BY <2>1, <1>4
<1> DEFINE x == Pick(s)
           r == s \ {x}
<1>6. x \in s /\ r \notin Bad /\ r \in SUBSET S /\ IsFiniteSet(r)
  BY <1>3, <1>4, <1>5, PickIn, FS_Subset
<1>7. SumFunctionOnSet(h, r) = SumFunctionOnSet(f, r) + SumFunctionOnSet(g, r)
  BY <1>6 DEF Bad
<1>8. /\ SumFunctionOnSet(h, s) = h[x] + SumFunctionOnSet(h, r)
      /\ SumFunctionOnSet(f, s) = f[x] + SumFunctionOnSet(f, r)
      /\ SumFunctionOnSet(g, s) = g[x] + SumFunctionOnSet(g, r)
  BY <1>4, <1>5, SumStep
<1>9. SumFunctionOnSet(f, r) \in Int /\ SumFunctionOnSet(g, r) \in Int
  BY <1>6, SumType
<1>10. f[x] \in Int /\ g[x] \in Int /\ h[x] = f[x] + g[x]
  BY <1>6, <1>4
<1> HIDE DEF x, r
<1> QED BY <1>4, <1>7, <1>8, <1>9, <1>10

\* The image of a finite set is finite.
LEMMA ImageFinite ==
  ASSUME NEW b, NEW S, IsFiniteSet(S)
  PROVE  IsFiniteSet({b[x] : x \in S})
PROOF
<1> DEFINE U == {b[x] : x \in S}
           g == [x \in S |-> b[x]]
<1>1. g \in Surjection(S, U)
  BY DEF Surjection
<1> HIDE DEF g
<1> QED BY <1>1, FS_Surjection

\* A sum may be taken over other names for what is summed.
LEMMA SumRename ==
  ASSUME NEW f, NEW g, NEW b, NEW S, NEW U, IsFiniteSet(S),
         \A x \in S : b[x] \in U /\ f[x] = g[b[x]] /\ f[x] \in Int,
         \A x, y \in S : b[x] = b[y] => x = y,
         \A u \in U : \E x \in S : b[x] = u
  PROVE  SumFunctionOnSet(f, S) = SumFunctionOnSet(g, U)
PROOF
<1> DEFINE Img(s) == {b[x] : x \in s}
           Bad == {s \in SUBSET S : SumFunctionOnSet(f, s) # SumFunctionOnSet(g, Img(s))}
<1>0. Img(S) = U
  OBVIOUS
<1>1. SUFFICES ASSUME Bad # {} PROVE FALSE
  <2> SUFFICES SumFunctionOnSet(f, S) = SumFunctionOnSet(g, Img(S))
    BY <1>0, Zenon
  <2> QED OBVIOUS
<1>2. Bad \subseteq SUBSET S
  OBVIOUS
<1> HIDE DEF Bad
<1>3. PICK s \in Bad : \A y \in Bad : y \subseteq s => y = s
  BY <1>1, <1>2, Smallest
<1>4. /\ s \in SUBSET S /\ IsFiniteSet(s)
      /\ SumFunctionOnSet(f, s) # SumFunctionOnSet(g, Img(s))
  BY <1>3, FS_Subset DEF Bad
<1>5. s # {}
  <2> SUFFICES ASSUME s = {} PROVE FALSE
    OBVIOUS
  <2>1. Img(s) = {}
    OBVIOUS
  <2> HIDE DEF Img
  <2> QED BY <2>1, <1>4, SumEmpty
<1> DEFINE x == Pick(s)
           r == s \ {x}
<1>6. x \in s /\ r \notin Bad /\ r \in SUBSET S /\ IsFiniteSet(r)
  BY <1>3, <1>4, <1>5, PickIn, FS_Subset
<1>7. SumFunctionOnSet(f, r) = SumFunctionOnSet(g, Img(r))
  BY <1>6 DEF Bad
<1>8. SumFunctionOnSet(f, s) = f[x] + SumFunctionOnSet(f, r)
  BY <1>4, <1>5, SumStep
<1>9. s = r \cup {x} /\ x \notin r
  BY <1>6
<1> HIDE DEF x, r
<1>10. Img(s) = Img(r) \cup {b[x]} /\ b[x] \notin Img(r)
  BY <1>4, <1>6, <1>9
<1>11. IsFiniteSet(Img(r))
  BY <1>6, ImageFinite
<1>12. /\ \A u \in Img(r) : g[u] \in Int
       /\ g[b[x]] \in Int /\ f[x] = g[b[x]]
  BY <1>4, <1>6
<1> HIDE DEF Img
<1>13. SumFunctionOnSet(g, Img(s)) = g[b[x]] + SumFunctionOnSet(g, Img(r))
  BY <1>10, <1>11, <1>12, SumAdd
<1> QED BY <1>4, <1>7, <1>8, <1>12, <1>13

\* One term changed.
LEMMA SumBump ==
  ASSUME NEW f, NEW g, NEW S, IsFiniteSet(S), NEW e \in S, NEW v \in Int,
         \A x \in S : f[x] \in Int /\ g[x] = IF x = e THEN f[x] + v ELSE f[x]
  PROVE  SumFunctionOnSet(g, S) = SumFunctionOnSet(f, S) + v
PROOF
<1> DEFINE r == S \ {e}
<1>1. IsFiniteSet(r) /\ \A x \in S : f[x] \in Int /\ g[x] \in Int
  BY FS_Subset
<1>2. SumFunctionOnSet(f, S) = f[e] + SumFunctionOnSet(f, r)
  BY <1>1, SumRemove
<1>3. SumFunctionOnSet(g, S) = g[e] + SumFunctionOnSet(g, r)
  BY <1>1, SumRemove
<1>4. SumFunctionOnSet(g, r) = SumFunctionOnSet(f, r)
  BY <1>1, SumSame
<1>5. SumFunctionOnSet(f, r) \in Int
  BY <1>1, SumType
<1>6. g[e] = f[e] + v /\ f[e] \in Int
  OBVIOUS
<1> HIDE DEF r
<1> QED BY <1>2, <1>3, <1>4, <1>5, <1>6

\* A sum is the sum of its parts: Q[d] is what p puts under d, F[d] its sum.
Parted(f, F, p, Q, S, D) ==
  /\ IsFiniteSet(S) /\ IsFiniteSet(D)
  /\ \A x \in S : f[x] \in Int /\ p[x] \in D
  /\ \A d \in D : \A x : x \in Q[d] <=> x \in S /\ p[x] = d
  /\ \A d \in D : F[d] = SumFunctionOnSet(f, Q[d])

\* The sum of the parts is the sum of the whole.
LEMMA SumParts ==
  ASSUME NEW f, NEW F, NEW p, NEW Q, NEW S, NEW D, Parted(f, F, p, Q, S, D)
  PROVE  SumFunctionOnSet(F, D) = SumFunctionOnSet(f, S)
PROOF
<1> USE DEF Parted
<1> DEFINE Part(s) == [d \in D |-> SumFunctionOnSet(f, {x \in s : p[x] = d})]
           Bad == {s \in SUBSET S : SumFunctionOnSet(Part(s), D) # SumFunctionOnSet(f, s)}
<1>0. ASSUME Bad = {} PROVE SumFunctionOnSet(F, D) = SumFunctionOnSet(f, S)
  <2>1. SumFunctionOnSet(Part(S), D) = SumFunctionOnSet(f, S)
    BY <1>0
  <2>2. ASSUME NEW d \in D PROVE F[d] = Part(S)[d]
    <3>1. Q[d] = {x \in S : p[x] = d}
      OBVIOUS
    <3>2. F[d] = SumFunctionOnSet(f, {x \in S : p[x] = d})
      BY <3>1
    <3> QED BY <3>2
  <2> HIDE DEF Part
  <2>3. SumFunctionOnSet(F, D) = SumFunctionOnSet(Part(S), D)
    BY <2>2, SumSame
  <2> QED BY <2>1, <2>3
<1>1. SUFFICES ASSUME Bad # {} PROVE FALSE
  BY <1>0
<1>2. Bad \subseteq SUBSET S
  OBVIOUS
<1> HIDE DEF Bad
<1>3. PICK s \in Bad : \A y \in Bad : y \subseteq s => y = s
  BY <1>1, <1>2, Smallest
<1>4. /\ s \in SUBSET S /\ IsFiniteSet(s)
      /\ SumFunctionOnSet(Part(s), D) # SumFunctionOnSet(f, s)
  BY <1>3, FS_Subset DEF Bad
<1>5. s # {}
  <2> SUFFICES ASSUME s = {} PROVE FALSE
    OBVIOUS
  <2>1. \A d \in D : {x \in s : p[x] = d} = {}
    OBVIOUS
  <2>2. \A d \in D : Part(s)[d] = 0
    BY <2>1, SumEmpty
  <2> HIDE DEF Part
  <2>3. SumFunctionOnSet(Part(s), D) = 0
    BY <2>2, SumZero
  <2> QED BY <2>3, <1>4, SumEmpty
<1> DEFINE x == Pick(s)
           r == s \ {x}
<1>6. x \in s /\ r \notin Bad /\ r \in SUBSET S /\ IsFiniteSet(r)
  BY <1>3, <1>4, <1>5, PickIn, FS_Subset
<1>7. SumFunctionOnSet(Part(r), D) = SumFunctionOnSet(f, r)
  BY <1>6 DEF Bad
<1>8. SumFunctionOnSet(f, s) = f[x] + SumFunctionOnSet(f, r)
  BY <1>4, <1>5, SumStep
<1>9. s = r \cup {x} /\ x \notin r /\ p[x] \in D /\ f[x] \in Int
  BY <1>6, <1>4
<1> HIDE DEF x, r
<1>10. ASSUME NEW d \in D
       PROVE  /\ Part(r)[d] \in Int
              /\ Part(s)[d] = IF d = p[x] THEN Part(r)[d] + f[x] ELSE Part(r)[d]
  <2> DEFINE R == {y \in r : p[y] = d}
  <2>1. IsFiniteSet(R) /\ \A y \in R : f[y] \in Int
    BY <1>6, FS_Subset
  <2>2. SumFunctionOnSet(f, R) \in Int
    BY <2>1, SumType
  <2>3. Part(r)[d] = SumFunctionOnSet(f, R)
    OBVIOUS
  <2>4. CASE d = p[x]
    <3>1. {y \in s : p[y] = d} = R \cup {x} /\ x \notin R
      BY <2>4, <1>9
    <3> HIDE DEF R
    <3>2. SumFunctionOnSet(f, R \cup {x}) = f[x] + SumFunctionOnSet(f, R)
      BY <2>1, <3>1, <1>9, SumAdd
    <3>3. Part(s)[d] = SumFunctionOnSet(f, R \cup {x})
      BY <3>1
    <3> HIDE DEF Part
    <3> QED BY <2>2, <2>3, <2>4, <3>2, <3>3, <1>9
  <2>5. CASE d # p[x]
    <3>1. {y \in s : p[y] = d} = R
      BY <2>5, <1>9
    <3>2. Part(s)[d] = SumFunctionOnSet(f, R)
      BY <3>1
    <3> HIDE DEF Part, R
    <3> QED BY <2>2, <2>3, <2>5, <3>2
  <2> QED BY <2>4, <2>5
<1> HIDE DEF Part
<1>11. SumFunctionOnSet(Part(s), D) = SumFunctionOnSet(Part(r), D) + f[x]
  <2> DEFINE e == p[x]
             v == f[x]
             before == Part(r)
             after == Part(s)
  <2>1. e \in D /\ v \in Int
    BY <1>9
  <2>2. \A d \in D : before[d] \in Int /\ after[d] = IF d = e THEN before[d] + v ELSE before[d]
    BY <1>10
  <2> HIDE DEF e, v, before, after
  <2>3. SumFunctionOnSet(after, D) = SumFunctionOnSet(before, D) + v
    BY <2>1, <2>2, SumBump
  <2> QED BY <2>3 DEF v, before, after
<1>12. SumFunctionOnSet(f, r) \in Int
  BY <1>6, SumType
<1> QED BY <1>4, <1>7, <1>8, <1>9, <1>11, <1>12

\* Rows and columns of a table come to the same: F sums the rows R, G the columns C.
Table(F, G, R, C, A, B) ==
  /\ IsFiniteSet(A) /\ IsFiniteSet(B)
  /\ \A a \in A, b \in B : R[a][b] \in Int /\ C[b][a] = R[a][b]
  /\ \A a \in A : F[a] = SumFunctionOnSet(R[a], B)
  /\ \A b \in B : G[b] = SumFunctionOnSet(C[b], A)

\* The rows of a table sum to what its columns sum to.
LEMMA SumSwap ==
  ASSUME NEW F, NEW G, NEW R, NEW C, NEW A, NEW B, Table(F, G, R, C, A, B)
  PROVE  SumFunctionOnSet(F, A) = SumFunctionOnSet(G, B)
PROOF
<1> USE DEF Table
<1> DEFINE f == [x \in A \X B |-> R[x[1]][x[2]]]
<1>cells. \A a \in A, b \in B : f[<<a, b>>] = R[a][b] /\ f[<<a, b>>] \in Int
  OBVIOUS
<1> HIDE DEF f
<1> DEFINE Row(a) == [b \in B |-> f[<<a, b>>]]
           Column(b) == [a \in A |-> f[<<a, b>>]]
           Part(s) == [b \in B |-> SumFunctionOnSet(Column(b), s)]
           Bad == {s \in SUBSET A : SumFunctionOnSet(F, s) # SumFunctionOnSet(Part(s), B)}
<1>rows. ASSUME NEW a \in A PROVE F[a] = SumFunctionOnSet(Row(a), B)
  <2>1. \A b \in B : R[a][b] = Row(a)[b]
    BY <1>cells
  <2> HIDE DEF Row
  <2> QED BY <2>1, SumSame
<1>columns. ASSUME NEW b \in B PROVE G[b] = SumFunctionOnSet(Column(b), A)
  <2>1. \A a \in A : C[b][a] = Column(b)[a]
    BY <1>cells
  <2> HIDE DEF Column
  <2> QED BY <2>1, SumSame
<1>0. ASSUME Bad = {} PROVE SumFunctionOnSet(F, A) = SumFunctionOnSet(G, B)
  <2>1. SumFunctionOnSet(F, A) = SumFunctionOnSet(Part(A), B)
    BY <1>0
  <2>2. \A b \in B : G[b] = Part(A)[b]
    <3> HIDE DEF Column
    <3> QED BY <1>columns
  <2> HIDE DEF Part
  <2>3. SumFunctionOnSet(G, B) = SumFunctionOnSet(Part(A), B)
    BY <2>2, SumSame
  <2> QED BY <2>1, <2>3
<1>1. SUFFICES ASSUME Bad # {} PROVE FALSE
  BY <1>0
<1>2. Bad \subseteq SUBSET A
  OBVIOUS
<1> HIDE DEF Bad
<1>3. PICK s \in Bad : \A y \in Bad : y \subseteq s => y = s
  BY <1>1, <1>2, Smallest
<1>4. /\ s \in SUBSET A /\ IsFiniteSet(s)
      /\ SumFunctionOnSet(F, s) # SumFunctionOnSet(Part(s), B)
  BY <1>3, FS_Subset DEF Bad
<1>5. s # {}
  <2> SUFFICES ASSUME s = {} PROVE FALSE
    OBVIOUS
  <2>1. \A b \in B : Part(s)[b] = 0
    BY SumEmpty
  <2> HIDE DEF Part
  <2>2. SumFunctionOnSet(Part(s), B) = 0
    BY <2>1, SumZero
  <2> QED BY <2>2, <1>4, SumEmpty
<1> DEFINE x == Pick(s)
           r == s \ {x}
<1>6. x \in s /\ r \notin Bad /\ r \in SUBSET A /\ IsFiniteSet(r)
  BY <1>3, <1>4, <1>5, PickIn, FS_Subset
<1>7. SumFunctionOnSet(F, r) = SumFunctionOnSet(Part(r), B)
  BY <1>6 DEF Bad
<1>8. SumFunctionOnSet(F, s) = F[x] + SumFunctionOnSet(F, r)
  BY <1>4, <1>5, SumStep
<1>9. s = r \cup {x} /\ x \notin r /\ x \in A
  BY <1>6, <1>4
<1> HIDE DEF x, r
<1>10. ASSUME NEW b \in B
       PROVE  /\ Part(r)[b] \in Int /\ Row(x)[b] \in Int
              /\ Part(s)[b] = Row(x)[b] + Part(r)[b]
  <2>1. \A a \in A : Column(b)[a] \in Int
    BY <1>cells
  <2>2. Column(b)[x] = Row(x)[b]
    BY <1>9
  <2>3. Part(r)[b] = SumFunctionOnSet(Column(b), r) /\ Part(s)[b] = SumFunctionOnSet(Column(b), s)
    OBVIOUS
  <2> HIDE DEF Column, Part, Row
  <2>4. SumFunctionOnSet(Column(b), r \cup {x}) = Column(b)[x] + SumFunctionOnSet(Column(b), r)
    BY <2>1, <1>6, <1>9, SumAdd
  <2>5. SumFunctionOnSet(Column(b), r) \in Int
    BY <2>1, <1>6, SumType
  <2>6. Column(b)[x] \in Int
    BY <2>1, <1>9
  <2> QED BY <2>2, <2>3, <2>4, <2>5, <2>6, <1>9
<1>11. F[x] = SumFunctionOnSet(Row(x), B)
  BY <1>9, <1>rows
<1> HIDE DEF Part, Row
<1>12. SumFunctionOnSet(Part(s), B) = SumFunctionOnSet(Row(x), B) + SumFunctionOnSet(Part(r), B)
  BY <1>10, SumPlus
<1> QED BY <1>4, <1>7, <1>8, <1>11, <1>12

-----------------------------------------------------------------------------
(* The invariant holds.                                                     *)

\* What a checked order makes of a row is a row.
LEMMA AfterRow ==
  ASSUME ConstantsAssumption, RowsOK, NEW o \in Orders, NEW i \in Touched(o),
         o.kind = "sell" => row[i].status = "in_stock" /\ Left(i, row[i]) >= o.lines[i],
         o.kind \in {"update", "archive"} => row[o.item].status = "in_stock"
  PROVE  /\ i \in Items
         /\ After(o, i) \in [status : {"none", "in_stock", "sold", "archived"},
                             quantity : Nat, weight : Nat]
         /\ i \notin Weighed => After(o, i).weight = 0
         /\ After(o, i).status # "in_stock" => After(o, i).quantity = 0
         /\ After(o, i).status \in {"none", "sold"} => After(o, i).weight = 0
         /\ o.kind = "sell" => /\ Left(i, After(o, i)) = Left(i, row[i]) - o.lines[i]
                               /\ o.lines[i] \in Nat
PROOF
<1>1. Order(o)
  BY DEF ConstantsAssumption
<1>2. o.kind \in {"create", "update", "archive", "sell"} /\ i \in Items
  BY <1>1 DEF Order, Touched
<1>3. CASE o.kind = "create"
  <2>1. o.amount \in Nat /\ After(o, i) = Holding(i, o.amount, "in_stock")
    BY <1>1, <1>3 DEF Order, After
  <2> QED BY <1>2, <1>3, <2>1 DEF Holding
<1>4. CASE o.kind = "update"
  <2>1. /\ o.amount \in Nat
        /\ After(o, i) = Holding(i, o.amount, IF i \in Weighed /\ o.amount = 0
                                              THEN "sold" ELSE "in_stock")
    BY <1>1, <1>4 DEF Order, After
  <2> QED BY <1>2, <1>4, <2>1 DEF Holding
<1>5. CASE o.kind = "archive"
  <2>1. o.item = i
    BY <1>5 DEF Touched
  <2>2. After(o, i) = [row[i] EXCEPT !.quantity = 0, !.status = "archived"]
    BY <1>5 DEF After
  <2>3. /\ row[i] \in [status : {"none", "in_stock", "sold", "archived"},
                       quantity : Nat, weight : Nat]
        /\ i \notin Weighed => row[i].weight = 0
    BY <1>2 DEF RowsOK
  <2>4. After(o, i) = [status |-> "archived", quantity |-> 0, weight |-> row[i].weight]
    BY <2>2, <2>3
  <2> QED BY <1>2, <1>5, <2>3, <2>4
<1>6. CASE o.kind = "sell"
  <2> DEFINE rest == Left(i, row[i]) - o.lines[i]
  <2>1. o.lines[i] \in Nat
    BY <1>1, <1>6 DEF Order, Touched
  <2>2. Left(i, row[i]) \in Nat
    BY <1>2 DEF RowsOK, Left
  <2>3. rest \in Nat
    BY <2>1, <2>2, <1>6
  <2>4. After(o, i) = Holding(i, rest, IF rest = 0 THEN "sold" ELSE "in_stock")
    BY <1>6 DEF After
  <2> HIDE DEF rest
  <2>5. Left(i, After(o, i)) = rest
    BY <2>3, <2>4 DEF Holding, Left
  <2> USE DEF rest
  <2> QED BY <1>2, <1>6, <2>1, <2>3, <2>4, <2>5 DEF Holding
<1> QED BY <1>2, <1>3, <1>4, <1>5, <1>6

\* The latest of some entries of different hours.
LEMMA LatestIs ==
  ASSUME NEW H, NEW h \in H, \A g \in H : g.at \in Nat /\ g.at <= h.at,
         \A g \in H : g.at = h.at => g = h
  PROVE  Latest(H) = h
PROOF
<1> DEFINE g == Latest(H)
<1>1. g \in H /\ \A k \in H : k.at <= g.at
  BY Zenon DEF Latest
<1> HIDE DEF g
<1>2. g.at = h.at
  BY <1>1
<1>3. g = h
  BY <1>1, <1>2
<1> QED BY <1>3 DEF g

\* It holds of a shop just opened.
LEMMA InitIInv == ConstantsAssumption /\ Init => IInv
PROOF
<1> SUFFICES ASSUME ConstantsAssumption, Init PROVE IInv
  OBVIOUS
<1>1. clock \in Hours /\ clock = 0
  BY DEF Init, Hours, ConstantsAssumption
<1>2. RowsOK
  BY DEF Init, RowsOK, ConstantsAssumption, Holding, Missing
<1>3. HistoryOK
  <2> DEFINE b == [i \in DOMAIN Opening |->
                    [item |-> i, at |-> 0, sale |-> 0,
                     quantity |-> row[i].quantity, weight |-> row[i].weight]]
  <2>1. DOMAIN Opening \subseteq Items /\ IsFiniteSet(DOMAIN Opening)
    BY FS_Subset DEF ConstantsAssumption
  <2>2. history = {b[i] : i \in DOMAIN Opening}
    BY DEF Init
  <2>3. IsFiniteSet(history)
    BY <2>1, <2>2, ImageFinite
  <2>4. /\ \A h \in history : /\ h.item \in DOMAIN Opening /\ h.at = 0 /\ h = b[h.item]
                              /\ {h.sale, h.quantity, h.weight} \subseteq Nat
        /\ \A i \in DOMAIN Opening : b[i] \in history
    BY <1>2, <2>1, <2>2 DEF RowsOK
  <2>5. \A i \in Items \ DOMAIN Opening : row[i] = Missing
    BY DEF Init
  <2>6. \A i \in DOMAIN Opening : /\ b[i].item = i /\ b[i].quantity = row[i].quantity
                                  /\ b[i].weight = row[i].weight /\ b[i].at = 0
    OBVIOUS
  <2> HIDE DEF b
  <2> QED BY <1>1, <2>1, <2>3, <2>4, <2>5, <2>6 DEF HistoryOK
<1>4. RatesOK
  <2>1. /\ DOMAIN Rates \subseteq Metals /\ \A m \in DOMAIN Rates : Rates[m] \in Nat \ {0}
        /\ rate = [m \in Metals |-> IF m \in DOMAIN Rates THEN Rates[m] ELSE 0]
        /\ rateHistory = {[metal |-> m, at |-> 0, rate |-> Rates[m]] : m \in DOMAIN Rates}
    BY DEF Init, ConstantsAssumption
  <2>2. \A h \in rateHistory : h.metal \in DOMAIN Rates /\ h.at = 0 /\ h.rate = Rates[h.metal]
    BY <2>1
  <2>3. \A g, h \in rateHistory : g.metal = h.metal => g = h
    BY <2>1
  <2>4. ASSUME NEW m \in DOMAIN Rates
        PROVE  \E h \in rateHistory : h.metal = m /\ h.rate = Rates[m]
    <3> DEFINE h == [metal |-> m, at |-> 0, rate |-> Rates[m]]
    <3>1. h \in rateHistory /\ h.metal = m /\ h.rate = Rates[m]
      BY <2>1
    <3> QED BY <3>1
  <2>5. rate \in [Metals -> Nat] /\ \A m \in Metals : IF m \in DOMAIN Rates
                                       THEN rate[m] = Rates[m] /\ rate[m] # 0 ELSE rate[m] = 0
    BY <2>1
  <2> QED BY <1>1, <2>1, <2>2, <2>3, <2>4, <2>5 DEF RatesOK
<1>5. TxnsOK /\ LocksOK
  BY DEF Init, TxnsOK, LocksOK, Writing, Idle
<1>6. SalesOK /\ LogOK
  BY FS_EmptySet DEF Init, SalesOK, LogOK
<1>7. LinesOK
  <2>1. sales = {} /\ \A h \in history : h.sale = 0
    BY DEF Init
  <2> QED BY <2>1 DEF LinesOK
<1> QED BY <1>1, <1>2, <1>3, <1>4, <1>5, <1>6, <1>7 DEF IInv

\* A step that touches no table leaves what is said of the tables as it is.
LEMMA TablesStay ==
  ASSUME IInv, UNCHANGED tables, clock' \in Hours, clock <= clock'
  PROVE  RowsOK' /\ HistoryOK' /\ RatesOK' /\ SalesOK' /\ LinesOK' /\ LogOK'
PROOF
<1>0. clock \in Int /\ clock' \in Int /\ \A n \in 0..clock : n \in 0..clock'
  BY DEF IInv, Hours
<1>1. RowsOK'
  BY DEF IInv, RowsOK, tables
<1>2. HistoryOK'
  BY <1>0 DEF IInv, HistoryOK, tables
<1>3. RatesOK'
  BY <1>0 DEF IInv, RatesOK, tables
<1>4. SalesOK'
  BY <1>0 DEF IInv, SalesOK, tables
<1>5. LinesOK'
  <2>1. \A i, t : AsOf(i, t)' = AsOf(i, t)
    BY DEF AsOf, Snapshots, tables
  <2>2. \A h : Taken(h)' = Taken(h)
    BY <2>1 DEF Taken
  <2> QED BY <2>2 DEF IInv, LinesOK, tables
<1>6. LogOK'
  BY DEF IInv, LogOK, tables
<1> QED BY <1>1, <1>2, <1>3, <1>4, <1>5, <1>6

\* What a transaction wrote still stands after a step that changes neither its rows nor
\* what the tables say of them.
LEMMA WroteStays ==
  ASSUME NEW t, WroteOK(t), clock \in Nat, clock' \in Nat, clock <= clock', t.at \in Nat,
         \A i \in Touched(t.order) : row'[i] = row[i],
         \A h \in history' : h.item \in Touched(t.order) => h \in history,
         t.order.kind = "rate" =>
           \A h \in rateHistory' : h.metal = t.order.metal => h \in rateHistory
  PROVE  WroteOK(t)'
PROOF
<1>1. t.when \in t.at..clock'
  BY DEF WroteOK
<1>2. \A i \in Touched(t.order) : After(t.order, i)' = After(t.order, i)
  BY DEF After
<1>3. t.order.kind \in {"create", "update", "archive"} => t.order.item \in Touched(t.order)
  BY DEF Touched
<1> QED BY <1>1, <1>2, <1>3 DEF WroteOK

\* What two transactions wrote does not overlap.
LEMMA LocksStay ==
  ASSUME IInv, NEW c \in Clerks, NEW d \in Clerks, txn[c].phase = "wrote", txn[d].phase = "wrote",
         c # d
  PROVE  /\ Touched(txn[c].order) \cap Touched(txn[d].order) = {}
         /\ ~ (txn[c].order.kind = "sell" /\ txn[d].order.kind = "sell")
         /\ ~ (/\ txn[c].order.kind = "rate" /\ txn[d].order.kind = "rate"
               /\ txn[c].order.metal = txn[d].order.metal)
PROOF
<1>1. c \in Writing /\ d \in Writing /\ c \notin Holders(txn[d].order)
  BY DEF IInv, LocksOK, Writing
<1> QED BY <1>1 DEF Holders

\* A request that begins reads and writes nothing yet.
LEMMA BeginKeeps ==
  ASSUME ConstantsAssumption, IInv, NEW c \in Clerks, Begin(c)
  PROVE  IInv'
PROOF
<1>1. clock' \in Hours /\ clock <= clock' /\ clock \in Nat /\ clock' = clock
  BY DEF Begin, IInv, Hours
<1>2. RowsOK' /\ HistoryOK' /\ RatesOK' /\ SalesOK' /\ LinesOK' /\ LogOK'
  BY <1>1, TablesStay DEF Begin
<1>3. /\ txn' = [d \in Clerks |-> txn'[d]]
      /\ \A d \in Clerks : IF d = c THEN txn'[d] = [phase |-> "begun", at |-> clock]
                            ELSE txn'[d] = txn[d]
  BY DEF Begin, IInv, TxnsOK
<1>4. TxnsOK'
  <2>1. ASSUME NEW d \in Clerks, txn'[d].phase = "wrote" PROVE WroteOK(txn[d])'
    <3>1. txn'[d] = txn[d] /\ WroteOK(txn[d]) /\ txn[d].at \in Nat
      BY <2>1, <1>3 DEF IInv, TxnsOK
    <3>2. PICK t : t = txn[d]
      OBVIOUS
    <3>3. WroteOK(t)'
      BY <3>1, <3>2, <1>1, WroteStays DEF Begin, tables
    <3> QED BY <3>1, <3>2, <3>3
  <2> QED BY <2>1, <1>1, <1>3 DEF IInv, TxnsOK
<1>5. LocksOK'
  BY <1>3 DEF IInv, LocksOK, Writing, Holders
<1> QED BY <1>1, <1>2, <1>4, <1>5 DEF IInv

\* One that is refused or fails leaves the tables as they are.
LEMMA AbortKeeps ==
  ASSUME ConstantsAssumption, IInv, NEW c \in Clerks, Abort(c)
  PROVE  IInv'
PROOF
<1>1. clock' \in Hours /\ clock <= clock' /\ clock \in Nat /\ clock' = clock
  BY DEF Abort, IInv, Hours
<1>2. RowsOK' /\ HistoryOK' /\ RatesOK' /\ SalesOK' /\ LinesOK' /\ LogOK'
  BY <1>1, TablesStay DEF Abort
<1>3. /\ txn' = [d \in Clerks |-> txn'[d]]
      /\ \A d \in Clerks : IF d = c THEN txn'[d].phase = "idle" ELSE txn'[d] = txn[d]
  BY DEF Abort, IInv, TxnsOK, Idle
<1>4. TxnsOK'
  <2>1. ASSUME NEW d \in Clerks, txn'[d].phase = "wrote" PROVE WroteOK(txn[d])'
    <3>1. txn'[d] = txn[d] /\ WroteOK(txn[d]) /\ txn[d].at \in Nat
      BY <2>1, <1>3 DEF IInv, TxnsOK
    <3>2. PICK t : t = txn[d]
      OBVIOUS
    <3>3. WroteOK(t)'
      BY <3>1, <3>2, <1>1, WroteStays DEF Abort, tables
    <3> QED BY <3>1, <3>2, <3>3
  <2> QED BY <2>1, <1>1, <1>3 DEF IInv, TxnsOK
<1>5. LocksOK'
  BY <1>3 DEF IInv, LocksOK, Writing, Holders
<1> QED BY <1>1, <1>2, <1>4, <1>5 DEF IInv

\* Time only adds room between a moment and now.
LEMMA TickKeeps ==
  ASSUME ConstantsAssumption, IInv, Tick
  PROVE  IInv'
PROOF
<1>1. clock' \in Hours /\ clock <= clock' /\ clock \in Nat /\ clock' \in Nat
  BY DEF Tick, IInv, Hours, ConstantsAssumption
<1>2. RowsOK' /\ HistoryOK' /\ RatesOK' /\ SalesOK' /\ LinesOK' /\ LogOK'
  BY <1>1, TablesStay DEF Tick
<1>3. txn' = txn
  BY DEF Tick
<1>4. TxnsOK'
  <2>1. ASSUME NEW d \in Clerks, txn'[d].phase = "wrote" PROVE WroteOK(txn[d])'
    <3>1. txn'[d] = txn[d] /\ WroteOK(txn[d]) /\ txn[d].at \in Nat
      BY <2>1, <1>3 DEF IInv, TxnsOK
    <3>2. PICK t : t = txn[d]
      OBVIOUS
    <3>3. WroteOK(t)'
      BY <3>1, <3>2, <1>1, WroteStays DEF Tick, tables
    <3> QED BY <3>1, <3>2, <3>3
  <2>2. \A n \in 0..clock : n \in 0..clock'
    BY <1>1
  <2> QED BY <2>1, <2>2, <1>3 DEF IInv, TxnsOK
<1>5. LocksOK'
  BY <1>3 DEF IInv, LocksOK, Writing, Holders
<1> QED BY <1>1, <1>2, <1>4, <1>5 DEF IInv

\* What is written is written from the rows under their locks, later than all about them.
LEMMA WriteKeeps ==
  ASSUME ConstantsAssumption, IInv, NEW c \in Clerks, NEW o \in Orders, Write(c, o)
  PROVE  IInv'
PROOF
<1>1. clock' \in Hours /\ clock <= clock' /\ clock \in Nat /\ clock' = clock
  BY DEF Write, IInv, Hours
<1>2. RowsOK' /\ HistoryOK' /\ RatesOK' /\ SalesOK' /\ LinesOK' /\ LogOK'
  BY <1>1, TablesStay DEF Write
<1>3. PICK t :
        t = [phase |-> "wrote", order |-> o, at |-> txn[c].at, when |-> clock,
             rows |-> [i \in Touched(o) |-> After(o, i)],
             prices |-> [i \in (IF o.kind = "sell" THEN Touched(o) ELSE {}) |-> rate[Metal[i]]]]
  OBVIOUS
<1>4. /\ txn' = [d \in Clerks |-> txn'[d]]
      /\ \A d \in Clerks : IF d = c THEN txn'[d] = t ELSE txn'[d] = txn[d]
  BY <1>3 DEF Write, Stamp, IInv, TxnsOK
<1>5. /\ t.phase = "wrote" /\ t.order = o /\ t.at \in 0..clock /\ t.when = clock
      /\ DOMAIN t.rows = Touched(o) /\ \A i \in Touched(o) : t.rows[i] = After(o, i)
      /\ o.kind = "sell" => \A i \in Touched(o) : t.prices[i] = rate[Metal[i]]
  BY <1>3 DEF Write, IInv, TxnsOK
<1>6. Order(o)
  BY DEF ConstantsAssumption
<1>7. WroteOK(t)
  <2>1. /\ t.order \in Orders /\ t.when \in t.at..clock
        /\ DOMAIN t.rows = Touched(t.order)
        /\ \A i \in Touched(t.order) : t.rows[i] = After(t.order, i)
    BY <1>1, <1>5
  <2>2. o.kind = "sell" =>
          \A i \in Touched(o) : /\ row[i].status = "in_stock"
                                /\ Left(i, row[i]) >= o.lines[i]
                                /\ t.prices[i] \in Nat
    BY <1>5, <1>6 DEF Write, Allowed, Touched, Order, Metals, IInv, RatesOK
  <2>3. /\ o.kind \in {"update", "archive"} => row[o.item].status = "in_stock"
        /\ o.kind = "create" => row[o.item] = Missing
    BY DEF Write, Allowed
  <2>4. /\ \A h \in history : h.item \in Touched(o) => h.at < t.when
        /\ o.kind = "rate" => \A h \in rateHistory : h.metal = o.metal => h.at < t.when
    BY <1>5 DEF Write, Later
  <2> QED BY <1>5, <2>1, <2>2, <2>3, <2>4 DEF WroteOK
<1>8. TxnsOK'
  <2>1. ASSUME NEW d \in Clerks, txn'[d].phase = "wrote" PROVE WroteOK(txn[d])'
    <3>1. txn'[d].at \in Nat /\ WroteOK(txn'[d])
      BY <2>1, <1>1, <1>4, <1>5, <1>7 DEF IInv, TxnsOK
    <3>2. PICK u : u = txn'[d]
      OBVIOUS
    <3>3. WroteOK(u)'
      BY <3>1, <3>2, <1>1, WroteStays DEF Write, tables
    <3> QED BY <3>2, <3>3
  <2>2. \A d \in Clerks : /\ txn'[d].phase \in {"idle", "begun", "wrote"}
                          /\ txn'[d].phase # "idle" => txn'[d].at \in 0..clock'
    BY <1>1, <1>4, <1>5 DEF IInv, TxnsOK
  <2> QED BY <1>4, <2>1, <2>2 DEF TxnsOK
<1>9. LocksOK'
  <2> SUFFICES ASSUME NEW d \in Clerks, NEW e \in Clerks, d # e,
                      txn'[d].phase = "wrote", txn'[e].phase = "wrote"
               PROVE  (d \notin Holders(txn[e].order))'
    BY DEF LocksOK, Writing
  <2>1. CASE d # c /\ e # c
    BY <2>1, <1>4, LocksStay DEF Holders
  <2>2. CASE d # c /\ e = c
    <3>1. d \notin Holders(o) /\ d \in Writing /\ txn'[e].order = o /\ txn'[d] = txn[d]
      BY <2>2, <1>4, <1>5 DEF Write, Writing
    <3> QED BY <3>1 DEF Holders
  <2>3. CASE d = c /\ e # c
    <3>1. e \notin Holders(o) /\ e \in Writing /\ txn'[d].order = o /\ txn'[e] = txn[e]
      BY <2>3, <1>4, <1>5 DEF Write, Writing
    <3> QED BY <3>1 DEF Holders
  <2> QED BY <2>1, <2>2, <2>3
<1> QED BY <1>1, <1>2, <1>8, <1>9 DEF IInv

\* What another transaction wrote stands when one commits.
LEMMA CommitLeavesOthers ==
  ASSUME ConstantsAssumption, IInv, NEW c \in Clerks, txn[c].phase = "wrote",
         clock' = clock, txn' = [txn EXCEPT ![c] = Idle],
         \A i \in Items \ Touched(txn[c].order) : row'[i] = row[i],
         \A h \in history' : h \in history \/ h.item \in Touched(txn[c].order),
         \A h \in rateHistory' : \/ h \in rateHistory
                                 \/ txn[c].order.kind = "rate" /\ h.metal = txn[c].order.metal
  PROVE  TxnsOK' /\ LocksOK'
PROOF
<1>1. /\ txn' = [d \in Clerks |-> txn'[d]]
      /\ \A d \in Clerks : IF d = c THEN txn'[d].phase = "idle" ELSE txn'[d] = txn[d]
  BY DEF IInv, TxnsOK, Idle
<1>2. clock \in Nat
  BY DEF IInv, Hours
<1>3. TxnsOK'
  <2>1. ASSUME NEW d \in Clerks, txn'[d].phase = "wrote" PROVE WroteOK(txn[d])'
    <3>1. txn'[d] = txn[d] /\ WroteOK(txn[d]) /\ txn[d].at \in Nat /\ d # c
          /\ txn[d].phase = "wrote" /\ txn[d].order \in Orders
      BY <2>1, <1>1, <1>2 DEF IInv, TxnsOK, WroteOK
    <3>2. PICK u : u = txn[d]
      OBVIOUS
    <3>3. /\ Touched(u.order) \cap Touched(txn[c].order) = {}
          /\ ~ (/\ txn[c].order.kind = "rate" /\ u.order.kind = "rate"
                /\ txn[c].order.metal = u.order.metal)
      BY <3>1, <3>2, LocksStay
    <3>4. Order(u.order)
      BY <3>1, <3>2 DEF ConstantsAssumption
    <3>5. Touched(u.order) \subseteq Items
      BY <3>4 DEF Order, Touched
    <3>6. WroteOK(u)'
      BY <3>1, <3>2, <3>3, <3>5, <1>2, WroteStays
    <3> QED BY <3>1, <3>2, <3>6
  <2> QED BY <2>1, <1>1, <1>2 DEF IInv, TxnsOK
<1>4. LocksOK'
  <2> SUFFICES ASSUME NEW d \in Clerks, NEW e \in Clerks, d # e,
                      txn'[d].phase = "wrote", txn'[e].phase = "wrote"
               PROVE  (d \notin Holders(txn[e].order))'
    BY DEF LocksOK, Writing
  <2> QED BY <1>1, LocksStay DEF Holders
<1> QED BY <1>3, <1>4

\* A rate and its history are published together.
LEMMA RateKeeps ==
  ASSUME ConstantsAssumption, IInv, NEW c \in Clerks, txn[c].phase = "wrote",
         txn[c].order.kind = "rate", PublishRate(txn[c]),
         UNCHANGED <<clock, row, history, sales, log>>, txn' = [txn EXCEPT ![c] = Idle]
  PROVE  IInv'
PROOF
<1> DEFINE t == txn[c]
           o == t.order
           from == IF rate[o.metal] = 0 THEN t.at ELSE t.when
           n == [metal |-> o.metal, at |-> from, rate |-> o.rate]
<1>1. WroteOK(t) /\ t.at \in 0..clock /\ clock \in Nat
  BY DEF IInv, TxnsOK, Hours
<1>2. o.metal \in Metals /\ o.rate \in Nat \ {0}
  BY <1>1 DEF WroteOK, ConstantsAssumption, Order
<1>3. rate' = [rate EXCEPT ![o.metal] = o.rate] /\ rateHistory' = rateHistory \cup {n}
  BY DEF PublishRate
<1>4. n.metal = o.metal /\ n.rate = o.rate /\ n.at \in 0..clock
  BY <1>1 DEF WroteOK
<1>5. \A h \in rateHistory : h.metal = o.metal => h.at < n.at
  <2>1. CASE rate[o.metal] = 0
    BY <2>1, <1>2 DEF IInv, RatesOK
  <2>2. CASE rate[o.metal] # 0
    BY <2>2, <1>1 DEF WroteOK
  <2> QED BY <2>1, <2>2
<1>6. RatesOK'
  <2> HIDE DEF n
  <2>1. /\ rate' \in [Metals -> Nat]
        /\ \A m \in Metals : rate'[m] = IF m = o.metal THEN o.rate ELSE rate[m]
    BY <1>2, <1>3 DEF IInv, RatesOK
  <2>2. \A h \in rateHistory' : h.metal \in Metals /\ h.at \in 0..clock' /\ h.rate \in Nat
    BY <1>2, <1>3, <1>4 DEF IInv, RatesOK
  <2>3. \A g, h \in rateHistory' : g.metal = h.metal /\ g.at = h.at => g = h
    BY <1>1, <1>3, <1>4, <1>5 DEF IInv, RatesOK
  <2>4. ASSUME NEW m \in Metals
        PROVE  \/ rate'[m] = 0 /\ \A h \in rateHistory' : h.metal # m
               \/ rate'[m] # 0 /\ \E h \in rateHistory' :
                    /\ h.metal = m /\ h.rate = rate'[m]
                    /\ \A g \in rateHistory' : g.metal = m => g.at <= h.at
    <3>1. CASE m = o.metal
      <4>1. /\ n \in rateHistory' /\ n.metal = m /\ n.rate = rate'[m] /\ rate'[m] # 0
            /\ \A g \in rateHistory' : g.metal = m => g.at <= n.at
        <5>1. \A g \in rateHistory : g.at \in Int
          BY DEF IInv, RatesOK
        <5> QED BY <3>1, <2>1, <1>1, <1>2, <1>3, <1>4, <1>5, <5>1
      <4> QED BY <4>1
    <3>2. CASE m # o.metal
      BY <3>2, <2>1, <1>3, <1>4 DEF IInv, RatesOK
    <3> QED BY <3>1, <3>2
  <2> QED BY <2>1, <2>2, <2>3, <2>4 DEF RatesOK
<1>7. TxnsOK' /\ LocksOK'
  <2>1. \A h \in rateHistory' : h \in rateHistory \/ (o.kind = "rate" /\ h.metal = o.metal)
    BY <1>3, <1>4
  <2> QED BY <2>1, CommitLeavesOthers
<1>8. RowsOK' /\ HistoryOK' /\ SalesOK' /\ LogOK'
  BY DEF IInv, RowsOK, HistoryOK, SalesOK, LogOK
<1>9. LinesOK'
  <2>1. \A i, u : AsOf(i, u)' = AsOf(i, u)
    BY DEF AsOf, Snapshots
  <2>2. \A h : Taken(h)' = Taken(h)
    BY <2>1 DEF Taken
  <2> QED BY <2>2 DEF IInv, LinesOK
<1> QED BY <1>6, <1>7, <1>8, <1>9 DEF IInv, Hours

\* The snapshots a transaction leaves: one of each row it touched, as it left it.
LEMMA NewSnapshotFields ==
  ASSUME ConstantsAssumption, RowsOK, NEW t, WroteOK(t), NEW sale
  PROVE  /\ Touched(t.order) \subseteq Items /\ IsFiniteSet(NewSnapshots(t, sale))
         /\ \A i \in Touched(t.order) :
              /\ t.rows[i] = After(t.order, i)
              /\ t.rows[i] \in [status : {"none", "in_stock", "sold", "archived"},
                                quantity : Nat, weight : Nat]
              /\ i \notin Weighed => t.rows[i].weight = 0
              /\ t.rows[i].status # "in_stock" => t.rows[i].quantity = 0
              /\ t.rows[i].status \in {"none", "sold"} => t.rows[i].weight = 0
         /\ \A h \in NewSnapshots(t, sale) :
              /\ h.item \in Touched(t.order) /\ h.at = t.when /\ h.sale = sale
              /\ h.quantity = t.rows[h.item].quantity /\ h.weight = t.rows[h.item].weight
         /\ \A g, h \in NewSnapshots(t, sale) : g.item = h.item => g = h
         /\ \A i \in Touched(t.order) : \E h \in NewSnapshots(t, sale) : h.item = i
PROOF
<1> DEFINE I == Touched(t.order)
           b == [i \in I |-> [item |-> i, at |-> t.when, sale |-> sale,
                              quantity |-> t.rows[i].quantity, weight |-> t.rows[i].weight]]
<1>1. t.order \in Orders /\ DOMAIN t.rows = I /\ \A i \in I : t.rows[i] = After(t.order, i)
  BY DEF WroteOK
<1>2. ASSUME NEW i \in I
      PROVE  /\ i \in Items
             /\ t.rows[i] \in [status : {"none", "in_stock", "sold", "archived"},
                               quantity : Nat, weight : Nat]
             /\ i \notin Weighed => t.rows[i].weight = 0
             /\ t.rows[i].status # "in_stock" => t.rows[i].quantity = 0
             /\ t.rows[i].status \in {"none", "sold"} => t.rows[i].weight = 0
  <2>1. /\ t.order.kind = "sell" =>
             row[i].status = "in_stock" /\ Left(i, row[i]) >= t.order.lines[i]
        /\ t.order.kind \in {"update", "archive"} => row[t.order.item].status = "in_stock"
    BY DEF WroteOK
  <2> QED BY <1>1, <2>1, AfterRow
<1>3. I \subseteq Items /\ IsFiniteSet(I)
  BY <1>2, FS_Subset DEF ConstantsAssumption
<1>4. NewSnapshots(t, sale) = {b[i] : i \in I}
  BY <1>1 DEF NewSnapshots
<1>5. IsFiniteSet(NewSnapshots(t, sale))
  <2> HIDE DEF b
  <2> QED BY <1>3, <1>4, ImageFinite
<1>6. \A i \in I : /\ b[i].item = i /\ b[i].at = t.when /\ b[i].sale = sale
                   /\ b[i].quantity = t.rows[i].quantity /\ b[i].weight = t.rows[i].weight
  OBVIOUS
<1> HIDE DEF b
<1>7. \A h \in NewSnapshots(t, sale) : h.item \in I /\ h = b[h.item]
  BY <1>4, <1>6
<1>8. \A i \in I : b[i] \in NewSnapshots(t, sale)
  BY <1>4
<1> QED BY <1>1, <1>2, <1>3, <1>5, <1>6, <1>7, <1>8

\* Published rows are rows, and each is its item's last snapshot.
LEMMA PublishedRows ==
  ASSUME ConstantsAssumption, IInv, NEW t, WroteOK(t), t.at \in 0..clock, Publish(t), clock' = clock
  PROVE  RowsOK' /\ HistoryOK'
PROOF
<1> DEFINE sale == IF t.order.kind = "sell" THEN Cardinality(sales) + 1 ELSE 0
           N == NewSnapshots(t, sale)
           I == Touched(t.order)
<1>0. RowsOK /\ HistoryOK /\ clock \in Nat
  BY DEF IInv, Hours
<1>1. /\ row' = [i \in Items |-> IF i \in I THEN t.rows[i] ELSE row[i]]
      /\ history' = history \cup N
  BY DEF Publish, WroteOK
<1>2. sale \in Nat
  BY FS_CardinalityType DEF IInv, SalesOK
<1>3. t.when \in 0..clock /\ \A h \in history : h.item \in I => h.at < t.when
  BY <1>0 DEF WroteOK
<1> HIDE DEF sale
<1>4. /\ I \subseteq Items /\ IsFiniteSet(N)
      /\ \A h \in N : /\ h.item \in I /\ h.at = t.when /\ h.sale = sale
                      /\ h.quantity = t.rows[h.item].quantity /\ h.weight = t.rows[h.item].weight
      /\ \A g, h \in N : g.item = h.item => g = h
      /\ \A i \in I : \E h \in N : h.item = i
  BY <1>0, NewSnapshotFields
<1>5. \A i \in I : /\ t.rows[i] \in [status : {"none", "in_stock", "sold", "archived"},
                                     quantity : Nat, weight : Nat]
                   /\ i \notin Weighed => t.rows[i].weight = 0
                   /\ t.rows[i].status # "in_stock" => t.rows[i].quantity = 0
                   /\ t.rows[i].status \in {"none", "sold"} => t.rows[i].weight = 0
  BY <1>0, NewSnapshotFields
<1> HIDE DEF N, I
<1>6. RowsOK'
  BY <1>0, <1>1, <1>4, <1>5 DEF RowsOK
<1>7. HistoryOK'
  <2>1. IsFiniteSet(history')
    BY <1>0, <1>1, <1>4, FS_Union DEF HistoryOK
  <2>2. \A h \in history' : /\ h.item \in Items /\ h.at \in 0..clock'
                            /\ {h.sale, h.quantity, h.weight} \subseteq Nat
    BY <1>0, <1>1, <1>2, <1>3, <1>4, <1>5 DEF HistoryOK
  <2>3. \A g, h \in history' : g.item = h.item /\ g.at = h.at => g = h
    <3>1. \A h \in history : h.at \in Int
      BY <1>0 DEF HistoryOK
    <3> QED BY <1>0, <1>1, <1>3, <1>4, <3>1 DEF HistoryOK
  <2>4. ASSUME NEW i \in Items
        PROVE  \/ row'[i] = Missing /\ \A h \in history' : h.item # i
               \/ \E h \in history' :
                    /\ h.item = i /\ h.quantity = row'[i].quantity /\ h.weight = row'[i].weight
                    /\ \A g \in history' : g.item = i => g.at <= h.at
    <3>1. CASE i \in I
      <4>1. PICK h \in N : h.item = i
        BY <3>1, <1>4
      <4>2. /\ h \in history' /\ h.item = i
            /\ h.quantity = row'[i].quantity /\ h.weight = row'[i].weight
        BY <4>1, <3>1, <1>1, <1>4
      <4>3. \A g \in history' : g.item = i => g.at <= h.at
        <5>1. \A g \in history : g.at \in Int
          BY <1>0 DEF HistoryOK
        <5> QED BY <3>1, <4>1, <1>1, <1>3, <1>4, <5>1
      <4> QED BY <4>2, <4>3
    <3>2. CASE i \notin I
      <4>1. row'[i] = row[i] /\ \A h \in history' : h.item = i => h \in history
        BY <3>2, <1>1, <1>4
      <4> QED BY <4>1, <1>0, <1>1 DEF HistoryOK
    <3> QED BY <3>1, <3>2
  <2> QED BY <2>1, <2>2, <2>3, <2>4 DEF HistoryOK
<1> QED BY <1>6, <1>7

\* A later snapshot changes nothing that an earlier one says was taken, and the snapshots of
\* a sale say what its lines do.
LEMMA PublishedTaken ==
  ASSUME ConstantsAssumption, IInv, NEW t, WroteOK(t), t.at \in 0..clock, Publish(t),
         NEW sale, sale = IF t.order.kind = "sell" THEN Cardinality(sales) + 1 ELSE 0
  PROVE  /\ \A h \in history : Taken(h)' = Taken(h)
         /\ t.order.kind = "sell" =>
              \A h \in NewSnapshots(t, sale) : Taken(h)' = t.order.lines[h.item]
PROOF
<1> DEFINE N == NewSnapshots(t, sale)
           I == Touched(t.order)
<1>0. RowsOK /\ HistoryOK /\ clock \in Nat
  BY DEF IInv, Hours
<1>1. history' = history \cup N
  BY DEF Publish
<1>2. t.when \in 0..clock /\ \A h \in history : h.item \in I => h.at < t.when
  BY <1>0 DEF WroteOK
<1>3. \A h \in N : /\ h.item \in I /\ h.at = t.when /\ h.item \in Items
                   /\ h.quantity = t.rows[h.item].quantity /\ h.weight = t.rows[h.item].weight
                   /\ t.rows[h.item] = After(t.order, h.item)
  BY <1>0, NewSnapshotFields
<1> HIDE DEF N
<1>4. ASSUME NEW h \in history PROVE Taken(h)' = Taken(h)
  <2>1. h.at \in Nat /\ \A g \in history : g.at \in Nat
    BY <1>0 DEF HistoryOK
  <2>2. \A g \in N : g.item = h.item => ~ (g.at <= h.at - 1)
    BY <1>2, <1>3, <2>1
  <2>3. Snapshots(h.item, h.at - 1)' = Snapshots(h.item, h.at - 1)
    BY <1>1, <2>2 DEF Snapshots
  <2> QED BY <2>3 DEF Taken, AsOf
<1>5. ASSUME t.order.kind = "sell", NEW h \in N PROVE Taken(h)' = t.order.lines[h.item]
  <2> DEFINE i == h.item
             H == {g \in history : g.item = i}
  <2>1. i \in I /\ i \in Items /\ h.at = t.when /\ t.order \in Orders
    BY <1>3 DEF WroteOK
  <2>2. /\ row[i].status = "in_stock" /\ Left(i, row[i]) >= t.order.lines[i]
    BY <2>1, <1>5 DEF WroteOK
  <2>3. /\ Left(i, After(t.order, i)) = Left(i, row[i]) - t.order.lines[i]
        /\ t.order.lines[i] \in Nat
    BY <2>1, <2>2, <1>0, <1>5, AfterRow
  <2>4. Left(i, h) = Left(i, After(t.order, i))
    BY <1>3 DEF Left
  <2>5. \A g \in history : g.at \in Nat
    BY <1>0 DEF HistoryOK
  <2>6. Snapshots(i, h.at - 1)' = H
    <3>1. \A g \in N : ~ (g.at <= h.at - 1)
      BY <1>2, <1>3, <2>1
    <3>2. \A g \in H : g.at <= h.at - 1
      BY <1>2, <2>1, <2>5
    <3> QED BY <1>1, <3>1, <3>2 DEF Snapshots
  <2>7. PICK g \in history : /\ g.item = i /\ g.quantity = row[i].quantity
                             /\ g.weight = row[i].weight
                             /\ \A k \in history : k.item = i => k.at <= g.at
    <3>1. row[i] # Missing
      BY <2>2 DEF Missing
    <3> QED BY <3>1, <2>1, <1>0 DEF HistoryOK
  <2>8. Latest(H) = g
    <3>1. g \in H /\ \A k \in H : k.at \in Nat /\ k.at <= g.at
      BY <2>5, <2>7
    <3>2. \A k \in H : k.at = g.at => k = g
      BY <1>0, <2>7 DEF HistoryOK
    <3> HIDE DEF H
    <3> QED BY <3>1, <3>2, LatestIs
  <2>9. H # {}
    BY <2>7
  <2>10. AsOf(i, h.at - 1)' = g
    <3> HIDE DEF H
    <3> QED BY <2>6, <2>8, <2>9 DEF AsOf
  <2>11. Left(i, g) = Left(i, row[i]) /\ Left(i, row[i]) \in Nat
    BY <2>1, <2>7, <1>0 DEF Left, RowsOK
  <2>12. Taken(h)' = Left(i, g) - Left(i, h)
    BY <2>10 DEF Taken
  <2> QED BY <2>3, <2>4, <2>11, <2>12
<1> QED BY <1>4, <1>5 DEF N

\* The sale that a transaction leaves has a line for each row it touched.
LEMMA NewSaleFields ==
  ASSUME ConstantsAssumption, IInv, NEW t, WroteOK(t), t.order.kind = "sell", NEW sale
  PROVE  /\ NewSale(t, sale).id = sale /\ NewSale(t, sale).at = t.at
         /\ DOMAIN NewSale(t, sale).lines = Touched(t.order)
         /\ \A i \in Touched(t.order) :
              /\ NewSale(t, sale).lines[i].amount = t.order.lines[i]
              /\ t.order.lines[i] \in Nat /\ NewSale(t, sale).lines[i].price \in Nat
PROOF
<1>1. DOMAIN t.rows = Touched(t.order) /\ Order(t.order)
  BY DEF WroteOK, ConstantsAssumption
<1>2. ASSUME NEW i \in Touched(t.order)
      PROVE  t.order.lines[i] \in Nat /\ t.order.lines[i] * t.prices[i] \in Nat
  <2>1. t.order.lines[i] \in Nat /\ t.prices[i] \in Nat
    BY <1>1 DEF Order, Touched, WroteOK
  <2> QED BY <2>1
<1> QED BY <1>1, <1>2 DEF NewSale

\* Its entries in the log.
LEMMA NewEntryFields ==
  ASSUME NEW t, NEW s, IsFiniteSet(DOMAIN s.lines)
  PROVE  /\ IsFiniteSet(NewEntries(t, s))
         /\ \A e \in NewEntries(t, s) :
              /\ e.event \in {"sale_completed", "item_sold"} /\ e.sale = s.id /\ e.at = t.at
              /\ e.event = "sale_completed" => e.total = Value(s)
              /\ e.event = "item_sold" =>
                   e.item \in DOMAIN s.lines /\ e.amount = s.lines[e.item].amount
         /\ \A e, f \in NewEntries(t, s) :
              e.event = "item_sold" /\ f.event = "item_sold" /\ e.item = f.item => e = f
         /\ \A i \in DOMAIN s.lines :
              \E e \in NewEntries(t, s) : e.event = "item_sold" /\ e.item = i
PROOF
<1> DEFINE I == DOMAIN s.lines
           b == [i \in I |-> [event |-> "item_sold", at |-> t.at, sale |-> s.id, item |-> i,
                              amount |-> s.lines[i].amount,
                              pricing |-> Breakdown(i, s.lines[i].amount, t)]]
           z == [event |-> "sale_completed", at |-> t.at, sale |-> s.id, total |-> Value(s)]
<1>1. NewEntries(t, s) = {z} \cup {b[i] : i \in I}
  BY DEF NewEntries
<1>2. \A i \in I : /\ b[i].event = "item_sold" /\ b[i].at = t.at /\ b[i].sale = s.id
                   /\ b[i].item = i /\ b[i].amount = s.lines[i].amount
  OBVIOUS
<1>3. z.event = "sale_completed" /\ z.at = t.at /\ z.sale = s.id /\ z.total = Value(s)
  OBVIOUS
<1> HIDE DEF b, z, I
<1>4. IsFiniteSet(NewEntries(t, s))
  <2>1. IsFiniteSet(I)
    BY DEF I
  <2>2. IsFiniteSet({b[i] : i \in I})
    BY <2>1, ImageFinite
  <2>3. IsFiniteSet({z})
    BY FS_Singleton
  <2> QED BY <1>1, <2>2, <2>3, FS_Union
<1>5. \A e \in NewEntries(t, s) : e = z \/ (e.item \in I /\ e = b[e.item])
  BY <1>1, <1>2
<1>6. \A i \in I : b[i] \in NewEntries(t, s)
  BY <1>1
<1> QED BY <1>2, <1>3, <1>4, <1>5, <1>6 DEF I

\* A transaction that is not a sale adds no sale, line or entry.
LEMMA PublishedOther ==
  ASSUME ConstantsAssumption, IInv, NEW t, WroteOK(t), t.at \in 0..clock, Publish(t),
         clock' = clock, t.order.kind # "sell"
  PROVE  SalesOK' /\ LinesOK' /\ LogOK'
PROOF
<1>1. sales' = sales /\ log' = log /\ history' = history \cup NewSnapshots(t, 0)
  BY DEF Publish
<1>2. \A h \in NewSnapshots(t, 0) : h.sale = 0
  BY DEF NewSnapshots
<1>3. \A h \in history : Taken(h)' = Taken(h)
  BY PublishedTaken
<1>4. SalesOK' /\ LogOK'
  BY <1>1 DEF IInv, SalesOK, LogOK
<1>5. LinesOK'
  <2>1. \A h \in history' : h.sale # 0 => h \in history
    BY <1>1, <1>2
  <2>2. LinesOK
    BY DEF IInv
  <2> QED BY <1>1, <1>3, <2>1, <2>2 DEF LinesOK
<1> QED BY <1>4, <1>5

\* A sale is published with its snapshots and its entries, line by line.
LEMMA PublishedSale ==
  ASSUME ConstantsAssumption, IInv, NEW t, WroteOK(t), t.at \in 0..clock, Publish(t),
         clock' = clock, t.order.kind = "sell"
  PROVE  SalesOK' /\ LinesOK' /\ LogOK'
PROOF
<1>1. PICK sale : sale = Cardinality(sales) + 1
  OBVIOUS
<1>2. PICK s : s = NewSale(t, sale)
  OBVIOUS
<1> DEFINE I == Touched(t.order)
           N == NewSnapshots(t, sale)
           E == NewEntries(t, s)
<1>0. /\ RowsOK /\ HistoryOK /\ SalesOK /\ LinesOK /\ LogOK /\ clock \in Nat
      /\ Cardinality(sales) \in Nat /\ IsFiniteSet(sales)
  BY FS_CardinalityType DEF IInv, Hours, SalesOK
<1>3. sales' = sales \cup {s} /\ history' = history \cup N /\ log' = log \cup E
  BY <1>0, <1>1, <1>2 DEF Publish
<1>4. /\ s.id = sale /\ s.at = t.at /\ DOMAIN s.lines = I
      /\ \A i \in I : /\ s.lines[i].amount = t.order.lines[i]
                      /\ s.lines[i].amount \in Nat /\ s.lines[i].price \in Nat
  BY <1>2, NewSaleFields
<1>5. /\ I \subseteq Items
      /\ \A h \in N : h.item \in I /\ h.at = t.when /\ h.sale = sale
      /\ \A g, h \in N : g.item = h.item => g = h
      /\ \A i \in I : \E h \in N : h.item = i
  BY <1>0, NewSnapshotFields
<1>6. /\ \A h \in history : Taken(h)' = Taken(h)
      /\ \A h \in N : Taken(h)' = s.lines[h.item].amount
  <2>1. \A h \in N : Taken(h)' = t.order.lines[h.item]
    BY <1>1, PublishedTaken
  <2>2. \A h \in history : Taken(h)' = Taken(h)
    BY <1>1, PublishedTaken
  <2> QED BY <2>1, <2>2, <1>4, <1>5
<1>7. /\ IsFiniteSet(E)
      /\ \A e \in E : /\ e.event \in {"sale_completed", "item_sold"}
                      /\ e.sale = sale /\ e.at = s.at
                      /\ e.event = "sale_completed" => e.total = Value(s)
                      /\ e.event = "item_sold" =>
                           e.item \in I /\ e.amount = s.lines[e.item].amount
      /\ \A e, f \in E : e.event = "item_sold" /\ f.event = "item_sold" /\ e.item = f.item => e = f
      /\ \A i \in I : \E e \in E : e.event = "item_sold" /\ e.item = i
  <2>1. IsFiniteSet(DOMAIN s.lines)
    BY <1>4, <1>5, FS_Subset DEF ConstantsAssumption
  <2> QED BY <1>4, <2>1, NewEntryFields
<1>8. \A r \in sales : r.id \in 1..Cardinality(sales) /\ r.id # sale /\ r.id \in Nat
  BY <1>0, <1>1 DEF SalesOK
<1>9. t.at <= t.when /\ sale \in Nat /\ sale # 0
  BY <1>0, <1>1 DEF WroteOK
<1> HIDE DEF I, N, E
<1>10. SalesOK'
  <2>1. s \notin sales
    BY <1>4, <1>8
  <2>2. IsFiniteSet(sales') /\ Cardinality(sales') = sale
    BY <2>1, <1>0, <1>1, <1>3, FS_AddElement
  <2>3. \A r \in sales' :
          /\ r.id \in 1..sale /\ r.at \in 0..clock'
          /\ DOMAIN r.lines \subseteq Items
          /\ \A i \in DOMAIN r.lines : {r.lines[i].amount, r.lines[i].price} \subseteq Nat
    <3>1. \A r \in sales : r.id \in 1..sale
      BY <1>8, <1>1, <1>0
    <3>2. s.id \in 1..sale
      BY <1>4, <1>9
    <3> QED BY <3>1, <3>2, <1>0, <1>3, <1>4, <1>5 DEF SalesOK
  <2>4. \A q, r \in sales' : q.id = r.id => q = r
    BY <1>0, <1>3, <1>4, <1>8 DEF SalesOK
  <2> QED BY <2>2, <2>3, <2>4 DEF SalesOK
<1>11. LinesOK'
  <2>1. \A h \in history' : h.sale # 0 =>
          \E r \in sales' : /\ r.id = h.sale /\ r.at <= h.at /\ h.item \in DOMAIN r.lines
                           /\ r.lines[h.item].amount = Taken(h)'
    <3>1. ASSUME NEW h \in history, h.sale # 0
          PROVE  \E r \in sales' : /\ r.id = h.sale /\ r.at <= h.at /\ h.item \in DOMAIN r.lines
                                  /\ r.lines[h.item].amount = Taken(h)'
      <4>1. PICK r \in sales : /\ r.id = h.sale /\ r.at <= h.at /\ h.item \in DOMAIN r.lines
                              /\ r.lines[h.item].amount = Taken(h)
        BY <3>1, <1>0 DEF LinesOK
      <4>2. r \in sales' /\ Taken(h)' = Taken(h)
        BY <1>3, <1>6
      <4> QED BY <4>1, <4>2
    <3>2. ASSUME NEW h \in N
          PROVE  /\ s \in sales' /\ s.id = h.sale /\ s.at <= h.at /\ h.item \in DOMAIN s.lines
                 /\ s.lines[h.item].amount = Taken(h)'
      BY <1>3, <1>4, <1>5, <1>6, <1>9
    <3> QED BY <3>1, <3>2, <1>3
  <2>2. \A r \in sales' : \A i \in DOMAIN r.lines : \E h \in history' : h.item = i /\ h.sale = r.id
    <3>1. \A r \in sales : \A i \in DOMAIN r.lines : \E h \in history : h.item = i /\ h.sale = r.id
      BY <1>0 DEF LinesOK
    <3>2. \A i \in DOMAIN s.lines : \E h \in N : h.item = i /\ h.sale = s.id
      BY <1>4, <1>5
    <3> QED BY <3>1, <3>2, <1>3
  <2>3. \A g, h \in history' : g.item = h.item /\ g.sale = h.sale /\ h.sale # 0 => g = h
    <3>1. \A h \in history : h.sale # 0 => h.sale # sale
      BY <1>0, <1>8 DEF LinesOK
    <3>2. \A g, h \in history : g.item = h.item /\ g.sale = h.sale /\ h.sale # 0 => g = h
      BY <1>0 DEF LinesOK
    <3> QED BY <3>1, <3>2, <1>3, <1>5, <1>9
  <2> QED BY <2>1, <2>2, <2>3 DEF LinesOK
<1>12. LogOK'
  <2>1. IsFiniteSet(log')
    BY <1>0, <1>3, <1>7, FS_Union DEF LogOK
  <2>2. ASSUME NEW e \in log'
        PROVE  /\ e.event \in {"sale_completed", "item_sold"}
               /\ \E r \in sales' :
                    /\ r.id = e.sale /\ r.at = e.at
                    /\ e.event = "sale_completed" => e.total = Value(r)
                    /\ e.event = "item_sold" =>
                         e.item \in DOMAIN r.lines /\ e.amount = r.lines[e.item].amount
    <3>1. CASE e \in log
      BY <3>1, <1>0, <1>3 DEF LogOK
    <3>2. CASE e \in E
      <4>1. s \in sales'
        BY <1>3
      <4> QED BY <4>1, <3>2, <1>4, <1>7
    <3> QED BY <3>1, <3>2, <1>3
  <2>3. \A r \in sales' : \A i \in DOMAIN r.lines :
          \E e \in log' : e.event = "item_sold" /\ e.sale = r.id /\ e.item = i
    <3>1. \A r \in sales : \A i \in DOMAIN r.lines :
            \E e \in log : e.event = "item_sold" /\ e.sale = r.id /\ e.item = i
      BY <1>0 DEF LogOK
    <3>2. \A i \in DOMAIN s.lines :
            \E e \in E : e.event = "item_sold" /\ e.sale = s.id /\ e.item = i
      BY <1>4, <1>7
    <3> QED BY <3>1, <3>2, <1>3
  <2>4. \A e, f \in {g \in log' : g.event = "item_sold"} :
          e.sale = f.sale /\ e.item = f.item => e = f
    <3>1. \A e \in log : e.sale # sale
      BY <1>0, <1>8 DEF LogOK
    <3>2. \A e, f \in log : /\ e.event = "item_sold" /\ f.event = "item_sold"
                            /\ e.sale = f.sale
                            /\ e.item = f.item
                            => e = f
      BY <1>0 DEF LogOK
    <3> QED BY <3>1, <3>2, <1>3, <1>7
  <2> QED BY <2>1, <2>2, <2>3, <2>4 DEF LogOK
<1> QED BY <1>10, <1>11, <1>12

\* So with every commit.
LEMMA CommitKeeps ==
  ASSUME ConstantsAssumption, IInv, NEW c \in Clerks, Commit(c)
  PROVE  IInv'
PROOF
<1>1. /\ txn[c].phase = "wrote" /\ clock' = clock /\ txn' = [txn EXCEPT ![c] = Idle]
      /\ WroteOK(txn[c]) /\ txn[c].at \in 0..clock
  BY DEF Commit, IInv, TxnsOK
<1>2. CASE txn[c].order.kind = "rate"
  BY <1>1, <1>2, RateKeeps DEF Commit
<1>3. CASE txn[c].order.kind # "rate"
  <2>1. PICK t : t = txn[c]
    OBVIOUS
  <2>2. /\ WroteOK(t) /\ t.at \in 0..clock /\ Publish(t) /\ UNCHANGED <<rate, rateHistory>>
    BY <1>1, <1>3, <2>1 DEF Commit
  <2>3. RowsOK' /\ HistoryOK'
    BY <1>1, <2>2, PublishedRows
  <2>4. SalesOK' /\ LinesOK' /\ LogOK'
    BY <1>1, <2>2, PublishedOther, PublishedSale
  <2>5. RatesOK'
    BY <1>1, <2>2 DEF IInv, RatesOK
  <2>6. TxnsOK' /\ LocksOK'
    <3> DEFINE sale == IF t.order.kind = "sell" THEN Cardinality(sales) + 1 ELSE 0
               N == NewSnapshots(t, sale)
    <3>1. history' = history \cup N
      BY <2>2 DEF Publish
    <3>2. \A i \in Items \ Touched(t.order) : row'[i] = row[i]
      BY <2>2 DEF Publish, WroteOK
    <3> HIDE DEF sale
    <3>3. \A h \in N : h.item \in Touched(t.order)
      BY <2>2, NewSnapshotFields DEF IInv
    <3> HIDE DEF N
    <3>4. \A h \in history' : h \in history \/ h.item \in Touched(t.order)
      BY <3>1, <3>3
    <3> QED BY <1>1, <2>1, <2>2, <3>2, <3>4, CommitLeavesOthers
  <2> QED BY <1>1, <2>3, <2>4, <2>5, <2>6 DEF IInv, Hours
<1> QED BY <1>2, <1>3

\* The invariant holds in every behaviour.
LEMMA Invariance == Spec => []IInv
PROOF
<1>1. Init => IInv
  BY InitIInv, ConstantsAssumption
<1>2. IInv /\ [Next]_vars => IInv'
  <2> SUFFICES ASSUME IInv, [Next]_vars PROVE IInv'
    OBVIOUS
  <2> USE ConstantsAssumption
  <2>1. CASE UNCHANGED vars
    <3>1. clock' \in Hours /\ clock <= clock' /\ UNCHANGED tables /\ clock' = clock /\ txn' = txn
      BY <2>1 DEF vars, IInv, Hours
    <3>2. RowsOK' /\ HistoryOK' /\ RatesOK' /\ SalesOK' /\ LinesOK' /\ LogOK'
      BY <3>1, TablesStay
    <3>3. TxnsOK'
      <4>1. ASSUME NEW d \in Clerks, txn[d].phase = "wrote" PROVE WroteOK(txn[d])'
        <5>1. WroteOK(txn[d]) /\ txn[d].at \in Nat /\ clock \in Nat
          BY <4>1 DEF IInv, TxnsOK, Hours
        <5>2. PICK t : t = txn[d]
          OBVIOUS
        <5>3. WroteOK(t)'
          BY <5>1, <5>2, <3>1, WroteStays DEF tables
        <5> QED BY <3>1, <5>2, <5>3
      <4> QED BY <4>1, <3>1 DEF IInv, TxnsOK
    <3>4. LocksOK'
      BY <3>1 DEF IInv, LocksOK, Writing, Holders
    <3> QED BY <3>1, <3>2, <3>3, <3>4 DEF IInv
  <2>2. ASSUME NEW c \in Clerks, Begin(c) PROVE IInv'
    BY <2>2, BeginKeeps
  <2>3. ASSUME NEW c \in Clerks, NEW o \in Orders, Write(c, o) PROVE IInv'
    BY <2>3, WriteKeeps
  <2>4. ASSUME NEW c \in Clerks, Commit(c) PROVE IInv'
    BY <2>4, CommitKeeps
  <2>5. ASSUME NEW c \in Clerks, Abort(c) PROVE IInv'
    BY <2>5, AbortKeeps
  <2>6. CASE Tick
    BY <2>6, TickKeeps
  <2> QED BY <2>1, <2>2, <2>3, <2>4, <2>5, <2>6 DEF Next
<1> QED BY <1>1, <1>2, PTL DEF Spec

-----------------------------------------------------------------------------
(* The properties.                                                          *)

\* Total is the library's sum over a function's domain.
LEMMA TotalIs ==
  ASSUME NEW S, NEW f, DOMAIN f = S
  PROVE  Total(f) = SumFunctionOnSet(f, S)
PROOF BY DEF Total, SumFunction

\* As of now the snapshots say what the rows do.
LEMMA CurrentSnapshots ==
  ASSUME IInv
  PROVE  /\ \A i \in Items : /\ AsOf(i, clock).quantity = row[i].quantity
                             /\ AsOf(i, clock).weight = row[i].weight
         /\ \A m \in Metals : RateAt(m, clock) = rate[m]
PROOF
<1>1. ASSUME NEW i \in Items
      PROVE  AsOf(i, clock).quantity = row[i].quantity /\ AsOf(i, clock).weight = row[i].weight
  <2> DEFINE H == Snapshots(i, clock)
  <2>1. \A h : h \in H <=> h \in history /\ h.item = i
    BY DEF Snapshots, IInv, HistoryOK
  <2>2. CASE row[i] = Missing /\ \A h \in history : h.item # i
    <3>1. H = {}
      BY <2>1, <2>2
    <3> QED BY <3>1, <2>2 DEF AsOf
  <2>3. ASSUME NEW h \in history,
               h.item = i, h.quantity = row[i].quantity, h.weight = row[i].weight,
               \A g \in history : g.item = i => g.at <= h.at
        PROVE  AsOf(i, clock).quantity = row[i].quantity /\ AsOf(i, clock).weight = row[i].weight
    <3>1. h \in H /\ \A g \in H : g.at \in Nat /\ g.at <= h.at
      BY <2>1, <2>3 DEF IInv, HistoryOK
    <3>2. \A g \in H : g.at = h.at => g = h
      BY <2>1, <2>3 DEF IInv, HistoryOK
    <3> HIDE DEF H
    <3>3. Latest(H) = h
      BY <3>1, <3>2, LatestIs
    <3>4. AsOf(i, clock) = h
      BY <3>1, <3>3 DEF AsOf, H
    <3> QED BY <3>4, <2>3
  <2> QED BY <2>2, <2>3 DEF IInv, HistoryOK
<1>2. ASSUME NEW m \in Metals PROVE RateAt(m, clock) = rate[m]
  <2> DEFINE H == RatesSet(m, clock)
  <2>1. \A h : h \in H <=> h \in rateHistory /\ h.metal = m
    BY DEF RatesSet, IInv, RatesOK
  <2>2. CASE rate[m] = 0 /\ \A h \in rateHistory : h.metal # m
    <3>1. H = {}
      BY <2>1, <2>2
    <3> QED BY <3>1, <2>2 DEF RateAt
  <2>3. ASSUME NEW h \in rateHistory, h.metal = m, h.rate = rate[m],
               \A g \in rateHistory : g.metal = m => g.at <= h.at
        PROVE  RateAt(m, clock) = rate[m]
    <3>1. h \in H /\ \A g \in H : g.at \in Nat /\ g.at <= h.at
      BY <2>1, <2>3 DEF IInv, RatesOK
    <3>2. \A g \in H : g.at = h.at => g = h
      BY <2>1, <2>3 DEF IInv, RatesOK
    <3> HIDE DEF H
    <3>3. Latest(H) = h
      BY <3>1, <3>2, LatestIs
    <3>4. RateAt(m, clock) = h.rate
      BY <3>1, <3>3 DEF RateAt, H
    <3> QED BY <3>4, <2>3
  <2> QED BY <2>2, <2>3 DEF IInv, RatesOK
<1> QED BY <1>1, <1>2

\* The invariant gives the types.
LEMMA Types == IInv => TypeOK
PROOF
<1> SUFFICES ASSUME IInv PROVE TypeOK
  OBVIOUS
<1>1. clock \in Hours
  BY DEF IInv
<1>2. 0..clock \subseteq Hours
  <2> SUFFICES ASSUME NEW t \in 0..clock PROVE t \in Hours
    OBVIOUS
  <2>1. MaxClock \in Nat
    BY ConstantsAssumption DEF ConstantsAssumption
  <2> QED BY <1>1, <2>1 DEF Hours
<1>3. row \in [Items -> [status : {"none", "in_stock", "sold", "archived"},
                         quantity : Nat, weight : Nat]]
  <2>1. /\ row = [i \in Items |-> row[i]]
        /\ \A i \in Items : row[i] \in [status : {"none", "in_stock", "sold", "archived"},
                                         quantity : Nat, weight : Nat]
    BY DEF IInv, RowsOK
  <2> QED BY ONLY <2>1
<1>4. \A h \in history : h.item \in Items /\ h.at \in 0..clock
  BY DEF IInv, HistoryOK
<1>5. rate \in [Metals -> Nat] /\ \A h \in rateHistory : h.metal \in Metals /\ h.at \in 0..clock
  BY DEF IInv, RatesOK
<1>6. \A s \in sales : s.at \in 0..clock /\ DOMAIN s.lines \subseteq Items
  BY DEF IInv, SalesOK
<1>7. \A c \in Clerks : txn[c].phase \in {"idle", "begun", "wrote"}
  BY DEF IInv, TxnsOK
<1> QED BY ONLY <1>1, <1>2, <1>3, <1>4, <1>5, <1>6, <1>7 DEF TypeOK

\* The reports of the stock, term by term.
LEMMA Current ==
  ASSUME ConstantsAssumption, IInv
  PROVE  HistoryIsCurrent
PROOF
<1> DEFINE Kept == {i \in Items : row[i].status # "archived"}
           Stock == {i \in Items : row[i].status = "in_stock"}
           Gone == {i \in Items : row[i].status = "archived"}
           Scrap == {i \in Weighed : row[i].status = "archived"}
           q == [i \in Items |-> row[i].quantity]
           v == [i \in Items |-> Left(i, row[i]) * rate[Metal[i]]]
           rows == RowsAt(clock)
<1>1. /\ \A i \in Items : rows[i].quantity = row[i].quantity /\ rows[i].weight = row[i].weight
      /\ DOMAIN rows = Items
  BY CurrentSnapshots DEF RowsAt
<1>2. RatesAt(clock) = rate
  BY CurrentSnapshots DEF RatesAt, IInv, RatesOK
<1>3. /\ \A i \in Items : /\ row[i].quantity \in Nat /\ row[i].weight \in Nat
                          /\ row[i].status # "in_stock" => row[i].quantity = 0
                          /\ rate[Metal[i]] \in Nat
      /\ IsFiniteSet(Items) /\ Weighed \subseteq Items
  BY DEF IInv, RowsOK, RatesOK, Metals, ConstantsAssumption
<1>4. IsFiniteSet(Kept) /\ IsFiniteSet(Stock) /\ IsFiniteSet(Gone) /\ IsFiniteSet(Scrap)
  BY <1>3, FS_Subset
<1>5. CurrentRows = [i \in Kept |-> row[i]]
  BY DEF CurrentRows
<1> HIDE DEF rows
<1>6. Pieces(rows) = SumFunctionOnSet(q, Items)
  <2> DEFINE f == [i \in DOMAIN rows |-> rows[i].quantity]
  <2>1. DOMAIN f = Items /\ \A i \in Items : f[i] = q[i]
    BY <1>1
  <2>2. Pieces(rows) = Total(f)
    BY DEF Pieces
  <2> HIDE DEF f, q
  <2> QED BY <2>1, <2>2, <1>3, TotalIs, SumSame
<1>7. Pieces(CurrentRows) = SumFunctionOnSet(q, Items)
  <2> DEFINE f == [i \in DOMAIN CurrentRows |-> CurrentRows[i].quantity]
  <2>1. DOMAIN f = Kept /\ \A i \in Kept : f[i] = q[i]
    BY <1>5
  <2>2. Pieces(CurrentRows) = Total(f)
    BY DEF Pieces
  <2>3. /\ Kept \subseteq Items /\ \A i \in Kept : q[i] \in Int
        /\ \A i \in Items \ Kept : q[i] = 0
    BY <1>3
  <2> HIDE DEF f, q, Kept
  <2>4. Total(f) = SumFunctionOnSet(q, Kept)
    BY <2>1, <1>4, TotalIs, SumSame
  <2>5. SumFunctionOnSet(q, Items) = SumFunctionOnSet(q, Kept)
    BY <2>3, <1>3, SumSubset
  <2> QED BY <2>2, <2>4, <2>5
<1>8. InStock = SumFunctionOnSet(q, Items)
  <2> DEFINE f == [i \in Stock |-> row[i].quantity]
  <2>1. DOMAIN f = Stock /\ \A i \in Stock : f[i] = q[i]
    OBVIOUS
  <2>2. InStock = Total(f)
    BY DEF InStock
  <2>3. /\ Stock \subseteq Items /\ \A i \in Stock : q[i] \in Int
        /\ \A i \in Items \ Stock : q[i] = 0
    BY <1>3
  <2> HIDE DEF f, q, Stock
  <2>4. Total(f) = SumFunctionOnSet(q, Stock)
    BY <2>1, <1>4, TotalIs, SumSame
  <2>5. SumFunctionOnSet(q, Items) = SumFunctionOnSet(q, Stock)
    BY <2>3, <1>3, SumSubset
  <2> QED BY <2>2, <2>4, <2>5
<1>9. \A i \in Items : /\ Left(i, row[i]) \in Nat /\ Left(i, rows[i]) = Left(i, row[i])
                       /\ v[i] \in Int
  <2>1. \A i \in Items : Left(i, row[i]) \in Nat /\ Left(i, rows[i]) = Left(i, row[i])
    BY <1>1, <1>3 DEF Left
  <2>2. \A a, b \in Nat : a * b \in Int
    OBVIOUS
  <2>3. \A i \in Items : v[i] = Left(i, row[i]) * rate[Metal[i]]
    OBVIOUS
  <2> HIDE DEF v
  <2> QED BY <2>1, <2>2, <2>3, <1>3
<1>10. Worth(rows, RatesAt(clock)) = SumFunctionOnSet(v, Items)
  <2> DEFINE f == [i \in DOMAIN rows |-> Left(i, rows[i]) * rate[Metal[i]]]
  <2>1. DOMAIN f = Items /\ \A i \in Items : f[i] = v[i]
    BY <1>1, <1>9
  <2>2. Worth(rows, RatesAt(clock)) = Total(f)
    BY <1>2 DEF Worth
  <2> HIDE DEF f, v
  <2> QED BY <2>1, <2>2, <1>3, TotalIs, SumSame
<1>11. Worth(CurrentRows, rate) = SumFunctionOnSet(v, Kept)
  <2> DEFINE f == [i \in DOMAIN CurrentRows |-> Left(i, CurrentRows[i]) * rate[Metal[i]]]
  <2>1. DOMAIN f = Kept /\ \A i \in Kept : f[i] = v[i]
    BY <1>5
  <2>2. Worth(CurrentRows, rate) = Total(f)
    BY DEF Worth
  <2> HIDE DEF f, v, Kept
  <2> QED BY <2>1, <2>2, <1>4, TotalIs, SumSame
<1>12. SumFunctionOnSet(v, Items) = SumFunctionOnSet(v, Kept) + SumFunctionOnSet(v, Gone)
  <2>1. /\ Items = Kept \cup Gone /\ Kept \cap Gone = {}
        /\ \A i \in Kept \cup Gone : v[i] \in Int
    BY <1>9
  <2> HIDE DEF v, Kept, Gone
  <2>2. SumFunctionOnSet(v, Kept \cup Gone) = SumFunctionOnSet(v, Kept) + SumFunctionOnSet(v, Gone)
    BY <2>1, <1>4, SumUnion
  <2> QED BY <2>1, <2>2, Zenon
<1>13. SumFunctionOnSet(v, Gone) = Total([i \in Scrap |-> row[i].weight * rate[Metal[i]]])
  <2> DEFINE f == [i \in Scrap |-> row[i].weight * rate[Metal[i]]]
  <2>1. DOMAIN f = Scrap /\ \A i \in Scrap : f[i] = v[i]
    BY <1>3 DEF Left
  <2>2. Scrap \subseteq Gone /\ \A i \in Scrap : v[i] \in Int
    BY <1>3, <1>9
  <2>3. \A i \in Gone \ Scrap : v[i] = 0
    <3>1. \A i \in Gone \ Scrap : i \in Items /\ Left(i, row[i]) = 0 /\ rate[Metal[i]] \in Nat
      BY <1>3 DEF Left
    <3>2. \A n \in Nat : 0 * n = 0
      OBVIOUS
    <3> QED BY <3>1, <3>2
  <2> HIDE DEF f, v, Scrap, Gone
  <2>4. Total(f) = SumFunctionOnSet(v, Scrap)
    BY <2>1, <1>4, TotalIs, SumSame
  <2>5. SumFunctionOnSet(v, Gone) = SumFunctionOnSet(v, Scrap)
    BY <2>2, <2>3, <1>4, SumSubset
  <2> QED BY <2>4, <2>5 DEF f
<1>14. TypeOK
  BY Types
<1> HIDE DEF q, v, Kept, Gone, Stock
<1>15. Worth(rows, RatesAt(clock)) =
         Worth(CurrentRows, rate) + Total([i \in Scrap |-> row[i].weight * rate[Metal[i]]])
  BY <1>10, <1>11, <1>12, <1>13
<1>16. Pieces(rows) = Pieces(CurrentRows) /\ Pieces(CurrentRows) = InStock
  BY <1>6, <1>7, <1>8
<1> QED BY <1>2, <1>14, <1>15, <1>16 DEF HistoryIsCurrent, rows

\* The reports as of now, from snapshots, and the summary, from rows, are of one stock,
\* however transactions overlap: record_item_history writes under the row's lock and with
\* the row (items/service.py:31-55), and nothing else changes it.
THEOREM StockIsCurrent == Spec => []HistoryIsCurrent
PROOF
<1>1. IInv => HistoryIsCurrent
  BY Current, ConstantsAssumption
<1> QED BY <1>1, Invariance, PTL

\* Of one item: each snapshot that is a sale's has its sale, each sale its snapshot.
LEMMA SaleOf ==
  ASSUME IInv, NEW i \in Items
  PROVE  /\ \A h \in history : h.item = i /\ h.sale # 0 =>
              \E s \in sales : /\ s.id = h.sale /\ s.at <= h.at /\ i \in DOMAIN s.lines
                               /\ s.lines[i].amount = Taken(h)
         /\ \A s \in sales : i \in DOMAIN s.lines =>
              \E h \in history : h.item = i /\ h.sale = s.id
         /\ \A g, h \in history : g.item = i /\ h.item = i /\ g.sale = h.sale /\ h.sale # 0 => g = h
         /\ \A s \in sales : s.id # 0 /\ s.at \in Int
         /\ \A r, s \in sales : r.id = s.id => r = s
         /\ \A s \in sales : Amount(i, s) \in Int /\ (i \notin DOMAIN s.lines => Amount(i, s) = 0)
         /\ \A s \in sales : i \in DOMAIN s.lines => Amount(i, s) = s.lines[i].amount
         /\ \A h \in history : h.at \in Int
         /\ IsFiniteSet(sales) /\ IsFiniteSet(history)
PROOF
<1>1. /\ \A h \in history : h.item = i /\ h.sale # 0 =>
           \E s \in sales : /\ s.id = h.sale /\ s.at <= h.at /\ i \in DOMAIN s.lines
                            /\ s.lines[i].amount = Taken(h)
      /\ \A s \in sales : i \in DOMAIN s.lines => \E h \in history : h.item = i /\ h.sale = s.id
      /\ \A g, h \in history : g.item = i /\ h.item = i /\ g.sale = h.sale /\ h.sale # 0 => g = h
  BY DEF IInv, LinesOK
<1>2. /\ \A s \in sales : s.id # 0 /\ s.at \in Int
      /\ \A r, s \in sales : r.id = s.id => r = s
      /\ \A s \in sales : i \in DOMAIN s.lines => s.lines[i].amount \in Int
      /\ IsFiniteSet(sales)
  BY FS_CardinalityType DEF IInv, SalesOK, Hours
<1>3. (\A h \in history : h.at \in Int) /\ IsFiniteSet(history)
  BY DEF IInv, HistoryOK, Hours
<1>4. \A s \in sales : /\ Amount(i, s) \in Int /\ (i \notin DOMAIN s.lines => Amount(i, s) = 0)
                       /\ i \in DOMAIN s.lines => Amount(i, s) = s.lines[i].amount
  BY <1>2 DEF Amount
<1> QED BY <1>1, <1>2, <1>3, <1>4

\* Of one item as of one moment: its sales are those whose snapshot has been taken by then
\* and those that were still running, and the former are those snapshots under other names.
LEMMA Once == IInv => CountedOnce
PROOF
<1> SUFFICES ASSUME IInv, NEW i \in Items, NEW t \in 0..clock
             PROVE  LET sold == {h \in history : h.item = i /\ h.sale # 0 /\ h.at <= t}
                        running == {s \in sales : /\ s.at <= t
                                                  /\ \E h \in history : /\ h.item = i
                                                                          /\ h.sale = s.id
                                                                          /\ h.at > t}
                    IN  SoldBy(i, t) = Total([h \in sold |-> Taken(h)])
                                       + Total([s \in running |-> Amount(i, s)])
  BY DEF CountedOnce
<1> DEFINE sold == {h \in history : h.item = i /\ h.sale # 0 /\ h.at <= t}
           running == {s \in sales : /\ s.at <= t
                                     /\ \E h \in history : h.item = i /\ h.sale = s.id /\ h.at > t}
           with == {s \in sales : s.at <= t /\ i \in DOMAIN s.lines}
           done == {s \in with : \E h \in sold : h.sale = s.id}
           by == SalesBy(t)
           f == [s \in by |-> Amount(i, s)]
           g == [h \in sold |-> Taken(h)]
           r == [s \in running |-> Amount(i, s)]
           b == [h \in sold |-> CHOOSE s \in sales : s.id = h.sale]
<1>1. t \in Int /\ clock \in Int
  BY DEF IInv, Hours
<1>2. /\ by = {s \in sales : s.at <= t} /\ with \subseteq by
      /\ IsFiniteSet(by) /\ IsFiniteSet(with) /\ IsFiniteSet(done) /\ IsFiniteSet(running)
      /\ IsFiniteSet(sold)
  BY SaleOf, FS_Subset DEF SalesBy
<1>3. SoldBy(i, t) = SumFunctionOnSet(f, by)
  <2>1. SoldBy(i, t) = Total(f) /\ DOMAIN f = by
    BY DEF SoldBy
  <2> HIDE DEF f, by
  <2> QED BY <2>1, TotalIs
<1>4. \A s \in by : f[s] \in Int /\ f[s] = Amount(i, s)
  BY SaleOf, <1>2
<1>5. SumFunctionOnSet(f, by) = SumFunctionOnSet(f, with)
  <2>1. (\A s \in with : f[s] \in Int) /\ \A s \in by \ with : f[s] = 0
    BY SaleOf, <1>2, <1>4
  <2> HIDE DEF f, by, with
  <2> QED BY <2>1, <1>2, SumSubset
<1>6. with = done \cup running /\ done \cap running = {}
  <2>1. ASSUME NEW s \in running PROVE s \in with
    BY SaleOf
  <2>2. ASSUME NEW s \in with PROVE s \in done \cup running
    <3> PICK h \in history : h.item = i /\ h.sale = s.id
      BY SaleOf
    <3>1. s \in sales /\ s.id # 0 /\ h.at \in Int
      BY SaleOf
    <3>2. CASE h.at <= t
      BY <3>1, <3>2
    <3>3. CASE h.at > t
      BY <3>1, <3>3
    <3> QED BY <3>1, <3>2, <3>3, <1>1
  <2>3. ASSUME NEW s \in done, s \in running PROVE FALSE
    <3> PICK h \in sold : h.sale = s.id
      OBVIOUS
    <3> PICK q \in history : q.item = i /\ q.sale = s.id /\ q.at > t
      BY <2>3
    <3>1. h = q
      BY SaleOf
    <3> QED BY <3>1, <1>1, SaleOf
  <2> QED BY <2>1, <2>2, <2>3
<1>7. SumFunctionOnSet(f, with) = SumFunctionOnSet(f, done) + SumFunctionOnSet(f, running)
  <2>1. \A s \in done \cup running : f[s] \in Int
    BY <1>2, <1>4, <1>6
  <2> HIDE DEF f, done, running, with
  <2>2. SumFunctionOnSet(f, done \cup running) =
          SumFunctionOnSet(f, done) + SumFunctionOnSet(f, running)
    BY <2>1, <1>2, <1>6, SumUnion
  <2> QED BY <2>2, <1>6
<1>8. SumFunctionOnSet(f, running) = Total(r)
  <2>1. DOMAIN r = running /\ \A s \in running : f[s] = r[s]
    BY <1>2, <1>4
  <2> HIDE DEF f, running, r
  <2> QED BY <2>1, <1>2, TotalIs, SumSame
<1>9. SumFunctionOnSet(f, done) = Total(g)
  <2>1. ASSUME NEW h \in sold
        PROVE  /\ b[h] \in done /\ b[h].id = h.sale
               /\ g[h] \in Int /\ g[h] = f[b[h]]
    <3> PICK s \in sales : /\ s.id = h.sale /\ s.at <= h.at /\ i \in DOMAIN s.lines
                           /\ s.lines[i].amount = Taken(h)
      BY SaleOf
    <3>1. b[h] = s
      <4>1. \A q \in sales : q.id = h.sale <=> q = s
        BY SaleOf
      <4> QED BY <4>1
    <3>2. s.at <= t
      BY SaleOf, <1>1
    <3>3. s \in with /\ s \in done /\ s \in by
      BY <3>2, <1>2
    <3>4. f[s] = Taken(h) /\ f[s] \in Int
      BY <3>3, <1>4, SaleOf
    <3> QED BY <3>1, <3>3, <3>4
  <2>2. \A h, q \in sold : b[h] = b[q] => h = q
    <3>1. \A h, q \in sold : h.sale = q.sale => h = q
      BY SaleOf
    <3>2. \A h \in sold : b[h].id = h.sale
      BY <2>1
    <3> HIDE DEF b, sold
    <3> QED BY <3>1, <3>2
  <2>3. \A s \in done : \E h \in sold : b[h] = s
    <3> SUFFICES ASSUME NEW s \in done PROVE \E h \in sold : b[h] = s
      OBVIOUS
    <3> PICK h \in sold : h.sale = s.id
      OBVIOUS
    <3>1. b[h] \in sales /\ b[h].id = s.id
      BY <2>1
    <3> HIDE DEF b
    <3>2. b[h] = s
      BY <3>1, SaleOf
    <3> QED BY <3>2
  <2>4. DOMAIN g = sold
    OBVIOUS
  <2> HIDE DEF b, g, f, sold, done
  <2>5. SumFunctionOnSet(g, sold) = SumFunctionOnSet(f, done)
    BY <2>1, <2>2, <2>3, <1>2, SumRename
  <2> QED BY <2>4, <2>5, TotalIs
<1> HIDE DEF f, g, r
<1>10. SoldBy(i, t) = Total(g) + Total(r)
  BY <1>3, <1>5, <1>7, <1>8, <1>9
<1> USE DEF g, r
<1> QED BY <1>10

\* CountedOnce: a report as of any moment counts a unit once, but for the sales that were
\* still being made then.
THEOREM UnitsCountedOnce == Spec => []CountedOnce
PROOF BY Invariance, Once, PTL

\* What the sales come to, and any set of them.
Worths == [s \in sales |-> Value(s)]

\* The fields of a sale.
LEMMA SaleFields ==
  ASSUME IInv, NEW s \in sales
  PROVE  /\ s.at \in Int
         /\ DOMAIN s.lines \subseteq Items /\ IsFiniteSet(DOMAIN s.lines)
         /\ \A i \in DOMAIN s.lines : s.lines[i].amount \in Nat /\ s.lines[i].price \in Int
PROOF
<1>1. /\ s.at \in 0..clock /\ DOMAIN s.lines \subseteq Items
      /\ \A i \in DOMAIN s.lines : s.lines[i].amount \in Nat /\ s.lines[i].price \in Nat
  BY DEF IInv, SalesOK
<1>2. IsFiniteSet(DOMAIN s.lines)
  BY <1>1, ConstantsAssumption, FS_Subset DEF ConstantsAssumption
<1> QED BY <1>1, <1>2

\* The value of a sale is a sum over its lines.
LEMMA ValueIs ==
  ASSUME IInv, NEW s \in sales
  PROVE  /\ Value(s) = SumFunctionOnSet([i \in DOMAIN s.lines |-> s.lines[i].price], DOMAIN s.lines)
         /\ Value(s) \in Int
PROOF
<1> DEFINE f == [i \in DOMAIN s.lines |-> s.lines[i].price]
<1>1. Value(s) = Total(f) /\ DOMAIN f = DOMAIN s.lines
  BY DEF Value
<1>2. IsFiniteSet(DOMAIN s.lines) /\ \A i \in DOMAIN s.lines : f[i] \in Int
  BY SaleFields
<1> HIDE DEF f
<1>3. Value(s) = SumFunctionOnSet(f, DOMAIN s.lines)
  BY <1>1, TotalIs
<1>4. Value(s) \in Int
  BY <1>2, <1>3, SumType
<1> USE DEF f
<1> QED BY <1>3, <1>4

\* The takings of any set of sales, as one function summed.
LEMMA TakingsIs ==
  ASSUME IInv, NEW S, S \subseteq sales
  PROVE  /\ IsFiniteSet(S)
         /\ Takings(S) = SumFunctionOnSet(Worths, S)
         /\ \A s \in S : Worths[s] = Value(s) /\ Worths[s] \in Int
PROOF
<1> DEFINE f == [s \in S |-> Value(s)]
<1>1. IsFiniteSet(S)
  BY FS_Subset DEF IInv, SalesOK
<1>2. \A s \in S : Worths[s] = Value(s) /\ Worths[s] \in Int
  BY ValueIs DEF Worths
<1>3. Takings(S) = Total(f) /\ DOMAIN f = S /\ \A s \in S : f[s] = Worths[s]
  BY <1>2 DEF Takings
<1> HIDE DEF f
<1>4. Takings(S) = SumFunctionOnSet(f, S)
  BY <1>3, TotalIs
<1>5. SumFunctionOnSet(f, S) = SumFunctionOnSet(Worths, S)
  BY <1>1, <1>3, SumSame
<1> QED BY <1>1, <1>2, <1>4, <1>5

\* The takings of a set of sales are those of its parts, whatever names the parts.
LEMMA TakingsParts ==
  ASSUME IInv, NEW S, S \subseteq sales, NEW p, NEW D, IsFiniteSet(D),
         \A s \in S : p[s] \in D
  PROVE  Total([d \in D |-> Takings({s \in S : p[s] = d})]) = Takings(S)
PROOF
<1> DEFINE F == [d \in D |-> Takings({s \in S : p[s] = d})]
<1>1. \A d \in D : F[d] = SumFunctionOnSet(Worths, {s \in S : p[s] = d})
  <2> SUFFICES ASSUME NEW d \in D
               PROVE  Takings({s \in S : p[s] = d}) =
                        SumFunctionOnSet(Worths, {s \in S : p[s] = d})
    OBVIOUS
  <2> DEFINE T == {s \in S : p[s] = d}
  <2>1. T \subseteq sales
    OBVIOUS
  <2> HIDE DEF T
  <2>2. Takings(T) = SumFunctionOnSet(Worths, T)
    BY <2>1, TakingsIs
  <2> USE DEF T
  <2> QED BY <2>2
<1> DEFINE Q == [d \in D |-> {s \in S : p[s] = d}]
<1>2. DOMAIN F = D /\ \A d \in D : \A s : s \in Q[d] <=> s \in S /\ p[s] = d
  OBVIOUS
<1>3. \A s \in S : Worths[s] \in Int /\ p[s] \in D
  BY TakingsIs
<1>4. IsFiniteSet(S) /\ Takings(S) = SumFunctionOnSet(Worths, S)
  BY TakingsIs
<1> HIDE DEF F
<1>7. \A d \in D : F[d] = SumFunctionOnSet(Worths, Q[d])
  BY <1>1
<1> HIDE DEF Q
<1>5. Parted(Worths, F, p, Q, S, D)
  BY <1>2, <1>3, <1>4, <1>7 DEF Parted
<1>6. Total(F) = Takings(S)
  BY <1>2, <1>4, <1>5, TotalIs, SumParts
<1> USE DEF F
<1> QED BY <1>6

\* The takings of two disjoint sets of sales add up.
LEMMA TakingsUnion ==
  ASSUME IInv, NEW A, NEW B, NEW C, A \subseteq sales, B \subseteq sales,
         C = A \cup B, A \cap B = {}
  PROVE  Takings(A) + Takings(B) = Takings(C)
PROOF
<1>1. /\ Takings(A) = SumFunctionOnSet(Worths, A) /\ IsFiniteSet(A)
      /\ Takings(B) = SumFunctionOnSet(Worths, B) /\ IsFiniteSet(B)
      /\ \A s \in A \cup B : Worths[s] \in Int
  BY TakingsIs
<1>2. Takings(C) = SumFunctionOnSet(Worths, C)
  <2>1. C \subseteq sales
    OBVIOUS
  <2> QED BY <2>1, TakingsIs
<1>3. SumFunctionOnSet(Worths, A \cup B) =
        SumFunctionOnSet(Worths, A) + SumFunctionOnSet(Worths, B)
  BY <1>1, SumUnion
<1> QED BY <1>1, <1>2, <1>3

\* Division by a day's length gives days in order and hours in range.
LEMMA Division ==
  ASSUME NEW a \in Int, NEW b \in Int, NEW n \in Nat \ {0}
  PROVE  /\ a \div n \in Int /\ a % n \in 0..(n - 1)
         /\ a <= b => a \div n <= b \div n
PROOF
<1>1. /\ a \div n \in Int /\ a % n \in 0..(n - 1) /\ a = n * (a \div n) + (a % n)
      /\ b \div n \in Int /\ b % n \in 0..(n - 1) /\ b = n * (b \div n) + (b % n)
  OBVIOUS
<1>2. ASSUME a <= b, a \div n > b \div n PROVE FALSE
  <2> DEFINE x == a \div n
             y == b \div n
  <2>1. x \in Int /\ y \in Int /\ x >= y + 1
    BY <1>1, <1>2
  <2> HIDE DEF x, y
  <2>2. n * x >= n * (y + 1) /\ n * (y + 1) = n * y + n /\ n * x \in Int /\ n * y \in Int
    BY <2>1
  <2> QED BY <1>1, <1>2, <2>2 DEF x, y
<1> QED BY <1>1, <1>2

\* The days of a period, in order.
LEMMA DayOf ==
  ASSUME NEW zone \in Zones \cup {Session}, NEW t \in Int
  PROVE  /\ Day(t, zone) \in Int
         /\ \A u \in Int : t <= u => Day(t, zone) <= Day(u, zone)
PROOF
<1>1. zone \in Int /\ DayLength \in Nat \ {0}
  BY ConstantsAssumption DEF ConstantsAssumption
<1>2. t + zone \in Int /\ \A u \in Int : u + zone \in Int /\ (t <= u => t + zone <= u + zone)
  BY <1>1
<1> QED BY <1>1, <1>2, Division DEF Day

\* The days shown come to the sales of them, and the others are of no such day.
LEMMA Days ==
  ASSUME IInv, NEW start \in Hours, NEW end \in Hours
  PROVE  DaysAddUp(start, end)
PROOF
<1> SUFFICES ASSUME NEW zone \in Zones
             PROVE  LET off == OffDays(start, end, zone)
                    IN /\ Total([d \in DaysShown(start, end, zone) |-> DaySales(start, end, d)])
                            + Takings(off) = Takings(Period(start, end))
                       /\ \A s \in off : Day(s.at, zone) # Day(s.at, Session)
  BY DEF DaysAddUp
<1> DEFINE S == Period(start, end)
           D == DaysShown(start, end, zone)
           off == OffDays(start, end, zone)
           T == {s \in S : Day(s.at, Session) \in D}
           p == [s \in sales |-> Day(s.at, Session)]
<1>1. S \subseteq sales /\ \A s \in S : s.at \in start..end
  BY DEF Period
<1>2. start \in Int /\ end \in Int
  BY ConstantsAssumption DEF ConstantsAssumption, Hours
<1>3. Day(start, zone) \in Int /\ Day(end, zone) \in Int
  BY <1>2, DayOf
<1>4. IsFiniteSet(D)
  BY <1>3, FS_Interval DEF DaysShown
<1>5. /\ T \subseteq sales /\ off \subseteq sales /\ S = T \cup off /\ T \cap off = {}
      /\ \A s \in T : p[s] \in D
  BY <1>1 DEF OffDays
<1>6. \A d \in D : DaySales(start, end, d) = Takings({s \in T : p[s] = d})
  <2> SUFFICES ASSUME NEW d \in D
               PROVE  {s \in Period(start, end) : Day(s.at, Session) = d} = {s \in T : p[s] = d}
    BY DEF DaySales
  <2> QED BY <1>1
<1>7. ASSUME NEW s \in off PROVE Day(s.at, zone) # Day(s.at, Session)
  <2>1. s.at \in Int /\ start <= s.at /\ s.at <= end /\ Day(s.at, Session) \notin D
    BY <1>1, <1>2 DEF OffDays
  <2>2. /\ Day(start, zone) <= Day(s.at, zone) /\ Day(s.at, zone) <= Day(end, zone)
        /\ Day(s.at, zone) \in Int
    BY <2>1, <1>2, DayOf
  <2>3. Day(s.at, zone) \in D
    BY <2>2, <1>3 DEF DaysShown
  <2> QED BY <2>1, <2>3
<1> HIDE DEF S, D, T, p, off
<1>8. Total([d \in D |-> Takings({s \in T : p[s] = d})]) = Takings(T)
  BY <1>4, <1>5, TakingsParts
<1>9. [d \in D |-> DaySales(start, end, d)] = [d \in D |-> Takings({s \in T : p[s] = d})]
  BY <1>6
<1>10. Takings(T) + Takings(off) = Takings(S)
  BY <1>1, <1>5, TakingsUnion
<1>11. Total([d \in D |-> DaySales(start, end, d)]) + Takings(off) = Takings(S)
  BY <1>8, <1>9, <1>10
<1> QED BY <1>7, <1>11 DEF S, D, off

\* The hours of a cashier's day.
LEMMA HoursOfTheDay ==
  ASSUME IInv, NEW now \in Hours
  PROVE  Total([h \in 0..(DayLength - 1) |-> HourSales(now, h)]) = Takings(Today(now))
PROOF
<1> DEFINE S == Today(now)
           D == 0..(DayLength - 1)
           p == [s \in sales |-> IndiaHour(s.at)]
<1>1. S \subseteq sales
  BY DEF Today
<1>2. DayLength \in Nat \ {0} /\ Offset \in Int
  BY ConstantsAssumption DEF ConstantsAssumption
<1>3. IsFiniteSet(D)
  BY <1>2, FS_Interval
<1>4. \A s \in S : p[s] \in D
  <2> SUFFICES ASSUME NEW s \in S PROVE (s.at + Offset) % DayLength \in D
    BY <1>1 DEF IndiaHour
  <2>1. s.at + Offset \in Int
    BY <1>1, <1>2, SaleFields
  <2> QED BY <2>1, <1>2, Division
<1>5. \A d : HourSales(now, d) = Takings({s \in S : p[s] = d})
  <2> SUFFICES ASSUME NEW d
               PROVE  {s \in Today(now) : IndiaHour(s.at) = d} = {s \in S : p[s] = d}
    BY DEF HourSales
  <2> QED BY <1>1
<1> HIDE DEF S, D, p
<1>6. Total([d \in D |-> Takings({s \in S : p[s] = d})]) = Takings(S)
  BY <1>1, <1>3, <1>4, TakingsParts
<1>7. [d \in D |-> HourSales(now, d)] = [d \in D |-> Takings({s \in S : p[s] = d})]
  BY <1>5
<1>8. Total([d \in D |-> HourSales(now, d)]) = Takings(S)
  BY <1>6, <1>7
<1> QED BY <1>8 DEF S, D

\* A period and the one before it.
LEMMA TwoPeriods ==
  ASSUME IInv, NEW start \in Hours, NEW end \in Hours, start <= end
  PROVE  Takings(Before(start, end - start)) + Takings(Period(start, end)) =
           Takings(Period(start - (end - start), end))
PROOF
<1> DEFINE A == Before(start, end - start)
           B == Period(start, end)
           C == Period(start - (end - start), end)
<1>1. start \in Int /\ end \in Int /\ \A s \in sales : s.at \in Int
  BY ConstantsAssumption, SaleFields DEF ConstantsAssumption, Hours
<1>2. A \subseteq sales /\ B \subseteq sales /\ C \subseteq sales
  BY DEF Before, Period
<1>3. C = A \cup B /\ A \cap B = {}
  BY <1>1 DEF Before, Period
<1> HIDE DEF A, B, C
<1>4. Takings(A) + Takings(B) = Takings(C)
  BY <1>2, <1>3, TakingsUnion
<1> QED BY <1>4 DEF A, B, C

\* What each item sold for in some sales, and what the lines of a sale cost.
SoldFor(S) == [i \in Items |-> ItemSales(S, i)]
Prices(s) == [i \in DOMAIN s.lines |-> s.lines[i].price]

\* What an item sold for is a sum over all of the sales, those without it counting nothing.
LEMMA SoldForIs ==
  ASSUME IInv, NEW S, S \subseteq sales, NEW i \in Items, NEW G,
         \A s \in S : G[s] = IF i \in DOMAIN s.lines THEN s.lines[i].price ELSE 0
  PROVE  /\ SoldFor(S)[i] = SumFunctionOnSet(G, S)
         /\ SoldFor(S)[i] = ItemSales(S, i)
         /\ SoldFor(S)[i] \in Int
PROOF
<1> DEFINE U == {q \in S : i \in DOMAIN q.lines}
           w == [s \in U |-> s.lines[i].price]
<1>1. SoldFor(S)[i] = ItemSales(S, i) /\ ItemSales(S, i) = Total(w) /\ DOMAIN w = U
  BY DEF ItemSales, SoldFor
<1>2. /\ U \subseteq S
      /\ \A s \in U : G[s] = w[s] /\ G[s] \in Int
      /\ \A s \in S \ U : G[s] = 0
  BY SaleFields
<1>3. IsFiniteSet(S) /\ IsFiniteSet(U)
  BY <1>2, TakingsIs, FS_Subset
<1> HIDE DEF w, U
<1>4. Total(w) = SumFunctionOnSet(w, U)
  BY <1>1, TotalIs
<1>5. SumFunctionOnSet(w, U) = SumFunctionOnSet(G, U)
  BY <1>2, <1>3, SumSame
<1>6. SumFunctionOnSet(G, S) = SumFunctionOnSet(G, U)
  BY <1>2, <1>3, SumSubset
<1>7. SumFunctionOnSet(G, U) \in Int
  BY <1>2, <1>3, SumType
<1> QED BY <1>1, <1>4, <1>5, <1>6, <1>7

\* What an item sold for is a number.
LEMMA SoldForType ==
  ASSUME IInv, NEW S, S \subseteq sales, NEW i \in Items
  PROVE  SoldFor(S)[i] = ItemSales(S, i) /\ SoldFor(S)[i] \in Int
PROOF
<1> DEFINE G == [s \in S |-> IF i \in DOMAIN s.lines THEN s.lines[i].price ELSE 0]
<1>1. \A s \in S : G[s] = IF i \in DOMAIN s.lines THEN s.lines[i].price ELSE 0
  OBVIOUS
<1> HIDE DEF G
<1> QED BY <1>1, SoldForIs

\* Some items sold for what the sales have them in their lines for: a table of items and
\* sales, summed both ways.
LEMMA ItemsOver ==
  ASSUME IInv, NEW S, S \subseteq sales, NEW U, U \subseteq Items, NEW G,
         \A s \in S : G[s] = SumFunctionOnSet(Prices(s), DOMAIN s.lines \cap U)
  PROVE  SumFunctionOnSet(SoldFor(S), U) = SumFunctionOnSet(G, S)
PROOF
<1> DEFINE Cell(i, s) == IF i \in DOMAIN s.lines THEN s.lines[i].price ELSE 0
           R == [i \in U |-> [s \in S |-> Cell(i, s)]]
           C == [s \in S |-> [i \in U |-> Cell(i, s)]]
           F == SoldFor(S)
<1>1. IsFiniteSet(U) /\ IsFiniteSet(S)
  BY ConstantsAssumption, FS_Subset, TakingsIs DEF ConstantsAssumption
<1>2. \A i \in U, s \in S : R[i][s] \in Int /\ C[s][i] = R[i][s]
  BY SaleFields
<1>3. ASSUME NEW i \in U PROVE F[i] = SumFunctionOnSet(R[i], S)
  <2>1. \A s \in S : R[i][s] = IF i \in DOMAIN s.lines THEN s.lines[i].price ELSE 0
    OBVIOUS
  <2> HIDE DEF R
  <2> QED BY <2>1, SoldForIs
<1>4. ASSUME NEW s \in S PROVE G[s] = SumFunctionOnSet(C[s], U)
  <2> DEFINE L == DOMAIN s.lines \cap U
             v == Prices(s)
             c == C[s]
  <2>1. /\ L \subseteq U
        /\ \A i \in L : c[i] = v[i] /\ c[i] \in Int
        /\ \A i \in U \ L : c[i] = 0
    BY SaleFields DEF Prices
  <2>2. G[s] = SumFunctionOnSet(v, L) /\ IsFiniteSet(L)
    BY <1>1, <2>1, FS_Subset
  <2> HIDE DEF v, L, c
  <2>3. SumFunctionOnSet(c, L) = SumFunctionOnSet(v, L)
    BY <2>1, <2>2, SumSame
  <2>4. SumFunctionOnSet(c, U) = SumFunctionOnSet(c, L)
    BY <1>1, <2>1, SumSubset
  <2> QED BY <2>2, <2>3, <2>4 DEF c
<1> HIDE DEF F, R, C
<1>5. Table(F, G, R, C, U, S)
  BY <1>1, <1>2, <1>3, <1>4 DEF Table
<1>6. SumFunctionOnSet(F, U) = SumFunctionOnSet(G, S)
  BY <1>5, SumSwap
<1> QED BY <1>6 DEF F

\* All of the items sold for the takings.
LEMMA AllItems ==
  ASSUME IInv, NEW S, S \subseteq sales
  PROVE  SumFunctionOnSet(SoldFor(S), Items) = Takings(S)
PROOF
<1>1. \A s \in S : Worths[s] = SumFunctionOnSet(Prices(s), DOMAIN s.lines \cap Items)
  <2> SUFFICES ASSUME NEW s \in S
               PROVE  Worths[s] = SumFunctionOnSet(Prices(s), DOMAIN s.lines \cap Items)
    OBVIOUS
  <2>1. DOMAIN s.lines \cap Items = DOMAIN s.lines
    BY SaleFields
  <2>2. Worths[s] = SumFunctionOnSet(Prices(s), DOMAIN s.lines)
    BY ValueIs, TakingsIs DEF Prices
  <2> QED BY <2>1, <2>2
<1> QED BY <1>1, ItemsOver, TakingsIs

\* A material sold for what its items did.
LEMMA MaterialIs ==
  ASSUME IInv, NEW S, S \subseteq sales, NEW m
  PROVE  MaterialSales(S, m) = SumFunctionOnSet(SoldFor(S), {i \in Items : Metal[i] = m})
PROOF
<1> DEFINE U == {i \in Items : Metal[i] = m}
           G == [s \in S |-> Total([i \in MaterialLines(s, m) |-> s.lines[i].price])]
<1>1. \A s \in S : G[s] = SumFunctionOnSet(Prices(s), DOMAIN s.lines \cap U)
  <2> SUFFICES ASSUME NEW s \in S
               PROVE  Total([i \in MaterialLines(s, m) |-> s.lines[i].price]) =
                        SumFunctionOnSet(Prices(s), DOMAIN s.lines \cap U)
    OBVIOUS
  <2> DEFINE M == MaterialLines(s, m)
             w == [i \in M |-> s.lines[i].price]
  <2>1. M = DOMAIN s.lines \cap U /\ IsFiniteSet(M)
    BY SaleFields, FS_Subset DEF MaterialLines
  <2>2. DOMAIN w = M /\ \A i \in M : w[i] = Prices(s)[i]
    BY <2>1 DEF Prices
  <2> HIDE DEF w, M, U
  <2>3. Total(w) = SumFunctionOnSet(w, M)
    BY <2>2, TotalIs
  <2>4. SumFunctionOnSet(w, M) = SumFunctionOnSet(Prices(s), M)
    BY <2>1, <2>2, SumSame
  <2>5. Total(w) = SumFunctionOnSet(Prices(s), DOMAIN s.lines \cap U)
    BY <2>1, <2>3, <2>4
  <2> QED BY <2>5 DEF w, M
<1>2. MaterialSales(S, m) = Total(G) /\ DOMAIN G = S /\ U \subseteq Items
  BY DEF MaterialSales
<1> HIDE DEF G, U
<1>3. Total(G) = SumFunctionOnSet(G, S)
  BY <1>2, TotalIs
<1>4. SumFunctionOnSet(SoldFor(S), U) = SumFunctionOnSet(G, S)
  BY <1>1, <1>2, ItemsOver
<1>5. MaterialSales(S, m) = SumFunctionOnSet(SoldFor(S), U)
  BY <1>2, <1>3, <1>4
<1> QED BY <1>5 DEF U

\* Some items' sales, as a sum a page makes.
LEMMA TotalSold ==
  ASSUME IInv, NEW S, S \subseteq sales, NEW U, U \subseteq Items
  PROVE  /\ Total([i \in U |-> ItemSales(S, i)]) = SumFunctionOnSet(SoldFor(S), U)
         /\ IsFiniteSet(U)
         /\ \A i \in U : SoldFor(S)[i] \in Int
PROOF
<1> DEFINE f == [i \in U |-> ItemSales(S, i)]
<1>1. IsFiniteSet(U)
  BY ConstantsAssumption, FS_Subset DEF ConstantsAssumption
<1>2. \A i \in U : SoldFor(S)[i] \in Int /\ f[i] = SoldFor(S)[i]
  BY SoldForType
<1>3. DOMAIN f = U
  OBVIOUS
<1> HIDE DEF f
<1>4. Total(f) = SumFunctionOnSet(f, U) /\ SumFunctionOnSet(f, U) = SumFunctionOnSet(SoldFor(S), U)
  BY <1>1, <1>2, <1>3, TotalIs, SumSame
<1> QED BY <1>1, <1>2, <1>4 DEF f

\* The materials shown are the items of them, and the others are the rest.
LEMMA Materials ==
  ASSUME IInv, NEW S, S \subseteq sales
  PROVE  MaterialsAddUp(S)
PROOF
<1> DEFINE others == {i \in Items : Metal[i] \notin Analysed}
           shown == {i \in Items : Metal[i] \in Analysed}
           D == MaterialsShown
           f == SoldFor(S)
           F == [m \in D |-> MaterialSales(S, m)]
           Q == [m \in D |-> {i \in Items : Metal[i] = m}]
<1>1. IsFiniteSet(D)
  <2>1. IsFiniteSet(Items)
    BY ConstantsAssumption DEF ConstantsAssumption
  <2>2. IsFiniteSet(Metals)
    BY <2>1, ImageFinite DEF Metals
  <2> QED BY <2>2, FS_Subset DEF MaterialsShown
<1>2. /\ Total([i \in others |-> ItemSales(S, i)]) = SumFunctionOnSet(f, others)
      /\ IsFiniteSet(others) /\ \A i \in others : f[i] \in Int
  <2>1. others \subseteq Items
    OBVIOUS
  <2> HIDE DEF others
  <2> QED BY <2>1, TotalSold
<1>3. IsFiniteSet(shown) /\ \A i \in shown : f[i] \in Int
  <2>1. shown \subseteq Items
    OBVIOUS
  <2> HIDE DEF shown
  <2> QED BY <2>1, TotalSold
<1>4. \A i \in shown : Metal[i] \in D
  BY DEF MaterialsShown, Metals
<1>5. \A m \in D : \A i : i \in Q[m] <=> i \in shown /\ Metal[i] = m
  BY DEF MaterialsShown
<1>6. \A m \in D : F[m] = SumFunctionOnSet(f, Q[m])
  BY MaterialIs
<1>7. DOMAIN F = D
  OBVIOUS
<1>8. Items = shown \cup others /\ shown \cap others = {}
  OBVIOUS
<1> HIDE DEF others, shown, D, f, F, Q
<1>9. Parted(f, F, Metal, Q, shown, D)
  BY <1>1, <1>3, <1>4, <1>5, <1>6 DEF Parted
<1>10. Total(F) = SumFunctionOnSet(f, shown)
  BY <1>7, <1>9, TotalIs, SumParts
<1>11. SumFunctionOnSet(f, shown \cup others) =
         SumFunctionOnSet(f, shown) + SumFunctionOnSet(f, others)
  BY <1>2, <1>3, <1>8, SumUnion
<1>12. SumFunctionOnSet(f, Items) = Takings(S)
  BY AllItems DEF f
<1>13. Total(F) + Total([i \in others |-> ItemSales(S, i)]) = Takings(S)
  BY <1>2, <1>8, <1>10, <1>11, <1>12
<1> QED BY <1>13 DEF F, D, others, MaterialsAddUp

\* What no sale has in its lines sold for nothing.
LEMMA Unsold ==
  ASSUME NEW S, NEW i \in Items, i \notin SoldItems(S)
  PROVE  SoldFor(S)[i] = 0
PROOF
<1> DEFINE U == {q \in S : i \in DOMAIN q.lines}
           w == [s \in U |-> s.lines[i].price]
<1>1. SoldFor(S)[i] = Total(w) /\ DOMAIN w = U
  BY DEF SoldFor, ItemSales
<1>2. U = {}
  BY DEF SoldItems
<1> HIDE DEF U, w
<1> QED BY <1>1, <1>2, TotalIs, SumEmpty

\* The items sold, and those ahead of one of them.
LEMMA ItemsAhead ==
  ASSUME IInv, NEW S, S \subseteq sales
  PROVE  /\ SoldItems(S) \subseteq Items /\ IsFiniteSet(SoldItems(S))
         /\ \A i \in SoldItems(S) : /\ ItemSales(S, i) \in Int /\ Place[i] \in Nat
                                    /\ Ahead(S, i) \subseteq SoldItems(S) \ {i}
                                    /\ IsFiniteSet(Ahead(S, i))
PROOF
<1>1. SoldItems(S) \subseteq Items
  BY SaleFields DEF SoldItems
<1>2. IsFiniteSet(SoldItems(S))
  BY <1>1, ConstantsAssumption, FS_Subset DEF ConstantsAssumption
<1>3. ASSUME NEW i \in SoldItems(S)
      PROVE  /\ ItemSales(S, i) \in Int /\ Place[i] \in Nat
             /\ Ahead(S, i) \subseteq SoldItems(S) \ {i}
  <2>1. ItemSales(S, i) \in Int /\ Place[i] \in Nat
    BY <1>1, SoldForType, ConstantsAssumption DEF ConstantsAssumption
  <2> QED BY <2>1 DEF Ahead
<1>4. \A i \in SoldItems(S) : IsFiniteSet(Ahead(S, i))
  BY <1>2, <1>3, FS_Subset
<1> QED BY <1>1, <1>2, <1>3, <1>4

\* The best sellers and the other items sold come to the takings.
LEMMA SellersSum ==
  ASSUME IInv, NEW S, S \subseteq sales
  PROVE  Total([i \in BestSellers(S) |-> ItemSales(S, i)])
           + Total([i \in SoldItems(S) \ BestSellers(S) |-> ItemSales(S, i)]) = Takings(S)
PROOF
<1> DEFINE best == BestSellers(S)
           rest == SoldItems(S) \ best
           f == SoldFor(S)
<1>1. SoldItems(S) \subseteq Items
  BY ItemsAhead
<1>2. /\ best \subseteq Items /\ rest \subseteq Items
      /\ SoldItems(S) = best \cup rest /\ best \cap rest = {}
  BY <1>1 DEF BestSellers
<1>3. \A i \in Items : f[i] \in Int
  BY SoldForType
<1>4. \A i \in Items \ SoldItems(S) : f[i] = 0
  BY Unsold
<1> HIDE DEF best, rest, f
<1>5. /\ Total([i \in best |-> ItemSales(S, i)]) = SumFunctionOnSet(f, best)
      /\ Total([i \in rest |-> ItemSales(S, i)]) = SumFunctionOnSet(f, rest)
      /\ IsFiniteSet(best) /\ IsFiniteSet(rest)
  BY <1>2, TotalSold DEF f
<1>6. SumFunctionOnSet(f, best \cup rest) =
        SumFunctionOnSet(f, best) + SumFunctionOnSet(f, rest)
  <2>1. \A i \in best \cup rest : f[i] \in Int
    BY <1>2, <1>3
  <2> QED BY <2>1, <1>2, <1>5, SumUnion
<1>7. SumFunctionOnSet(f, Items) = SumFunctionOnSet(f, SoldItems(S))
  <2>1. IsFiniteSet(Items) /\ \A i \in SoldItems(S) : f[i] \in Int
    BY <1>1, <1>3, ConstantsAssumption DEF ConstantsAssumption
  <2> QED BY <2>1, <1>1, <1>4, SumSubset
<1>8. SumFunctionOnSet(f, Items) = Takings(S)
  BY AllItems DEF f
<1>9. Total([i \in best |-> ItemSales(S, i)]) + Total([i \in rest |-> ItemSales(S, i)]) =
        Takings(S)
  BY <1>2, <1>5, <1>6, <1>7, <1>8
<1> QED BY <1>9 DEF best, rest

\* Nothing else sold for more than a best seller: what is ahead of one that did would be
\* ahead of the best seller too.
LEMMA SellersLead ==
  ASSUME IInv, NEW S, S \subseteq sales,
         NEW i \in BestSellers(S), NEW j \in SoldItems(S) \ BestSellers(S)
  PROVE  ItemSales(S, j) <= ItemSales(S, i)
PROOF
<1>1. i \in SoldItems(S) /\ j \in SoldItems(S)
  BY DEF BestSellers
<1>2. /\ ItemSales(S, i) \in Int /\ ItemSales(S, j) \in Int
      /\ IsFiniteSet(Ahead(S, i)) /\ Ahead(S, i) \subseteq SoldItems(S)
      /\ IsFiniteSet(Ahead(S, j)) /\ Ahead(S, j) \subseteq SoldItems(S)
  BY <1>1, ItemsAhead
<1>3. SUFFICES ASSUME ItemSales(S, j) > ItemSales(S, i) PROVE FALSE
  BY <1>2
<1>4. Ahead(S, j) \subseteq Ahead(S, i)
  <2> SUFFICES ASSUME NEW k \in Ahead(S, j) PROVE k \in Ahead(S, i)
    OBVIOUS
  <2>1. /\ k \in SoldItems(S)
        /\ ItemSales(S, k) > ItemSales(S, j) \/ ItemSales(S, k) = ItemSales(S, j)
    BY DEF Ahead
  <2>2. ItemSales(S, k) \in Int
    BY <2>1, ItemsAhead
  <2>3. ItemSales(S, k) > ItemSales(S, i)
    BY <2>1, <2>2, <1>2, <1>3
  <2> QED BY <2>1, <2>3 DEF Ahead
<1>5. Cardinality(Ahead(S, j)) <= Cardinality(Ahead(S, i))
  BY <1>2, <1>4, FS_Subset
<1>6. Cardinality(Ahead(S, i)) \in Nat /\ Cardinality(Ahead(S, j)) \in Nat /\ TopLimit \in Nat
  BY <1>2, FS_CardinalityType, ConstantsAssumption DEF ConstantsAssumption
<1>7. Cardinality(Ahead(S, i)) < TopLimit /\ ~(Cardinality(Ahead(S, j)) < TopLimit)
  BY <1>1 DEF BestSellers
<1> QED BY <1>5, <1>6, <1>7

\* While no more than TopLimit items are sold, all are best sellers: an item is not ahead
\* of itself.
LEMMA AllLead ==
  ASSUME IInv, NEW S, S \subseteq sales, Cardinality(SoldItems(S)) <= TopLimit
  PROVE  SoldItems(S) \ BestSellers(S) = {}
PROOF
<1> SUFFICES ASSUME NEW i \in SoldItems(S) PROVE Cardinality(Ahead(S, i)) < TopLimit
  BY DEF BestSellers
<1> DEFINE U == SoldItems(S) \ {i}
<1>1. IsFiniteSet(SoldItems(S)) /\ Ahead(S, i) \subseteq U
  BY ItemsAhead
<1>2. IsFiniteSet(U) /\ Cardinality(U) = Cardinality(SoldItems(S)) - 1
  BY <1>1, FS_RemoveElement
<1> HIDE DEF U
<1>3. IsFiniteSet(Ahead(S, i)) /\ Cardinality(Ahead(S, i)) <= Cardinality(U)
  BY <1>1, <1>2, FS_Subset
<1>4. /\ Cardinality(SoldItems(S)) \in Nat /\ Cardinality(U) \in Nat
      /\ Cardinality(Ahead(S, i)) \in Nat /\ TopLimit \in Nat
  BY <1>1, <1>2, <1>3, FS_CardinalityType, ConstantsAssumption DEF ConstantsAssumption
<1> QED BY <1>2, <1>3, <1>4

\* The three of them.
LEMMA Sellers ==
  ASSUME IInv, NEW S, S \subseteq sales
  PROVE  BestSellersLead(S)
PROOF BY SellersSum, SellersLead, AllLead DEF BestSellersLead

\* An entry of the log is about one sale, and a sold line about one of its lines.
LEMMA EntryOf ==
  ASSUME IInv, NEW e \in log
  PROVE  /\ e.event \in {"sale_completed", "item_sold"}
         /\ \E s \in sales :
              /\ s.id = e.sale /\ s.at = e.at /\ \A q \in sales : q.id = e.sale => q = s
              /\ e.event = "sale_completed" => e.total = Value(s)
              /\ e.event = "item_sold" =>
                   e.item \in DOMAIN s.lines /\ e.amount = s.lines[e.item].amount
PROOF
<1>1. \A r, s \in sales : r.id = s.id => r = s
  BY DEF IInv, SalesOK
<1>2. e.event \in {"sale_completed", "item_sold"}
  BY DEF IInv, LogOK
<1>3. PICK s \in sales : /\ s.id = e.sale /\ s.at = e.at
                         /\ e.event = "sale_completed" => e.total = Value(s)
                         /\ e.event = "item_sold" =>
                              e.item \in DOMAIN s.lines /\ e.amount = s.lines[e.item].amount
  BY DEF IInv, LogOK
<1>4. \A q \in sales : q.id = e.sale => q = s
  BY <1>1, <1>3
<1> QED BY <1>2, <1>3, <1>4

\* The sold lines of one sale in the log are its lines, one for one.
LEMMA LineEntries ==
  ASSUME IInv, NEW s \in sales
  PROVE  /\ \A i \in DOMAIN s.lines :
              \E e \in log : /\ e.event = "item_sold" /\ e.sale = s.id /\ e.item = i
                             /\ e.at = s.at /\ e.amount = s.lines[i].amount
         /\ \A e \in log : e.event = "item_sold" /\ e.sale = s.id =>
              /\ e.at = s.at /\ e.item \in DOMAIN s.lines /\ e.amount = s.lines[e.item].amount
         /\ \A e, f \in log : /\ e.event = "item_sold" /\ f.event = "item_sold"
                              /\ e.sale = f.sale /\ e.item = f.item
                              => e = f
PROOF
<1>1. ASSUME NEW e \in log, e.event = "item_sold", e.sale = s.id
      PROVE  e.at = s.at /\ e.item \in DOMAIN s.lines /\ e.amount = s.lines[e.item].amount
  <2> PICK q \in sales : /\ q.id = e.sale /\ q.at = e.at /\ \A r \in sales : r.id = e.sale => r = q
                         /\ e.event = "item_sold" =>
                              e.item \in DOMAIN q.lines /\ e.amount = q.lines[e.item].amount
    BY EntryOf
  <2>1. q = s
    BY <1>1
  <2> QED BY <1>1, <2>1
<1>2. \A i \in DOMAIN s.lines :
        \E e \in log : e.event = "item_sold" /\ e.sale = s.id /\ e.item = i
  BY DEF IInv, LogOK
<1>3. ASSUME NEW i \in DOMAIN s.lines
      PROVE  \E e \in log : /\ e.event = "item_sold" /\ e.sale = s.id /\ e.item = i
                            /\ e.at = s.at /\ e.amount = s.lines[i].amount
  <2> PICK e \in log : e.event = "item_sold" /\ e.sale = s.id /\ e.item = i
    BY <1>2
  <2> QED BY <1>1
<1>4. ASSUME NEW e \in log, NEW f \in log, e.event = "item_sold", f.event = "item_sold",
             e.sale = f.sale, e.item = f.item
      PROVE  e = f
  BY <1>4 DEF IInv, LogOK
<1> QED BY <1>1, <1>3, <1>4

\* The units of a day in the log: its lines by their sale, a sale's by its items.
LEMMA LoggedUnits ==
  ASSUME IInv, NEW now \in Hours
  PROVE  Total([e \in SoldHistory(now) |-> Units(e.item, e.amount)]) = UnitsSold(Today(now))
PROOF
<1> DEFINE L == SoldHistory(now)
           S == Today(now)
           u == [e \in L |-> Units(e.item, e.amount)]
           F == [s \in S |-> UnitsOf(s)]
           p == [e \in L |-> CHOOSE s \in sales : s.id = e.sale]
           Q == [s \in S |-> {e \in L : p[e] = s}]
<1>1. /\ \A s \in S : s \in sales
      /\ \A e \in L : e \in log /\ e.event = "item_sold"
      /\ IsFiniteSet(S) /\ IsFiniteSet(L)
  <2>1. S \subseteq sales /\ L \subseteq log /\ \A e \in L : e.event = "item_sold"
    BY DEF SoldHistory, Today
  <2>2. IsFiniteSet(sales) /\ IsFiniteSet(log)
    BY DEF IInv, SalesOK, LogOK
  <2> HIDE DEF S, L
  <2> QED BY <2>1, <2>2, FS_Subset
<1>2. ASSUME NEW e \in L
      PROVE  /\ p[e] \in S /\ p[e].id = e.sale /\ u[e] = Units(e.item, e.amount)
             /\ e.item \in DOMAIN p[e].lines /\ e.amount = p[e].lines[e.item].amount
  <2> PICK s \in sales : /\ s.id = e.sale /\ s.at = e.at /\ \A q \in sales : q.id = e.sale => q = s
                         /\ e.event = "item_sold" =>
                              e.item \in DOMAIN s.lines /\ e.amount = s.lines[e.item].amount
    BY EntryOf, <1>1
  <2>1. p[e] = s
    OBVIOUS
  <2>2. s \in S
    BY DEF SoldHistory, Today
  <2> QED BY <2>1, <2>2, <1>1
<1>3. \A e \in L : u[e] \in Int
  <2> SUFFICES ASSUME NEW e \in L PROVE u[e] \in Int
    OBVIOUS
  <2>1. p[e] \in sales /\ e.item \in DOMAIN p[e].lines /\ e.amount = p[e].lines[e.item].amount
    BY <1>1, <1>2
  <2> HIDE DEF p
  <2>2. e.amount \in Nat
    BY <2>1, SaleFields
  <2> QED BY <2>2 DEF Units
<1>4. \A s \in S : \A e : e \in Q[s] <=> e \in L /\ p[e] = s
  OBVIOUS
<1> HIDE DEF Q
<1>5. ASSUME NEW s \in S PROVE F[s] = SumFunctionOnSet(u, Q[s])
  <2> DEFINE D == DOMAIN s.lines
             g == [i \in D |-> Units(i, s.lines[i].amount)]
             b == [e \in Q[s] |-> e.item]
             q == Q[s]
  <2>1. F[s] = Total(g) /\ DOMAIN g = D
    BY DEF UnitsOf
  <2>2. \A e \in q : /\ e \in L /\ e \in log /\ e.event = "item_sold" /\ e.sale = s.id
                     /\ b[e] = e.item /\ b[e] \in D /\ e.amount = s.lines[e.item].amount
                     /\ u[e] = Units(e.item, e.amount)
    <3> SUFFICES ASSUME NEW e \in q
                 PROVE  /\ e \in L /\ e \in log /\ e.event = "item_sold" /\ e.sale = s.id
                        /\ b[e] = e.item /\ b[e] \in D /\ e.amount = s.lines[e.item].amount
                        /\ u[e] = Units(e.item, e.amount)
      OBVIOUS
    <3>1. e \in L /\ p[e] = s /\ b[e] = e.item
      BY <1>4
    <3> HIDE DEF p, u, b, L
    <3>2. /\ e.sale = s.id /\ u[e] = Units(e.item, e.amount)
          /\ e.item \in DOMAIN s.lines /\ e.amount = s.lines[e.item].amount
      BY <3>1, <1>2
    <3> QED BY <3>1, <3>2, <1>1
  <2>3. \A e \in q : b[e] \in D /\ u[e] = g[b[e]] /\ u[e] \in Int
    BY <2>2, <1>3
  <2>4. \A e, f \in q : b[e] = b[f] => e = f
    <3> SUFFICES ASSUME NEW e \in q, NEW f \in q, e.item = f.item PROVE e = f
      BY <2>2
    <3>1. /\ e \in log /\ e.event = "item_sold" /\ e.sale = s.id
          /\ f \in log /\ f.event = "item_sold" /\ f.sale = s.id
      BY <2>2
    <3> QED BY <3>1, <1>1, LineEntries
  <2>5. \A i \in D : \E e \in q : b[e] = i
    <3> SUFFICES ASSUME NEW i \in D PROVE \E e \in q : b[e] = i
      OBVIOUS
    <3> PICK e \in log : e.event = "item_sold" /\ e.sale = s.id /\ e.item = i /\ e.at = s.at
      BY <1>1, LineEntries
    <3>1. e \in L
      BY DEF SoldHistory, Today
    <3>2. p[e] \in sales /\ p[e].id = s.id
      BY <3>1, <1>1, <1>2
    <3>3. p[e] = s
      BY <3>2, <1>1 DEF IInv, SalesOK
    <3>4. e \in q
      BY <3>1, <3>3, <1>4
    <3> QED BY <3>4
  <2>6. IsFiniteSet(q)
    <3>1. q \subseteq L
      BY <1>4
    <3> QED BY <3>1, <1>1, FS_Subset
  <2> HIDE DEF D, g, b, q, u, F
  <2>7. SumFunctionOnSet(u, q) = SumFunctionOnSet(g, D)
    BY <2>3, <2>4, <2>5, <2>6, SumRename
  <2>8. F[s] = SumFunctionOnSet(u, q)
    BY <2>1, <2>7, TotalIs
  <2> QED BY <2>8 DEF q
<1>6. UnitsSold(S) = Total(F) /\ DOMAIN F = S /\ DOMAIN u = L
  BY DEF UnitsSold
<1>7. \A e \in L : p[e] \in S
  BY <1>2
<1> HIDE DEF L, S, u, F, p
<1>8. Parted(u, F, p, Q, L, S)
  BY <1>1, <1>3, <1>4, <1>5, <1>7 DEF Parted
<1>9. SumFunctionOnSet(F, S) = SumFunctionOnSet(u, L)
  BY <1>8, SumParts
<1>10. Total(u) = UnitsSold(S)
  BY <1>6, <1>9, TotalIs
<1> QED BY <1>10 DEF u, L, S

\* The audit trail's sales and their lines.
LEMMA AuditEntries ==
  ASSUME IInv, NEW e \in AuditTrail, e.event = "sale_completed"
  PROVE  \E s \in sales : /\ s.id = e.sale /\ s.at = e.at
                          /\ e.total = Value(s)
                          /\ {<<f.item, f.amount>> : f \in SaleItems(e)} =
                               {<<i, s.lines[i].amount>> : i \in DOMAIN s.lines}
PROOF
<1> PICK s \in sales : /\ s.id = e.sale /\ s.at = e.at
                       /\ e.event = "sale_completed" => e.total = Value(s)
  BY EntryOf DEF AuditTrail
<1>1. ASSUME NEW f \in SaleItems(e)
      PROVE  f.item \in DOMAIN s.lines /\ f.amount = s.lines[f.item].amount
  BY LineEntries DEF SaleItems
<1>2. ASSUME NEW i \in DOMAIN s.lines
      PROVE  \E f \in SaleItems(e) : f.item = i /\ f.amount = s.lines[i].amount
  BY LineEntries DEF SaleItems
<1>3. {<<f.item, f.amount>> : f \in SaleItems(e)} =
        {<<i, s.lines[i].amount>> : i \in DOMAIN s.lines}
  BY <1>1, <1>2
<1> QED BY <1>3

\* The figures, one by one.
LEMMA Totals == IInv => TotalsAddUp
PROOF
<1> SUFFICES ASSUME IInv PROVE TotalsAddUp
  OBVIOUS
<1>1. ASSUME NEW start \in Hours, NEW end \in start..MaxClock
      PROVE  LET S == Period(start, end)
                 length == end - start
             IN /\ DaysAddUp(start, end)
                /\ MaterialsAddUp(S)
                /\ BestSellersLead(S)
                /\ Takings(Before(start, length)) + Takings(S) =
                     Takings(Period(start - length, end))
  <2>1. end \in Hours /\ start <= end
    BY ConstantsAssumption DEF ConstantsAssumption, Hours
  <2>2. Period(start, end) \subseteq sales
    BY DEF Period
  <2> QED BY <2>1, <2>2, Days, Materials, Sellers, TwoPeriods
<1>2. ASSUME NEW now \in Hours
      PROVE  LET S == Today(now)
             IN /\ Total([h \in 0..(DayLength - 1) |-> HourSales(now, h)]) = Takings(S)
                /\ Total([e \in SoldHistory(now) |-> Units(e.item, e.amount)]) = UnitsSold(S)
  BY HoursOfTheDay, LoggedUnits
<1> QED BY <1>1, <1>2, AuditEntries DEF TotalsAddUp

\* TotalsAddUp: with what a page leaves out of them - sales of no day shown, materials not
\* analysed, items after the first TopLimit - the parts of a period come to its takings, for
\* every offset a request's dates carry; and the log tells the day the sales do.
THEOREM FiguresAddUp == Spec => []TotalsAddUp
PROOF BY Invariance, Totals, PTL
=============================================================================
