--------------------------- MODULE SuppliersProofs --------------------------
(***************************************************************************)
(* Proofs about Suppliers: a name an import brought stays with its         *)
(* supplier, and the view lists the snapshot the worker reads.             *)
(***************************************************************************)
EXTENDS Suppliers, SequenceTheorems, WellFoundedInduction, TLAPS

-----------------------------------------------------------------------------
(* Recursion over the first n numbers.                                     *)

\* A nonempty set of naturals has a least element.
LEMMA Least ==
    ASSUME NEW T \in SUBSET Nat, T # {}
    PROVE  \E n \in T : \A m \in T : n <= m
<1>1. IsWellFoundedOn(OpToRel(<, Nat), Nat)
  BY NatLessThanWellFounded
<1>2. PICK x \in T : \A y \in T : ~ (<<y, x>> \in OpToRel(<, Nat))
  BY <1>1, WFMin
<1>3. \A y \in Nat : y < x => <<y, x>> \in OpToRel(<, Nat)
  BY DEF OpToRel
<1>4. \A y \in T : ~(y < x)
  BY <1>2, <1>3
<1> QED
  BY <1>4

\* A set that has 0 and, with a number below n, the next one, has all up to n.
LEMMA Climb ==
    ASSUME NEW n \in Nat, NEW T, 0 \in T,
           \A k \in 0 .. n : k \in T /\ k < n => k + 1 \in T
    PROVE  \A k \in 0 .. n : k \in T
<1> SUFFICES ASSUME {k \in 0 .. n : k \notin T} # {} PROVE FALSE
  OBVIOUS
<1>1. PICK k \in 0 .. n : k \notin T /\ \A m \in 0 .. n : m \notin T => k <= m
  <2>1. {k \in 0 .. n : k \notin T} \in SUBSET Nat
    OBVIOUS
  <2> QED
    BY <2>1, Least
<1>2. k # 0 /\ k - 1 \in 0 .. n
  BY <1>1
<1> QED
  BY <1>1, <1>2

\* f holds the values V passed through when a step is taken for 1, 2, ... n.
IsFold(f, n, V, base, step) ==
    /\ f \in [0 .. n -> V]
    /\ f[0] = base
    /\ \A k \in 1 .. n : f[k] = step[<<k, f[k - 1]>>]

\* A step given for every number and value can be taken n times.
LEMMA FoldExists ==
    ASSUME NEW n \in Nat, NEW V, NEW base \in V, NEW step \in [(1 .. n) \X V -> V]
    PROVE  \E f : IsFold(f, n, V, base, step)
<1> DEFINE Solves(f, k) == f[0] = base /\ \A j \in 1 .. k : f[j] = step[<<j, f[j - 1]>>]
<1> DEFINE T == {k \in 0 .. n : \E f \in [0 .. k -> V] : Solves(f, k)}
<1>1. 0 \in T
  <2> DEFINE g == [k \in 0 .. 0 |-> base]
  <2>1. g \in [0 .. 0 -> V] /\ g[0] = base /\ 1 .. 0 = {}
    OBVIOUS
  <2> HIDE DEF g
  <2>2. Solves(g, 0)
    BY <2>1
  <2> HIDE DEF Solves
  <2> QED
    BY <2>1, <2>2
<1>2. ASSUME NEW k \in 0 .. n, k \in T, k < n PROVE k + 1 \in T
  <2>1. PICK f \in [0 .. k -> V] : Solves(f, k)
    BY <1>2
  <2> DEFINE g == [j \in 0 .. k + 1 |-> IF j <= k THEN f[j] ELSE step[<<k + 1, f[k]>>]]
  <2>2. f[k] \in V /\ <<k + 1, f[k]>> \in (1 .. n) \X V
    BY <1>2
  <2>3. step[<<k + 1, f[k]>>] \in V
    BY <2>2
  <2>4. g \in [0 .. k + 1 -> V]
    BY <2>3
  <2>5. (\A j \in 0 .. k : g[j] = f[j]) /\ g[k + 1] = step[<<k + 1, f[k]>>]
    OBVIOUS
  <2> HIDE DEF g
  <2>6. Solves(g, k + 1)
    <3>1. g[0] = base
      BY <2>1, <2>5
    <3>2. ASSUME NEW j \in 1 .. k + 1 PROVE g[j] = step[<<j, g[j - 1]>>]
      <4>1. CASE j = k + 1
        <5>1. j - 1 = k /\ g[k] = f[k]
          BY <2>5, <4>1
        <5> QED
          BY <2>5, <4>1, <5>1
      <4>2. CASE j # k + 1
        <5>1. j \in 1 .. k /\ g[j] = f[j] /\ g[j - 1] = f[j - 1]
          BY <2>5, <4>2
        <5> QED
          BY <2>1, <5>1
      <4> QED
        BY <4>1, <4>2
    <3> QED
      BY <3>1, <3>2
  <2>7. k + 1 \in 0 .. n
    BY <1>2
  <2> HIDE DEF Solves
  <2> QED
    BY <2>4, <2>6, <2>7
<1> HIDE DEF T
<1>3. n \in T
  BY <1>1, <1>2, Climb
<1> HIDE DEF Solves
<1>4. PICK f \in [0 .. n -> V] : Solves(f, n)
  BY <1>3 DEF T
<1>5. IsFold(f, n, V, base, step)
  BY <1>4 DEF Solves, IsFold
<1> QED
  BY <1>5

-----------------------------------------------------------------------------
(* Suppliers.                                                              *)

Tables == UNION {[D -> Supplier] : D \in SUBSET Cuits}

\* The names a table knows a supplier by.
NamesOf(suppliers, cuit) == UNION {Aliases(s) : s \in Listed(suppliers, cuit)}

LEMMA NamesOfFacts ==
    ASSUME NEW suppliers, NEW cuit
    PROVE  NamesOf(suppliers, cuit)
             = IF cuit \in DOMAIN suppliers THEN Aliases(suppliers[cuit]) ELSE {}
<1>1. CASE cuit \in DOMAIN suppliers
  BY <1>1 DEF NamesOf, Listed
<1>2. CASE cuit \notin DOMAIN suppliers
  BY <1>2 DEF NamesOf, Listed
<1> QED
  BY <1>1, <1>2

\* Tables and their suppliers.
LEMMA TableFacts ==
    ASSUME NEW suppliers
    PROVE  suppliers \in Tables
             <=> /\ suppliers = [c \in DOMAIN suppliers |-> suppliers[c]]
                 /\ DOMAIN suppliers \subseteq Cuits
                 /\ \A c \in DOMAIN suppliers : suppliers[c] \in Supplier
<1>1. ASSUME suppliers \in Tables
      PROVE  /\ suppliers = [c \in DOMAIN suppliers |-> suppliers[c]]
             /\ DOMAIN suppliers \subseteq Cuits
             /\ \A c \in DOMAIN suppliers : suppliers[c] \in Supplier
  <2> USE <1>1 DEF Tables
  <2>1. PICK D \in SUBSET Cuits : suppliers \in [D -> Supplier]
    OBVIOUS
  <2> QED
    BY <2>1
<1>2. ASSUME suppliers = [c \in DOMAIN suppliers |-> suppliers[c]],
             DOMAIN suppliers \subseteq Cuits,
             \A c \in DOMAIN suppliers : suppliers[c] \in Supplier
      PROVE  suppliers \in Tables
  <2>1. suppliers \in [DOMAIN suppliers -> Supplier]
    BY <1>2
  <2>2. DOMAIN suppliers \in SUBSET Cuits
    BY <1>2
  <2> QED
    BY <2>1, <2>2 DEF Tables
<1> QED
  BY <1>1, <1>2

\* merge_supplier gives a supplier, known by every name either had.
LEMMA MergeKeeps ==
    ASSUME NEW existing \in Supplier, NEW incoming \in Supplier
    PROVE  /\ Merge(existing, incoming) \in Supplier
           /\ Aliases(existing) \subseteq Aliases(Merge(existing, incoming))
           /\ Aliases(incoming) \subseteq Aliases(Merge(existing, incoming))
<1>1. existing.legal # Blank /\ incoming.legal # Blank
  BY NamesAssumption DEF Supplier
<1> DEFINE merged == Merge(existing, incoming)
<1>2. /\ merged.legal = incoming.legal
      /\ merged.trade = IF incoming.trade = Blank THEN existing.trade ELSE incoming.trade
      /\ merged.extra = (existing.extra \union incoming.extra
                   \union {name \in {existing.legal} : name # incoming.legal}
                   \union {name \in {existing.trade} : name # incoming.trade}) \ {Blank}
  BY DEF Merge
<1>3. merged \in Supplier
  BY <1>1 DEF Merge, Supplier
<1>4. Aliases(existing) \subseteq Aliases(merged)
  <2> HIDE DEF merged
  <2> QED
    BY <1>1, <1>2 DEF Aliases
<1>5. Aliases(incoming) \subseteq Aliases(merged)
  <2> HIDE DEF merged
  <2> QED
    BY <1>1, <1>2 DEF Aliases
<1> QED
  BY <1>3, <1>4, <1>5

\* A table with a supplier upserted lists it, loses nobody and forgets no name.
LEMMA UpsertedKeeps ==
    ASSUME NEW suppliers \in Tables, NEW cuit \in Cuits, NEW supplier \in Supplier
    PROVE  /\ Upserted(suppliers, cuit, supplier) \in Tables
           /\ DOMAIN Upserted(suppliers, cuit, supplier) = DOMAIN suppliers \union {cuit}
           /\ \A c : NamesOf(suppliers, c) \subseteq NamesOf(Upserted(suppliers, cuit, supplier), c)
           /\ Aliases(supplier) \subseteq NamesOf(Upserted(suppliers, cuit, supplier), cuit)
<1> DEFINE after == Upserted(suppliers, cuit, supplier)
<1>1. /\ DOMAIN suppliers \subseteq Cuits
      /\ \A c \in DOMAIN suppliers : suppliers[c] \in Supplier
  BY TableFacts
<1>2. /\ after = [c \in DOMAIN after |-> after[c]]
      /\ DOMAIN after = DOMAIN suppliers \union {cuit}
      /\ \A c \in DOMAIN suppliers : c # cuit => after[c] = suppliers[c]
      /\ cuit \in DOMAIN suppliers => after[cuit] = Merge(suppliers[cuit], supplier)
      /\ cuit \notin DOMAIN suppliers => after[cuit] = supplier
  BY DEF Upserted
<1> HIDE DEF after
<1>3. after[cuit] \in Supplier /\ Aliases(supplier) \subseteq Aliases(after[cuit])
  <2>1. CASE cuit \in DOMAIN suppliers
    BY <1>1, <1>2, <2>1, MergeKeeps
  <2>2. CASE cuit \notin DOMAIN suppliers
    BY <1>2, <2>2
  <2> QED
    BY <2>1, <2>2
<1>4. \A c \in DOMAIN after : after[c] \in Supplier
  BY <1>1, <1>2, <1>3
<1>5. after \in Tables
  BY <1>1, <1>2, <1>4, TableFacts
<1>6. ASSUME NEW c PROVE NamesOf(suppliers, c) \subseteq NamesOf(after, c)
  <2>1. CASE c \notin DOMAIN suppliers
    BY <2>1, NamesOfFacts
  <2>2. CASE c \in DOMAIN suppliers /\ c # cuit
    BY <1>2, <2>2, NamesOfFacts
  <2>3. CASE c \in DOMAIN suppliers /\ c = cuit
    <3>1. Aliases(suppliers[c]) \subseteq Aliases(after[c])
      BY <1>1, <1>2, <2>3, MergeKeeps
    <3> QED
      BY <1>2, <2>3, <3>1, NamesOfFacts
  <2> QED
    BY <2>1, <2>2, <2>3
<1>7. Aliases(supplier) \subseteq NamesOf(after, cuit)
  BY <1>2, <1>3, NamesOfFacts
<1> QED
  BY <1>2, <1>5, <1>6, <1>7 DEF after

-----------------------------------------------------------------------------
(* Sheets.                                                                 *)

\* A valid row describes a supplier.
LEMMA ValidRow ==
    ASSUME NEW row \in Rows, IsValid(row)
    PROVE  row.cuit \in Cuits /\ ToSupplier(row) \in Supplier
BY NamesAssumption DEF Rows, IsValid, ToSupplier, Supplier

LEMMA NoSuppliersFacts ==
    NoSuppliers \in Tables /\ DOMAIN NoSuppliers = {}
<1>1. DOMAIN NoSuppliers = {} /\ NoSuppliers = [c \in DOMAIN NoSuppliers |-> NoSuppliers[c]]
  BY DEF NoSuppliers
<1> QED
  BY <1>1, TableFacts

\* parse_suppliers goes through the sheet row by row.
LEMMA ParsedToFacts ==
    ASSUME NEW sheet \in Seq(Rows)
    PROVE  /\ ParsedTo(sheet) \in [0 .. Len(sheet) -> Tables]
           /\ ParsedTo(sheet)[0] = NoSuppliers
           /\ \A k \in 1 .. Len(sheet) :
                ParsedTo(sheet)[k]
                  = IF IsValid(sheet[k])
                    THEN Upserted(ParsedTo(sheet)[k - 1], sheet[k].cuit, ToSupplier(sheet[k]))
                    ELSE ParsedTo(sheet)[k - 1]
<1> DEFINE n == Len(sheet)
<1> DEFINE Next(k, t) == IF IsValid(sheet[k])
                         THEN Upserted(t, sheet[k].cuit, ToSupplier(sheet[k]))
                         ELSE t
<1> DEFINE step == [p \in (1 .. n) \X Tables |-> Next(p[1], p[2])]
<1> DEFINE P(f) == f = [k \in 0 .. n |-> IF k = 0 THEN NoSuppliers ELSE Next(k, f[k - 1])]
<1>1. n \in Nat /\ \A k \in 1 .. n : sheet[k] \in Rows
  OBVIOUS
<1>2. ASSUME NEW k \in 1 .. n, NEW t \in Tables PROVE Next(k, t) \in Tables
  BY <1>1, <1>2, ValidRow, UpsertedKeeps
<1>3. ParsedTo(sheet) = CHOOSE f : P(f)
  BY DEF ParsedTo
<1> HIDE DEF Next
<1>4. step \in [(1 .. n) \X Tables -> Tables]
  <2>1. \A p \in (1 .. n) \X Tables : Next(p[1], p[2]) \in Tables
    BY <1>2
  <2> QED
    BY <2>1
<1>5. \A k \in 1 .. n, t \in Tables : step[<<k, t>>] = Next(k, t)
  OBVIOUS
<1> HIDE DEF step, n
<1>6. PICK f \in [0 .. n -> Tables] :
          f[0] = NoSuppliers /\ \A k \in 1 .. n : f[k] = step[<<k, f[k - 1]>>]
  <2>1. n \in Nat /\ NoSuppliers \in Tables
    BY <1>1, NoSuppliersFacts
  <2>2. PICK f : IsFold(f, n, Tables, NoSuppliers, step)
    BY <1>4, <2>1, FoldExists
  <2> QED
    BY <2>2 DEF IsFold
<1>7. P(f)
  <2>1. ASSUME NEW k \in 1 .. n PROVE f[k] = Next(k, f[k - 1])
    <3>1. k - 1 \in 0 .. n
      BY <1>1
    <3>2. f[k - 1] \in Tables
      BY <1>6, <3>1
    <3> QED
      BY <1>5, <1>6, <3>2
  <2>2. \A k \in 0 .. n : f[k] = IF k = 0 THEN NoSuppliers ELSE Next(k, f[k - 1])
    BY <1>1, <1>6, <2>1
  <2> QED
    BY <2>2
<1> DEFINE g == ParsedTo(sheet)
<1>8. P(g)
  <2> HIDE DEF P
  <2> QED
    BY <1>3, <1>7
<1> HIDE DEF g
<1>9. g[0] = NoSuppliers /\ \A k \in 1 .. n : g[k] = Next(k, g[k - 1])
  BY <1>1, <1>8
<1>10. \A k \in 0 .. n : k \in {j \in 0 .. n : g[j] \in Tables}
  <2> DEFINE T == {j \in 0 .. n : g[j] \in Tables}
  <2>1. 0 \in T
    BY <1>1, <1>9, NoSuppliersFacts
  <2>2. ASSUME NEW k \in 0 .. n, k \in T, k < n PROVE k + 1 \in T
    <3>1. k + 1 \in 1 .. n /\ k + 1 \in 0 .. n /\ (k + 1) - 1 = k /\ g[k] \in Tables
      BY <1>1, <2>2
    <3>2. g[k + 1] = Next(k + 1, g[k])
      BY <1>9, <3>1
    <3> QED
      BY <1>2, <3>1, <3>2
  <2> HIDE DEF T
  <2>3. \A k \in 0 .. n : k \in T
    BY <1>1, <2>1, <2>2, Climb
  <2> QED
    BY <2>3 DEF T
<1>11. g \in [0 .. n -> Tables]
  BY <1>8, <1>10
<1> QED
  BY <1>9, <1>11 DEF g, n, Next

\* ... and knows a supplier by every name of the rows read so far.
LEMMA ParsedNames ==
    ASSUME NEW sheet \in Seq(Rows), NEW c
    PROVE  NamesIn(sheet, c) \subseteq NamesOf(ParsedTo(sheet)[Len(sheet)], c)
<1> DEFINE n == Len(sheet)
<1> DEFINE g == ParsedTo(sheet)
<1> DEFINE T == {k \in 0 .. n : \A j \in 1 .. k :
                    IsValid(sheet[j]) /\ sheet[j].cuit = c
                      => Aliases(ToSupplier(sheet[j])) \subseteq NamesOf(g[k], c)}
<1>1. n \in Nat /\ \A k \in 1 .. n : sheet[k] \in Rows
  OBVIOUS
<1>2. /\ g \in [0 .. n -> Tables]
      /\ \A k \in 1 .. n : g[k] = IF IsValid(sheet[k])
                                  THEN Upserted(g[k - 1], sheet[k].cuit, ToSupplier(sheet[k]))
                                  ELSE g[k - 1]
  BY ParsedToFacts
<1> HIDE DEF g, n
<1>3. 0 \in T
  BY <1>1
<1>4. ASSUME NEW k \in 0 .. n, k \in T, k < n PROVE k + 1 \in T
  <2>1. k + 1 \in 1 .. n /\ k + 1 \in 0 .. n /\ (k + 1) - 1 = k /\ g[k] \in Tables
    BY <1>1, <1>2, <1>4
  <2>2. CASE ~ IsValid(sheet[k + 1])
    <3>1. g[k + 1] = g[k]
      BY <1>2, <2>1, <2>2
    <3>2. ASSUME NEW j \in 1 .. k + 1, IsValid(sheet[j]), sheet[j].cuit = c
          PROVE  Aliases(ToSupplier(sheet[j])) \subseteq NamesOf(g[k + 1], c)
      <4>1. j \in 1 .. k
        BY <1>1, <2>2, <3>2
      <4> QED
        BY <1>4, <3>1, <3>2, <4>1
    <3> QED
      BY <2>1, <3>2
  <2>3. CASE IsValid(sheet[k + 1])
    <3>1. g[k + 1] = Upserted(g[k], sheet[k + 1].cuit, ToSupplier(sheet[k + 1]))
      BY <1>2, <2>1, <2>3
    <3>2. sheet[k + 1].cuit \in Cuits /\ ToSupplier(sheet[k + 1]) \in Supplier
      BY <1>1, <2>1, <2>3, ValidRow
    <3>3. /\ \A d : NamesOf(g[k], d) \subseteq NamesOf(g[k + 1], d)
          /\ Aliases(ToSupplier(sheet[k + 1])) \subseteq NamesOf(g[k + 1], sheet[k + 1].cuit)
      BY <2>1, <3>1, <3>2, UpsertedKeeps
    <3>4. ASSUME NEW j \in 1 .. k + 1, IsValid(sheet[j]), sheet[j].cuit = c
          PROVE  Aliases(ToSupplier(sheet[j])) \subseteq NamesOf(g[k + 1], c)
      <4>1. CASE j = k + 1
        BY <3>3, <3>4, <4>1
      <4>2. CASE j # k + 1
        <5>1. j \in 1 .. k
          BY <1>1, <4>2
        <5> QED
          BY <1>4, <3>3, <3>4, <5>1
      <4> QED
        BY <4>1, <4>2
    <3> QED
      BY <2>1, <3>4
  <2> QED
    BY <2>2, <2>3
<1> HIDE DEF T
<1>5. n \in T
  <2>1. \A k \in 0 .. n : k \in T
    BY <1>1, <1>3, <1>4, Climb
  <2> QED
    BY <1>1, <2>1
<1>6. ASSUME NEW name \in NamesIn(sheet, c) PROVE name \in NamesOf(g[n], c)
  <2>1. PICK row \in ToSet(sheet) : IsValid(row) /\ row.cuit = c /\ name \in Aliases(ToSupplier(row))
    BY DEF NamesIn
  <2>2. PICK j \in 1 .. n : row = sheet[j]
    BY <2>1 DEF ToSet, n
  <2> QED
    BY <1>5, <2>1, <2>2 DEF T
<1> QED
  BY <1>6 DEF g, n

\* A sequence's elements and those of the sequence with one more.
LEMMA ToSetAppend ==
    ASSUME NEW S, NEW s \in Seq(S), NEW e \in S
    PROVE  Append(s, e) \in Seq(S) /\ ToSet(Append(s, e)) = ToSet(s) \union {e}
<1>1. /\ Append(s, e) \in Seq(S)
      /\ Len(Append(s, e)) = Len(s) + 1
      /\ \A k \in 1 .. Len(s) : Append(s, e)[k] = s[k]
      /\ Append(s, e)[Len(s) + 1] = e
      /\ Len(s) \in Nat
  OBVIOUS
<1> DEFINE t == Append(s, e)
<1>2. ToSet(s) = {s[k] : k \in 1 .. Len(s)} /\ ToSet(t) = {t[k] : k \in 1 .. Len(t)}
  BY <1>1 DEF ToSet
<1> HIDE DEF t
<1>3. ToSet(t) \subseteq ToSet(s) \union {e}
  <2>1. ASSUME NEW k \in 1 .. Len(t) PROVE t[k] \in ToSet(s) \union {e}
    BY <1>1, <1>2 DEF t
  <2> QED
    BY <1>2, <2>1
<1>4. ToSet(s) \union {e} \subseteq ToSet(t)
  <2>1. ASSUME NEW k \in 1 .. Len(s) PROVE s[k] \in ToSet(t)
    <3>1. k \in 1 .. Len(t) /\ t[k] = s[k]
      BY <1>1 DEF t
    <3> QED
      BY <1>2, <3>1
  <2>2. e \in ToSet(t)
    <3>1. Len(s) + 1 \in 1 .. Len(t) /\ t[Len(s) + 1] = e
      BY <1>1 DEF t
    <3> QED
      BY <1>2, <3>1
  <2> QED
    BY <1>2, <2>1, <2>2
<1> QED
  BY <1>1, <1>3, <1>4 DEF t

\* The order of the CUITs grows with the table.
LEMMA OrderToFacts ==
    ASSUME NEW sheet \in Seq(Rows)
    PROVE  /\ OrderTo(sheet) \in [0 .. Len(sheet) -> Seq(Cuits)]
           /\ OrderTo(sheet)[0] = <<>>
           /\ \A k \in 1 .. Len(sheet) :
                OrderTo(sheet)[k]
                  = IF IsValid(sheet[k]) /\ sheet[k].cuit \notin ToSet(OrderTo(sheet)[k - 1])
                    THEN Append(OrderTo(sheet)[k - 1], sheet[k].cuit)
                    ELSE OrderTo(sheet)[k - 1]
<1> DEFINE n == Len(sheet)
<1> DEFINE V == Seq(Cuits)
<1> DEFINE Next(k, o) == IF IsValid(sheet[k]) /\ sheet[k].cuit \notin ToSet(o)
                         THEN Append(o, sheet[k].cuit)
                         ELSE o
<1> DEFINE step == [p \in (1 .. n) \X V |-> Next(p[1], p[2])]
<1> DEFINE P(f) == f = [k \in 0 .. n |-> IF k = 0 THEN <<>> ELSE Next(k, f[k - 1])]
<1>1. n \in Nat /\ (\A k \in 1 .. n : sheet[k] \in Rows) /\ <<>> \in V
  OBVIOUS
<1>2. ASSUME NEW k \in 1 .. n, NEW o \in V PROVE Next(k, o) \in V
  BY <1>1, <1>2, ValidRow, ToSetAppend
<1>3. OrderTo(sheet) = CHOOSE f : P(f)
  BY DEF OrderTo
<1> HIDE DEF Next, V
<1>4. step \in [(1 .. n) \X V -> V]
  <2>1. \A p \in (1 .. n) \X V : Next(p[1], p[2]) \in V
    BY <1>2
  <2> QED
    BY <2>1
<1>5. \A k \in 1 .. n, o \in V : step[<<k, o>>] = Next(k, o)
  OBVIOUS
<1> HIDE DEF step, n
<1>6. PICK f \in [0 .. n -> V] :
          f[0] = <<>> /\ \A k \in 1 .. n : f[k] = step[<<k, f[k - 1]>>]
  <2>1. n \in Nat /\ <<>> \in V
    BY <1>1
  <2>2. PICK f : IsFold(f, n, V, <<>>, step)
    BY <1>4, <2>1, FoldExists
  <2> QED
    BY <2>2 DEF IsFold
<1>7. P(f)
  <2>1. ASSUME NEW k \in 1 .. n PROVE f[k] = Next(k, f[k - 1])
    <3>1. k - 1 \in 0 .. n
      BY <1>1
    <3>2. f[k - 1] \in V
      BY <1>6, <3>1
    <3> QED
      BY <1>5, <1>6, <3>2
  <2>2. \A k \in 0 .. n : f[k] = IF k = 0 THEN <<>> ELSE Next(k, f[k - 1])
    BY <1>1, <1>6, <2>1
  <2> QED
    BY <2>2
<1> DEFINE g == OrderTo(sheet)
<1>8. P(g)
  <2> HIDE DEF P
  <2> QED
    BY <1>3, <1>7
<1> HIDE DEF g
<1>9. g[0] = <<>> /\ \A k \in 1 .. n : g[k] = Next(k, g[k - 1])
  BY <1>1, <1>8
<1>10. \A k \in 0 .. n : k \in {j \in 0 .. n : g[j] \in V}
  <2> DEFINE T == {j \in 0 .. n : g[j] \in V}
  <2>1. 0 \in T
    BY <1>1, <1>9
  <2>2. ASSUME NEW k \in 0 .. n, k \in T, k < n PROVE k + 1 \in T
    <3>1. k + 1 \in 1 .. n /\ k + 1 \in 0 .. n /\ (k + 1) - 1 = k /\ g[k] \in V
      BY <1>1, <2>2
    <3>2. g[k + 1] = Next(k + 1, g[k])
      BY <1>9, <3>1
    <3> QED
      BY <1>2, <3>1, <3>2
  <2> HIDE DEF T
  <2>3. \A k \in 0 .. n : k \in T
    BY <1>1, <2>1, <2>2, Climb
  <2> QED
    BY <2>3 DEF T
<1>11. g \in [0 .. n -> V]
  BY <1>8, <1>10
<1> QED
  BY <1>9, <1>11 DEF g, n, Next, V

\* It lists the CUITs of the table, every one of them and no other.
LEMMA OrderIsDomain ==
    ASSUME NEW sheet \in Seq(Rows)
    PROVE  ToSet(OrderTo(sheet)[Len(sheet)]) = DOMAIN ParsedTo(sheet)[Len(sheet)]
<1> DEFINE n == Len(sheet)
<1> DEFINE g == ParsedTo(sheet)
<1> DEFINE o == OrderTo(sheet)
<1> DEFINE T == {k \in 0 .. n : ToSet(o[k]) = DOMAIN g[k]}
<1>1. n \in Nat /\ \A k \in 1 .. n : sheet[k] \in Rows
  OBVIOUS
<1>2. /\ g \in [0 .. n -> Tables]
      /\ g[0] = NoSuppliers
      /\ \A k \in 1 .. n : g[k] = IF IsValid(sheet[k])
                                  THEN Upserted(g[k - 1], sheet[k].cuit, ToSupplier(sheet[k]))
                                  ELSE g[k - 1]
  BY ParsedToFacts
<1>3. /\ o \in [0 .. n -> Seq(Cuits)]
      /\ o[0] = <<>>
      /\ \A k \in 1 .. n : o[k] = IF IsValid(sheet[k]) /\ sheet[k].cuit \notin ToSet(o[k - 1])
                                  THEN Append(o[k - 1], sheet[k].cuit)
                                  ELSE o[k - 1]
  BY OrderToFacts
<1> HIDE DEF g, o, n
<1>4. 0 \in T
  <2>1. ToSet(<<>>) = {}
    BY DEF ToSet
  <2>2. ToSet(o[0]) = DOMAIN g[0]
    BY <1>2, <1>3, <2>1, NoSuppliersFacts
  <2> QED
    BY <1>1, <2>2
<1>5. ASSUME NEW k \in 0 .. n, k \in T, k < n PROVE k + 1 \in T
  <2>1. k + 1 \in 1 .. n /\ k + 1 \in 0 .. n /\ (k + 1) - 1 = k
    BY <1>1, <1>5
  <2>4. g[k] \in Tables
    BY <1>2
  <2>6. o[k] \in Seq(Cuits)
    BY <1>3
  <2>5. ToSet(o[k]) = DOMAIN g[k]
    BY <1>5
  <2>2. CASE ~ IsValid(sheet[k + 1])
    <3>1. g[k + 1] = g[k] /\ o[k + 1] = o[k]
      BY <1>2, <1>3, <2>1, <2>2
    <3> QED
      BY <2>1, <2>5, <3>1
  <2>3. CASE IsValid(sheet[k + 1])
    <3>1. g[k + 1] = Upserted(g[k], sheet[k + 1].cuit, ToSupplier(sheet[k + 1]))
      BY <1>2, <2>1, <2>3
    <3>2. sheet[k + 1].cuit \in Cuits /\ ToSupplier(sheet[k + 1]) \in Supplier
      BY <1>1, <2>1, <2>3, ValidRow
    <3>3. DOMAIN g[k + 1] = DOMAIN g[k] \union {sheet[k + 1].cuit}
      <4>1. DOMAIN Upserted(g[k], sheet[k + 1].cuit, ToSupplier(sheet[k + 1]))
              = DOMAIN g[k] \union {sheet[k + 1].cuit}
        BY <2>4, <3>2, UpsertedKeeps
      <4> QED
        BY <3>1, <4>1
    <3>4. CASE sheet[k + 1].cuit \in ToSet(o[k])
      <4>1. o[k + 1] = o[k]
        BY <1>3, <2>1, <3>4
      <4> QED
        BY <2>1, <2>5, <3>3, <3>4, <4>1
    <3>5. CASE sheet[k + 1].cuit \notin ToSet(o[k])
      <4>1. o[k + 1] = Append(o[k], sheet[k + 1].cuit)
        BY <1>3, <2>1, <2>3, <3>5
      <4>2. ToSet(o[k + 1]) = ToSet(o[k]) \union {sheet[k + 1].cuit}
        BY <2>6, <3>2, <4>1, ToSetAppend
      <4> QED
        BY <2>1, <2>5, <3>3, <4>2
    <3> QED
      BY <3>4, <3>5
  <2> QED
    BY <2>2, <2>3
<1> HIDE DEF T
<1>6. \A k \in 0 .. n : k \in T
  BY <1>1, <1>4, <1>5, Climb
<1>7. n \in T
  BY <1>1, <1>6
<1> QED
  BY <1>7 DEF T, g, o, n

\* What parse_suppliers returns for a file that can be read.
LEMMA SheetFacts ==
    ASSUME NEW sheet \in Sheets \ {Broken, Corrupt}
    PROVE  /\ Parsed[sheet] \in Tables
           /\ OrderOf[sheet] \in Seq(Cuits)
           /\ \A k \in 1 .. Len(OrderOf[sheet]) :
                 OrderOf[sheet][k] \in Cuits /\ Parsed[sheet][OrderOf[sheet][k]] \in Supplier
           /\ \A c \in DOMAIN Parsed[sheet] :
                 \E k \in 1 .. Len(OrderOf[sheet]) : OrderOf[sheet][k] = c
           /\ \A c : NamesIn(sheet, c) \subseteq NamesOf(Parsed[sheet], c)
<1>1. sheet \in Seq(Rows) /\ Len(sheet) \in 0 .. Len(sheet)
  BY SheetsAssumption
<1> DEFINE t == Parsed[sheet]
<1> DEFINE o == OrderOf[sheet]
<1>2. t = ParsedTo(sheet)[Len(sheet)] /\ o = OrderTo(sheet)[Len(sheet)]
  BY DEF Parsed, OrderOf
<1> HIDE DEF t, o
<1>3. t \in Tables
  BY <1>1, <1>2, ParsedToFacts
<1>4. o \in Seq(Cuits)
  BY <1>1, <1>2, OrderToFacts
<1>5. ToSet(o) = DOMAIN t
  BY <1>1, <1>2, OrderIsDomain
<1>6. ToSet(o) = {o[k] : k \in 1 .. Len(o)}
  BY <1>4 DEF ToSet
<1>7. ASSUME NEW k \in 1 .. Len(o) PROVE o[k] \in Cuits /\ t[o[k]] \in Supplier
  <2>1. o[k] \in DOMAIN t
    BY <1>5, <1>6
  <2> QED
    BY <1>3, <2>1, TableFacts
<1>8. ASSUME NEW c \in DOMAIN t PROVE \E k \in 1 .. Len(o) : o[k] = c
  BY <1>5, <1>6
<1>9. ASSUME NEW c PROVE NamesIn(sheet, c) \subseteq NamesOf(t, c)
  BY <1>1, <1>2, ParsedNames
<1> QED
  BY <1>3, <1>4, <1>7, <1>8, <1>9 DEF t, o

\* A merge of the first n suppliers of a sheet forgets no name of the table, nor of those.
LEMMA UpsertedFirstKeeps ==
    ASSUME NEW suppliers \in Tables, NEW sheet \in Sheets \ {Broken, Corrupt},
           NEW n \in 0 .. Len(OrderOf[sheet])
    PROVE  /\ UpsertedFirst(suppliers, sheet, n) \in Tables
           /\ \A c : NamesOf(suppliers, c) \subseteq NamesOf(UpsertedFirst(suppliers, sheet, n), c)
           /\ \A k \in 1 .. n :
                NamesOf(Parsed[sheet], OrderOf[sheet][k])
                  \subseteq NamesOf(UpsertedFirst(suppliers, sheet, n), OrderOf[sheet][k])
<1> DEFINE t == Parsed[sheet]
<1> DEFINE o == OrderOf[sheet]
<1> DEFINE Next(k, s) == Upserted(s, o[k], t[o[k]])
<1> DEFINE step == [p \in (1 .. n) \X Tables |-> Next(p[1], p[2])]
<1> DEFINE P(f) == f = [k \in 0 .. n |-> IF k = 0 THEN suppliers ELSE Next(k, f[k - 1])]
<1>1. n \in Nat /\ \A k \in 1 .. n : o[k] \in Cuits /\ t[o[k]] \in Supplier
  <2>1. o \in Seq(Cuits)
    BY SheetFacts
  <2>2. n \in Nat /\ \A k \in 1 .. n : k \in 1 .. Len(o)
    BY <2>1
  <2> QED
    BY <2>2, SheetFacts
<1> DEFINE g == CHOOSE f : P(f)
<1>2. UpsertedFirst(suppliers, sheet, n) = g[n]
  BY DEF UpsertedFirst
<1>3. ASSUME NEW k \in 1 .. n, NEW c
      PROVE  NamesOf(t, o[k]) = Aliases(t[o[k]]) \/ NamesOf(t, o[k]) = {}
  BY NamesOfFacts
<1> HIDE DEF t, o
<1>4. ASSUME NEW k \in 1 .. n, NEW s \in Tables
      PROVE  /\ Next(k, s) \in Tables
             /\ \A c : NamesOf(s, c) \subseteq NamesOf(Next(k, s), c)
             /\ NamesOf(t, o[k]) \subseteq NamesOf(Next(k, s), o[k])
  <2>1. o[k] \in Cuits /\ t[o[k]] \in Supplier
    BY <1>1
  <2>2. Aliases(t[o[k]]) \subseteq NamesOf(Next(k, s), o[k])
    BY <2>1, UpsertedKeeps
  <2>3. NamesOf(t, o[k]) \subseteq NamesOf(Next(k, s), o[k])
    BY <1>3, <2>2
  <2> QED
    BY <2>1, <2>3, UpsertedKeeps
<1> HIDE DEF Next
<1>5. step \in [(1 .. n) \X Tables -> Tables]
  <2>1. \A p \in (1 .. n) \X Tables : Next(p[1], p[2]) \in Tables
    BY <1>4
  <2> QED
    BY <2>1
<1>6. \A k \in 1 .. n, s \in Tables : step[<<k, s>>] = Next(k, s)
  OBVIOUS
<1> HIDE DEF step
<1>7. PICK f \in [0 .. n -> Tables] :
          f[0] = suppliers /\ \A k \in 1 .. n : f[k] = step[<<k, f[k - 1]>>]
  <2>1. n \in Nat
    BY <1>1
  <2>2. PICK f : IsFold(f, n, Tables, suppliers, step)
    BY <1>5, <2>1, FoldExists
  <2> QED
    BY <2>2 DEF IsFold
<1>8. P(f)
  <2>1. ASSUME NEW k \in 1 .. n PROVE f[k] = Next(k, f[k - 1])
    <3>1. k - 1 \in 0 .. n
      BY <1>1
    <3>2. f[k - 1] \in Tables
      BY <1>7, <3>1
    <3> QED
      BY <1>6, <1>7, <3>2
  <2>2. \A k \in 0 .. n : f[k] = IF k = 0 THEN suppliers ELSE Next(k, f[k - 1])
    BY <1>1, <1>7, <2>1
  <2> QED
    BY <2>2
<1>9. P(g)
  <2> HIDE DEF P
  <2> QED
    BY <1>8
<1> HIDE DEF g
<1>10. g[0] = suppliers /\ \A k \in 1 .. n : g[k] = Next(k, g[k - 1])
  BY <1>1, <1>9
<1> DEFINE Kept(k) == /\ g[k] \in Tables
                      /\ \A c : NamesOf(suppliers, c) \subseteq NamesOf(g[k], c)
                      /\ \A j \in 1 .. k : NamesOf(t, o[j]) \subseteq NamesOf(g[k], o[j])
<1> DEFINE T == {k \in 0 .. n : Kept(k)}
<1>11. 0 \in T
  BY <1>1, <1>10
<1>12. ASSUME NEW k \in 0 .. n, k \in T, k < n PROVE k + 1 \in T
  <2>1. k + 1 \in 1 .. n /\ k + 1 \in 0 .. n /\ (k + 1) - 1 = k
    BY <1>1, <1>12
  <2>2. Kept(k)
    BY <1>12
  <2>3. g[k + 1] = Next(k + 1, g[k])
    BY <1>10, <2>1
  <2>4. /\ g[k + 1] \in Tables
        /\ \A c : NamesOf(g[k], c) \subseteq NamesOf(g[k + 1], c)
        /\ NamesOf(t, o[k + 1]) \subseteq NamesOf(g[k + 1], o[k + 1])
    BY <1>4, <2>1, <2>2, <2>3
  <2>5. ASSUME NEW j \in 1 .. k + 1 PROVE NamesOf(t, o[j]) \subseteq NamesOf(g[k + 1], o[j])
    <3>1. CASE j = k + 1
      BY <2>4, <3>1
    <3>2. CASE j # k + 1
      <4>1. j \in 1 .. k
        BY <1>1, <3>2
      <4> QED
        BY <2>2, <2>4, <4>1
    <3> QED
      BY <3>1, <3>2
  <2>6. \A c : NamesOf(suppliers, c) \subseteq NamesOf(g[k + 1], c)
    BY <2>2, <2>4
  <2>7. Kept(k + 1)
    BY <2>4, <2>5, <2>6
  <2> HIDE DEF Kept
  <2> QED
    BY <2>1, <2>7
<1> HIDE DEF T
<1>13. \A k \in 0 .. n : k \in T
  BY <1>1, <1>11, <1>12, Climb
<1>14. n \in T
  BY <1>1, <1>13
<1>15. Kept(n)
  BY <1>14 DEF T
<1> QED
  BY <1>2, <1>15 DEF t, o

-----------------------------------------------------------------------------
(* Types.                                                                  *)

Callbacks == [callback : {"error", "finish"}, about : Imports]
Threads == [step : {"none", "upsert", "query", "publish", "report"},
            sheet : Sheets \union {Broken}, read : Tables]
Interfaces == [step : {"none", "query", "publish"}, read : Tables]

TypeOK ==
    /\ table \in Tables /\ durable \in Tables /\ registry \in Tables
    /\ thread \in [Imports -> Threads]
    /\ ui \in Interfaces
    /\ mailbox \in Seq(Callbacks)
    /\ shown \in Tables
    /\ waiting \subseteq Imports
    /\ behind \in BOOLEAN
    /\ imported \in [Cuits -> SUBSET Names]

\* A thread that has something to save has read a sheet.
HasRead ==
    \A i \in Imports : thread[i].step = "upsert" => thread[i].sheet \in Sheets \ {Broken, Corrupt}

Typed == TypeOK /\ HasRead

LEMMA RemovedFacts ==
    ASSUME NEW suppliers \in Tables, NEW cuits
    PROVE  /\ [c \in DOMAIN suppliers \ cuits |-> suppliers[c]] \in Tables
           /\ \A c : c \notin cuits
                => NamesOf([d \in DOMAIN suppliers \ cuits |-> suppliers[d]], c) = NamesOf(suppliers, c)
<1> DEFINE rest == [c \in DOMAIN suppliers \ cuits |-> suppliers[c]]
<1>1. /\ rest = [c \in DOMAIN rest |-> rest[c]]
      /\ DOMAIN rest = DOMAIN suppliers \ cuits
      /\ \A c \in DOMAIN rest : rest[c] = suppliers[c]
  OBVIOUS
<1> HIDE DEF rest
<1>2. rest \in Tables
  BY <1>1, TableFacts
<1>3. ASSUME NEW c, c \notin cuits PROVE NamesOf(rest, c) = NamesOf(suppliers, c)
  BY <1>1, <1>3, NamesOfFacts
<1> QED
  BY <1>2, <1>3 DEF rest

LEMMA NamesInFacts ==
    ASSUME NEW sheet \in Sheets \ {Broken, Corrupt}, NEW c
    PROVE  NamesIn(sheet, c) \subseteq Names
<1>1. Parsed[sheet] \in Tables
  BY SheetFacts
<1>2. NamesOf(Parsed[sheet], c) \subseteq Names
  <2>1. CASE c \notin DOMAIN Parsed[sheet]
    BY <2>1, NamesOfFacts
  <2>2. CASE c \in DOMAIN Parsed[sheet]
    <3>1. Parsed[sheet][c] \in Supplier
      BY <1>1, <2>2, TableFacts
    <3>2. Aliases(Parsed[sheet][c]) \subseteq Names
      BY <3>1 DEF Aliases, Supplier
    <3> QED
      BY <2>2, <3>2, NamesOfFacts
  <2> QED
    BY <2>1, <2>2
<1> QED
  BY <1>2, SheetFacts

LEMMA NoThreadTyped == NoThread \in Threads /\ NoUi \in Interfaces
BY NoSuppliersFacts DEF NoThread, NoUi, Threads, Interfaces

LEMMA TypedInit == SuppliersInit => Typed
<1> SUFFICES ASSUME SuppliersInit PROVE Typed
  OBVIOUS
<1>1. table = NoSuppliers /\ durable = NoSuppliers /\ registry = NoSuppliers /\ shown = NoSuppliers
  BY DEF SuppliersInit, Booted
<1>2. thread = [i \in Imports |-> NoThread] /\ ui = NoUi /\ mailbox = <<>> /\ waiting = {}
  BY DEF SuppliersInit, Booted
<1>3. imported \in [Cuits -> SUBSET Names]
  BY DEF SuppliersInit
<1>4. behind \in BOOLEAN
  BY DEF SuppliersInit, Booted
<1>5. TypeOK
  BY <1>1, <1>2, <1>3, <1>4, NoSuppliersFacts, NoThreadTyped DEF TypeOK
<1>6. HasRead
  BY <1>2 DEF HasRead, NoThread
<1> QED
  BY <1>5, <1>6 DEF Typed

\* A callback posted leaves a mailbox of callbacks.
LEMMA PostTyped ==
    ASSUME mailbox \in Seq(Callbacks), NEW i \in Imports, NEW callback \in {"error", "finish"},
           Post(callback, i)
    PROVE  mailbox' \in Seq(Callbacks)
<1>1. [callback |-> callback, about |-> i] \in Callbacks
  BY DEF Callbacks
<1> HIDE DEF Callbacks
<1> QED
  BY <1>1 DEF Post

LEMMA FailTyped ==
    ASSUME Typed, NEW i \in Imports, FailImport(i)
    PROVE  /\ thread' \in [Imports -> Threads]
           /\ mailbox' \in Seq(Callbacks)
           /\ HasRead'
<1>1. thread' = [thread EXCEPT ![i] = NoThread] /\ Post("error", i)
  BY DEF FailImport
<1>2. thread' \in [Imports -> Threads]
  BY <1>1, NoThreadTyped DEF Typed, TypeOK
<1>3. mailbox' \in Seq(Callbacks)
  BY <1>1, PostTyped DEF Typed, TypeOK
<1>4. HasRead'
  BY <1>1 DEF Typed, TypeOK, HasRead, NoThread
<1> QED
  BY <1>2, <1>3, <1>4

LEMMA TypedStep == Typed /\ [SuppliersNext]_suppliersVars => Typed'
<1> SUFFICES ASSUME Typed, [SuppliersNext]_suppliersVars PROVE Typed'
  OBVIOUS
<1>1. CASE UNCHANGED suppliersVars
  BY <1>1 DEF suppliersVars, Typed, TypeOK, HasRead
<1>2. ASSUME NEW i \in Imports, NEW sheet \in Sheets, ImportFrom(i, sheet) PROVE Typed'
  <2>1. waiting' \subseteq Imports
    BY <1>2 DEF ImportFrom, Typed, TypeOK
  <2>2. UNCHANGED <<table, durable, registry, ui, shown, behind, imported>>
    BY <1>2 DEF ImportFrom
  <2>3. CASE Post("error", i) /\ UNCHANGED thread
    <3>1. mailbox' \in Seq(Callbacks)
      BY <2>3, PostTyped DEF Typed, TypeOK
    <3> QED
      BY <2>1, <2>2, <2>3, <3>1 DEF Typed, TypeOK, HasRead
  <2>4. CASE UNCHANGED <<thread, mailbox>>
    BY <2>1, <2>2, <2>4 DEF Typed, TypeOK, HasRead
  <2>5. CASE /\ sheet \notin {Broken, Corrupt}
             /\ thread' = [thread EXCEPT ![i].step = "upsert", ![i].sheet = sheet]
             /\ UNCHANGED mailbox
    <3>1. thread' \in [Imports -> Threads]
      BY <2>5 DEF Typed, TypeOK, Threads
    <3>2. HasRead'
      BY <2>5 DEF Typed, TypeOK, HasRead, Threads
    <3> QED
      BY <2>1, <2>2, <2>5, <3>1, <3>2 DEF Typed, TypeOK
  <2> QED
    BY <1>2, <2>3, <2>4, <2>5 DEF ImportFrom
<1>3. ASSUME NEW i \in Imports, BulkUpsert(i) PROVE Typed'
  <2> DEFINE sheet == thread[i].sheet
  <2>1. sheet \in Sheets \ {Broken, Corrupt}
    BY <1>3 DEF BulkUpsert, Typed, HasRead
  <2>2. Len(OrderOf[sheet]) \in 0 .. Len(OrderOf[sheet])
    BY <2>1, SheetFacts
  <2>3. table' \in Tables /\ durable' \in Tables
    BY <1>3, <2>1, <2>2, UpsertedFirstKeeps DEF BulkUpsert, Typed, TypeOK
  <2>4. imported' \in [Cuits -> SUBSET Names]
    BY <1>3, <2>1, NamesInFacts DEF BulkUpsert, Typed, TypeOK
  <2>5. thread' \in [Imports -> Threads] /\ HasRead'
    BY <1>3 DEF BulkUpsert, Typed, TypeOK, HasRead, Threads
  <2> QED
    BY <1>3, <2>3, <2>4, <2>5 DEF BulkUpsert, Typed, TypeOK
<1>4. ASSUME NEW i \in Imports, BulkUpsertFails(i) PROVE Typed'
  <2> DEFINE sheet == thread[i].sheet
  <2>1. sheet \in Sheets \ {Broken, Corrupt}
    BY <1>4 DEF BulkUpsertFails, Typed, HasRead
  <2>2. table' \in Tables
    BY <1>4, <2>1, UpsertedFirstKeeps DEF BulkUpsertFails, Typed, TypeOK
  <2>3. FailImport(i)
    BY <1>4 DEF BulkUpsertFails
  <2> QED
    BY <1>4, <2>2, <2>3, FailTyped DEF BulkUpsertFails, Typed, TypeOK
<1>5. ASSUME NEW i \in Imports, Query(i) PROVE Typed'
  <2>1. CASE FailImport(i)
    BY <1>5, <2>1, FailTyped DEF Query, Typed, TypeOK
  <2>2. CASE /\ thread' = [thread EXCEPT ![i].step = "publish", ![i].read = table]
             /\ UNCHANGED mailbox
    <3>1. thread' \in [Imports -> Threads] /\ HasRead'
      BY <2>2 DEF Typed, TypeOK, HasRead, Threads
    <3> QED
      BY <1>5, <2>2, <3>1 DEF Query, Typed, TypeOK
  <2> QED
    BY <1>5, <2>1, <2>2 DEF Query
<1>6. ASSUME NEW i \in Imports, Publish(i) PROVE Typed'
  <2>1. thread' \in [Imports -> Threads] /\ HasRead' /\ registry' \in Tables
    BY <1>6 DEF Publish, Typed, TypeOK, HasRead, Threads
  <2> QED
    BY <1>6, <2>1 DEF Publish, Typed, TypeOK
<1>7. ASSUME NEW i \in Imports, Report(i) PROVE Typed'
  <2>1. thread' = [thread EXCEPT ![i] = NoThread] /\ Post("finish", i)
    BY <1>7 DEF Report
  <2>2. thread' \in [Imports -> Threads]
    BY <2>1, NoThreadTyped DEF Typed, TypeOK
  <2>3. mailbox' \in Seq(Callbacks)
    BY <2>1, PostTyped DEF Typed, TypeOK
  <2>4. HasRead'
    BY <2>1 DEF Typed, TypeOK, HasRead, NoThread
  <2> QED
    BY <1>7, <2>2, <2>3, <2>4 DEF Report, Typed, TypeOK
<1>8. CASE Drain
  <2>1. mailbox' \in Seq(Callbacks)
    <3> HIDE DEF Callbacks
    <3> QED
      BY <1>8 DEF Drain, Typed, TypeOK
  <2>2. shown' \in Tables /\ behind' \in BOOLEAN
    BY <1>8 DEF Drain, Refresh, RefreshFails, Typed, TypeOK
  <2>3. waiting' \subseteq Imports
    BY <1>8 DEF Drain, Typed, TypeOK
  <2> QED
    BY <1>8, <2>1, <2>2, <2>3 DEF Drain, Typed, TypeOK, HasRead
<1>9. CASE ReloadQuery
  <2>1. ui' \in Interfaces
    BY <1>9, NoThreadTyped DEF ReloadQuery, Interfaces, Typed, TypeOK
  <2> QED
    BY <1>9, <2>1 DEF ReloadQuery, Typed, TypeOK, HasRead
<1>10. CASE ReloadPublish
  <2>1. ui' \in Interfaces /\ registry' \in Tables
    BY <1>10, NoThreadTyped DEF ReloadPublish, Interfaces, Typed, TypeOK
  <2>2. shown' \in Tables /\ behind' \in BOOLEAN
    BY <1>10 DEF ReloadPublish, Refresh, RefreshFails, Interfaces, Typed, TypeOK
  <2> QED
    BY <1>10, <2>1, <2>2 DEF ReloadPublish, Typed, TypeOK, HasRead
<1>11. ASSUME NEW cuits, Delete(cuits) PROVE Typed'
  <2>1. table' \in Tables /\ durable' \in Tables
    BY <1>11, RemovedFacts DEF Delete, Typed, TypeOK
  <2>2. ui' \in Interfaces
    BY <1>11 DEF Delete, Interfaces, Typed, TypeOK
  <2>3. imported' \in [Cuits -> SUBSET Names]
    BY <1>11 DEF Delete, Typed, TypeOK
  <2> QED
    BY <1>11, <2>1, <2>2, <2>3 DEF Delete, Typed, TypeOK, HasRead
<1>12. ASSUME NEW cuits, DeleteFails(cuits) PROVE Typed'
  <2>1. table' \in Tables
    BY <1>12, RemovedFacts DEF DeleteFails, Typed, TypeOK
  <2>2. imported' \in [Cuits -> SUBSET Names]
    BY <1>12 DEF DeleteFails, Typed, TypeOK
  <2> QED
    BY <1>12, <2>1, <2>2 DEF DeleteFails, Typed, TypeOK, HasRead
<1>13. CASE Restart
  <2>1. thread' = [i \in Imports |-> NoThread] /\ ui' = NoUi /\ mailbox' = <<>> /\ waiting' = {}
    BY <1>13 DEF Restart
  <2>2. table' \in Tables /\ durable' \in Tables /\ registry' \in Tables /\ shown' \in Tables
    BY <1>13 DEF Restart, Typed, TypeOK
  <2>3. HasRead'
    BY <2>1 DEF HasRead, NoThread
  <2>4. imported' \in [Cuits -> SUBSET Names]
    BY <1>13 DEF Restart, Typed, TypeOK
  <2>5. thread' \in [Imports -> Threads] /\ ui' \in Interfaces
    BY <2>1, NoThreadTyped
  <2>6. behind' \in BOOLEAN
    BY <1>13 DEF Restart
  <2> QED
    BY <2>1, <2>2, <2>3, <2>4, <2>5, <2>6 DEF Typed, TypeOK
<1>14. CASE Search
  <2>1. shown' \in Tables /\ behind' \in BOOLEAN
    BY <1>14 DEF Search, Refresh, RefreshFails, Typed, TypeOK
  <2> QED
    BY <1>14, <2>1 DEF Search, Typed, TypeOK, HasRead
<1> QED
  BY <1>1, <1>2, <1>3, <1>4, <1>5, <1>6, <1>7, <1>8, <1>9, <1>10, <1>11, <1>12, <1>13, <1>14
     DEF SuppliersNext, ImportStep, InterfaceStep, UserStep

\* The type of the state, and the sheet every thread that saves has: what the other
\* proofs of this module start from.
THEOREM TypeCorrect == SuppliersSpec => []Typed
<1> QED
  BY TypedInit, TypedStep, PTL DEF SuppliersSpec

-----------------------------------------------------------------------------
(* What imports brought.                                                   *)

\* The property, of any table ...
KeptIn(suppliers) == \A c \in Cuits : imported[c] \subseteq NamesOf(suppliers, c)

\* ... and it holds of the transaction that is open as well as of what is committed:
\* a later import commits the one and a restart goes back to the other.
Kept == KeptIn(table) /\ KeptIn(durable)

LEMMA KeptStep == Typed /\ Kept /\ [SuppliersNext]_suppliersVars => Kept'
<1> SUFFICES ASSUME Typed, Kept, [SuppliersNext]_suppliersVars PROVE Kept'
  OBVIOUS
<1>1. ASSUME UNCHANGED <<table, durable, imported>> PROVE Kept'
  BY <1>1 DEF Kept, KeptIn, NamesOf, Listed
<1>2. ASSUME NEW i \in Imports, BulkUpsert(i) PROVE Kept'
  <2> DEFINE sheet == thread[i].sheet
  <2> DEFINE n == Len(OrderOf[sheet])
  <2>1. sheet \in Sheets \ {Broken, Corrupt}
    BY <1>2 DEF BulkUpsert, Typed, HasRead
  <2>2. n \in 0 .. n /\ table \in Tables
    BY <2>1, SheetFacts DEF Typed, TypeOK
  <2>3. /\ table' = UpsertedFirst(table, sheet, n)
        /\ durable' = table'
        /\ imported' = [c \in Cuits |-> imported[c] \union NamesIn(sheet, c)]
    BY <1>2 DEF BulkUpsert
  <2> HIDE DEF sheet
  <2>4. ASSUME NEW c \in Cuits PROVE imported[c] \subseteq NamesOf(table', c)
    BY <2>1, <2>2, <2>3, UpsertedFirstKeeps DEF Kept, KeptIn
  <2>5. ASSUME NEW c \in Cuits PROVE NamesIn(sheet, c) \subseteq NamesOf(table', c)
    <3>1. NamesIn(sheet, c) \subseteq NamesOf(Parsed[sheet], c)
      BY <2>1, SheetFacts
    <3>2. CASE c \notin DOMAIN Parsed[sheet]
      BY <3>1, <3>2, NamesOfFacts
    <3>3. CASE c \in DOMAIN Parsed[sheet]
      <4>1. PICK k \in 1 .. n : OrderOf[sheet][k] = c
        BY <2>1, <3>3, SheetFacts
      <4>2. NamesOf(Parsed[sheet], OrderOf[sheet][k]) \subseteq NamesOf(table', OrderOf[sheet][k])
        BY <2>1, <2>2, <2>3, UpsertedFirstKeeps
      <4> QED
        BY <3>1, <4>1, <4>2
    <3> QED
      BY <3>2, <3>3
  <2>6. ASSUME NEW c \in Cuits PROVE imported'[c] \subseteq NamesOf(table', c)
    BY <2>3, <2>4, <2>5
  <2>7. KeptIn(table)' /\ KeptIn(durable)'
    BY <2>3, <2>6 DEF KeptIn
  <2> QED
    BY <2>7 DEF Kept
<1>3. ASSUME NEW i \in Imports, BulkUpsertFails(i) PROVE Kept'
  <2> DEFINE sheet == thread[i].sheet
  <2>1. sheet \in Sheets \ {Broken, Corrupt} /\ table \in Tables
    BY <1>3 DEF BulkUpsertFails, Typed, TypeOK, HasRead
  <2>2. durable' = durable /\ imported' = imported
    BY <1>3 DEF BulkUpsertFails
  <2>3. ASSUME NEW c \in Cuits PROVE imported[c] \subseteq NamesOf(table', c)
    <3>1. CASE table' = durable
      BY <3>1 DEF Kept, KeptIn
    <3>2. CASE \E n \in 0 .. Len(OrderOf[sheet]) : table' = UpsertedFirst(table, sheet, n)
      <4>1. PICK n \in 0 .. Len(OrderOf[sheet]) : table' = UpsertedFirst(table, sheet, n)
        BY <3>2
      <4> HIDE DEF sheet
      <4>2. NamesOf(table, c) \subseteq NamesOf(table', c)
        BY <2>1, <4>1, UpsertedFirstKeeps
      <4> QED
        BY <4>2 DEF Kept, KeptIn
    <3> QED
      BY <1>3, <3>1, <3>2 DEF BulkUpsertFails
  <2>4. KeptIn(table)'
    BY <2>2, <2>3 DEF KeptIn
  <2>5. KeptIn(durable)'
    BY <2>2 DEF Kept, KeptIn
  <2> QED
    BY <2>4, <2>5 DEF Kept
\* A removal empties what the history says of the suppliers removed.
<1>4. ASSUME NEW cuits, Delete(cuits) \/ DeleteFails(cuits) PROVE Kept'
  <2> DEFINE rest == [c \in DOMAIN table \ cuits |-> table[c]]
  <2>1. /\ imported' = [c \in Cuits |-> IF c \in cuits THEN {} ELSE imported[c]]
        /\ table' \in {table, durable, rest}
        /\ durable' \in {durable, rest}
    BY <1>4 DEF Delete, DeleteFails
  <2>2. \A c : c \notin cuits => NamesOf(rest, c) = NamesOf(table, c)
    BY RemovedFacts DEF Typed, TypeOK
  <2> HIDE DEF rest
  <2>3. ASSUME NEW c \in Cuits
        PROVE  imported'[c] \subseteq NamesOf(table', c) /\ imported'[c] \subseteq NamesOf(durable', c)
    <3>1. CASE c \in cuits
      BY <2>1, <3>1
    <3>2. CASE c \notin cuits
      <4>1. /\ imported'[c] = imported[c]
            /\ imported[c] \subseteq NamesOf(table, c)
            /\ imported[c] \subseteq NamesOf(durable, c)
            /\ imported[c] \subseteq NamesOf(rest, c)
        BY <2>1, <2>2, <3>2 DEF Kept, KeptIn
      <4> QED
        BY <2>1, <4>1
    <3> QED
      BY <3>1, <3>2
  <2> QED
    BY <2>3 DEF Kept, KeptIn
<1>5. CASE Restart
  BY <1>5 DEF Restart, Kept, KeptIn
<1>6. CASE UNCHANGED suppliersVars
  BY <1>1, <1>6 DEF suppliersVars
<1>7. ASSUME NEW i \in Imports, Query(i) \/ Publish(i) \/ Report(i) PROVE Kept'
  BY <1>1, <1>7 DEF Query, Publish, Report
<1>8. CASE Drain \/ ReloadQuery \/ ReloadPublish \/ Search
  BY <1>1, <1>8 DEF Drain, ReloadQuery, ReloadPublish, Search
<1>9. ASSUME NEW i \in Imports, NEW sheet \in Sheets, ImportFrom(i, sheet) PROVE Kept'
  BY <1>1, <1>9 DEF ImportFrom
<1> QED
  BY <1>2, <1>3, <1>4, <1>5, <1>6, <1>7, <1>8, <1>9
     DEF SuppliersNext, ImportStep, InterfaceStep, UserStep

LEMMA KeptInit == SuppliersInit => Kept
BY DEF SuppliersInit, Kept, KeptIn

\* A name an import brought stays, committed, an alias of its supplier until the user
\* removes it: whatever sheets, imports that overlap or fail, and restarts follow.
THEOREM ImportedIsKeptCorrect == SuppliersSpec => []ImportedIsKept
<1>1. Kept => ImportedIsKept
  BY DEF Kept, KeptIn, NamesOf, ImportedIsKept
<1> QED
  BY <1>1, KeptInit, KeptStep, TypedInit, TypedStep, PTL DEF SuppliersSpec

-----------------------------------------------------------------------------
(* What the view shows.                                                    *)

\* The view lists the snapshot, or its last refresh failed, or somebody who is still to
\* run will refresh it: a thread about to report, or the callback it left.
Refreshed ==
    \/ behind
    \/ shown = registry
    \/ \E i \in Imports : thread[i].step = "report"
    \/ \E k \in 1 .. Len(mailbox) : mailbox[k].callback = "finish"

\* A callback posted keeps those that wait.
LEMMA PostKeeps ==
    ASSUME mailbox \in Seq(Callbacks), NEW i \in Imports, NEW callback \in {"error", "finish"},
           Post(callback, i)
    PROVE  /\ \A k \in 1 .. Len(mailbox) : k \in 1 .. Len(mailbox') /\ mailbox'[k] = mailbox[k]
           /\ \E k \in 1 .. Len(mailbox') : mailbox'[k].callback = callback
<1> DEFINE box == [callback |-> callback, about |-> i]
<1>1. mailbox' = Append(mailbox, box) /\ box \in Callbacks
  BY DEF Post, Callbacks
<1>2. box.callback = callback
  OBVIOUS
<1> HIDE DEF box, Callbacks
<1>3. /\ Len(mailbox') = Len(mailbox) + 1 /\ Len(mailbox) \in Nat
      /\ \A k \in 1 .. Len(mailbox) : mailbox'[k] = mailbox[k]
      /\ mailbox'[Len(mailbox) + 1] = box
  BY <1>1
<1> QED
  BY <1>2, <1>3

\* Threads that neither report nor begin to leave what is announced as it was.
LEMMA StillRefreshed ==
    ASSUME Typed, Refreshed, shown' = shown, registry' = registry, behind' = behind,
           \A i \in Imports : thread[i].step = "report" => thread'[i].step = "report",
           \/ mailbox' = mailbox
           \/ \E i \in Imports : Post("error", i)
    PROVE  Refreshed'
<1>1. \A k \in 1 .. Len(mailbox) : k \in 1 .. Len(mailbox') /\ mailbox'[k] = mailbox[k]
  BY PostKeeps DEF Typed, TypeOK
<1>2. CASE behind \/ shown = registry
  BY <1>2 DEF Refreshed
<1>3. CASE \E i \in Imports : thread[i].step = "report"
  BY <1>3 DEF Refreshed
<1>4. CASE \E k \in 1 .. Len(mailbox) : mailbox[k].callback = "finish"
  BY <1>1, <1>4 DEF Refreshed
<1> QED
  BY <1>2, <1>3, <1>4 DEF Refreshed

LEMMA RefreshedStep == Typed /\ Refreshed /\ [SuppliersNext]_suppliersVars => Refreshed'
<1> SUFFICES ASSUME Typed, Refreshed, [SuppliersNext]_suppliersVars PROVE Refreshed'
  OBVIOUS
<1>0. thread \in [Imports -> Threads] /\ mailbox \in Seq(Callbacks)
  BY DEF Typed, TypeOK
<1>1. CASE UNCHANGED suppliersVars
  BY <1>1, StillRefreshed DEF suppliersVars
<1>2. ASSUME NEW i \in Imports, NEW sheet \in Sheets, ImportFrom(i, sheet) PROVE Refreshed'
  <2>1. shown' = shown /\ behind' = behind /\ registry' = registry
    BY <1>2 DEF ImportFrom
  <2>2. mailbox' = mailbox \/ Post("error", i)
    BY <1>2 DEF ImportFrom
  <2>3. thread' = thread
          \/ thread' = [thread EXCEPT ![i].step = "upsert", ![i].sheet = sheet]
    BY <1>2 DEF ImportFrom
  <2>4. thread[i].step = "none"
    BY <1>2 DEF ImportFrom, Busy
  <2>5. \A j \in Imports : thread[j].step = "report" => thread'[j].step = "report"
    BY <1>0, <2>3, <2>4 DEF Threads
  <2> QED
    BY <2>1, <2>2, <2>5, StillRefreshed
<1>3. ASSUME NEW i \in Imports, BulkUpsert(i) PROVE Refreshed'
  <2>1. \A j \in Imports : thread[j].step = "report" => thread'[j].step = "report"
    BY <1>0, <1>3 DEF BulkUpsert, Threads
  <2>2. shown' = shown /\ behind' = behind /\ registry' = registry /\ mailbox' = mailbox
    BY <1>3 DEF BulkUpsert
  <2> QED
    BY <2>1, <2>2, StillRefreshed
<1>4. ASSUME NEW i \in Imports, FailImport(i), thread[i].step # "report",
             shown' = shown, behind' = behind, registry' = registry
      PROVE  Refreshed'
  <2>1. \A j \in Imports : thread[j].step = "report" => thread'[j].step = "report"
    BY <1>0, <1>4 DEF FailImport
  <2>2. Post("error", i)
    BY <1>4 DEF FailImport
  <2> QED
    BY <1>4, <2>1, <2>2, StillRefreshed
<1>5. ASSUME NEW i \in Imports, BulkUpsertFails(i) PROVE Refreshed'
  <2>1. FailImport(i) /\ thread[i].step # "report" /\ shown' = shown /\ behind' = behind /\ registry' = registry
    BY <1>5 DEF BulkUpsertFails
  <2> QED
    BY <1>4, <2>1
<1>6. ASSUME NEW i \in Imports, Query(i) PROVE Refreshed'
  <2>1. thread[i].step # "report" /\ shown' = shown /\ behind' = behind /\ registry' = registry
    BY <1>6 DEF Query
  <2>2. CASE FailImport(i)
    BY <1>4, <2>1, <2>2
  <2>3. CASE /\ thread' = [thread EXCEPT ![i].step = "publish", ![i].read = table]
             /\ UNCHANGED mailbox
    <3>1. \A j \in Imports : thread[j].step = "report" => thread'[j].step = "report"
      BY <1>0, <2>1, <2>3 DEF Threads
    <3> QED
      BY <2>1, <2>3, <3>1, StillRefreshed
  <2> QED
    BY <1>6, <2>2, <2>3 DEF Query
<1>7. ASSUME NEW i \in Imports, Publish(i) PROVE Refreshed'
  <2>1. thread'[i].step = "report"
    BY <1>0, <1>7 DEF Publish, Threads
  <2> QED
    BY <2>1 DEF Refreshed
<1>8. ASSUME NEW i \in Imports, Report(i) PROVE Refreshed'
  <2>1. Post("finish", i)
    BY <1>8 DEF Report
  <2>2. \E k \in 1 .. Len(mailbox') : mailbox'[k].callback = "finish"
    BY <1>0, <2>1, PostKeeps
  <2> QED
    BY <2>2 DEF Refreshed
<1>9. CASE Drain
  <2>1. CASE Head(mailbox).callback = "finish"
    BY <1>9, <2>1 DEF Drain, Refresh, RefreshFails, Refreshed
  <2>2. CASE Head(mailbox).callback # "finish"
    <3>1. shown' = shown /\ behind' = behind /\ registry' = registry /\ thread' = thread /\ mailbox' = Tail(mailbox)
          /\ mailbox # <<>>
      BY <1>9, <2>2 DEF Drain
    <3>2. ASSUME NEW k \in 1 .. Len(mailbox), mailbox[k].callback = "finish"
          PROVE  k - 1 \in 1 .. Len(mailbox') /\ mailbox'[k - 1] = mailbox[k]
      <4> HIDE DEF Callbacks
      <4>1. k # 1
        BY <1>0, <2>2, <3>1, <3>2
      <4> QED
        BY <1>0, <3>1, <4>1
    <3> QED
      BY <3>1, <3>2 DEF Refreshed
  <2> QED
    BY <2>1, <2>2
<1>10. CASE ReloadPublish \/ Restart \/ Search
  BY <1>10 DEF ReloadPublish, Restart, Search, Refresh, RefreshFails, Refreshed
<1>11. CASE ReloadQuery
  BY <1>11, StillRefreshed DEF ReloadQuery
<1>12. ASSUME NEW cuits, Delete(cuits) \/ DeleteFails(cuits) PROVE Refreshed'
  BY <1>12, StillRefreshed DEF Delete, DeleteFails
<1> QED
  BY <1>1, <1>2, <1>3, <1>5, <1>6, <1>7, <1>8, <1>9, <1>10, <1>11, <1>12
     DEF SuppliersNext, ImportStep, InterfaceStep, UserStep

LEMMA RefreshedInit == SuppliersInit => Refreshed
BY DEF SuppliersInit, Booted, Refreshed

\* When no import runs and no callback waits, the view lists the very snapshot the worker
\* reads or its last refresh failed, in whatever order any number of imports and removals
\* overlapped or failed.
THEOREM ShownIsRegistryCorrect == SuppliersSpec => []ShownIsRegistry
<1>1. Refreshed => ShownIsRegistry
  BY DEF Refreshed, ShownIsRegistry
<1> QED
  BY <1>1, RefreshedInit, RefreshedStep, TypedInit, TypedStep, PTL DEF SuppliersSpec
=============================================================================
