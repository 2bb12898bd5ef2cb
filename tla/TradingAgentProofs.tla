------------------------- MODULE TradingAgentProofs -------------------------
(***************************************************************************)
(* Proofs about TradingAgent, for any number of symbols, prices, caps and    *)
(* trades.                                                                   *)
(*                                                                          *)
(* The first part derives what sums over 1..n obey from the induction that   *)
(* the well-founded order of the finite sets gives.  The book then follows   *)
(* the table of trades because a row is appended, counted and booked in one  *)
(* step, and because what a snapshot saves was counted when it was taken.    *)
(***************************************************************************)
EXTENDS TradingAgent, WellFoundedInduction, TLAPS
-----------------------------------------------------------------------------
(* Induction over the naturals, in the form of a set that holds 0 and every  *)
(* successor.                                                                *)

\* A set of naturals that is not empty has a least element.
LEMMA LeastNatural ==
  ASSUME NEW T, T \subseteq Nat, T # {}
  PROVE  \E x \in T : \A y \in T : x <= y
<1> DEFINE R == {p \in Nat \X Nat : p[1] < p[2]}
<1>1. IsWellFoundedOn(R, Nat)
  BY NatLessThanWellFounded, Zenon DEF OpToRel
<1>2. \A x, y \in Nat : y < x => <<y, x>> \in R
  OBVIOUS
<1> HIDE DEF R
<1>3. PICK x \in T : \A y \in T : <<y, x>> \notin R
  BY <1>1, WFMin
<1>4. ASSUME NEW y \in T PROVE x <= y
  <2>1. x \in Nat /\ y \in Nat
    BY <1>3
  <2>2. ~(y < x)
    BY <1>2, <1>3, <2>1, Zenon
  <2> QED
    BY <2>1, <2>2
<1> QED
  BY <1>4

LEMMA Induction ==
  ASSUME NEW S, 0 \in S, \A n \in Nat : n \in S => n + 1 \in S
  PROVE  Nat \subseteq S
<1> SUFFICES ASSUME Nat \ S # {} PROVE FALSE
  OBVIOUS
<1>1. PICK m \in Nat \ S : \A y \in Nat \ S : m <= y
  BY LeastNatural
<1>2. m # 0 /\ m - 1 \in Nat /\ m - 1 < m /\ (m - 1) + 1 = m
  BY <1>1
<1>3. m - 1 \in S
  BY <1>1, <1>2
<1> QED
  BY <1>1, <1>2, <1>3
-----------------------------------------------------------------------------
(* Sums.                                                                     *)

\* What the recursive function in SumTo has to be.
Sums(u, f, n) == u = [k \in 0..n |-> IF k = 0 THEN 0 ELSE u[k - 1] + f[k]]

LEMMA SumsExist == \A f : \A n \in Nat : \E u : Sums(u, f, n)
<1> TAKE f
<1> DEFINE S == {n \in Nat : \E u : Sums(u, f, n)}
<1>1. 0 \in S
  <2> DEFINE u == [k \in 0..0 |-> 0]
  <2>1. Sums(u, f, 0)
    BY DEF Sums
  <2> QED
    BY <2>1
<1>2. ASSUME NEW n \in Nat, n \in S PROVE n + 1 \in S
  <2>1. PICK u : Sums(u, f, n)
    BY <1>2
  <2> DEFINE v == [k \in 0..(n + 1) |-> IF k <= n THEN u[k] ELSE u[n] + f[n + 1]]
  <2>2. ASSUME NEW k \in 0..(n + 1)
        PROVE  v[k] = IF k = 0 THEN 0 ELSE v[k - 1] + f[k]
    <3>1. CASE k = 0
      BY <2>1, <3>1 DEF Sums
    <3>2. CASE k \in 1..n
      BY <2>1, <3>2 DEF Sums
    <3>3. CASE k = n + 1
      BY <2>1, <3>3
    <3> QED
      BY <3>1, <3>2, <3>3
  <2>3. Sums(v, f, n + 1)
    BY <2>2 DEF Sums
  <2> QED
    BY <2>3
<1>3. Nat \subseteq S
  <2> HIDE DEF S
  <2> QED
    BY <1>1, <1>2, Induction
<1> QED
  BY <1>3

LEMMA SumIsLast ==
  ASSUME NEW f, NEW n \in Nat
  PROVE  \E u : Sums(u, f, n) /\ SumTo(f, n) = u[n]
<1> DEFINE u == CHOOSE v : Sums(v, f, n)
<1>1. Sums(u, f, n)
  BY SumsExist
<1>2. SumTo(f, n) = u[n]
  BY DEF SumTo, Sums
<1> QED
  BY <1>1, <1>2

\* Sums of equal summands are equal, as far as both go.
LEMMA SumsAgree ==
  ASSUME NEW f, NEW g, NEW m \in Nat, NEW n \in Nat, NEW u, NEW v,
         Sums(u, f, m), Sums(v, g, n), m <= n, \A k \in 1..m : f[k] = g[k]
  PROVE  u[m] = v[m]
<1> DEFINE S == {k \in Nat : k <= m => u[k] = v[k]}
<1>1. 0 \in S
  BY DEF Sums
<1>2. ASSUME NEW k \in Nat, k \in S PROVE k + 1 \in S
  BY <1>2 DEF Sums
<1>3. Nat \subseteq S
  <2> HIDE DEF S
  <2> QED
    BY <1>1, <1>2, Induction
<1> QED
  BY <1>3

LEMMA SumOfEqual ==
  ASSUME NEW f, NEW g, NEW n \in Nat, \A k \in 1..n : f[k] = g[k]
  PROVE  SumTo(f, n) = SumTo(g, n)
<1>1. PICK u : Sums(u, f, n) /\ SumTo(f, n) = u[n]
  BY SumIsLast
<1>2. PICK v : Sums(v, g, n) /\ SumTo(g, n) = v[n]
  BY SumIsLast
<1>3. Sums(u, f, n) /\ Sums(v, g, n) /\ n <= n
  BY <1>1, <1>2
<1>4. u[n] = v[n]
  BY <1>3, SumsAgree
<1> QED
  BY <1>1, <1>2, <1>4

LEMMA SumStep ==
  ASSUME NEW f, NEW g, NEW n \in Nat, \A k \in 1..n : f[k] = g[k]
  PROVE  SumTo(g, n + 1) = SumTo(f, n) + g[n + 1]
<1>1. PICK u : Sums(u, f, n) /\ SumTo(f, n) = u[n]
  BY SumIsLast
<1>2. PICK v : Sums(v, g, n + 1) /\ SumTo(g, n + 1) = v[n + 1]
  BY SumIsLast
<1>3. u[n] = v[n]
  <2>1. Sums(u, f, n) /\ Sums(v, g, n + 1) /\ n + 1 \in Nat /\ n <= n + 1
    BY <1>1, <1>2
  <2> QED
    BY <2>1, SumsAgree
<1>4. v[n + 1] = v[n] + g[n + 1]
  BY <1>2 DEF Sums
<1> QED
  BY <1>1, <1>2, <1>3, <1>4

LEMMA SumType ==
  ASSUME NEW f, NEW n \in Nat, \A k \in 1..n : f[k] \in Int
  PROVE  SumTo(f, n) \in Int
<1>1. PICK u : Sums(u, f, n) /\ SumTo(f, n) = u[n]
  BY SumIsLast
<1> DEFINE S == {k \in Nat : k <= n => u[k] \in Int}
<1>2. 0 \in S
  BY <1>1 DEF Sums
<1>3. ASSUME NEW k \in Nat, k \in S PROVE k + 1 \in S
  BY <1>1, <1>3 DEF Sums
<1>4. Nat \subseteq S
  <2> HIDE DEF S
  <2> QED
    BY <1>2, <1>3, Induction
<1> QED
  BY <1>1, <1>4

LEMMA SumOfNothing ==
  ASSUME NEW f, NEW n \in Nat, \A k \in 1..n : f[k] = 0
  PROVE  SumTo(f, n) = 0
<1>1. PICK u : Sums(u, f, n) /\ SumTo(f, n) = u[n]
  BY SumIsLast
<1> DEFINE S == {k \in Nat : k <= n => u[k] = 0}
<1>2. 0 \in S
  BY <1>1 DEF Sums
<1>3. ASSUME NEW k \in Nat, k \in S PROVE k + 1 \in S
  BY <1>1, <1>3 DEF Sums
<1>4. Nat \subseteq S
  <2> HIDE DEF S
  <2> QED
    BY <1>2, <1>3, Induction
<1> QED
  BY <1>1, <1>4
-----------------------------------------------------------------------------
(* Types.                                                                    *)

Books == [cash : Int, qty : [Symbols -> Int]]
Orders == [side : {"buy", "sell", "none"}, qty : Int, price : Int]
Ticks == [at : 0..N + 1, exposure : [Symbols -> Int], bought : Nat, order : Orders]
Rows == [symbol : Symbols, side : {"buy", "sell", "none"}, qty : Int, price : Int]
Snapshots(n) == [book : Books, prices : [Symbols -> Nat], counted : SUBSET (1..n)]

TypeOK ==
  /\ running \in BOOLEAN /\ crashes \in Nat
  /\ book \in Books
  /\ prices \in [Symbols -> Nat]
  /\ tick \in Ticks
  /\ trades \in Seq(Rows)
  /\ counted \in SUBSET (1..Len(trades))
  /\ snapshot # None => snapshot \in Snapshots(Len(trades))

LEMMA ConstantTypes ==
  /\ N \in Nat /\ N > 0 /\ Symbols = 1..N
  /\ StartingCash \in Nat /\ FeePct \in Nat /\ CanaryPct \in Nat
  /\ MaxNotional \in Nat /\ MaxTotal \in Nat
  /\ \A p \in Prices : p \in Nat /\ p > 0
BY CountsAssumption, MoneyAssumption DEF Symbols

LEMMA CostTypes ==
  ASSUME NEW qty \in Int, NEW p \in Int
  PROVE  Fee(qty, p) \in Int /\ Cost(qty, p) \in Int
<1>1. qty * p * FeePct \in Int
  BY ConstantTypes
<1>2. Fee(qty, p) \in Int
  BY <1>1 DEF Fee
<1> QED
  BY <1>2 DEF Cost

LEMMA RowTypes ==
  ASSUME NEW row \in Rows
  PROVE  CashOf(row) \in Int /\ \A s : QtyOf(row, s) \in Int
<1>1. row.qty \in Int /\ row.price \in Int
  BY DEF Rows
<1>2. Fee(row.qty, row.price) \in Int /\ Cost(row.qty, row.price) \in Int
  BY <1>1, CostTypes
<1>3. row.qty * row.price \in Int
  BY <1>1
<1> QED
  BY <1>1, <1>2, <1>3 DEF CashOf, QtyOf

LEMMA LiveType == ASSUME NEW qty \in Int PROVE Live(qty) \in Int
<1>1. qty * CanaryPct \in Int
  BY ConstantTypes
<1> QED
  BY <1>1 DEF Live

\* A quantity that is bought or sold.
LEMMA QuantityTypes ==
  ASSUME TypeOK, NEW s \in Symbols, NEW side, NEW p \in Prices, NEW qty \in Quantities(s, side, p)
  PROVE  /\ qty \in Int /\ qty * p \in Int
         /\ side # "sell" => qty * p >= 0
<1>1. CASE side = "sell"
  BY <1>1, ConstantTypes DEF Quantities, Held, TypeOK, Books
<1>2. CASE side # "sell"
  <2>1. PICK cap \in Caps : qty = cap \div p
    BY <1>2 DEF Quantities
  <2>2. cap \in Nat /\ p \in Nat /\ p > 0
    BY ConstantTypes DEF Caps
  <2>3. cap \div p \in Nat
    BY <2>2
  <2>4. qty * p \in Nat
    BY <2>1, <2>2, <2>3
  <2> QED
    BY <2>1, <2>3, <2>4
<1> QED
  BY <1>1, <1>2
-----------------------------------------------------------------------------
(* The book and the table of trades.                                         *)

LEMMA CountedSums ==
  ASSUME NEW table \in Seq(Rows), NEW rows
  PROVE  CashAfter(table, rows) \in Int /\ \A s : QtyAfter(table, rows, s) \in Int
<1>1. Len(table) \in Nat /\ \A i \in 1..Len(table) : table[i] \in Rows
  OBVIOUS
<1>2. CashAfter(table, rows) \in Int
  <2> DEFINE f == [i \in 1..Len(table) |-> IF i \in rows THEN CashOf(table[i]) ELSE 0]
  <2>1. \A i \in 1..Len(table) : f[i] \in Int
    BY <1>1, RowTypes
  <2>2. SumTo(f, Len(table)) \in Int
    <3> HIDE DEF f
    <3> QED
      BY <1>1, <2>1, SumType
  <2> QED
    BY <2>2, ConstantTypes DEF CashAfter
<1>3. ASSUME NEW s PROVE QtyAfter(table, rows, s) \in Int
  <2> DEFINE f == [i \in 1..Len(table) |-> IF i \in rows THEN QtyOf(table[i], s) ELSE 0]
  <2>1. \A i \in 1..Len(table) : f[i] \in Int
    BY <1>1, RowTypes
  <2>2. SumTo(f, Len(table)) \in Int
    <3> HIDE DEF f
    <3> QED
      BY <1>1, <2>1, SumType
  <2> QED
    BY <2>2 DEF QtyAfter
<1> QED
  BY <1>2, <1>3

\* A row that is appended adds to a book that counts it, and nothing to one that
\* does not.
LEMMA SumsOfAppend ==
  ASSUME NEW table \in Seq(Rows), NEW row \in Rows, NEW rows, NEW more, NEW s,
         \A i \in 1..Len(table) : i \in rows <=> i \in more
  PROVE  /\ CashAfter(Append(table, row), more)
              = CashAfter(table, rows) + (IF Len(table) + 1 \in more THEN CashOf(row) ELSE 0)
         /\ QtyAfter(Append(table, row), more, s)
              = QtyAfter(table, rows, s)
                + (IF Len(table) + 1 \in more THEN QtyOf(row, s) ELSE 0)
<1> DEFINE n == Len(table)
           longer == Append(table, row)
<1>1. /\ n \in Nat /\ Len(longer) = n + 1 /\ longer[n + 1] = row
      /\ \A i \in 1..n : longer[i] = table[i] /\ table[i] \in Rows
      /\ 1..n + 1 = 1..(n + 1)
  OBVIOUS
<1> HIDE DEF longer, n
<1>2. CashAfter(longer, more)
        = CashAfter(table, rows) + (IF n + 1 \in more THEN CashOf(row) ELSE 0)
  <2> DEFINE f == [i \in 1..n |-> IF i \in rows THEN CashOf(table[i]) ELSE 0]
             g == [i \in 1..n + 1 |-> IF i \in more THEN CashOf(longer[i]) ELSE 0]
  <2>1. \A i \in 1..n : f[i] = g[i]
    BY <1>1 DEF n
  <2>2. g[n + 1] = IF n + 1 \in more THEN CashOf(row) ELSE 0
    BY <1>1
  <2>3. \A i \in 1..n : f[i] \in Int
    BY <1>1, RowTypes
  <2>4. CashAfter(table, rows) = StartingCash + SumTo(f, n)
    BY DEF CashAfter, n
  <2>5. CashAfter(longer, more) = StartingCash + SumTo(g, n + 1)
    BY <1>1 DEF CashAfter
  <2>6. CashOf(row) \in Int
    BY RowTypes
  <2> HIDE DEF f, g
  <2>7. SumTo(g, n + 1) = SumTo(f, n) + g[n + 1] /\ SumTo(f, n) \in Int
    BY <1>1, <2>1, <2>3, SumStep, SumType
  <2> QED
    BY <2>2, <2>4, <2>5, <2>6, <2>7, ConstantTypes
<1>3. QtyAfter(longer, more, s)
        = QtyAfter(table, rows, s) + (IF n + 1 \in more THEN QtyOf(row, s) ELSE 0)
  <2> DEFINE f == [i \in 1..n |-> IF i \in rows THEN QtyOf(table[i], s) ELSE 0]
             g == [i \in 1..n + 1 |-> IF i \in more THEN QtyOf(longer[i], s) ELSE 0]
  <2>1. \A i \in 1..n : f[i] = g[i]
    BY <1>1 DEF n
  <2>2. g[n + 1] = IF n + 1 \in more THEN QtyOf(row, s) ELSE 0
    BY <1>1
  <2>3. QtyAfter(table, rows, s) = SumTo(f, n)
    BY DEF QtyAfter, n
  <2>4. QtyAfter(longer, more, s) = SumTo(g, n + 1)
    BY <1>1 DEF QtyAfter
  <2> HIDE DEF f, g
  <2>5. SumTo(g, n + 1) = SumTo(f, n) + g[n + 1]
    BY <1>1, <2>1, SumStep
  <2> QED
    BY <2>2, <2>3, <2>4, <2>5
<1> QED
  BY <1>2, <1>3 DEF longer, n
-----------------------------------------------------------------------------
(* Every variable keeps its type.                                            *)

LEMMA IdleType == Idle \in Ticks /\ NoOrder \in Orders
BY ConstantTypes DEF Idle, Ticks, Orders, NoOrder

LEMMA NewBookType == NewBook \in Books
BY ConstantTypes DEF NewBook, Books

LEMMA TypeInit == Init => TypeOK
<1> SUFFICES ASSUME Init PROVE TypeOK
  OBVIOUS
<1>1. trades = <<>> /\ trades \in Seq(Rows) /\ counted \in SUBSET (1..Len(trades))
  BY DEF Init
<1>2. snapshot = None /\ book \in Books /\ tick \in Ticks
  BY IdleType, NewBookType DEF Init
<1> QED
  BY <1>1, <1>2 DEF Init, TypeOK

LEMMA RestoredType ==
  ASSUME TypeOK
  PROVE  /\ Restored.book \in Books /\ Restored.prices \in [Symbols -> Nat]
         /\ Restored.counted \in SUBSET (1..Len(trades))
BY NewBookType DEF Restored, TypeOK, Snapshots

\* A step within a tick that moves on to the next symbol.
LEMMA NextSymbolType ==
  ASSUME TypeOK, tick.at \in Symbols, NextSymbol
  PROVE  tick' \in Ticks
<1>1. NoOrder \in Orders /\ tick.at + 1 \in 0..N + 1
  BY IdleType, ConstantTypes
<1>2. tick' = [at |-> tick.at + 1, exposure |-> tick.exposure,
               bought |-> tick.bought, order |-> NoOrder]
  BY DEF TypeOK, Ticks, NextSymbol
<1> QED
  BY <1>1, <1>2 DEF TypeOK, Ticks

LEMMA SkipsType ==
  ASSUME TypeOK, NEW s \in Symbols, NEW key, Skips(s, key), prices' \in [Symbols -> Nat]
  PROVE  TypeOK'
<1>1. tick' \in Ticks
  BY NextSymbolType DEF Skips, Working
<1> QED
  BY <1>1 DEF TypeOK, Skips, disk

\* What a booked order makes of the book.
LEMMA BookedIs ==
  ASSUME TypeOK, NEW s \in Symbols, NEW side, NEW qty \in Int, NEW p \in Int
  PROVE  LET b == Booked(s, side, qty, p)
             row == Row(s, side, qty, p)
         IN /\ b \in Books
            /\ b.cash = book.cash + CashOf(row)
            /\ \A t \in Symbols : b.qty[t] = book.qty[t] + QtyOf(row, t)
<1> DEFINE row == Row(s, side, qty, p)
<1>1. qty * p \in Int /\ Fee(qty, p) \in Int /\ Cost(qty, p) \in Int
  BY CostTypes
<1>2. book.cash \in Int /\ book.qty \in [Symbols -> Int]
  BY DEF TypeOK, Books
<1>3. ASSUME NEW b, NEW cash \in Int, NEW change \in Int,
             b = [cash |-> book.cash + cash, qty |-> [book.qty EXCEPT ![s] = @ + change]],
             CashOf(row) = cash,
             \A t \in Symbols : QtyOf(row, t) = IF t = s THEN change ELSE 0
      PROVE  /\ b \in Books
             /\ b.cash = book.cash + CashOf(row)
             /\ \A t \in Symbols : b.qty[t] = book.qty[t] + QtyOf(row, t)
  <2> HIDE DEF row
  <2>1. [book.qty EXCEPT ![s] = @ + change] \in [Symbols -> Int]
    BY <1>2
  <2>2. b \in Books
    BY <1>2, <1>3, <2>1 DEF Books
  <2>3. ASSUME NEW t \in Symbols PROVE b.qty[t] = book.qty[t] + QtyOf(row, t)
    BY <1>2, <1>3
  <2> QED
    BY <1>3, <2>2, <2>3
<1> DEFINE b == Booked(s, side, qty, p)
           cost == Cost(qty, p)
           gain == qty * p - Fee(qty, p)
<1>4. cost \in Int /\ gain \in Int
  BY <1>1
<1>5. CASE side = "buy"
  <2>1. b = [cash |-> book.cash - cost, qty |-> [book.qty EXCEPT ![s] = @ + qty]]
    BY <1>5 DEF Booked, TypeOK, Books
  <2>2. CashOf(row) = 0 - cost
    BY <1>5 DEF Row, CashOf
  <2>3. \A t \in Symbols : QtyOf(row, t) = IF t = s THEN qty ELSE 0
    BY <1>5 DEF Row, QtyOf
  <2> HIDE DEF row, b, cost
  <2>4. 0 - cost \in Int /\ book.cash - cost = book.cash + (0 - cost)
    BY <1>2, <1>4
  <2>5. b = [cash |-> book.cash + (0 - cost), qty |-> [book.qty EXCEPT ![s] = @ + qty]]
    BY <2>1, <2>4
  <2>6. /\ b \in Books
        /\ b.cash = book.cash + CashOf(row)
        /\ \A t \in Symbols : b.qty[t] = book.qty[t] + QtyOf(row, t)
    BY <1>3, <2>2, <2>3, <2>4, <2>5
  <2> QED
    BY <2>6 DEF b, row
<1>6. CASE side # "buy"
  <2>1. b = [cash |-> book.cash + qty * p - Fee(qty, p),
             qty |-> [book.qty EXCEPT ![s] = @ - qty]]
    BY <1>6 DEF Booked, TypeOK, Books
  <2>2. CashOf(row) = gain
    BY <1>6 DEF Row, CashOf
  <2>3. \A t \in Symbols : QtyOf(row, t) = IF t = s THEN 0 - qty ELSE 0
    BY <1>6 DEF Row, QtyOf
  <2>4. book.cash + qty * p - Fee(qty, p) = book.cash + gain
    BY <1>1, <1>2
  <2>5. 0 - qty \in Int /\ book.qty[s] - qty = book.qty[s] + (0 - qty)
    BY <1>2
  <2> HIDE DEF row, b, gain
  <2>6. b = [cash |-> book.cash + gain, qty |-> [book.qty EXCEPT ![s] = @ + (0 - qty)]]
    BY <2>1, <2>4, <2>5
  <2>7. /\ b \in Books
        /\ b.cash = book.cash + CashOf(row)
        /\ \A t \in Symbols : b.qty[t] = book.qty[t] + QtyOf(row, t)
    BY <1>3, <1>4, <2>2, <2>3, <2>5, <2>6
  <2> QED
    BY <2>7 DEF b, row
<1> QED
  BY <1>5, <1>6

LEMMA DecideType ==
  ASSUME TypeOK, NEW s \in Symbols, NEW p \in Prices, NEW signal, Decide(s, p, signal)
  PROVE  TypeOK'
<1> DEFINE side == Side(s, p, signal)
<1>1. prices' \in [Symbols -> Nat] /\ UNCHANGED <<running, book, disk>>
  BY ConstantTypes DEF Decide, Observe, TypeOK
<1>2. tick.at = s
  BY DEF Decide, Working
<1>3. CASE NextSymbol
  BY <1>1, <1>2, <1>3, NextSymbolType DEF TypeOK, disk
<1>4. CASE ~NextSymbol
  <2>1. side \in {"buy", "sell", "none"}
    BY DEF Side
  <2> HIDE DEF side
  <2>2. PICK qty \in Quantities(s, side, p) :
          tick' = [tick EXCEPT !.order = [side |-> side, qty |-> Live(qty), price |-> p],
                               !.bought = IF side = "buy" THEN @ + qty * p ELSE @]
    BY <1>4 DEF Decide, side
  <2>3. /\ qty \in Int /\ qty * p \in Int /\ Live(qty) \in Int /\ p \in Int
        /\ side = "buy" => qty * p >= 0
    BY QuantityTypes, LiveType, ConstantTypes
  <2>4. tick' = [at |-> tick.at, exposure |-> tick.exposure,
                 bought |-> IF side = "buy" THEN tick.bought + qty * p ELSE tick.bought,
                 order |-> [side |-> side, qty |-> Live(qty), price |-> p]]
    BY <2>2 DEF TypeOK, Ticks
  <2>5. [side |-> side, qty |-> Live(qty), price |-> p] \in Orders
    BY <2>1, <2>3 DEF Orders
  <2>6. (IF side = "buy" THEN tick.bought + qty * p ELSE tick.bought) \in Nat
    <3> DEFINE spent == qty * p
    <3>1. tick.bought \in Nat /\ spent \in Int /\ (side = "buy" => spent >= 0)
      BY <2>3 DEF TypeOK, Ticks
    <3> HIDE DEF spent
    <3>2. (IF side = "buy" THEN tick.bought + spent ELSE tick.bought) \in Nat
      BY <3>1
    <3> QED
      BY <3>2 DEF spent
  <2>7. tick' \in Ticks
    BY <2>4, <2>5, <2>6 DEF TypeOK, Ticks
  <2> QED
    BY <1>1, <2>7 DEF TypeOK, disk
<1> QED
  BY <1>3, <1>4

LEMMA OrderTypes ==
  ASSUME TypeOK
  PROVE  tick.order \in Orders /\ tick.order.qty \in Int
BY DEF TypeOK, Ticks, Orders

LEMMA FillType ==
  ASSUME TypeOK, NEW s \in Symbols, NEW p \in Prices, Fill(s, p)
  PROVE  TypeOK'
<1> DEFINE o == tick.order
           row == Row(s, o.side, o.qty, p)
<1>1. o.side \in {"buy", "sell", "none"} /\ o.qty \in Int /\ p \in Int
  BY OrderTypes, ConstantTypes DEF Orders
<1>2. row \in Rows
  BY <1>1 DEF Row, Rows
<1>3. trades' = Append(trades, row) /\ counted' = counted \cup {Len(trades')}
  BY DEF Fill
<1>4. trades' \in Seq(Rows) /\ Len(trades') = Len(trades) + 1 /\ Len(trades) \in Nat
  <2> HIDE DEF row
  <2> QED
    BY <1>2, <1>3 DEF TypeOK
<1>5. counted' \in SUBSET (1..Len(trades'))
  <2> DEFINE n == Len(trades)
             m == Len(trades')
  <2>1. n \in Nat /\ m = n + 1 /\ counted \subseteq 1..n
    BY <1>4 DEF TypeOK
  <2>2. counted' = counted \cup {m}
    BY <1>3
  <2> HIDE DEF n, m
  <2> QED
    BY <2>1, <2>2 DEF m
<1>6. book' \in Books
  BY <1>1, BookedIs DEF Fill
<1>7. tick' \in Ticks
  BY NextSymbolType DEF Fill
<1>8. snapshot' = snapshot /\ (snapshot # None => snapshot \in Snapshots(Len(trades')))
  BY <1>4 DEF Fill, TypeOK, Snapshots
<1> QED
  BY <1>4, <1>5, <1>6, <1>7, <1>8 DEF Fill, TypeOK

LEMMA TypeStep == TypeOK /\ [Next]_vars => TypeOK'
<1> SUFFICES ASSUME TypeOK, [Next]_vars PROVE TypeOK'
  OBVIOUS
<1>1. CASE Start
  BY <1>1, RestoredType DEF Start, TypeOK
<1>2. CASE Stop
  BY <1>2, IdleType DEF Stop, TypeOK, disk
<1>3. CASE Crash
  <2>1. /\ running' = FALSE /\ book' = NewBook /\ counted' = {} /\ tick' = Idle
        /\ prices' = [s \in Symbols |-> 0] /\ crashes' = crashes + 1
        /\ UNCHANGED <<snapshot, trades>>
    BY <1>3 DEF Crash
  <2>2. prices' \in [Symbols -> Nat] /\ crashes' \in Nat
    BY <2>1 DEF TypeOK
  <2> QED
    BY <2>1, <2>2, IdleType, NewBookType DEF TypeOK
<1>4. CASE Tick
  <2>1. \A s \in Symbols : prices[s] * book.qty[s] \in Int
    BY DEF TypeOK, Books
  <2>2. Exposures \in [Symbols -> Int]
    BY <2>1 DEF Exposures
  <2>3. tick' = [at |-> 1, exposure |-> Exposures, bought |-> 0, order |-> NoOrder]
    BY <1>4 DEF Tick, Idle
  <2>4. NoOrder \in Orders /\ 1 \in 0..N + 1
    BY ConstantTypes, IdleType
  <2>5. tick' \in Ticks
    BY <2>2, <2>3, <2>4 DEF Ticks
  <2> QED
    BY <1>4, <2>5 DEF Tick, TypeOK, disk
<1>5. CASE EndTick
  <2>1. /\ UNCHANGED <<book, prices, trades, counted, crashes>>
        /\ running' \in BOOLEAN /\ tick' = Idle
        /\ snapshot' = snapshot \/ snapshot' = Saved
    BY <1>5 DEF EndTick, WriteSnapshot
  <2>2. Saved \in Snapshots(Len(trades))
    BY DEF TypeOK, Saved, Snapshots
  <2> QED
    BY <2>1, <2>2, IdleType DEF TypeOK
<1>6. ASSUME NEW s \in Symbols, FetchFails(s) \/ DataRefused(s) PROVE TypeOK'
  BY <1>6, SkipsType DEF FetchFails, DataRefused, TypeOK
<1>7. ASSUME NEW s \in Symbols, NEW p \in Prices, StrategyFails(s, p) PROVE TypeOK'
  <2>1. prices' \in [Symbols -> Nat]
    BY <1>7, ConstantTypes DEF StrategyFails, TypeOK
  <2> QED
    BY <1>7, <2>1, SkipsType DEF StrategyFails
<1>8. ASSUME NEW s \in Symbols, NEW p \in Prices, Fill(s, p) PROVE TypeOK'
  BY <1>8, FillType
<1>9. ASSUME NEW s \in Symbols, NEW p \in Prices, FillRaises(s, p) PROVE TypeOK'
  <2>1. book' \in Books
    BY <1>9, OrderTypes, BookedIs, ConstantTypes DEF FillRaises, TypeOK
  <2> QED
    BY <1>9, <2>1, IdleType DEF FillRaises, TypeOK, disk
<1>10. ASSUME NEW s \in Symbols, NEW p \in Prices, NEW signal \in Signals, Decide(s, p, signal)
       PROVE  TypeOK'
  BY <1>10, DecideType
<1>11. ASSUME NEW s \in Symbols, OrderFails(s) PROVE TypeOK'
  BY <1>11, NextSymbolType DEF OrderFails, TypeOK, disk
<1>12. CASE UNCHANGED vars
  BY <1>12 DEF vars, memory, disk, TypeOK
<1> QED
  BY <1>1, <1>2, <1>3, <1>4, <1>5, <1>6, <1>7, <1>8, <1>9, <1>10, <1>11, <1>12 DEF Next

\* The book, the prices, the tick, the table of trades and the snapshot keep
\* their types: a snapshot counts rows that are in the table.
THEOREM TypeCorrect == Spec => []TypeOK
BY TypeInit, TypeStep, PTL DEF Spec
-----------------------------------------------------------------------------
(* The book is the replay of the counted trades.                             *)

\* A snapshot's book is the replay of the rows it counts, also when the agent
\* does not run, so that a start from it finds what the rows explain; and the
\* rows it counts are counted as long as the agent runs, so that the next
\* snapshot has them too.
ReplayInv ==
  /\ running => Explains(trades, counted, book)
  /\ snapshot # None => Explains(trades, snapshot.counted, snapshot.book)
  /\ running /\ snapshot # None => snapshot.counted \subseteq counted

\* A new book is what no trade at all explains.
LEMMA NothingExplains ==
  ASSUME NEW table, Len(table) \in Nat
  PROVE  Explains(table, {}, NewBook)
<1>1. CashAfter(table, {}) = StartingCash
  <2> DEFINE f == [i \in 1..Len(table) |-> IF i \in {} THEN CashOf(table[i]) ELSE 0]
  <2>1. \A i \in 1..Len(table) : f[i] = 0
    OBVIOUS
  <2>2. SumTo(f, Len(table)) = 0
    <3> HIDE DEF f
    <3> QED
      BY <2>1, SumOfNothing
  <2> QED
    BY <2>2, ConstantTypes DEF CashAfter
<1>2. ASSUME NEW s PROVE QtyAfter(table, {}, s) = 0
  <2> DEFINE f == [i \in 1..Len(table) |-> IF i \in {} THEN QtyOf(table[i], s) ELSE 0]
  <2>1. \A i \in 1..Len(table) : f[i] = 0
    OBVIOUS
  <2>2. SumTo(f, Len(table)) = 0
    <3> HIDE DEF f
    <3> QED
      BY <2>1, SumOfNothing
  <2> QED
    BY <2>2 DEF QtyAfter
<1> QED
  BY <1>1, <1>2 DEF Explains, NewBook

\* A row that is not counted changes nothing for the book it is not counted in.
LEMMA UncountedRow ==
  ASSUME NEW table \in Seq(Rows), NEW row \in Rows, NEW rows \in SUBSET (1..Len(table)),
         NEW b, Explains(table, rows, b)
  PROVE  Explains(Append(table, row), rows, b)
<1> DEFINE n == Len(table) + 1
<1>1. n \notin rows
  OBVIOUS
<1>2. \A i \in 1..Len(table) : i \in rows <=> i \in rows
  OBVIOUS
<1>3. CashAfter(table, rows) \in Int /\ \A s : QtyAfter(table, rows, s) \in Int
  BY CountedSums
<1>4. CashAfter(Append(table, row), rows) = CashAfter(table, rows)
  BY <1>1, <1>2, <1>3, SumsOfAppend
<1>5. ASSUME NEW s PROVE QtyAfter(Append(table, row), rows, s) = QtyAfter(table, rows, s)
  BY <1>1, <1>2, <1>3, SumsOfAppend
<1> QED
  BY <1>4, <1>5 DEF Explains

\* A row that is booked and counted in one step keeps the book explained.
LEMMA CountedRow ==
  ASSUME NEW table \in Seq(Rows), NEW row \in Rows, NEW rows \in SUBSET (1..Len(table)),
         NEW b, Explains(table, rows, b), NEW c,
         c.cash = b.cash + CashOf(row),
         \A s \in Symbols : c.qty[s] = b.qty[s] + QtyOf(row, s)
  PROVE  Explains(Append(table, row), rows \cup {Len(table) + 1}, c)
<1> DEFINE n == Len(table) + 1
           more == rows \cup {n}
<1>1. n \in more
  OBVIOUS
<1>2. \A i \in 1..Len(table) : i \in rows <=> i \in more
  OBVIOUS
<1>3. CashAfter(Append(table, row), more) = CashAfter(table, rows) + CashOf(row)
  <2> HIDE DEF more
  <2> QED
    BY <1>1, <1>2, SumsOfAppend
<1>4. ASSUME NEW s
      PROVE  QtyAfter(Append(table, row), more, s) = QtyAfter(table, rows, s) + QtyOf(row, s)
  <2> HIDE DEF more
  <2> QED
    BY <1>1, <1>2, SumsOfAppend
<1>5. b.cash = CashAfter(table, rows) /\ \A s \in Symbols : b.qty[s] = QtyAfter(table, rows, s)
  BY DEF Explains
<1> HIDE DEF n, more
<1>6. Explains(Append(table, row), more, c)
  BY <1>1, <1>2, <1>3, <1>4, <1>5 DEF Explains
<1> QED
  BY <1>6 DEF more, n

LEMMA ReplayInit == Init => ReplayInv
BY DEF Init, ReplayInv

LEMMA ReplayFill ==
  ASSUME TypeOK, ReplayInv, NEW s \in Symbols, NEW p \in Prices, Fill(s, p)
  PROVE  ReplayInv'
<1> DEFINE o == tick.order
           row == Row(s, o.side, o.qty, p)
           n == Len(trades) + 1
<1>1. o.side \in {"buy", "sell", "none"} /\ o.qty \in Int /\ p \in Int
  BY OrderTypes, ConstantTypes DEF Orders
<1>2. row \in Rows
  BY <1>1 DEF Row, Rows
<1>3. /\ running /\ snapshot' = snapshot
      /\ trades' = Append(trades, row) /\ book' = Booked(s, o.side, o.qty, p)
      /\ counted' = counted \cup {Len(trades')}
  BY DEF Fill
<1>4. /\ book'.cash = book.cash + CashOf(row)
      /\ \A t \in Symbols : book'.qty[t] = book.qty[t] + QtyOf(row, t)
  BY <1>1, <1>3, BookedIs
<1> HIDE DEF row
<1>5. trades \in Seq(Rows) /\ counted \in SUBSET (1..Len(trades)) /\ Len(trades') = n
  BY <1>2, <1>3 DEF TypeOK
<1>6. Explains(trades', counted', book')
  <2>1. Explains(Append(trades, row), counted \cup {n}, book')
    BY <1>2, <1>3, <1>4, <1>5, CountedRow DEF ReplayInv
  <2> QED
    BY <1>3, <1>5, <2>1
<1>7. ASSUME snapshot # None PROVE Explains(trades', snapshot.counted, snapshot.book)
  <2>1. snapshot.counted \in SUBSET (1..Len(trades))
    BY <1>7 DEF TypeOK, Snapshots
  <2>2. Explains(trades, snapshot.counted, snapshot.book)
    BY <1>7 DEF ReplayInv
  <2> QED
    BY <1>2, <1>3, <1>5, <2>1, <2>2, UncountedRow
<1>8. snapshot # None => snapshot.counted \subseteq counted'
  BY <1>3 DEF ReplayInv
<1> QED
  BY <1>3, <1>6, <1>7, <1>8 DEF ReplayInv

\* A step that leaves the book, the table and the snapshot alone.
LEMMA ReplayQuiet ==
  ASSUME ReplayInv, UNCHANGED <<book, snapshot, trades, counted>>, running' => running
  PROVE  ReplayInv'
BY DEF ReplayInv

LEMMA ReplayStep == TypeOK /\ ReplayInv /\ [Next]_vars => ReplayInv'
<1> SUFFICES ASSUME TypeOK, ReplayInv, [Next]_vars PROVE ReplayInv'
  OBVIOUS
<1>1. CASE Start
  <2>1. /\ book' = Restored.book /\ counted' = Restored.counted
        /\ UNCHANGED <<snapshot, trades>>
    BY <1>1 DEF Start
  <2>2. CASE snapshot = None
    <3>1. book' = NewBook /\ counted' = {}
      BY <2>1, <2>2 DEF Restored
    <3>2. Explains(trades, {}, NewBook)
      BY NothingExplains DEF TypeOK
    <3> QED
      BY <2>1, <2>2, <3>1, <3>2 DEF ReplayInv
  <2>3. CASE snapshot # None
    <3>1. book' = snapshot.book /\ counted' = snapshot.counted
      BY <2>1, <2>3 DEF Restored
    <3> QED
      BY <2>1, <2>3, <3>1 DEF ReplayInv
  <2> QED
    BY <2>2, <2>3
<1>2. CASE Stop
  BY <1>2, ReplayQuiet DEF Stop, disk
<1>3. CASE Crash
  BY <1>3 DEF Crash, ReplayInv
<1>4. CASE Tick
  BY <1>4, ReplayQuiet DEF Tick, disk
<1>5. CASE EndTick
  <2>1. running /\ UNCHANGED <<book, trades, counted>>
    BY <1>5 DEF EndTick
  <2>2. CASE snapshot' = snapshot
    BY <2>1, <2>2, ReplayQuiet
  <2>3. CASE snapshot' = Saved
    <3>1. snapshot'.counted = counted /\ snapshot'.book = book
      BY <2>3 DEF Saved
    <3> QED
      BY <2>1, <3>1 DEF ReplayInv
  <2> QED
    BY <1>5, <2>2, <2>3 DEF EndTick, WriteSnapshot
<1>6. ASSUME NEW s \in Symbols,
             \/ FetchFails(s) \/ DataRefused(s) \/ OrderFails(s)
             \/ \E p \in Prices : StrategyFails(s, p)
             \/ \E p \in Prices, signal \in Signals : Decide(s, p, signal)
      PROVE  ReplayInv'
  <2>1. UNCHANGED <<running, book, snapshot, trades, counted>>
    BY <1>6 DEF FetchFails, DataRefused, OrderFails, StrategyFails, Decide, Skips, disk
  <2> QED
    BY <2>1, ReplayQuiet
<1>7. ASSUME NEW s \in Symbols, NEW p \in Prices, Fill(s, p) PROVE ReplayInv'
  BY <1>7, ReplayFill
<1>8. ASSUME NEW s \in Symbols, NEW p \in Prices, FillRaises(s, p) PROVE ReplayInv'
  BY <1>8 DEF FillRaises, ReplayInv, disk
<1>9. CASE UNCHANGED vars
  BY <1>9, ReplayQuiet DEF vars, memory, disk
<1> QED
  BY <1>1, <1>2, <1>3, <1>4, <1>5, <1>6, <1>7, <1>8, <1>9 DEF Next

\* Whenever the agent runs, its cash and every position are what the rows of the
\* table of trades it counts make of the starting cash, whatever was cancelled,
\* raised or lost on the way.
THEOREM BookReplays == Spec => []BookIsReplayOfTrades
<1>1. ReplayInv => BookIsReplayOfTrades
  BY DEF ReplayInv, BookIsReplayOfTrades
<1> QED
  BY <1>1, TypeCorrect, ReplayInit, ReplayStep, PTL DEF Spec

\* A trade that a snapshot includes is in every later snapshot.
THEOREM SavedStays == Spec => SavedTradesStay
<1>1. ASSUME ReplayInv, [Next]_vars, snapshot # None
      PROVE  snapshot.counted \subseteq snapshot'.counted
  <2>1. \/ snapshot' = snapshot
        \/ running /\ snapshot' = Saved
    BY <1>1 DEF Next, Start, Stop, Crash, Tick, EndTick, WriteSnapshot, FetchFails, DataRefused,
                OrderFails, StrategyFails, Decide, Skips, Fill, FillRaises, vars, memory, disk
  <2>2. Saved.counted = counted
    BY DEF Saved
  <2> QED
    BY <1>1, <2>1, <2>2 DEF ReplayInv
<1>2. ReplayInv /\ [Next]_vars
        => [snapshot # None => snapshot.counted \subseteq snapshot'.counted]_vars
  BY <1>1
<1> QED
  BY <1>2, TypeCorrect, ReplayInit, ReplayStep, PTL DEF Spec, SavedTradesStay
-----------------------------------------------------------------------------
(* The breaker.                                                              *)

\* Once a tick has ended with the breaker tripped no tick begins, so nothing
\* closes it but the end of the process.
THEOREM TrippedStays == Spec => TrippedStaysTripped
<1> DEFINE Stays == breaker.tripped /\ tick.at = 0 /\ crashes' = crashes
                      => breaker'.tripped /\ tick'.at = 0
<1>1. ASSUME TypeOK, [Next]_vars, breaker.tripped, tick.at = 0, crashes' = crashes
      PROVE  breaker'.tripped /\ tick'.at = 0
  <2>1. ~Crash
    BY <1>1 DEF Crash, TypeOK
  <2>2. ~Tick /\ ~EndTick
    BY <1>1, ConstantTypes DEF Tick, MayTick, EndTick
  <2>3. \A s \in Symbols : tick.at # s
    BY <1>1, ConstantTypes
  <2>4. Start \/ Stop \/ UNCHANGED vars
    BY <1>1, <2>1, <2>2, <2>3 DEF Next, FetchFails, DataRefused, StrategyFails, Skips, Working,
                                  Fill, FillRaises, Decide, OrderFails
  <2> QED
    BY <1>1, <2>4 DEF Start, Stop, Idle, vars, memory
<1>2. TypeOK /\ [Next]_vars => [Stays]_vars
  BY <1>1
<1> QED
  BY <1>2, TypeCorrect, PTL DEF Spec, TrippedStaysTripped
-----------------------------------------------------------------------------
(* What the buys of one tick add to the exposures it read.                   *)

\* The symbols whose order this tick has placed or passed over, that of the
\* symbol in work included.
Placed == IF tick.order = NoOrder THEN tick.at - 1 ELSE tick.at

\* Each symbol adds one trade at most, and the first of them was checked against
\* the total.
ExposureInv ==
  tick.bought > 0 =>
    /\ Placed \in Symbols
    /\ Total(tick.exposure) + tick.bought <= MaxTotal + (Placed - 1) * MaxNotional

LEMMA ProductGrows ==
  ASSUME NEW m \in Nat, NEW i \in Nat, NEW j \in Nat, i <= j
  PROVE  i * m \in Nat /\ i * m <= j * m
<1>1. j - i \in Nat
  OBVIOUS
<1>2. (j - i) * m \in Nat /\ i * m \in Nat
  BY <1>1
<1>3. j * m = i * m + (j - i) * m
  OBVIOUS
<1> QED
  BY <1>2, <1>3

LEMMA TotalType ==
  ASSUME NEW f \in [Symbols -> Int]
  PROVE  Total(f) \in Int
<1>1. \A k \in 1..N : f[k] \in Int
  BY DEF Symbols
<1> QED
  BY <1>1, ConstantTypes, SumType DEF Total

\* What the tick holds, and that more symbols leave more room.
LEMMA TickTypes ==
  ASSUME TypeOK
  PROVE  /\ tick.at \in 0..N + 1 /\ tick.exposure \in [Symbols -> Int]
         /\ tick.bought \in Nat /\ Total(tick.exposure) \in Int
<1>1. /\ tick.at \in 0..N + 1 /\ tick.exposure \in [Symbols -> Int]
      /\ tick.bought \in Nat
  BY DEF TypeOK, Ticks
<1> QED
  BY <1>1, TotalType

\* A symbol that adds nothing leaves room that is not used.
LEMMA ExposureKept ==
  ASSUME TypeOK, ExposureInv, NEW later \in 0..N, Placed <= later, Placed' = later,
         tick'.exposure = tick.exposure, tick'.bought = tick.bought
  PROVE  ExposureInv'
<1> SUFFICES ASSUME tick.bought > 0
             PROVE  /\ later \in Symbols
                    /\ Total(tick.exposure) + tick.bought <= MaxTotal + (later - 1) * MaxNotional
  BY DEF ExposureInv
<1>1. Placed > 0 /\ Placed \in Int
  BY ConstantTypes DEF ExposureInv
<1>2. Placed - 1 \in Nat /\ later - 1 \in Nat /\ Placed - 1 <= later - 1
  BY <1>1
<1> DEFINE was == (Placed - 1) * MaxNotional
           is == (later - 1) * MaxNotional
<1>3. was <= is /\ was \in Nat /\ is \in Nat
  BY <1>2, ConstantTypes, ProductGrows
<1>4. Total(tick.exposure) + tick.bought <= MaxTotal + was
  BY DEF ExposureInv
<1> HIDE DEF was, is
<1>5. Total(tick.exposure) + tick.bought <= MaxTotal + is
  BY <1>3, <1>4, TickTypes, ConstantTypes
<1> QED
  BY <1>1, <1>2, <1>5, ConstantTypes DEF is

LEMMA ExposureNext ==
  ASSUME TypeOK, ExposureInv, tick.at \in Symbols, NextSymbol
  PROVE  ExposureInv'
<1>1. /\ tick'.at = tick.at + 1 /\ tick'.order = NoOrder
      /\ tick'.exposure = tick.exposure /\ tick'.bought = tick.bought
  BY DEF NextSymbol, TypeOK, Ticks
<1>2. Placed' = tick.at /\ Placed <= tick.at /\ tick.at \in 0..N
  BY <1>1, ConstantTypes DEF Placed
<1> QED
  BY <1>1, <1>2, ExposureKept

\* An accepted order was checked against both caps.
LEMMA ExposureOrder ==
  ASSUME TypeOK, ExposureInv, NEW s \in Symbols, NEW side, NEW qty \in Int, NEW spent \in Int,
         NEW p, Working(s), PreTrade(s, spent), side # "none", spent >= 0,
         tick' = [tick EXCEPT !.order = [side |-> side, qty |-> qty, price |-> p],
                              !.bought = @ + spent]
  PROVE  ExposureInv'
<1>1. /\ tick'.at = s /\ tick'.order # NoOrder
      /\ tick'.exposure = tick.exposure /\ tick'.bought = tick.bought + spent
  BY DEF Working, NoOrder, TypeOK, Ticks
<1>2. Placed' = s /\ Placed = s - 1 /\ s \in Nat /\ s > 0
  BY <1>1, ConstantTypes DEF Placed, Working
<1>3. spent <= MaxNotional /\ Total(tick.exposure) + spent <= MaxTotal
  BY DEF PreTrade
<1> DEFINE is == (s - 1) * MaxNotional
<1>4. is \in Nat
  BY <1>2, ConstantTypes
<1>5. CASE tick.bought = 0
  <2> HIDE DEF is
  <2>1. Total(tick.exposure) + tick'.bought <= MaxTotal + is
    BY <1>1, <1>3, <1>4, <1>5, TickTypes, ConstantTypes
  <2> QED
    BY <1>1, <1>2, <2>1 DEF ExposureInv, is
<1>6. CASE tick.bought > 0
  <2> DEFINE was == (Placed - 1) * MaxNotional
  <2>1. Total(tick.exposure) + tick.bought <= MaxTotal + was
    BY <1>6 DEF ExposureInv
  <2>2. was \in Int /\ is = was + MaxNotional
    BY <1>2, ConstantTypes
  <2>3. /\ Total(tick.exposure) \in Int /\ tick.bought \in Nat
        /\ MaxTotal \in Nat /\ MaxNotional \in Nat
    BY TickTypes, ConstantTypes
  <2> HIDE DEF was, is
  <2>4. Total(tick.exposure) + (tick.bought + spent) <= MaxTotal + is
    BY <1>3, <1>4, <2>1, <2>2, <2>3
  <2> QED
    BY <1>1, <1>2, <2>4 DEF ExposureInv, is
<1> QED
  BY <1>5, <1>6, TickTypes

\* A sell adds nothing.
LEMMA ExposureSell ==
  ASSUME TypeOK, ExposureInv, NEW s \in Symbols, NEW order, Working(s), order # NoOrder,
         tick' = [tick EXCEPT !.order = order, !.bought = tick.bought]
  PROVE  ExposureInv'
<1>1. /\ tick'.at = s /\ tick'.order # NoOrder
      /\ tick'.exposure = tick.exposure /\ tick'.bought = tick.bought
  BY DEF Working, TypeOK, Ticks
<1>2. Placed' = s /\ Placed <= s /\ s \in 0..N
  BY <1>1, ConstantTypes DEF Placed, Working
<1> QED
  BY <1>1, <1>2, ExposureKept

LEMMA ExposureDecide ==
  ASSUME TypeOK, ExposureInv, NEW s \in Symbols, NEW p \in Prices, NEW signal, Decide(s, p, signal)
  PROVE  ExposureInv'
<1> DEFINE side == Side(s, p, signal)
<1>1. Working(s) /\ tick.at \in Symbols
  BY DEF Decide, Working
<1>2. CASE NextSymbol
  BY <1>1, <1>2, ExposureNext
<1>3. CASE ~NextSymbol
  <2>1. side \in {"buy", "sell", "none"}
    BY DEF Side
  <2> HIDE DEF side
  <2>2. PICK qty \in Quantities(s, side, p) :
          /\ side # "none"
          /\ ~(qty > 0 /\ ~PreTrade(s, qty * p))
          /\ Live(qty) # 0
          /\ tick' = [tick EXCEPT !.order = [side |-> side, qty |-> Live(qty), price |-> p],
                                  !.bought = IF side = "buy" THEN @ + qty * p ELSE @]
    BY <1>3 DEF Decide, side
  <2>3. /\ qty \in Int /\ qty * p \in Int /\ Live(qty) \in Int /\ p \in Nat /\ p > 0
        /\ side = "buy" => qty * p >= 0
    BY QuantityTypes, LiveType, ConstantTypes
  <2> DEFINE order == [side |-> side, qty |-> Live(qty), price |-> p]
  <2>4. order # NoOrder
    BY <2>2 DEF NoOrder
  <2>5. CASE side = "buy"
    <3>1. qty # 0
      <4>1. 0 * CanaryPct = 0 /\ 0 \div 100 = 0
        BY ConstantTypes
      <4>2. Live(0) = 0
        BY <4>1 DEF Live
      <4> QED
        BY <2>2, <4>2
    <3>2. qty > 0
      BY <2>3, <2>5, <3>1
    <3>3. PreTrade(s, qty * p)
      BY <2>2, <3>2
    <3>4. tick' = [tick EXCEPT !.order = [side |-> side, qty |-> Live(qty), price |-> p],
                               !.bought = @ + qty * p]
      BY <2>2, <2>5
    <3> DEFINE spent == qty * p
               live == Live(qty)
    <3>5. spent \in Int /\ spent >= 0 /\ PreTrade(s, spent) /\ live \in Int /\ side # "none"
      BY <2>2, <2>3, <2>5, <3>3
    <3>6. tick' = [tick EXCEPT !.order = [side |-> side, qty |-> live, price |-> p],
                               !.bought = @ + spent]
      BY <3>4
    <3> HIDE DEF spent, live
    <3> QED
      BY <1>1, <3>5, <3>6, ExposureOrder
  <2>6. CASE side # "buy"
    <3>1. tick' = [tick EXCEPT !.order = order, !.bought = tick.bought]
      BY <2>2, <2>6
    <3> HIDE DEF order
    <3> QED
      BY <1>1, <2>4, <3>1, ExposureSell
  <2> QED
    BY <2>5, <2>6
<1> QED
  BY <1>2, <1>3

LEMMA ExposureInit == Init => ExposureInv
BY DEF Init, Idle, ExposureInv

LEMMA ExposureStep == TypeOK /\ ExposureInv /\ [Next]_vars => ExposureInv'
<1> SUFFICES ASSUME TypeOK, ExposureInv, [Next]_vars PROVE ExposureInv'
  OBVIOUS
<1>1. CASE UNCHANGED tick
  BY <1>1 DEF ExposureInv, Placed
<1>2. CASE tick'.bought = 0
  BY <1>2 DEF ExposureInv
<1>3. CASE Tick
  BY <1>2, <1>3 DEF Tick, Idle
<1>4. CASE Start \/ Stop \/ Crash \/ EndTick
  BY <1>1, <1>2, <1>4 DEF Start, Stop, Crash, EndTick, Idle
<1>5. ASSUME NEW s \in Symbols,
             \/ FetchFails(s) \/ DataRefused(s) \/ OrderFails(s)
             \/ \E p \in Prices : StrategyFails(s, p) \/ Fill(s, p)
      PROVE  ExposureInv'
  <2>1. NextSymbol /\ tick.at \in Symbols
    BY <1>5 DEF FetchFails, DataRefused, OrderFails, StrategyFails, Fill, Skips, Working
  <2> QED
    BY <2>1, ExposureNext
<1>6. ASSUME NEW s \in Symbols, NEW p \in Prices, FillRaises(s, p) PROVE ExposureInv'
  BY <1>2, <1>6 DEF FillRaises, Idle
<1>7. ASSUME NEW s \in Symbols, NEW p \in Prices, NEW signal \in Signals, Decide(s, p, signal)
      PROVE  ExposureInv'
  BY <1>7, ExposureDecide
<1>8. CASE UNCHANGED vars
  BY <1>1, <1>8 DEF vars, memory
<1> QED
  BY <1>3, <1>4, <1>5, <1>6, <1>7, <1>8 DEF Next

\* The buys of one tick add to the exposures the tick read at most what the cap
\* on the total leaves, and one trade for each symbol but the first.
THEOREM ExposureBounded == Spec => []TickExposureBound
<1>1. TypeOK /\ ExposureInv => TickExposureBound
  <2> SUFFICES ASSUME TypeOK, ExposureInv, tick.bought > 0
               PROVE  Total(tick.exposure) + tick.bought <= MaxTotal + (N - 1) * MaxNotional
    BY DEF TickExposureBound
  <2> DEFINE was == (Placed - 1) * MaxNotional
             most == (N - 1) * MaxNotional
  <2>1. Placed > 0 /\ Placed <= N /\ Placed \in Nat
    BY ConstantTypes DEF ExposureInv
  <2>2. Placed - 1 \in Nat /\ N - 1 \in Nat /\ Placed - 1 <= N - 1
    BY <2>1, ConstantTypes
  <2>3. was <= most /\ was \in Nat /\ most \in Nat
    BY <2>2, ConstantTypes, ProductGrows
  <2>4. Total(tick.exposure) + tick.bought <= MaxTotal + was
    BY DEF ExposureInv
  <2> HIDE DEF was, most
  <2>5. Total(tick.exposure) + tick.bought <= MaxTotal + most
    BY <2>3, <2>4, TickTypes, ConstantTypes
  <2> QED
    BY <2>5 DEF most
<1> QED
  BY <1>1, TypeCorrect, ExposureInit, ExposureStep, PTL DEF Spec
=============================================================================
