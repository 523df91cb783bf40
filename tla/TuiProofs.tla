------------------------------- MODULE TuiProofs -------------------------------
(* Proofs about the table of the TUI and the requests that fill it, for any *)
(* proxies, keys and width of an index.                                     *)
EXTENDS TlsListenerProofs, WellFoundedInduction

-----------------------------------------------------------------------------
(* A set that has 0, and each successor up to n of what it has, has all of *)
(* 0 .. n.                                                                 *)
LEMMA InductSet ==
  ASSUME NEW T, NEW n \in Nat, 0 \in T,
         \A k \in 0 .. n : k \in T /\ k < n => k + 1 \in T
  PROVE  \A k \in 0 .. n : k \in T
<1> DEFINE S == (0 .. n) \ T
           R == OpToRel(<, Nat)
<1> SUFFICES ASSUME S # {} PROVE FALSE
  OBVIOUS
<1>1. IsWellFoundedOn(R, Nat)
  BY NatLessThanWellFounded
<1>2. \A x, y \in Nat : y < x => << y, x >> \in R
  BY DEF OpToRel
<1> HIDE DEF R
<1>8. S \subseteq Nat
  OBVIOUS
<1>3. PICK x \in S : \A y \in S : ~ (<< y, x >> \in R)
  BY <1>1, <1>8, WFMin
<1>4. x # 0 /\ x \in 1 .. n
  OBVIOUS
<1>5. x - 1 \in 0 .. n /\ x - 1 < n /\ (x - 1) + 1 = x
  BY <1>4
<1>6. x - 1 \notin T
  BY <1>5
<1>7. << x - 1, x >> \in R
  BY <1>2, <1>4, <1>5
<1> QED BY <1>3, <1>5, <1>6, <1>7

(* The recursive function of Without, for the first n rows. *)
Keeps(f, n, p) ==
  f = [k \in 0 .. n |-> IF k = 0 THEN << >>
                        ELSE IF rows[k] = p THEN f[k - 1]
                        ELSE Append(f[k - 1], rows[k])]

(* There is one for a table of any length. *)
LEMMA KeepExists ==
  ASSUME NEW p, NEW N \in Nat, rows \in Seq(Proxy), N = Len(rows)
  PROVE  \E f : Keeps(f, N, p)
<1> DEFINE F(f, n) == Keeps(f, n, p)
           T == {n \in 0 .. N : \E f : F(f, n)}
<1>1. 0 \in T
  <2> DEFINE f == [k \in 0 .. 0 |-> << >>]
  <2>1. F(f, 0)
    BY DEF Keeps
  <2>2. 0 \in 0 .. N
    OBVIOUS
  <2> HIDE DEF F, f
  <2> QED BY <2>1, <2>2
<1>2. ASSUME NEW n \in 0 .. N, n \in T, n < N PROVE n + 1 \in T
  <2>1. PICK f : F(f, n)
    BY <1>2
  <2> USE DEF Keeps
  <2> DEFINE g == [k \in 0 .. n + 1 |->
                     IF k <= n THEN f[k]
                     ELSE IF rows[n + 1] = p THEN f[n] ELSE Append(f[n], rows[n + 1])]
  <2>2. ASSUME NEW k \in 0 .. n + 1
        PROVE  g[k] = IF k = 0 THEN << >>
                      ELSE IF rows[k] = p THEN g[k - 1] ELSE Append(g[k - 1], rows[k])
    <3>1. CASE k = 0
      BY <2>1, <3>1
    <3>2. CASE k \in 1 .. n
      <4>1. k - 1 \in 0 .. n + 1 /\ k - 1 <= n /\ k <= n /\ k # 0 /\ k \in 0 .. n
        BY <3>2
      <4>2. g[k] = f[k] /\ g[k - 1] = f[k - 1]
        BY <4>1
      <4> HIDE DEF g
      <4> QED BY <2>1, <4>1, <4>2
    <3>3. CASE k = n + 1
      <4>1. k - 1 = n /\ ~ (k <= n) /\ k # 0 /\ n \in 0 .. n + 1
        BY <3>3
      <4>2. g[k - 1] = f[n]
        BY <4>1
      <4> QED BY <3>3, <4>1, <4>2
    <3> QED BY <3>1, <3>2, <3>3
  <2>3. F(g, n + 1)
    <3> DEFINE h == [k \in 0 .. n + 1 |-> IF k = 0 THEN << >>
                      ELSE IF rows[k] = p THEN g[k - 1] ELSE Append(g[k - 1], rows[k])]
    <3>1. \A k \in 0 .. n + 1 : g[k] = h[k]
      BY <2>2
    <3> QED BY <3>1
  <2>4. n + 1 \in 0 .. N
    BY <1>2
  <2> HIDE DEF F, g, Keeps
  <2> QED BY <2>3, <2>4
<1>3. N \in T
  <2> HIDE DEF T
  <2> QED BY <1>1, <1>2, InductSet
<1> QED BY <1>3

(* What is left of the first rows without p, one row at a time. *)
LEMMA WithoutSteps ==
  ASSUME NEW p, NEW N \in Nat, rows \in Seq(Proxy), N = Len(rows)
  PROVE  \E f : /\ Without(p) = f[N] /\ f[0] = << >>
                /\ \A k \in 1 .. N : f[k] = IF rows[k] = p THEN f[k - 1]
                                            ELSE Append(f[k - 1], rows[k])
<1> DEFINE keep == CHOOSE g : Keeps(g, N, p)
<1>2. Without(p) = keep[N]
  BY DEF Without, Keeps
<1>3. Keeps(keep, N, p)
  BY KeepExists
<1>4. \A k \in 0 .. N : keep[k] = IF k = 0 THEN << >>
                                  ELSE IF rows[k] = p THEN keep[k - 1]
                                  ELSE Append(keep[k - 1], rows[k])
  <2> HIDE DEF keep
  <2> QED BY <1>3 DEF Keeps
<1> HIDE DEF keep
<1>5. keep[0] = << >>
  BY <1>4
<1>6. \A k \in 1 .. N : keep[k] = IF rows[k] = p THEN keep[k - 1]
                                  ELSE Append(keep[k - 1], rows[k])
  BY <1>4
<1> QED BY <1>2, <1>5, <1>6

DistinctRows == \A i, j \in DOMAIN rows : rows[i] = rows[j] => i = j

(* s holds the first k rows without p, in their order as far as it matters. *)
OnlyRows(s, k, p) == \A i \in 1 .. Len(s) : \E j \in 1 .. k : s[i] = rows[j] /\ rows[j] # p
AllRows(s, k, p) ==
  \A j \in 1 .. k : rows[j] # p => \E i \in 1 .. Len(s) : s[i] = rows[j]
OnceEach(s) == DistinctRows => \A i, j \in 1 .. Len(s) : s[i] = s[j] => i = j
TopRows(s, k, p) ==
  \A n \in 0 .. k : (\A j \in 1 .. n : rows[j] # p) =>
    n <= Len(s) /\ \A j \in 1 .. n : s[j] = rows[j]

FirstRows(s, k, p) ==
  /\ s \in Seq(Proxy) /\ Len(s) <= k
  /\ OnlyRows(s, k, p) /\ AllRows(s, k, p) /\ OnceEach(s) /\ TopRows(s, k, p)

LEMMA RowDropped ==
  ASSUME NEW p, NEW k \in Nat, rows \in Seq(Proxy), k < Len(rows), NEW s,
         FirstRows(s, k, p), rows[k + 1] = p
  PROVE  FirstRows(s, k + 1, p)
<1>1. \A j \in 1 .. k + 1 : rows[j] # p => j \in 1 .. k
  OBVIOUS
<1>2. \A j \in 1 .. k : j \in 1 .. k + 1
  OBVIOUS
<1>3. OnlyRows(s, k + 1, p)
  BY <1>2 DEF FirstRows, OnlyRows
<1>4. AllRows(s, k + 1, p)
  BY <1>1 DEF FirstRows, AllRows
<1>5. TopRows(s, k + 1, p)
  <2> SUFFICES ASSUME NEW n \in 0 .. k + 1, \A j \in 1 .. n : rows[j] # p
               PROVE  n <= Len(s) /\ \A j \in 1 .. n : s[j] = rows[j]
    BY DEF TopRows
  <2>1. n # k + 1
    OBVIOUS
  <2>2. n \in 0 .. k
    BY <2>1
  <2> QED BY <2>2 DEF FirstRows, TopRows
<1>6. Len(s) <= k + 1
  BY DEF FirstRows
<1> QED BY <1>3, <1>4, <1>5, <1>6 DEF FirstRows

LEMMA RowKept ==
  ASSUME NEW p, NEW k \in Nat, rows \in Seq(Proxy), k < Len(rows), NEW s,
         FirstRows(s, k, p), rows[k + 1] # p
  PROVE  FirstRows(Append(s, rows[k + 1]), k + 1, p)
<1>1. PICK t : t = Append(s, rows[k + 1])
  OBVIOUS
<1>2. /\ k + 1 \in DOMAIN rows /\ rows[k + 1] \in Proxy /\ k + 1 \in 1 .. k + 1
      /\ \A j \in 1 .. k : j \in DOMAIN rows /\ j \in 1 .. k + 1 /\ j # k + 1
      /\ \A j \in 1 .. k + 1 : j \in 1 .. k \/ j = k + 1
  OBVIOUS
<1>3. PICK l \in Nat : l = Len(s) /\ l <= k
  BY DEF FirstRows
<1>4. /\ t \in Seq(Proxy) /\ Len(t) = l + 1 /\ t[l + 1] = rows[k + 1]
      /\ \A i \in 1 .. l : t[i] = s[i] /\ i \in 1 .. l + 1
      /\ \A i \in 1 .. l + 1 : i \in 1 .. l \/ i = l + 1
      /\ l + 1 \in 1 .. l + 1
  BY <1>1, <1>2, <1>3 DEF FirstRows
<1>5. OnlyRows(s, k, p) /\ AllRows(s, k, p) /\ OnceEach(s) /\ TopRows(s, k, p)
  BY DEF FirstRows
<1>6. OnlyRows(t, k + 1, p)
  <2>1. ASSUME NEW i \in 1 .. l + 1 PROVE \E j \in 1 .. k + 1 : t[i] = rows[j] /\ rows[j] # p
    <3>1. CASE i = l + 1
      BY <1>2, <1>4, <3>1
    <3>2. CASE i \in 1 .. l
      <4>1. PICK j \in 1 .. k : s[i] = rows[j] /\ rows[j] # p
        BY <1>3, <1>5, <3>2 DEF OnlyRows
      <4> QED BY <1>2, <1>4, <3>2, <4>1
    <3> QED BY <1>4, <3>1, <3>2
  <2> QED BY <1>4, <2>1 DEF OnlyRows
<1>7. AllRows(t, k + 1, p)
  BY <1>2, <1>3, <1>4, <1>5, Zenon DEF AllRows
<1>8. OnceEach(t)
  <2> SUFFICES ASSUME DistinctRows, NEW i \in 1 .. l + 1, NEW j \in 1 .. l + 1, t[i] = t[j]
               PROVE  i = j
    BY <1>4 DEF OnceEach
  <2>1. \A h \in 1 .. l : s[h] # rows[k + 1]
    BY <1>2, <1>3, <1>5, Zenon DEF DistinctRows, OnlyRows
  <2> QED BY <1>3, <1>4, <1>5, <2>1, Zenon DEF OnceEach
<1>9. TopRows(t, k + 1, p)
  <2> SUFFICES ASSUME NEW n \in 0 .. k + 1, \A j \in 1 .. n : rows[j] # p
               PROVE  n <= l + 1 /\ \A j \in 1 .. n : t[j] = rows[j]
    BY <1>4 DEF TopRows
  <2>1. CASE n \in 0 .. k
    <3>1. n <= l /\ \A j \in 1 .. n : s[j] = rows[j]
      BY <1>3, <1>5, <2>1 DEF TopRows
    <3> QED BY <1>3, <1>4, <3>1
  <2>2. CASE n = k + 1
    <3>1. (\A j \in 1 .. k : rows[j] # p) /\ k \in 0 .. k
      BY <2>2
    <3>2. k <= l /\ \A j \in 1 .. k : s[j] = rows[j]
      BY <1>3, <1>5, <3>1 DEF TopRows
    <3>3. l = k
      BY <1>3, <3>2
    <3> QED BY <1>4, <2>2, <3>2, <3>3
  <2> QED BY <2>1, <2>2
<1>10. FirstRows(t, k + 1, p)
  BY <1>3, <1>4, <1>6, <1>7, <1>8, <1>9 DEF FirstRows
<1> QED BY <1>1, <1>10

(* What a removal leaves: every other row, once if it was there once, and  *)
(* the rows above the first that goes stay where they are.                 *)
LEMMA WithoutRows ==
  ASSUME NEW p, rows \in Seq(Proxy)
  PROVE  FirstRows(Without(p), Len(rows), p)
<1>1. PICK N \in Nat : N = Len(rows)
  OBVIOUS
<1>2. PICK f : /\ Without(p) = f[N] /\ f[0] = << >>
               /\ \A k \in 1 .. N : f[k] = IF rows[k] = p THEN f[k - 1]
                                           ELSE Append(f[k - 1], rows[k])
  BY <1>1, WithoutSteps
<1> DEFINE T == {k \in 0 .. N : FirstRows(f[k], k, p)}
<1>3. 0 \in T
  <2>1. FirstRows(<< >>, 0, p)
    BY DEF FirstRows, OnlyRows, AllRows, OnceEach, TopRows
  <2> QED BY <1>1, <1>2, <2>1
<1>4. ASSUME NEW k \in 0 .. N, k \in T, k < N PROVE k + 1 \in T
  <2>1. k + 1 \in 1 .. N /\ k + 1 \in 0 .. N /\ (k + 1) - 1 = k /\ k \in Nat
    BY <1>1, <1>4
  <2>2. f[k + 1] = IF rows[k + 1] = p THEN f[k] ELSE Append(f[k], rows[k + 1])
    BY <1>2, <2>1
  <2>3. FirstRows(f[k], k, p)
    BY <1>4
  <2>4. FirstRows(f[k + 1], k + 1, p)
    <3>1. k < Len(rows)
      BY <1>1, <1>4
    <3>2. CASE rows[k + 1] = p
      BY <2>1, <2>2, <2>3, <3>1, <3>2, RowDropped
    <3>3. CASE rows[k + 1] # p
      BY <2>1, <2>2, <2>3, <3>1, <3>3, RowKept
    <3> QED BY <3>2, <3>3
  <2> QED BY <2>1, <2>4
<1>5. N \in T
  <2> HIDE DEF T
  <2> QED BY <1>1, <1>3, <1>4, InductSet
<1> QED BY <1>1, <1>2, <1>5

-----------------------------------------------------------------------------
(* The last row's index: where it is when there is one, and a usize always. *)
LEMMA LastRowIs ==
  ASSUME rows \in Seq(Proxy)
  PROVE  LastRow \in 0 .. Word - 1 /\ (rows # << >> => LastRow < Len(rows))
<1>5. Len(rows) - 1 \in Int
  OBVIOUS
<1>1. PICK m \in Int : m = Len(rows) - 1
  BY <1>5, Zenon
<1>2. m % Word \in 0 .. Word - 1
  BY TuiAssumption
<1>3. m >= 0 => m % Word <= m
  BY TuiAssumption
<1>4. rows # << >> => Len(rows) > 0
  OBVIOUS
<1> QED BY <1>1, <1>2, <1>3, <1>4 DEF LastRow

TableInv == TuiTypeOK /\ HighlightIsShown

LEMMA MessageFields ==
  /\ \A p \in Proxy : {Msg("Proxy", p), Msg("Log", p), Msg("Remove", p)} \subseteq Message
  /\ \A m \in Message : /\ m.type \in {"Proxy", "Log", "Remove"} /\ m.id \in Proxy
                        /\ m = Msg(m.type, m.id)
BY DEF Msg, Message

LEMMA TableInit == TuiInit => TableInv
<1> SUFFICES ASSUME TuiInit PROVE TableInv
  OBVIOUS
<1>1. queue \in Seq(Message) /\ rows \in Seq(Proxy)
  BY DEF TuiInit
<1>4. /\ up \in BOOLEAN /\ exit \in BOOLEAN /\ moved \in BOOLEAN
      /\ drawn \in BOOLEAN /\ panicked \in BOOLEAN
  BY DEF TuiInit
<1>5. presses \in 0 .. 2 /\ selected \in 0 .. Word - 1 \cup {NoRow} /\ shown \in Proxy \cup {Nobody}
  BY DEF TuiInit
<1>2. TuiTypeOK
  BY <1>1, <1>4, <1>5, Zenon DEF TuiTypeOK
<1>3. HighlightIsShown
  BY DEF TuiInit, HighlightIsShown
<1> QED BY <1>2, <1>3 DEF TableInv

(* What a message does to the table. *)
LEMMA MessageHandled ==
  ASSUME TableInv, NEW m \in Message, HandleMessage(m)
  PROVE  /\ rows' \in Seq(Proxy) /\ moved' \in BOOLEAN
         /\ selected # NoRow /\ ~moved' /\ up =>
              ~moved /\ selected < Len(rows') /\ rows'[selected + 1] = shown
<1> USE DEF TableInv, TuiTypeOK
<1>1. m.type \in {"Proxy", "Log", "Remove"} /\ m.id \in Proxy
  BY MessageFields
<1>2. CASE m.type = "Proxy"
  <2>1. rows' = Append(rows, m.id) /\ moved' = moved
    BY <1>2 DEF HandleMessage
  <2>2. /\ rows' \in Seq(Proxy) /\ Len(rows') = Len(rows) + 1 /\ Len(rows) \in Nat
        /\ \A k \in 1 .. Len(rows) : rows'[k] = rows[k]
    BY <1>1, <2>1
  <2>3. selected # NoRow => selected \in Nat
    BY TuiAssumption
  <2> QED BY <2>1, <2>2, <2>3 DEF HighlightIsShown
<1>3. CASE m.type = "Remove"
  <2>1. rows' = Without(m.id) /\ moved' = (moved \/ (selected # NoRow /\ Above(m.id)))
    BY <1>3 DEF HandleMessage
  <2>2. FirstRows(rows', Len(rows), m.id)
    BY <2>1, WithoutRows
  <2>3. ASSUME selected # NoRow, ~moved', up
        PROVE  ~moved /\ selected < Len(rows') /\ rows'[selected + 1] = shown
    <3>1. ~moved /\ ~Above(m.id)
      BY <2>1, <2>3
    <3>2. selected < Len(rows) /\ rows[selected + 1] = shown /\ selected \in Nat
      BY <2>3, <3>1, TuiAssumption DEF HighlightIsShown
    <3>3. \A k \in 1 .. selected + 1 : k \in DOMAIN rows /\ k <= selected + 1
      BY <3>2
    <3>4. \A j \in 1 .. selected + 1 : rows[j] # m.id
      BY <3>1, <3>3 DEF Above
    <3>5. selected + 1 \in 0 .. Len(rows) /\ selected + 1 \in 1 .. selected + 1
      BY <3>2
    <3>6. selected + 1 <= Len(rows') /\ \A j \in 1 .. selected + 1 : rows'[j] = rows[j]
      BY <2>2, <3>4, <3>5 DEF FirstRows, TopRows
    <3>7. Len(rows') \in Nat
      BY <2>2 DEF FirstRows
    <3> QED BY <3>1, <3>2, <3>5, <3>6, <3>7
  <2> QED BY <2>1, <2>2, <2>3 DEF FirstRows
<1>4. CASE m.type = "Log"
  BY <1>4 DEF HandleMessage, HighlightIsShown
<1> QED BY <1>1, <1>2, <1>3, <1>4

LEMMA TurnTable == ASSUME TableInv, Turn PROVE TableInv'
<1> USE DEF TableInv, TuiTypeOK
<1>1. /\ up' = up /\ exit' = exit /\ shown' = shown /\ presses' = 0
      /\ panicked' = panicked /\ drawn' \in BOOLEAN
  BY DEF Turn, Draw
<1>2. /\ queue' \in Seq(Message) /\ rows' \in Seq(Proxy) /\ moved' \in BOOLEAN
      /\ selected # NoRow /\ ~moved' /\ up =>
           ~moved /\ selected < Len(rows') /\ rows'[selected + 1] = shown
  <2>1. CASE queue # << >> /\ queue' = Tail(queue) /\ HandleMessage(Head(queue))
    <3>1. Head(queue) \in Message /\ Tail(queue) \in Seq(Message)
      BY <2>1
    <3> QED BY <2>1, <3>1, MessageHandled
  <2>2. CASE UNCHANGED << queue, rows, moved >>
    BY <2>2 DEF HighlightIsShown
  <2> QED BY <2>1, <2>2 DEF Turn
<1>3. \/ selected' = IF selected = NoRow \/ rows' = << >> THEN NoRow
                     ELSE IF selected < Len(rows') THEN selected ELSE Len(rows') - 1
      \/ selected' = selected
  BY DEF Turn, Draw
<1>4. selected # NoRow => selected \in 0 .. Word - 1
  OBVIOUS
<1>5. Len(rows') \in Nat /\ (rows' # << >> => Len(rows') # 0)
  BY <1>2
<1>6. selected' = NoRow \/ selected' \in 0 .. Word - 1
  BY <1>3, <1>4, <1>5, TuiAssumption DEF NoRow
<1>7. NoRow' = NoRow
  BY DEF NoRow
<1>8. TuiTypeOK'
  BY <1>1, <1>2, <1>6, <1>7
<1>9. HighlightIsShown'
  BY <1>1, <1>2, <1>3, <1>7 DEF HighlightIsShown
<1> QED BY <1>8, <1>9

LEMMA EndTable ==
  ASSUME TableInv, End, presses' \in 0 .. 2, drawn' \in BOOLEAN, panicked' \in BOOLEAN
  PROVE  TableInv'
<1>1. queue' \in Seq(Message) /\ rows' \in Seq(Proxy)
  BY DEF End
<1>2. exit' \in BOOLEAN /\ panicked' \in BOOLEAN
  BY DEF End
<1>3. TuiTypeOK'
  BY <1>1, <1>2 DEF TuiTypeOK, End, NoRow
<1>4. HighlightIsShown'
  BY DEF HighlightIsShown, End
<1> QED BY <1>3, <1>4 DEF TableInv

LEMMA ScrollTable ==
  ASSUME TableInv, NEW key \in {"up", "down"}, Scroll(key)
  PROVE  TableInv'
<1> USE DEF TableInv, TuiTypeOK
<1>1. presses' \in 0 .. 2 /\ drawn' = drawn
  <2>1. presses' \in 0 .. 2
    BY DEF Scroll
  <2> QED BY <2>1 DEF Scroll
<1>2. CASE End /\ panicked' = TRUE
  <2>1. drawn' \in BOOLEAN /\ panicked' \in BOOLEAN
    BY <1>1, <1>2
  <2> QED BY <1>1, <1>2, <2>1, EndTable
<1>3. ASSUME selected' = NextRow(key),
             shown' = IF NextRow(key) < Len(rows) THEN rows[NextRow(key) + 1] ELSE shown,
             moved' = Astray(key), UNCHANGED << queue, rows, up, exit, drawn, panicked >>
      PROVE  TableInv'
  <2>1. LastRow \in 0 .. Word - 1 /\ (rows # << >> => LastRow < Len(rows))
    BY LastRowIs
  <2>2. Len(rows) \in Nat /\ (rows # << >> => Len(rows) > 0)
    OBVIOUS
  <2>3. NextRow(key) \in 0 .. Word - 1
    BY <2>1, TuiAssumption DEF NextRow, NoRow
  <2>4. ASSUME ~Astray(key) PROVE NextRow(key) < Len(rows)
    <3>1. /\ LastRow \in Nat /\ LastRow < Len(rows) /\ 0 < Len(rows)
          /\ selected # NoRow => selected \in Nat
          /\ key = "up" /\ selected # NoRow => ~ (selected > Len(rows))
      BY <2>1, <2>2, <2>4, TuiAssumption DEF Astray
    <3>2. CASE selected = NoRow
      BY <3>1, <3>2 DEF NextRow
    <3>3. CASE selected # NoRow /\ key = "down"
      BY <2>2, <3>1, <3>3 DEF NextRow
    <3>4. CASE selected # NoRow /\ key = "up"
      BY <2>2, <3>1, <3>4 DEF NextRow
    <3> QED BY <3>2, <3>3, <3>4
  <2>5. Astray(key) \in BOOLEAN
    BY DEF Astray
  <2> HIDE DEF NextRow, Astray
  <2>6. shown' \in Proxy \cup {Nobody}
    BY <1>3, <2>2, <2>3
  <2>7. TuiTypeOK'
    BY <1>1, <1>3, <2>3, <2>5, <2>6 DEF NoRow
  <2>8. HighlightIsShown'
    BY <1>3, <2>4 DEF HighlightIsShown
  <2> QED BY <2>7, <2>8
<1> QED BY <1>2, <1>3 DEF Scroll

LEMMA PostTable ==
  ASSUME TableInv, NEW m \in Message, Post(m),
         UNCHANGED << rows, selected, shown, up, exit, tuiHistory >>
  PROVE  TableInv'
BY DEF tuiHistory, TableInv, TuiTypeOK, HighlightIsShown, Post, NoRow

LEMMA TableStep ==
  ASSUME TypeInv, busy \subseteq Proxy, TableInv, [Next]_allVars
  PROVE  TableInv' /\ busy' \subseteq Proxy
<1>1. CASE UNCHANGED << tuiVars, busy >>
  BY <1>1 DEF tuiVars, tuiHistory, TableInv, TuiTypeOK, HighlightIsShown, NoRow
<1>2. CASE TuiStep
  <2>1. UNCHANGED busy
    BY <1>2 DEF TuiStep
  <2>2. CASE Leave \/ Fail
    <3>1. EndQuietly
      BY <2>2 DEF Leave, Fail
    <3>2. presses' = 0 /\ drawn' = FALSE
      BY <3>1 DEF EndQuietly
    <3>3. drawn' \in BOOLEAN /\ panicked' \in BOOLEAN
      BY <3>1, <3>2 DEF EndQuietly, TableInv, TuiTypeOK
    <3>4. presses' \in 0 .. 2
      BY <3>2
    <3>5. End
      BY <3>1 DEF EndQuietly
    <3>6. TableInv'
      BY <3>3, <3>4, <3>5, EndTable
    <3> QED BY <2>1, <3>6
  <2>3. CASE Quit
    <3>1. TuiTypeOK'
      BY <2>3 DEF Quit, tuiHistory, TableInv, TuiTypeOK, NoRow
    <3>2. HighlightIsShown'
      BY <2>3 DEF Quit, tuiHistory, TableInv, HighlightIsShown, NoRow
    <3> QED BY <2>1, <3>1, <3>2 DEF TableInv
  <2> QED BY <1>2, <2>1, <2>2, <2>3, TurnTable, ScrollTable DEF TuiStep, TuiNext
<1>3. ASSUME NEW p \in Proxy, LogLine(p) PROVE TableInv' /\ busy' \subseteq Proxy
  BY <1>3, PostTable, MessageFields DEF LogLine
<1>4. ASSUME NEW p \in Proxy, SendRow(p) \/ Cleanup(p)
      PROVE  TableInv' /\ busy' \subseteq Proxy
  BY <1>4, PostTable, MessageFields DEF SendRow, Cleanup
<1>5. CASE HandleConnection
  <2>1. TableInv'
    BY <1>5 DEF HandleConnection, tuiVars, tuiHistory, TableInv, TuiTypeOK, HighlightIsShown, NoRow
  <2>2. busy' \subseteq Proxy
    BY <1>5 DEF HandleConnection, TypeInv
  <2> QED BY <2>1, <2>2
<1> QED
  BY <1>1, <1>2, <1>3, <1>4, <1>5
     DEF Next, allVars, Start, HandleTlsMsg, Accept, Register, SendAdd, Unregister, SendRemove

LEMMA TableInvariance == Spec => [](TableInv /\ busy \subseteq Proxy)
<1>1. Init => TableInv /\ busy \subseteq Proxy
  BY TableInit DEF Init
<1>2. IInv /\ TableInv /\ busy \subseteq Proxy /\ [Next]_allVars
        => (TableInv /\ busy \subseteq Proxy)'
  BY TableStep DEF IInv
<1> QED BY <1>1, <1>2, Invariance, PTL DEF Spec

(* Every variable keeps its type: in particular no handler posts what the  *)
(* TUI does not know, the channel of the listener never exceeds its        *)
(* capacity, and the index of the highlighted row stays a usize whatever   *)
(* keys are pressed.                                                       *)
THEOREM TypeCorrect == Spec => []TypeOK
<1>1. IInv /\ TableInv /\ busy \subseteq Proxy => TypeOK
  BY DEF IInv, TypeInv, TableInv, TypeOK
<1> QED BY <1>1, Invariance, TableInvariance, PTL

(* The log lines shown are those of the highlighted row, whatever rows     *)
(* come, go and are scrolled through, unless the row or one above it was   *)
(* removed or a key left the index past the table.                         *)
THEOREM HighlightIsShownHolds == Spec => []HighlightIsShown
<1>1. TableInv => HighlightIsShown
  BY DEF TableInv
<1> QED BY <1>1, TableInvariance, PTL

-----------------------------------------------------------------------------
(* The way of a proxy through its two requests. *)
Requests ==
  \A p \in Proxy :
    /\ p \in registry <=> (adding[p] # "created" /\ removing[p] = "none")
    /\ removing[p] # "none" => adding[p] = "ok"

Row(p) == \E k \in DOMAIN rows : rows[k] = p
Coming(p) == \E k \in DOMAIN queue : queue[k] = Msg("Proxy", p)
Going(p) == \E k \in DOMAIN queue : queue[k] = Msg("Remove", p)

(* No message about a row is sent twice. *)
SentOnce ==
  \A i, j \in DOMAIN queue : queue[i] = queue[j] /\ queue[i].type # "Log" => i = j

(* The row of p is in the table or on its way, not both, once the request  *)
(* that adds p sent it, until its removal was sent and has arrived.        *)
RowOf(p) ==
  /\ Row(p) => ~Coming(p)
  /\ Row(p) \/ Coming(p) =>
       adding[p] = "ok" /\ (removing[p] = "done" => Going(p))
  /\ adding[p] = "ok" /\ removing[p] # "done" => Row(p) \/ Coming(p)
  /\ removing[p] # "error"

(* A removal follows what it removes. *)
RemovalOf(p) ==
  \A j \in DOMAIN queue : queue[j] = Msg("Remove", p) =>
    /\ removing[p] = "done"
    /\ Row(p) \/ \E i \in DOMAIN queue : i < j /\ queue[i] = Msg("Proxy", p)

RowsInv ==
  up => SentOnce /\ DistinctRows /\ \A p \in Proxy : RowOf(p) /\ RemovalOf(p)

LEMMA RowsInit == Init => Requests /\ RowsInv
<1> SUFFICES ASSUME Init PROVE Requests /\ RowsInv
  OBVIOUS
<1>1. DOMAIN queue = {} /\ DOMAIN rows = {}
  BY DEF Init, TuiInit
<1>2. \A p \in Proxy : adding[p] = "created" /\ removing[p] = "none" /\ p \notin registry
  BY DEF Init
<1> QED
  BY <1>1, <1>2 DEF Requests, RowsInv, SentOnce, DistinctRows, RowOf, RemovalOf, Row, Coming, Going

LEMMA RequestsStep == ASSUME TypeInv, Requests, [Next]_allVars PROVE Requests'
<1> USE DEF TypeInv, Requests
<1>1. CASE UNCHANGED << registry, adding, removing >>
  BY <1>1
<1>2. ASSUME NEW p \in Proxy, Register(p) \/ Unregister(p) PROVE Requests'
  BY <1>2 DEF Register, Unregister
<1>3. ASSUME NEW p \in Proxy, SendAdd(p) \/ SendRow(p) PROVE Requests'
  <2>1. /\ adding[p] \in {"send", "row"} /\ UNCHANGED << registry, removing >>
        /\ \E x \in {"row", "ok", "error"} : adding' = [adding EXCEPT ![p] = x]
    BY <1>3 DEF SendAdd, SendRow
  <2> QED BY <2>1
<1>4. ASSUME NEW p \in Proxy, SendRemove(p) \/ Cleanup(p) PROVE Requests'
  <2>1. /\ removing[p] \in {"send", "cleanup"} /\ UNCHANGED << registry, adding >>
        /\ \E x \in {"cleanup", "done", "error"} : removing' = [removing EXCEPT ![p] = x]
    BY <1>4 DEF SendRemove, Cleanup
  <2> QED BY <2>1
<1>5. CASE TuiStep \/ Start \/ HandleTlsMsg \/ Accept \/ HandleConnection \/ UNCHANGED allVars
  BY <1>1, <1>5 DEF TuiStep, Start, HandleTlsMsg, Accept, HandleConnection, allVars, requests
<1>6. ASSUME NEW p \in Proxy, LogLine(p) PROVE Requests'
  BY <1>1, <1>6 DEF LogLine, requests
<1> QED BY <1>2, <1>3, <1>4, <1>5, <1>6 DEF Next

-----------------------------------------------------------------------------
LEMMA PostEffect ==
  ASSUME up, queue \in Seq(Message), NEW m \in Message, Post(m)
  PROVE  \E n \in Nat :
           /\ DOMAIN queue = 1 .. n /\ DOMAIN queue' = 1 .. n + 1
           /\ \A k \in 1 .. n : queue'[k] = queue[k] /\ k \in 1 .. n + 1
           /\ queue'[n + 1] = m /\ n + 1 \in 1 .. n + 1
           /\ \A k \in 1 .. n + 1 : k \in 1 .. n \/ k = n + 1
           /\ \A k \in 1 .. n : k < n + 1
<1> DEFINE n == Len(queue)
<1>1. n \in Nat /\ queue' = Append(queue, m)
  BY DEF Post
<1>2. /\ DOMAIN queue = 1 .. n /\ DOMAIN queue' = 1 .. n + 1
      /\ \A k \in 1 .. n : queue'[k] = queue[k]
      /\ queue'[n + 1] = m
  BY <1>1
<1> HIDE DEF n
<1>3. /\ \A k \in 1 .. n : k \in 1 .. n + 1 /\ k < n + 1
      /\ n + 1 \in 1 .. n + 1
      /\ \A k \in 1 .. n + 1 : k \in 1 .. n \/ k = n + 1
  BY <1>1
<1> QED BY <1>1, <1>2, <1>3

LEMMA TakeEffect ==
  ASSUME queue \in Seq(Message), queue # << >>, queue' = Tail(queue)
  PROVE  /\ 1 \in DOMAIN queue /\ Head(queue) = queue[1] /\ queue[1] \in Message
         /\ \A k \in DOMAIN queue' :
              k + 1 \in DOMAIN queue /\ queue'[k] = queue[k + 1] /\ k + 1 # 1 /\ k \in Int
         /\ \A k \in DOMAIN queue :
              k = 1 \/ (k - 1 \in DOMAIN queue' /\ queue'[k - 1] = queue[k]
                        /\ k \in Int /\ k > 1)
OBVIOUS

(* The table after each kind of message. *)
LEMMA TableAfter ==
  ASSUME rows \in Seq(Proxy), NEW m \in Message, HandleMessage(m)
  PROVE  /\ m.type = "Log" => rows' = rows
         /\ m.type = "Proxy" =>
              /\ \A q : Row(q)' <=> (Row(q) \/ q = m.id)
              /\ DistinctRows /\ ~Row(m.id) => DistinctRows'
         /\ m.type = "Remove" =>
              /\ \A q : Row(q)' <=> (Row(q) /\ q # m.id)
              /\ DistinctRows => DistinctRows'
<1>1. m.id \in Proxy
  BY MessageFields
<1>2. CASE m.type = "Proxy"
  <2>1. rows' = Append(rows, m.id)
    BY <1>2 DEF HandleMessage
  <2>2. PICK n \in Nat : n = Len(rows)
    OBVIOUS
  <2>3. /\ DOMAIN rows = 1 .. n /\ DOMAIN rows' = 1 .. n + 1
        /\ \A k \in 1 .. n : rows'[k] = rows[k]
        /\ rows'[n + 1] = m.id
    BY <1>1, <2>1, <2>2
  <2>4. /\ \A k \in 1 .. n : k \in 1 .. n + 1
        /\ n + 1 \in 1 .. n + 1
        /\ \A k \in 1 .. n + 1 : k \in 1 .. n \/ k = n + 1
    OBVIOUS
  <2> QED BY <1>2, <2>3, <2>4, Zenon DEF Row, DistinctRows
<1>3. CASE m.type = "Remove"
  <2>1. rows' = Without(m.id)
    BY <1>3 DEF HandleMessage
  <2>2. FirstRows(rows', Len(rows), m.id)
    BY <2>1, WithoutRows
  <2>3. DOMAIN rows = 1 .. Len(rows) /\ DOMAIN rows' = 1 .. Len(rows')
    BY <2>2 DEF FirstRows
  <2>4. \A q : Row(q)' <=> (Row(q) /\ q # m.id)
    <3> SUFFICES ASSUME NEW q PROVE Row(q)' <=> (Row(q) /\ q # m.id)
      OBVIOUS
    <3>1. ASSUME NEW i \in DOMAIN rows', rows'[i] = q PROVE Row(q) /\ q # m.id
      <4>1. PICK j \in 1 .. Len(rows) : rows'[i] = rows[j] /\ rows[j] # m.id
        BY <2>2, <2>3 DEF FirstRows, OnlyRows
      <4> QED BY <2>3, <3>1, <4>1 DEF Row
    <3>2. ASSUME NEW j \in DOMAIN rows, rows[j] = q, q # m.id PROVE Row(q)'
      <4>1. PICK i \in 1 .. Len(rows') : rows'[i] = rows[j]
        BY <2>2, <2>3, <3>2 DEF FirstRows, AllRows
      <4> QED BY <2>3, <3>2, <4>1 DEF Row
    <3> QED BY <3>1, <3>2 DEF Row
  <2>5. DistinctRows => DistinctRows'
    BY <2>2, <2>3, Zenon DEF FirstRows, OnceEach, DistinctRows
  <2> QED BY <1>3, <2>4, <2>5
<1>4. CASE m.type = "Log"
  BY <1>4 DEF HandleMessage
<1>5. m.type \in {"Proxy", "Log", "Remove"}
  BY MessageFields
<1> QED BY <1>2, <1>3, <1>4, <1>5

LEMMA SendRowRows ==
  ASSUME TypeInv, TuiTypeOK, Requests, RowsInv, up, NEW p \in Proxy, SendRow(p)
  PROVE  RowsInv'
<1> DEFINE m == Msg("Proxy", p)
<1>1. /\ adding[p] = "row" /\ adding' = [adding EXCEPT ![p] = "ok"]
      /\ Post(m) /\ UNCHANGED << rows, up, removing >>
  BY DEF SendRow
<1>2. m \in Message /\ \A q : m # Msg("Remove", q) /\ (q # p => m # Msg("Proxy", q))
  BY MessageFields DEF Msg
<1>3. m = Msg("Proxy", p)
  OBVIOUS
<1> HIDE DEF m
<1>4. PICK n \in Nat :
        /\ DOMAIN queue = 1 .. n /\ DOMAIN queue' = 1 .. n + 1
        /\ \A k \in 1 .. n : queue'[k] = queue[k] /\ k \in 1 .. n + 1
        /\ queue'[n + 1] = m /\ n + 1 \in 1 .. n + 1
        /\ \A k \in 1 .. n + 1 : k \in 1 .. n \/ k = n + 1
        /\ \A k \in 1 .. n : k < n + 1
  BY <1>1, <1>2, PostEffect DEF TuiTypeOK
<1>5. SentOnce /\ DistinctRows /\ \A q \in Proxy : RowOf(q) /\ RemovalOf(q)
  BY DEF RowsInv
<1>6. ~Row(p) /\ ~Coming(p) /\ removing[p] = "none"
  BY <1>1, <1>5 DEF RowOf, Requests
<1>7. SentOnce'
  BY <1>3, <1>4, <1>5, <1>6 DEF SentOnce, Coming
<1>8. DistinctRows'
  BY <1>1, <1>5 DEF DistinctRows
<1>9. ASSUME NEW q
      PROVE  /\ Row(q)' <=> Row(q)
             /\ Going(q)' <=> Going(q)
             /\ Coming(q)' <=> (Coming(q) \/ q = p)
  <2>1. Row(q)' <=> Row(q)
    BY <1>1 DEF Row
  <2>2. Going(q)' <=> Going(q)
    BY <1>2, <1>4 DEF Going
  <2>3. Coming(q)' <=> (Coming(q) \/ q = p)
    BY <1>2, <1>3, <1>4 DEF Coming
  <2> QED BY <2>1, <2>2, <2>3
<1>10. ASSUME NEW q \in Proxy PROVE RowOf(q)'
  <2>1. adding'[q] = IF q = p THEN "ok" ELSE adding[q]
    BY <1>1 DEF TypeInv
  <2>2. CASE q = p
    BY <1>1, <1>6, <1>9, <2>1, <2>2 DEF RowOf
  <2>3. CASE q # p
    BY <1>1, <1>5, <1>9, <2>1, <2>3 DEF RowOf
  <2> QED BY <2>2, <2>3
<1>11. ASSUME NEW q \in Proxy PROVE RemovalOf(q)'
  <2> SUFFICES ASSUME NEW j \in 1 .. n + 1, queue'[j] = Msg("Remove", q)
               PROVE  /\ removing[q] = "done"
                      /\ Row(q) \/ \E i \in 1 .. n + 1 : i < j /\ queue'[i] = Msg("Proxy", q)
    BY <1>1, <1>4, <1>9 DEF RemovalOf
  <2>1. j \in 1 .. n
    BY <1>2, <1>4
  <2> QED BY <1>4, <1>5, <2>1 DEF RemovalOf
<1> QED BY <1>7, <1>8, <1>10, <1>11 DEF RowsInv

LEMMA CleanupRows ==
  ASSUME TypeInv, TuiTypeOK, Requests, RowsInv, up, NEW p \in Proxy, Cleanup(p)
  PROVE  RowsInv'
<1> DEFINE m == Msg("Remove", p)
<1>1. /\ removing[p] = "cleanup" /\ removing' = [removing EXCEPT ![p] = "done"]
      /\ Post(m) /\ UNCHANGED << rows, up, adding >>
  BY DEF Cleanup
<1>2. m \in Message /\ \A q : m # Msg("Proxy", q) /\ (q # p => m # Msg("Remove", q))
  BY MessageFields DEF Msg
<1>3. m = Msg("Remove", p)
  OBVIOUS
<1> HIDE DEF m
<1>4. PICK n \in Nat :
        /\ DOMAIN queue = 1 .. n /\ DOMAIN queue' = 1 .. n + 1
        /\ \A k \in 1 .. n : queue'[k] = queue[k] /\ k \in 1 .. n + 1
        /\ queue'[n + 1] = m /\ n + 1 \in 1 .. n + 1
        /\ \A k \in 1 .. n + 1 : k \in 1 .. n \/ k = n + 1
        /\ \A k \in 1 .. n : k < n + 1
  BY <1>1, <1>2, PostEffect DEF TuiTypeOK
<1>5. SentOnce /\ DistinctRows /\ \A q \in Proxy : RowOf(q) /\ RemovalOf(q)
  BY DEF RowsInv
<1>6. ~Going(p) /\ adding[p] = "ok" /\ (Row(p) \/ Coming(p))
  BY <1>1, <1>5 DEF RowOf, RemovalOf, Going, Requests
<1>7. SentOnce'
  BY <1>3, <1>4, <1>5, <1>6 DEF SentOnce, Going
<1>8. DistinctRows'
  BY <1>1, <1>5 DEF DistinctRows
<1>9. ASSUME NEW q
      PROVE  /\ Row(q)' <=> Row(q)
             /\ Coming(q)' <=> Coming(q)
             /\ Going(q)' <=> (Going(q) \/ q = p)
  <2>1. Row(q)' <=> Row(q)
    BY <1>1 DEF Row
  <2>2. Coming(q)' <=> Coming(q)
    BY <1>2, <1>4 DEF Coming
  <2>3. Going(q)' <=> (Going(q) \/ q = p)
    BY <1>2, <1>3, <1>4 DEF Going
  <2> QED BY <2>1, <2>2, <2>3
<1>10. ASSUME NEW q \in Proxy
       PROVE  removing'[q] = IF q = p THEN "done" ELSE removing[q]
  BY <1>1 DEF TypeInv
<1>11. ASSUME NEW q \in Proxy PROVE RowOf(q)'
  <2>1. CASE q = p
    BY <1>1, <1>5, <1>6, <1>9, <1>10, <2>1 DEF RowOf
  <2>2. CASE q # p
    BY <1>1, <1>5, <1>9, <1>10, <2>2 DEF RowOf
  <2> QED BY <2>1, <2>2
<1>12. ASSUME NEW q \in Proxy PROVE RemovalOf(q)'
  <2> SUFFICES ASSUME NEW j \in 1 .. n + 1, queue'[j] = Msg("Remove", q)
               PROVE  /\ removing'[q] = "done"
                      /\ Row(q) \/ \E i \in 1 .. n + 1 : i < j /\ queue'[i] = Msg("Proxy", q)
    BY <1>4, <1>9 DEF RemovalOf
  <2>1. CASE j \in 1 .. n
    BY <1>4, <1>5, <1>10, <2>1 DEF RemovalOf
  <2>2. CASE j = n + 1
    <3>1. q = p
      BY <1>2, <1>4, <2>2
    <3>2. ASSUME Coming(p) PROVE \E i \in 1 .. n + 1 : i < j /\ queue'[i] = Msg("Proxy", q)
      BY <1>4, <2>2, <3>1, <3>2 DEF Coming
    <3> QED BY <1>6, <1>10, <3>1, <3>2
  <2> QED BY <1>4, <2>1, <2>2
<1> QED BY <1>7, <1>8, <1>11, <1>12 DEF RowsInv

LEMMA LogLineRows ==
  ASSUME TuiTypeOK, RowsInv, up, NEW p \in Proxy, LogLine(p)
  PROVE  RowsInv'
<1> DEFINE m == Msg("Log", p)
<1>1. Post(m) /\ UNCHANGED << rows, up, adding, removing >>
  BY DEF LogLine, requests
<1>2. m \in Message /\ \A q : m # Msg("Proxy", q) /\ m # Msg("Remove", q)
  BY MessageFields DEF Msg
<1>3. m.type = "Log"
  BY DEF Msg
<1> HIDE DEF m
<1>4. PICK n \in Nat :
        /\ DOMAIN queue = 1 .. n /\ DOMAIN queue' = 1 .. n + 1
        /\ \A k \in 1 .. n : queue'[k] = queue[k] /\ k \in 1 .. n + 1
        /\ queue'[n + 1] = m /\ n + 1 \in 1 .. n + 1
        /\ \A k \in 1 .. n + 1 : k \in 1 .. n \/ k = n + 1
        /\ \A k \in 1 .. n : k < n + 1
  BY <1>1, <1>2, PostEffect DEF TuiTypeOK
<1>5. SentOnce /\ DistinctRows /\ \A q \in Proxy : RowOf(q) /\ RemovalOf(q)
  BY DEF RowsInv
<1>7. SentOnce'
  BY <1>3, <1>4, <1>5 DEF SentOnce
<1>8. DistinctRows'
  BY <1>1, <1>5 DEF DistinctRows
<1>9. ASSUME NEW q
      PROVE  (Row(q)' <=> Row(q)) /\ (Coming(q)' <=> Coming(q)) /\ (Going(q)' <=> Going(q))
  <2>1. Row(q)' <=> Row(q)
    BY <1>1 DEF Row
  <2>2. (Coming(q)' <=> Coming(q)) /\ (Going(q)' <=> Going(q))
    BY <1>2, <1>4 DEF Coming, Going
  <2> QED BY <2>1, <2>2
<1>11. ASSUME NEW q \in Proxy PROVE RowOf(q)'
  BY <1>1, <1>5, <1>9 DEF RowOf
<1>12. ASSUME NEW q \in Proxy PROVE RemovalOf(q)'
  <2> SUFFICES ASSUME NEW j \in 1 .. n + 1, queue'[j] = Msg("Remove", q)
               PROVE  /\ removing[q] = "done"
                      /\ Row(q) \/ \E i \in 1 .. n + 1 : i < j /\ queue'[i] = Msg("Proxy", q)
    BY <1>1, <1>4, <1>9 DEF RemovalOf
  <2>1. j \in 1 .. n
    BY <1>2, <1>4
  <2> QED BY <1>4, <1>5, <2>1 DEF RemovalOf
<1> QED BY <1>7, <1>8, <1>11, <1>12 DEF RowsInv

(* Requests that go on without the TUI. *)
LEMMA QuietRows ==
  ASSUME RowsInv, UNCHANGED << queue, rows, up >>,
         \A q \in Proxy : /\ adding'[q] = "ok" <=> adding[q] = "ok"
                          /\ removing'[q] = "done" <=> removing[q] = "done"
                          /\ removing'[q] = "error" <=> removing[q] = "error"
  PROVE  RowsInv'
<1>1. \A q : (Row(q)' <=> Row(q)) /\ (Coming(q)' <=> Coming(q)) /\ (Going(q)' <=> Going(q))
  BY DEF Row, Coming, Going
<1>2. ASSUME NEW q \in Proxy PROVE (RowOf(q) => RowOf(q)') /\ (RemovalOf(q) => RemovalOf(q)')
  <2>1. RowOf(q) => RowOf(q)'
    BY <1>1 DEF RowOf
  <2>2. RemovalOf(q) => RemovalOf(q)'
    BY <1>1 DEF RemovalOf
  <2> QED BY <2>1, <2>2
<1>3. (SentOnce => SentOnce') /\ (DistinctRows => DistinctRows')
  BY DEF SentOnce, DistinctRows
<1> QED BY <1>2, <1>3 DEF RowsInv

(* The TUI takes a message. *)
LEMMA TurnRows ==
  ASSUME TuiTypeOK, RowsInv, up, up', UNCHANGED << adding, removing >>,
         queue # << >>, queue' = Tail(queue), HandleMessage(Head(queue))
  PROVE  RowsInv'
<1> DEFINE m == Head(queue)
<1>1. /\ 1 \in DOMAIN queue /\ m = queue[1] /\ m \in Message
      /\ \A k \in DOMAIN queue' :
           k + 1 \in DOMAIN queue /\ queue'[k] = queue[k + 1] /\ k + 1 # 1 /\ k \in Int
      /\ \A k \in DOMAIN queue :
           k = 1 \/ (k - 1 \in DOMAIN queue' /\ queue'[k - 1] = queue[k]
                     /\ k \in Int /\ k > 1)
  BY TakeEffect DEF TuiTypeOK
<1>2. HandleMessage(m)
  OBVIOUS
<1> HIDE DEF m
<1>3. /\ m.type \in {"Proxy", "Log", "Remove"} /\ m.id \in Proxy
      /\ m = Msg(m.type, m.id)
  BY <1>1, MessageFields
<1>4. SentOnce /\ DistinctRows /\ \A q \in Proxy : RowOf(q) /\ RemovalOf(q)
  BY DEF RowsInv
<1>5. SentOnce'
  <2> SUFFICES ASSUME NEW i \in DOMAIN queue', NEW j \in DOMAIN queue',
                      queue'[i] = queue'[j], queue'[i].type # "Log"
               PROVE  i = j
    BY DEF SentOnce
  <2>1. i + 1 = j + 1 /\ i \in Int /\ j \in Int
    BY <1>1, <1>4 DEF SentOnce
  <2> QED BY <2>1
(* What is behind the head stays in the queue; the head was there once. *)
<1>6. ASSUME NEW x, x # m PROVE (\E k \in DOMAIN queue' : queue'[k] = x) <=>
                                (\E k \in DOMAIN queue : queue[k] = x)
  <2>1. ASSUME NEW k \in DOMAIN queue, queue[k] = x
        PROVE  \E j \in DOMAIN queue' : queue'[j] = x
    <3>1. k # 1
      BY <1>1, <1>6, <2>1
    <3> QED BY <1>1, <2>1, <3>1
  <2>2. ASSUME NEW k \in DOMAIN queue', queue'[k] = x
        PROVE  \E j \in DOMAIN queue : queue[j] = x
    BY <1>1, <2>2
  <2> QED BY <2>1, <2>2
<1>7. m.type # "Log" => \A k \in DOMAIN queue' : queue'[k] # m
  BY <1>1, <1>4 DEF SentOnce
(* A removal that is still to come was behind the head. *)
<1>8. ASSUME NEW q \in Proxy, NEW j \in DOMAIN queue', queue'[j] = Msg("Remove", q)
      PROVE  /\ removing[q] = "done"
             /\ \/ Row(q) \/ m = Msg("Proxy", q)
                \/ \E i \in DOMAIN queue' : i < j /\ queue'[i] = Msg("Proxy", q)
  <2>1. j + 1 \in DOMAIN queue /\ queue[j + 1] = Msg("Remove", q) /\ j \in Int
    BY <1>1, <1>8
  <2>2. removing[q] = "done" /\
        (Row(q) \/ \E i \in DOMAIN queue : i < j + 1 /\ queue[i] = Msg("Proxy", q))
    BY <1>4, <2>1 DEF RemovalOf
  <2>3. ASSUME NEW i \in DOMAIN queue, i < j + 1, queue[i] = Msg("Proxy", q), i # 1
        PROVE  \E h \in DOMAIN queue' : h < j /\ queue'[h] = Msg("Proxy", q)
    <3>1. i - 1 \in DOMAIN queue' /\ queue'[i - 1] = queue[i] /\ i \in Int
      BY <1>1, <2>3
    <3>2. i - 1 < j
      BY <2>1, <2>3, <3>1
    <3> QED BY <2>3, <3>1, <3>2
  <2> QED BY <1>1, <2>2, <2>3
<1>9. CASE m.type = "Log"
  <2>1. \A q : m # Msg("Proxy", q) /\ m # Msg("Remove", q)
    BY <1>9 DEF Msg
  <2>2. rows' = rows
    BY <1>1, <1>2, <1>9, TableAfter DEF TuiTypeOK
  <2>3. \A q : (Row(q)' <=> Row(q)) /\ (Coming(q)' <=> Coming(q)) /\ (Going(q)' <=> Going(q))
    BY <1>6, <2>1, <2>2 DEF Row, Coming, Going
  <2>4. DistinctRows'
    BY <1>4, <2>2 DEF DistinctRows
  <2>5. \A q \in Proxy : RowOf(q)'
    BY <1>4, <2>3 DEF RowOf
  <2>6. \A q \in Proxy : RemovalOf(q)'
    BY <1>8, <2>1, <2>3 DEF RemovalOf
  <2> QED BY <1>5, <2>4, <2>5, <2>6 DEF RowsInv
<1>10. CASE m.type = "Proxy"
  <2>1. PICK p \in Proxy : p = m.id /\ m = Msg("Proxy", p)
    BY <1>3, <1>10
  <2>2. \A q : m # Msg("Remove", q) /\ (q # p => m # Msg("Proxy", q))
    BY <2>1 DEF Msg
  <2>3. Coming(p) /\ ~Row(p)
    BY <1>1, <1>4, <2>1 DEF Coming, RowOf
  <2>4. /\ \A q : Row(q)' <=> (Row(q) \/ q = p)
        /\ DistinctRows'
    BY <1>1, <1>2, <1>4, <1>10, <2>3, <2>1, TableAfter DEF TuiTypeOK
  <2>5. ~Coming(p)'
    BY <1>7, <1>10, <2>1 DEF Coming
  <2>6. ASSUME NEW q
        PROVE  (Going(q)' <=> Going(q)) /\ (q # p => (Coming(q)' <=> Coming(q)))
    BY <1>6, <2>2 DEF Coming, Going
  <2>7. ASSUME NEW q \in Proxy PROVE RowOf(q)'
    <3>1. CASE q = p
      BY <1>4, <2>3, <2>4, <2>5, <2>6, <3>1 DEF RowOf
    <3>2. CASE q # p
      BY <1>4, <2>4, <2>6, <3>2 DEF RowOf
    <3> QED BY <3>1, <3>2
  <2>8. \A q \in Proxy : RemovalOf(q)'
    BY <1>8, <2>2, <2>4 DEF RemovalOf
  <2> QED BY <1>5, <2>4, <2>7, <2>8 DEF RowsInv
<1>11. CASE m.type = "Remove"
  <2>1. PICK p \in Proxy : p = m.id /\ m = Msg("Remove", p)
    BY <1>3, <1>11
  <2>2. \A q : m # Msg("Proxy", q) /\ (q # p => m # Msg("Remove", q))
    BY <2>1 DEF Msg
  <2>3. \A i \in DOMAIN queue : ~ (i < 1)
    BY DEF TuiTypeOK
  <2>4. removing[p] = "done" /\ Row(p)
    BY <1>1, <1>4, <2>1, <2>3 DEF RemovalOf
  <2>5. ~Coming(p)
    BY <1>4, <2>1, <2>4 DEF RowOf
  <2>6. (\A q : Row(q)' <=> (Row(q) /\ q # p)) /\ DistinctRows'
    BY <1>1, <1>2, <1>4, <1>11, <2>1, TableAfter DEF TuiTypeOK
  <2>7. ~Going(p)'
    BY <1>7, <1>11, <2>1 DEF Going
  <2>8. ASSUME NEW q
        PROVE  (Coming(q)' <=> Coming(q)) /\ (q # p => (Going(q)' <=> Going(q)))
    BY <1>6, <2>2 DEF Coming, Going
  <2>9. ASSUME NEW q \in Proxy PROVE RowOf(q)'
    <3>1. CASE q = p
      BY <1>4, <2>4, <2>5, <2>6, <2>8, <3>1 DEF RowOf
    <3>2. CASE q # p
      BY <1>4, <2>6, <2>8, <3>2 DEF RowOf
    <3> QED BY <3>1, <3>2
  <2>10. \A q \in Proxy : RemovalOf(q)'
    <3> SUFFICES ASSUME NEW q \in Proxy, NEW j \in DOMAIN queue', queue'[j] = Msg("Remove", q)
                 PROVE  /\ removing[q] = "done"
                        /\ Row(q)' \/ \E i \in DOMAIN queue' : i < j /\ queue'[i] = Msg("Proxy", q)
      BY DEF RemovalOf
    <3>1. q # p
      BY <2>7 DEF Going
    <3> QED BY <1>8, <2>2, <2>6, <3>1
  <2> QED BY <1>5, <2>6, <2>9, <2>10 DEF RowsInv
<1> QED BY <1>3, <1>9, <1>10, <1>11

LEMMA RowsStep ==
  ASSUME TypeInv, TuiTypeOK, Requests, RowsInv, [Next]_allVars
  PROVE  RowsInv'
<1>1. SUFFICES ASSUME up' PROVE RowsInv'
  BY DEF RowsInv
<1>2. CASE UNCHANGED << queue, rows, up, adding, removing >>
  BY <1>2, QuietRows
<1>3. CASE TuiStep
  <2>1. UNCHANGED << adding, removing >>
    BY <1>3 DEF TuiStep, requests
  <2>2. CASE Turn
    BY <1>1, <1>2, <2>1, <2>2, TurnRows DEF Turn
  <2>3. ASSUME NEW key, Scroll(key) PROVE RowsInv'
    BY <1>1, <1>2, <2>1, <2>3 DEF Scroll, End
  <2>4. ~Leave /\ ~Fail
    BY <1>1 DEF Leave, Fail, EndQuietly, End
  <2> QED BY <1>2, <1>3, <2>1, <2>2, <2>3, <2>4 DEF TuiStep, TuiNext, Quit
<1>4. CASE Start \/ HandleTlsMsg \/ Accept \/ HandleConnection \/ UNCHANGED allVars
  BY <1>2, <1>4 DEF Start, HandleTlsMsg, Accept, HandleConnection, allVars, tuiVars, requests
<1>5. ASSUME NEW p \in Proxy, Register(p) \/ SendAdd(p) \/ Unregister(p) \/ SendRemove(p)
      PROVE  RowsInv'
  <2>1. UNCHANGED << queue, rows, up >>
    BY <1>5 DEF Register, SendAdd, Unregister, SendRemove, tuiVars
  <2>2. /\ \/ removing' = removing
           \/ /\ adding[p] = "ok" /\ removing[p] = "none"
              /\ removing' = [removing EXCEPT ![p] = "send"]
           \/ removing[p] = "send" /\ removing' = [removing EXCEPT ![p] = "cleanup"]
        /\ \/ adding' = adding
           \/ /\ adding[p] \in {"created", "send"}
              /\ \E x \in {"send", "row", "error"} : adding' = [adding EXCEPT ![p] = x]
    BY <1>5 DEF Register, SendAdd, Unregister, SendRemove, Requests
  <2>3. ASSUME NEW q \in Proxy
        PROVE  /\ removing'[q] = "done" <=> removing[q] = "done"
               /\ removing'[q] = "error" <=> removing[q] = "error"
    BY <2>2 DEF TypeInv
  <2>4. ASSUME NEW q \in Proxy PROVE adding'[q] = "ok" <=> adding[q] = "ok"
    BY <2>2 DEF TypeInv
  <2> QED BY <2>1, <2>3, <2>4, QuietRows
<1>6. ASSUME NEW p \in Proxy, SendRow(p) \/ Cleanup(p) \/ LogLine(p) PROVE RowsInv'
  <2>1. up
    BY <1>1, <1>6 DEF SendRow, Cleanup, LogLine
  <2> QED BY <1>6, <2>1, SendRowRows, CleanupRows, LogLineRows
<1> QED BY <1>3, <1>4, <1>5, <1>6 DEF Next

LEMMA RowsSettled ==
  ASSUME registry \subseteq Proxy, rows \in Seq(Proxy), Requests, RowsInv
  PROVE  NoGhostRows
<1> SUFFICES ASSUME up, queue = << >>, \A p \in Proxy : removing[p] \in {"none", "done"}
             PROVE  /\ {rows[k] : k \in DOMAIN rows} = {p \in registry : adding[p] = "ok"}
                    /\ \A j, k \in DOMAIN rows : rows[j] = rows[k] => j = k
  BY DEF NoGhostRows
<1>1. DistinctRows /\ \A p \in Proxy : RowOf(p)
  BY DEF RowsInv
<1>2. DOMAIN queue = {}
  OBVIOUS
<1>3. ASSUME NEW p \in Proxy PROVE Row(p) <=> (p \in registry /\ adding[p] = "ok")
  BY <1>1, <1>2 DEF RowOf, Coming, Going, Requests
<1> QED BY <1>1, <1>3 DEF Row, DistinctRows

(* With nothing on its way to the TUI the table has one row for each proxy *)
(* that was given to a client and not removed since, and no other, whatever *)
(* the order in which requests, log lines, keys and turns of the TUI came.  *)
THEOREM NoGhostRowsHolds == Spec => []NoGhostRows
<1>1. Init => Requests /\ RowsInv
  BY RowsInit
<1>2. IInv /\ TableInv /\ Requests /\ RowsInv /\ [Next]_allVars => (Requests /\ RowsInv)'
  BY RequestsStep, RowsStep DEF IInv, TableInv
<1>3. IInv /\ TableInv /\ Requests /\ RowsInv => NoGhostRows
  BY RowsSettled DEF IInv, TypeInv, TableInv, TuiTypeOK
<1> QED BY <1>1, <1>2, <1>3, Invariance, TableInvariance, PTL DEF Spec
=============================================================================
