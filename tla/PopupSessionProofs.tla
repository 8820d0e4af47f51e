------------------------- MODULE PopupSessionProofs -------------------------
(***************************************************************************)
(* What is proved of PopupSession for every grid, every number of          *)
(* candidates, every set of keys and every bound: a conversion commits one *)
(* text, whoever ends it; the cursor of a popup is inside the grid, on a   *)
(* page there is; a key that moves it leaves it on a candidate; a bookmark *)
(* takes it along; and the window highlights the candidate that Enter takes. *)
(*                                                                         *)
(* The layout comes first: what a page holds, by division with remainder,  *)
(* and what each key and button makes of a popup with its cursor in the    *)
(* grid.  Then the order of the Hanja, the invariant of the session (what  *)
(* the engine, the calls, the signals and the windows hold), and the signals *)
(* on their way, which bring the windows to the popup of the engine.       *)
(***************************************************************************)
EXTENDS PopupSession, SequenceLemmas, FiniteSetTheorems

(* The inductive invariant: a conversion is one of the two, and its count  *)
(* is that of ConversionEndsOnce.                                          *)
Ends == mode \in {"none", "hanja", "special"} /\ ConversionEndsOnce

-----------------------------------------------------------------------------
(* What ends a conversion, and what leaves it alone.                       *)

LEMMA EndedOnce ==
  ASSUME Ends, EndConversion PROVE Ends'
BY DEF Ends, EndConversion, ConversionEndsOnce, Converting, Once

LEMMA CancelEnds ==
  ASSUME Ends, PopupCancel PROVE Ends'
<1>1. CASE Converting BY <1>1, EndedOnce DEF PopupCancel
<1>2. CASE ~Converting BY <1>2 DEF PopupCancel, Ends, ConversionEndsOnce, Converting
<1> QED BY <1>1, <1>2

LEMMA Untouched ==
  ASSUME Ends, UNCHANGED <<mode, ended>> PROVE Ends'
BY DEF Ends, ConversionEndsOnce, Converting

-----------------------------------------------------------------------------
(* The keys.                                                               *)

LEMMA PressEnds ==
  ASSUME Ends, Press PROVE Ends'
<1>1. ASSUME NEW k \in Keys, MoveCursor(k) PROVE Ends'
  BY <1>1, Untouched DEF MoveCursor
<1>2. ASSUME NEW k \in Keys, ChangeCategory(k) PROVE Ends'
  BY <1>2, Untouched DEF ChangeCategory
<1>3. ASSUME NEW k \in Keys, SelectKey(k) PROVE Ends'
  BY <1>3, CancelEnds DEF SelectKey, PopupSelect
<1>4. ASSUME NEW k \in Keys, OtherKey(k) PROVE Ends'
  BY <1>4 DEF OtherKey, Ends, ConversionEndsOnce, Converting, Once
<1>5. CASE BookmarkKey BY <1>5, Untouched DEF BookmarkKey, ToggleBookmark
<1>6. CASE EscapeKey BY <1>6, CancelEnds DEF EscapeKey
<1>7. CASE HanjaKeyAgain
  BY <1>7 DEF HanjaKeyAgain, Ends, ConversionEndsOnce, Converting, Once
<1>8. CASE Type BY <1>8, Untouched DEF Type
<1>9. CASE Confirm BY <1>9, Untouched DEF Confirm
<1>10. CASE HanjaKey
  BY <1>10 DEF HanjaKey, Open, Idle, Ends, ConversionEndsOnce, Converting
<1>11. CASE Leave BY <1>11, EndedOnce DEF Leave
<1> QED
  BY <1>1, <1>2, <1>3, <1>4, <1>5, <1>6, <1>7, <1>8, <1>9, <1>10, <1>11 DEF Press

-----------------------------------------------------------------------------
(* The mouse asks; only the calls it leads to change a conversion.         *)

LEMMA MouseEnds ==
  ASSUME Ends, Mouse PROVE Ends'
<1>1. ASSUME NEW call, Ask(call) PROVE Ends'
  BY <1>1, Untouched DEF Ask, engine
<1>2. ASSUME NEW kind \in Kinds, Click(kind) PROVE Ends' BY <1>1, <1>2 DEF Click
<1>3. ASSUME NEW kind \in Kinds, Dismiss(kind) PROVE Ends'
  BY <1>3, Untouched DEF Dismiss, engine
<1>4. CASE RightClick BY <1>1, <1>4 DEF RightClick
<1>5. CASE PageButton BY <1>1, <1>5 DEF PageButton
<1>6. CASE ExpandButton BY <1>1, <1>6 DEF ExpandButton
<1>7. CASE CategoryTab BY <1>1, <1>7 DEF CategoryTab
<1> QED BY <1>2, <1>3, <1>4, <1>5, <1>6, <1>7 DEF Mouse

-----------------------------------------------------------------------------
(* The calls: a selection ends the conversion it is for and no other, and  *)
(* so does a cancellation, which finds no target when it comes late.       *)

LEMMA SelectEnds ==
  ASSUME Ends, NEW c \in calls, Select(c) PROVE Ends'
<1>1. CASE EndConversion BY <1>1, EndedOnce
<1>2. CASE UNCHANGED engine BY <1>2, Untouched DEF engine
<1> QED BY <1>1, <1>2 DEF Select

LEMMA ToggleCallEnds ==
  ASSUME Ends, NEW c \in calls, ToggleCall(c) PROVE Ends'
<1>1. CASE ToggleBookmark(c.index) BY <1>1, Untouched DEF ToggleBookmark
<1>2. CASE UNCHANGED <<engine, signals>> BY <1>2, Untouched DEF engine
<1> QED BY <1>1, <1>2 DEF ToggleCall

LEMMA CancelCallEnds ==
  ASSUME Ends, NEW c \in calls, NEW kind \in {"hanja", "special"}, CancelCall(kind, c)
  PROVE  Ends'
<1>1. CASE mode = kind
  BY <1>1 DEF CancelCall, Target, Ends, ConversionEndsOnce, Converting, Once
<1>2. CASE mode # kind
  BY <1>2, Untouched DEF CancelCall, Target
<1> QED BY <1>1, <1>2

LEMMA ServeEnds ==
  ASSUME Ends, NEW c \in calls, Serve(c) PROVE Ends'
<1>1. CASE FailCall(c) BY <1>1, Untouched DEF FailCall, Nothing, engine
<1>2. CASE PageCall(c) BY <1>2, Untouched DEF PageCall
<1>3. CASE ExpandCall(c) BY <1>3, Untouched DEF ExpandCall
<1>4. CASE CategoryCall(c) BY <1>4, Untouched DEF CategoryCall
<1>5. CASE CommitEmoji(c) BY <1>5, Untouched DEF CommitEmoji
<1> QED
  BY <1>1, <1>2, <1>3, <1>4, <1>5, SelectEnds, ToggleCallEnds, CancelCallEnds DEF Serve

-----------------------------------------------------------------------------
(* The windows' own steps leave the engine alone.                          *)

LEMMA DeliverEnds ==
  ASSUME Ends, NEW i \in DOMAIN signals, Deliver(i) PROVE Ends'
<1>1. UNCHANGED engine
  BY DEF Deliver, ShowSignal, HideSignal, NavigateSignal, ReorderSignal, Receives
<1> QED BY <1>1, Untouched DEF engine

(* A conversion commits its target or a candidate exactly once, whatever   *)
(* keys, clicks, hide hooks and focus changes race to end it: the target   *)
(* is cleared with the commit, so that a late CancelHanja commits nothing. *)
THEOREM ConversionCommitsOnce == Spec => []ConversionEndsOnce
<1>1. Init => Ends BY DEF Init, Ends, ConversionEndsOnce, Converting
<1>2. Ends /\ [Next]_vars => Ends'
  <2> SUFFICES ASSUME Ends, [Next]_vars PROVE Ends' OBVIOUS
  <2>1. CASE Press BY <2>1, PressEnds
  <2>2. CASE Mouse BY <2>2, MouseEnds
  <2>3. CASE \E c \in calls : Serve(c) BY <2>3, ServeEnds
  <2>4. CASE \E i \in DOMAIN signals : Deliver(i) BY <2>4, DeliverEnds
  <2>5. CASE UNCHANGED vars BY <2>5, Untouched DEF vars
  <2> QED BY <2>1, <2>2, <2>3, <2>4, <2>5 DEF Next
<1>3. Ends => ConversionEndsOnce BY DEF Ends
<1> QED BY <1>1, <1>2, <1>3, PTL DEF Spec

-----------------------------------------------------------------------------
(* Numbers: division, the larger and the smaller of two, Ceil.             *)

LEMMA Div ==
  ASSUME NEW n \in Nat, NEW d \in Nat \ {0}
  PROVE  n \div d \in Nat /\ n % d \in 0 .. d - 1 /\ n = d * (n \div d) + (n % d)
OBVIOUS

LEMMA DivLess ==
  ASSUME NEW n \in Nat, NEW d \in Nat \ {0}, NEW m \in Nat, n < d * m
  PROVE  n \div d < m
<1>1. n \div d \in Nat /\ n % d \in 0 .. d - 1 /\ n = d * (n \div d) + (n % d)
  BY Div
<1>2. PICK q \in Nat : q = n \div d
  BY <1>1
<1>3. q >= m => d * q >= d * m
  OBVIOUS
<1> QED BY <1>1, <1>2, <1>3

LEMMA MostOfTwo ==
  ASSUME NEW a \in Int, NEW b \in Int
  PROVE  Most(a, b) = IF a >= b THEN a ELSE b
BY DEF Most

LEMMA LeastOfTwo ==
  ASSUME NEW a \in Int, NEW b \in Int
  PROVE  Least(a, b) = IF a <= b THEN a ELSE b
BY DEF Least

LEMMA CeilBounds ==
  ASSUME NEW n \in Nat, NEW d \in Nat \ {0}
  PROVE  /\ Ceil(n, d) \in Nat
         /\ n <= d * Ceil(n, d) /\ d * Ceil(n, d) < n + d
<1>1. n + d - 1 \in Nat
  OBVIOUS
<1>2. PICK m \in Nat : m = n + d - 1
  BY <1>1
<1>3. m \div d \in Nat /\ m % d \in 0 .. d - 1 /\ m = d * (m \div d) + (m % d)
  BY Div
<1>4. Ceil(n, d) = m \div d
  BY <1>2 DEF Ceil
<1>5. PICK c \in Nat : c = m \div d
  BY <1>3
<1>6. PICK r \in 0 .. d - 1 : r = m % d
  BY <1>3
<1>7. PICK e \in Int : e = d * c
  OBVIOUS
<1>8. m = e + r
  BY <1>3, <1>5, <1>6, <1>7
<1>. QED BY <1>2, <1>4, <1>5, <1>6, <1>7, <1>8

\* A number below the ceiling starts a part that is not empty.
LEMMA BelowCeil ==
  ASSUME NEW n \in Nat, NEW d \in Nat \ {0}, NEW q \in Nat, q < Ceil(n, d)
  PROVE  d * q < n
<1>1. PICK c \in Nat : c = Ceil(n, d)
  BY CeilBounds
<1>2. d * c < n + d
  BY <1>1, CeilBounds
<1>3. q + 1 <= c
  BY <1>1
<1>4. d * (q + 1) <= d * c
  BY <1>3
<1>. QED BY <1>2, <1>4

\* A number below n lies in one of the parts.
LEMMA InCeil ==
  ASSUME NEW n \in Nat, NEW d \in Nat \ {0}, NEW i \in Nat, i < n
  PROVE  i \div d < Ceil(n, d)
<1>1. PICK c \in Nat : c = Ceil(n, d)
  BY CeilBounds
<1>2. i < d * c
  <2>1. PICK e \in Nat : e = d * c
    OBVIOUS
  <2>. QED BY <1>1, <2>1, CeilBounds
<1>. QED BY <1>1, <1>2, DivLess

-----------------------------------------------------------------------------
(* A page: how many there are, what one holds, how many columns it has.    *)

PopupRec ==
  [kind : Kinds, items : Seq(Nat), page : Nat, row : Nat, col : Nat,
   expanded : BOOLEAN, cat : DOMAIN Emojis]
CursorOK(p) ==
  /\ p.page < Pages(p) /\ p.row < Rows /\ p.col < ColsOf(p)
  /\ p.items = <<>> \/ OnCandidate(p) \/ (Grid(p) /\ Pages(p) > 1)

LEMMA GridSize ==
  /\ Rows \in Nat \ {0} /\ Columns \in Nat \ {0} /\ Hanja \in Nat \ {0}
  /\ Rows * Columns \in Nat \ {0}
<1>1. Rows \in Nat \ {0} /\ Columns \in Nat \ {0} /\ Hanja \in Nat \ {0}
  BY PopupAssumption
<1>2. \A a, b \in Nat \ {0} : a * b \in Nat \ {0}
  OBVIOUS
<1>. QED BY <1>1, <1>2

LEMMA SizeOK ==
  ASSUME NEW p
  PROVE  PageSize(p) \in Nat \ {0}
BY GridSize DEF PageSize

LEMMA PagesOK ==
  ASSUME NEW p, p.items \in Seq(Nat)
  PROVE  /\ Pages(p) \in Nat \ {0}
         /\ \A q \in Nat : q < Pages(p) /\ p.items # <<>> => q * PageSize(p) < Len(p.items)
         /\ \A i \in Nat : i < Len(p.items) => i \div PageSize(p) < Pages(p)
<1>1. PICK n \in Nat : n = Len(p.items)
  OBVIOUS
<1>2. PICK d \in Nat \ {0} : d = PageSize(p)
  BY SizeOK
<1>3. PICK c \in Nat : c = Ceil(n, d)
  BY CeilBounds
<1>4. Pages(p) = IF 1 >= c THEN 1 ELSE c
  BY <1>1, <1>2, <1>3, MostOfTwo DEF Pages
<1>5. p.items # <<>> => n > 0
  BY <1>1
<1>6. ASSUME NEW q \in Nat, q < Pages(p), n > 0 PROVE q * d < n
  <2>1. CASE q < c
    <3>1. d * q < n
      BY <1>3, <2>1, BelowCeil
    <3>. QED BY <3>1
  <2>2. CASE q = 0
    BY <1>6, <2>2
  <2>. QED BY <1>4, <1>6, <2>1, <2>2
<1>7. ASSUME NEW i \in Nat, i < n PROVE i \div d < Pages(p)
  <2>1. i \div d < c
    BY <1>3, <1>7, InCeil
  <2>2. i \div d \in Nat
    BY Div
  <2>. QED BY <1>4, <2>1, <2>2
<1>. QED BY <1>1, <1>2, <1>4, <1>5, <1>6, <1>7

\* The candidates of a page that has one.
LEMMA OnPageOK ==
  ASSUME NEW p, p.items \in Seq(Nat), p.page \in Nat
  PROVE  /\ OnPage(p) \in Nat /\ OnPage(p) <= PageSize(p)
         /\ \A o \in Nat :
              o < OnPage(p) <=> o < PageSize(p) /\ p.page * PageSize(p) + o < Len(p.items)
<1>1. PICK n \in Nat : n = Len(p.items)
  OBVIOUS
<1>2. PICK d \in Nat \ {0} : d = PageSize(p)
  BY SizeOK
<1>3. PICK b \in Nat : b = p.page * d
  OBVIOUS
<1>4. PICK m \in Nat : m = Least(b, n) /\ m = IF b <= n THEN b ELSE n
  BY LeastOfTwo
<1>5. OnPage(p) = IF d <= n - m THEN d ELSE n - m
  <2>1. n - m \in Nat
    BY <1>4
  <2>2. OnPage(p) = Least(d, n - m)
    BY <1>1, <1>2, <1>3, <1>4 DEF OnPage
  <2>3. Least(d, n - m) = IF d <= n - m THEN d ELSE n - m
    BY DEF Least
  <2>. QED BY <2>2, <2>3
<1>6. p.page * PageSize(p) = b
  BY <1>2, <1>3
<1>7. /\ OnPage(p) \in Nat /\ OnPage(p) <= d
      /\ \A o \in Nat : o < OnPage(p) <=> o < d /\ b + o < n
  <2>1. PICK r : r = n - m
    OBVIOUS
  <2>2. PICK x : x = OnPage(p)
    OBVIOUS
  <2>3. m = IF b <= n THEN b ELSE n
    BY <1>4
  <2>4. r \in Nat /\ r = n - m
    BY <2>1, <2>3
  <2>5. x = IF d <= r THEN d ELSE r
    BY <1>5, <2>1, <2>2
  <2>6. x \in Nat /\ x <= d /\ \A o \in Nat : o < x <=> o < d /\ b + o < n
    BY <2>3, <2>4, <2>5
  <2>. QED BY <2>2, <2>6
<1>. QED BY <1>1, <1>2, <1>6, <1>7

LEMMA ColsOK ==
  ASSUME NEW p, p.items \in Seq(Nat), p.page \in Nat
  PROVE  /\ ColsOf(p) \in Nat \ {0} /\ ColsOf(p) <= Columns
         /\ ~Grid(p) => ColsOf(p) = 1
         /\ \A col \in Nat :
              Grid(p) /\ col < ColsOf(p) => col = 0 \/ col * Rows < OnPage(p)
         /\ \A o \in Nat :
              Grid(p) /\ o < OnPage(p) => o \div Rows < ColsOf(p)
<1>1. CASE ~Grid(p)
  BY <1>1, GridSize DEF ColsOf
<1>2. CASE Grid(p)
  <2>1. PICK n \in Nat : n = OnPage(p)
    BY OnPageOK
  <2>2. PICK c \in Nat : c = Ceil(n, Rows)
    BY GridSize, CeilBounds
  <2>3. PICK m \in Nat : m = Most(1, c) /\ m = IF 1 >= c THEN 1 ELSE c
    BY MostOfTwo
  <2>4. ColsOf(p) = IF Columns <= m THEN Columns ELSE m
    <3>1. ColsOf(p) = Least(Columns, m)
      BY <1>2, <2>1, <2>2, <2>3 DEF ColsOf
    <3>2. Columns \in Int
      BY GridSize
    <3>. QED BY <3>1, <3>2, LeastOfTwo
  <2>5. ASSUME NEW col \in Nat, col < ColsOf(p) PROVE col = 0 \/ col * Rows < n
    <3>1. CASE col < c
      <4>1. Rows * col < n
        BY <2>2, <3>1, BelowCeil, GridSize
      <4>. QED BY <4>1, GridSize
    <3>. QED BY <2>3, <2>4, <2>5, <3>1, GridSize
  <2>6. ASSUME NEW o \in Nat, o < n PROVE o \div Rows < ColsOf(p)
    <3>1. PICK q \in Nat : q = o \div Rows
      BY GridSize, Div
    <3>2. q < c
      BY <2>2, <2>6, <3>1, GridSize, InCeil
    <3>3. q < Columns
      <4>1. o < Rows * Columns
        <5>1. n <= Rows * Columns
          BY <1>2, <2>1, OnPageOK DEF PageSize
        <5>. QED BY <2>6, <5>1, GridSize
      <4>. QED BY <3>1, <4>1, GridSize, DivLess
    <3>. QED BY <2>3, <2>4, <3>1, <3>2, <3>3, GridSize
  <2>. QED BY <1>2, <2>1, <2>3, <2>4, <2>5, <2>6, GridSize
<1>. QED BY <1>1, <1>2

-----------------------------------------------------------------------------
(* Cells: the rows of a column that hold a candidate, and its top.         *)

LEMMA MaxIn ==
  ASSUME NEW m \in Nat, NEW S, S \subseteq 0 .. m, S # {}
  PROVE  Max(S) \in S
<1>. DEFINE T == {m - x : x \in S}
<1>1. T \subseteq Nat /\ T # {}
  <2>1. \A x \in S : x \in 0 .. m
    OBVIOUS
  <2>2. \A x \in 0 .. m : m - x \in Nat
    OBVIOUS
  <2>. QED BY <2>1, <2>2
<1>. HIDE DEF T
<1>2. PICK n \in T : \A k \in T : n <= k
  BY <1>1, NatLeast
<1>3. PICK x \in S : n = m - x
  BY <1>2 DEF T
<1>4. ASSUME NEW y \in S PROVE x >= y
  <2>1. m - y \in T
    BY DEF T
  <2>2. m - x <= m - y
    BY <1>2, <1>3, <2>1
  <2>3. x \in 0 .. m /\ y \in 0 .. m
    BY <1>3, <1>4
  <2>. QED BY <2>2, <2>3
<1>. QED BY <1>4 DEF Max

-----------------------------------------------------------------------------
\* What the layout of a popup depends on.
SameList(p, q) == p.kind = q.kind /\ p.items = q.items /\ p.expanded = q.expanded

LEMMA SameLayout ==
  ASSUME NEW p, NEW q, SameList(p, q)
  PROVE  /\ Grid(p) <=> Grid(q)
         /\ PageSize(p) = PageSize(q) /\ Pages(p) = Pages(q)
         /\ p.page = q.page => /\ OnPage(p) = OnPage(q) /\ RowsOf(p) = RowsOf(q)
                               /\ ColsOf(p) = ColsOf(q)
BY DEF SameList, Grid, PageSize, Pages, OnPage, RowsOf, ColsOf

\* The popup with the cursor at another place.
Put(p, page, row, col) == [p EXCEPT !.page = page, !.row = row, !.col = col]

IsPut(q, p, page, row, col) ==
  /\ q \in PopupRec /\ SameList(p, q)
  /\ q.page = page /\ q.row = row /\ q.col = col /\ q.cat = p.cat

LEMMA PutOK ==
  ASSUME NEW p \in PopupRec, NEW page \in Nat, NEW row \in Nat, NEW col \in Nat,
         NEW q, q = Put(p, page, row, col)
  PROVE  IsPut(q, p, page, row, col)
BY DEF Put, PopupRec, SameList, IsPut

LEMMA RowsOK ==
  ASSUME NEW p \in PopupRec
  PROVE  /\ RowsOf(p) \in Nat /\ RowsOf(p) <= Rows
         /\ p.page < Pages(p) /\ p.items # <<>> => RowsOf(p) # 0
         /\ ~Grid(p) => RowsOf(p) = OnPage(p)
<1>1. p.items \in Seq(Nat) /\ p.page \in Nat
  BY DEF PopupRec
<1>2. OnPage(p) \in Nat /\ OnPage(p) <= PageSize(p)
  BY <1>1, OnPageOK
<1>3. CASE Grid(p)
  BY <1>3, GridSize DEF RowsOf
<1>4. CASE ~Grid(p)
  <2>1. RowsOf(p) = OnPage(p) /\ PageSize(p) = Rows
    BY <1>4 DEF RowsOf, PageSize
  <2>2. ASSUME p.page < Pages(p), p.items # <<>> PROVE RowsOf(p) # 0
    <3>1. p.page * PageSize(p) < Len(p.items)
      BY <1>1, <2>2, PagesOK
    <3>2. 0 < OnPage(p) <=> 0 < PageSize(p) /\ p.page * PageSize(p) + 0 < Len(p.items)
      BY <1>1, OnPageOK
    <3>3. p.page * PageSize(p) \in Nat
      BY <1>1, SizeOK
    <3>. QED BY <1>2, <2>1, <3>1, <3>2, <3>3, SizeOK
  <2>. QED BY <1>2, <1>4, <2>1, <2>2
<1>. QED BY <1>3, <1>4

\* There is a candidate at the top of every column of a page.
LEMMA TopCell ==
  ASSUME NEW p \in PopupRec, NEW col \in Nat, p.page < Pages(p), p.items # <<>>,
         col < ColsOf(p)
  PROVE  Cell(p, 0, col)
<1>1. p.items \in Seq(Nat) /\ p.page \in Nat
  BY DEF PopupRec
<1>2. p.page * PageSize(p) < Len(p.items)
  BY <1>1, PagesOK
<1>3. PICK b \in Nat : b = p.page * PageSize(p)
  BY <1>1, SizeOK
<1>4. CASE ~Grid(p)
  BY <1>2, <1>3, <1>4 DEF Cell, Index
<1>5. CASE Grid(p)
  <2>1. PICK o \in Nat : o = col * Rows
    BY GridSize
  <2>2. o = 0 \/ o < OnPage(p)
    <3>1. col = 0 => o = 0
      BY <2>1, GridSize
    <3>. QED BY <1>1, <1>5, <2>1, <3>1, ColsOK
  <2>3. b + o < Len(p.items)
    BY <1>1, <1>2, <1>3, <2>2, OnPageOK
  <2>4. Index(p, 0, col) = b + (o + 0)
    BY <1>3, <1>5, <2>1 DEF Index
  <2>. QED BY <2>3, <2>4 DEF Cell
<1>. QED BY <1>4, <1>5

-----------------------------------------------------------------------------
(* The cursor set to a candidate, to a page, to the next page.             *)

\* set_selected_global finds the candidate it is given.
LEMMA SetCursorOK ==
  ASSUME NEW p \in PopupRec, NEW i \in Nat, i < Len(p.items)
  PROVE  LET q == SetCursor(p, i)
         IN  /\ q \in PopupRec /\ SameList(p, q) /\ CursorOK(q) /\ q.cat = p.cat
             /\ Index(q, q.row, q.col) = i /\ OnCandidate(q)
<1>. DEFINE q == SetCursor(p, i)
<1>1. p.items \in Seq(Nat)
  BY DEF PopupRec
<1>2. PICK d \in Nat \ {0} : d = PageSize(p)
  BY SizeOK
<1>3. PICK page \in Nat : page = i \div d
  BY Div
<1>4. PICK o \in 0 .. d - 1 : o = i % d
  BY Div
<1>5. page < Pages(p)
  BY <1>1, <1>2, <1>3, PagesOK
<1>6. PICK b \in Nat : b = page * d
  OBVIOUS
<1>7. i = b + o
  <2>1. i = d * page + o
    BY <1>2, <1>3, <1>4, Div
  <2>2. d * page = b
    BY <1>6
  <2>. QED BY <2>1, <2>2
<1>8. PICK row \in Nat : row = (IF Grid(p) THEN o % Rows ELSE o) /\ row < Rows
  <2>1. CASE Grid(p)
    <3>1. Rows \in Nat \ {0} /\ o \in Nat
      BY <1>4, GridSize
    <3>2. o % Rows \in 0 .. Rows - 1
      BY <3>1, Div
    <3>. QED BY <2>1, <3>1, <3>2
  <2>2. CASE ~Grid(p)
    <3>1. d = Rows
      BY <1>2, <2>2 DEF PageSize
    <3>. QED BY <2>2, <3>1
  <2>. QED BY <2>1, <2>2
<1>9. PICK col \in Nat : col = (IF Grid(p) THEN o \div Rows ELSE 0)
  <2>1. o \div Rows \in Nat
    BY <1>4, Div, GridSize
  <2>. QED BY <2>1
<1>10. q = Put(p, page, row, col)
  BY <1>2, <1>3, <1>4, <1>8, <1>9 DEF SetCursor, Put
<1>. HIDE DEF q
<1>11. /\ q \in PopupRec /\ SameList(p, q) /\ q.cat = p.cat
       /\ q.page = page /\ q.row = row /\ q.col = col
  <2>1. IsPut(q, p, page, row, col)
    BY <1>10, PutOK
  <2>. QED BY <2>1 DEF IsPut
<1>12. /\ Pages(q) = Pages(p) /\ PageSize(q) = d /\ (Grid(q) <=> Grid(p))
       /\ q.items = p.items /\ q.items \in Seq(Nat) /\ q.page \in Nat
  BY <1>1, <1>2, <1>11, SameLayout DEF SameList
<1>13. o < OnPage(q)
  <2>1. q.page * PageSize(q) = b
    BY <1>6, <1>11, <1>12
  <2>2. o < PageSize(q) /\ b + o < Len(q.items)
    BY <1>7, <1>12
  <2>3. o \in Nat
    BY <1>4
  <2>4. o < OnPage(q) <=> o < PageSize(q) /\ q.page * PageSize(q) + o < Len(q.items)
    BY <1>12, <2>3, OnPageOK
  <2>. QED BY <2>1, <2>2, <2>4
<1>14. col < ColsOf(q)
  <2>1. CASE Grid(p)
    BY <1>9, <1>12, <1>13, <2>1, ColsOK
  <2>2. CASE ~Grid(p)
    BY <1>9, <1>12, <2>2, ColsOK
  <2>. QED BY <2>1, <2>2
<1>15. Index(q, q.row, q.col) = i
  <2>1. q.page * PageSize(q) = b
    BY <1>6, <1>11, <1>12
  <2>2. CASE Grid(p)
    <3>1. o = Rows * (o \div Rows) + (o % Rows)
      BY Div, GridSize
    <3>2. o = Rows * col + row
      BY <1>8, <1>9, <2>2, <3>1
    <3>3. Rows * col = col * Rows
      BY GridSize
    <3>4. Index(q, q.row, q.col) = b + (col * Rows + row)
      BY <1>11, <1>12, <2>1, <2>2 DEF Index
    <3>. QED BY <1>7, <3>2, <3>3, <3>4
  <2>3. CASE ~Grid(p)
    <3>1. Index(q, q.row, q.col) = b + row
      BY <1>11, <1>12, <2>1, <2>3 DEF Index
    <3>. QED BY <1>7, <1>8, <2>3, <3>1
  <2>. QED BY <2>2, <2>3
<1>16. OnCandidate(q)
  BY <1>12, <1>15 DEF OnCandidate, Cell
<1>17. CursorOK(q)
  BY <1>5, <1>8, <1>11, <1>12, <1>14, <1>16 DEF CursorOK
<1>. QED BY <1>11, <1>15, <1>16, <1>17 DEF q

\* The cursor at the first candidate of a page.
LEMMA ToPageOK ==
  ASSUME NEW p \in PopupRec, NEW page \in Nat, page < Pages(p)
  PROVE  LET q == ToPage(p, page)
         IN  /\ q \in PopupRec /\ SameList(p, q) /\ CursorOK(q) /\ q.page = page
             /\ OnCandidate(q) \/ q.items = <<>>
<1>. DEFINE q == Put(p, page, 0, 0)
<1>1. ToPage(p, page) = q
  BY DEF ToPage, Put
<1>2. q \in PopupRec /\ SameList(p, q) /\ q.page = page /\ q.row = 0 /\ q.col = 0
  <2>1. IsPut(q, p, page, 0, 0)
    BY PutOK
  <2>. QED BY <2>1 DEF IsPut
<1>. HIDE DEF q
<1>3. q.page < Pages(q)
  BY <1>2, SameLayout
<1>4. ColsOf(q) \in Nat \ {0}
  BY <1>2, ColsOK DEF PopupRec
<1>5. OnCandidate(q) \/ q.items = <<>>
  BY <1>2, <1>3, <1>4, TopCell DEF OnCandidate
<1>6. CursorOK(q)
  BY <1>2, <1>3, <1>4, <1>5, GridSize DEF CursorOK
<1>. QED BY <1>1, <1>2, <1>5, <1>6

LEMMA TurnedOK ==
  ASSUME NEW p \in PopupRec, NEW by \in {0, 2}
  PROVE  Turned(p, by) \in Nat /\ Turned(p, by) < Pages(p)
<1>1. PICK n \in Nat \ {0} : n = Pages(p)
  BY PagesOK DEF PopupRec
<1>2. PICK x \in Nat : x = p.page + n + by - 1
  BY DEF PopupRec
<1>3. x % n \in 0 .. n - 1
  BY Div
<1>4. Turned(p, by) = x % n
  BY <1>1, <1>2 DEF Turned
<1>. QED BY <1>1, <1>3, <1>4

-----------------------------------------------------------------------------
(* Keys that turn a page or expand the popup.                              *)

\* What a key or a page button makes of the popup, and the cursor on a candidate.
Moves(q, p) == q \in PopupRec /\ q.kind = p.kind /\ q.items = p.items /\ CursorOK(q)
Found(q) == OnCandidate(q) \/ q.items = <<>>

\* A popup with the cursor in a column there is.
InColumn(p) == p \in PopupRec /\ p.page < Pages(p) /\ p.row < Rows /\ p.col < ColsOf(p)

LEMMA CursorInColumn ==
  ASSUME NEW p \in PopupRec, CursorOK(p)
  PROVE  InColumn(p) /\ Moves(p, p)
BY DEF InColumn, CursorOK, Moves

LEMMA FoundMoves ==
  ASSUME NEW p, InColumn(p), Found(p)
  PROVE  Moves(p, p)
BY DEF InColumn, Moves, Found, CursorOK

LEMMA PutInColumn ==
  ASSUME NEW p \in PopupRec, p.page < Pages(p), NEW row \in Nat, NEW col \in Nat,
         row < Rows, col < ColsOf(p), NEW q, q = Put(p, p.page, row, col)
  PROVE  IsPut(q, p, p.page, row, col) /\ InColumn(q)
<1>1. p.page \in Nat
  BY DEF PopupRec
<1>2. IsPut(q, p, p.page, row, col)
  BY <1>1, PutOK
<1>3. SameList(p, q) /\ q.page = p.page
  BY <1>2 DEF IsPut
<1>4. Pages(q) = Pages(p) /\ ColsOf(q) = ColsOf(p)
  BY <1>3, SameLayout
<1>. QED BY <1>2, <1>4 DEF IsPut, InColumn

LEMMA PutRow ==
  ASSUME NEW p \in PopupRec, NEW row \in Nat
  PROVE  [p EXCEPT !.row = row] = Put(p, p.page, row, p.col)
BY DEF PopupRec, Put

LEMMA PutCol ==
  ASSUME NEW p \in PopupRec, NEW col \in Nat
  PROVE  [p EXCEPT !.col = col] = Put(p, p.page, p.row, col)
BY DEF PopupRec, Put

\* The row is corrected: what is at the top is a candidate.
LEMMA OrTopOK ==
  ASSUME NEW p, InColumn(p)
  PROVE  Moves(OrTop(p), p) /\ Found(OrTop(p))
<1>1. p \in PopupRec /\ p.page < Pages(p) /\ p.col < ColsOf(p) /\ p.col \in Nat /\ p.items \in Seq(Nat)
  BY DEF InColumn, PopupRec
<1>2. CASE OnCandidate(p)
  BY <1>2, FoundMoves DEF OrTop, Found
<1>3. CASE ~OnCandidate(p)
  <2>. DEFINE q == Put(p, p.page, 0, p.col)
  <2>1. OrTop(p) = q
    BY <1>1, <1>3, PutRow DEF OrTop
  <2>2. IsPut(q, p, p.page, 0, p.col) /\ InColumn(q)
    BY <1>1, PutInColumn, GridSize
  <2>. HIDE DEF q
  <2>3. q.items = p.items /\ q.kind = p.kind /\ q.row = 0 /\ q.col = p.col
    BY <2>2 DEF IsPut, SameList
  <2>4. q \in PopupRec /\ q.page < Pages(q) /\ q.col < ColsOf(q) /\ q.col \in Nat
    BY <2>2 DEF InColumn, PopupRec
  <2>5. Found(q)
    <3>1. q.items # <<>> => Cell(q, 0, q.col)
      BY <2>4, TopCell
    <3>. QED BY <2>3, <3>1 DEF Found, OnCandidate
  <2>6. Moves(q, q)
    BY <2>2, <2>5, FoundMoves
  <2>. QED BY <2>1, <2>3, <2>5, <2>6 DEF Moves
<1>. QED BY <1>2, <1>3

\* A key that goes to a page goes to its first candidate.
LEMMA TurnOK ==
  ASSUME NEW p \in PopupRec, CursorOK(p)
  PROVE  /\ Moves(NextPage(p), p) /\ Found(NextPage(p))
         /\ Moves(PrevPage(p), p) /\ Found(PrevPage(p))
<1>1. ASSUME NEW by \in {0, 2}
      PROVE  LET q == ToPage(p, Turned(p, by)) IN Moves(q, p) /\ Found(q)
  <2>1. Turned(p, by) \in Nat /\ Turned(p, by) < Pages(p)
    BY TurnedOK
  <2>. QED BY <2>1, ToPageOK DEF Moves, Found, SameList
<1>2. Moves(p, p)
  BY CursorInColumn
<1>3. Found(p) \/ Pages(p) > 1
  BY DEF CursorOK, Found
<1>. QED BY <1>1, <1>2, <1>3 DEF NextPage, PrevPage

LEMMA ToFirstOK ==
  ASSUME NEW p \in PopupRec
  PROVE  Moves(ToFirst(p), p) /\ Found(ToFirst(p))
<1>1. 0 < Pages(p)
  BY PagesOK DEF PopupRec
<1>. QED BY <1>1, ToPageOK DEF ToFirst, Moves, Found, SameList

LEMMA ToLastOK ==
  ASSUME NEW p \in PopupRec
  PROVE  Moves(ToLast(p), p) /\ Found(ToLast(p))
<1>1. Pages(p) \in Nat \ {0} /\ p.items \in Seq(Nat)
  BY PagesOK DEF PopupRec
<1>2. CASE p.items = <<>>
  <2>1. Pages(p) - 1 \in Nat /\ Pages(p) - 1 < Pages(p)
    BY <1>1
  <2>. QED BY <1>2, <2>1, ToPageOK DEF ToLast, Moves, Found, SameList
<1>3. CASE p.items # <<>>
  <2>1. Len(p.items) - 1 \in Nat /\ Len(p.items) - 1 < Len(p.items)
    BY <1>1, <1>3
  <2>. QED BY <1>3, <2>1, SetCursorOK DEF ToLast, Moves, Found, SameList
<1>. QED BY <1>2, <1>3

LEMMA ExpandOK ==
  ASSUME NEW p \in PopupRec
  PROVE  Moves(Expand(p), p) /\ Found(Expand(p))
<1>. DEFINE q == [p EXCEPT !.expanded = ~p.expanded]
<1>1. q \in PopupRec /\ q.kind = p.kind /\ q.items = p.items
  BY DEF PopupRec
<1>2. Expand(p) = ToPage(q, 0)
  BY DEF Expand, ToPage, PopupRec
<1>. HIDE DEF q
<1>3. 0 < Pages(q)
  BY <1>1, PagesOK DEF PopupRec
<1>. QED BY <1>1, <1>2, <1>3, ToPageOK DEF Moves, Found, SameList

-----------------------------------------------------------------------------
(* Keys that move the cursor on its page.                                  *)

LEMMA UpOK ==
  ASSUME NEW p \in PopupRec, CursorOK(p)
  PROVE  Moves(Up(p), p) /\ Found(Up(p))
<1>1. PICK n \in Nat : n = RowsOf(p) /\ n <= Rows
  BY RowsOK
<1>2. p.page < Pages(p) /\ p.row \in Nat /\ p.col \in Nat /\ p.col < ColsOf(p)
  BY DEF CursorOK, PopupRec
<1>3. CASE n = 0
  <2>1. p.items = <<>>
    BY <1>1, <1>2, <1>3, RowsOK
  <2>2. Up(p) = p
    BY <1>1, <1>3 DEF Up
  <2>. QED BY <2>1, <2>2, CursorInColumn DEF Found
<1>4. CASE n # 0
  <2>1. PICK above \in Nat : above = (p.row + n - 1) % n /\ above < n
    <3>1. PICK x \in Nat : x = p.row + n - 1
      BY <1>2, <1>4
    <3>2. n \in Nat \ {0}
      BY <1>4
    <3>3. x % n \in 0 .. n - 1
      BY <3>2, Div
    <3>. QED BY <3>1, <3>3
  <2>. DEFINE T == {r \in 0 .. above : r = 0 \/ Cell(p, r, p.col)}
  <2>2. Max(T) \in T
    <3>1. 0 \in 0 .. above
      OBVIOUS
    <3>2. 0 \in T
      BY <3>1
    <3>3. T \subseteq 0 .. above /\ T # {}
      BY <3>2
    <3>. HIDE DEF T
    <3>. QED BY <3>3, MaxIn
  <2>3. PICK r \in T : r = Max(T)
    BY <2>2
  <2>4. r \in 0 .. above /\ (r = 0 \/ Cell(p, r, p.col))
    OBVIOUS
  <2>5. r \in Nat /\ r < Rows
    <3>. HIDE DEF T
    <3>1. r \in Nat /\ r <= above
      BY <2>4
    <3>. QED BY <1>1, <2>1, <3>1, GridSize
  <2>6. Up(p) = Put(p, p.page, r, p.col)
    <3>1. Up(p) = [p EXCEPT !.row = r]
      BY <1>1, <1>4, <2>1, <2>3 DEF Up
    <3>. QED BY <2>5, <3>1, PutRow
  <2>7. Cell(p, r, p.col) \/ p.items = <<>>
    BY <1>2, <2>4, TopCell
  <2>. HIDE DEF T
  <2>8. PICK q : q = Put(p, p.page, r, p.col)
    OBVIOUS
  <2>9. IsPut(q, p, p.page, r, p.col) /\ InColumn(q)
    BY <1>2, <2>5, <2>8, PutInColumn
  <2>10. SameList(p, q) /\ q.page = p.page /\ q.row = r /\ q.col = p.col
    BY <2>9 DEF IsPut
  <2>11. Found(q)
    <3>1. Index(q, q.row, q.col) = Index(p, r, p.col)
      BY <2>10, SameLayout DEF Index
    <3>. QED BY <2>7, <2>10, <3>1 DEF Found, OnCandidate, Cell, SameList
  <2>. QED BY <2>6, <2>8, <2>9, <2>10, <2>11, FoundMoves DEF Moves, SameList
<1>. QED BY <1>3, <1>4

LEMMA DownOK ==
  ASSUME NEW p \in PopupRec, CursorOK(p)
  PROVE  Moves(Down(p), p) /\ Found(Down(p))
<1>1. PICK n \in Nat : n = RowsOf(p) /\ n <= Rows
  BY RowsOK
<1>2. p.page < Pages(p) /\ p.row \in Nat /\ p.col \in Nat /\ p.col < ColsOf(p)
  BY DEF CursorOK, PopupRec
<1>3. CASE n = 0
  <2>1. p.items = <<>>
    BY <1>1, <1>2, <1>3, RowsOK
  <2>2. Down(p) = p
    BY <1>1, <1>3 DEF Down
  <2>. QED BY <2>1, <2>2, CursorInColumn DEF Found
<1>4. CASE n # 0
  <2>1. PICK row \in Nat : row = (p.row + 1) % n /\ row < n
    <3>1. PICK x \in Nat : x = p.row + 1
      BY <1>2
    <3>2. n \in Nat \ {0}
      BY <1>4
    <3>3. x % n \in 0 .. n - 1
      BY <3>2, Div
    <3>. QED BY <3>1, <3>3
  <2>2. PICK q : q = Put(p, p.page, row, p.col)
    OBVIOUS
  <2>3. row < Rows
    BY <1>1, <2>1, GridSize
  <2>4. IsPut(q, p, p.page, row, p.col) /\ InColumn(q)
    BY <1>2, <2>2, <2>3, PutInColumn
  <2>5. Down(p) = OrTop(q)
    <3>1. Down(p) = OrTop([p EXCEPT !.row = row])
      BY <1>1, <1>4, <2>1 DEF Down
    <3>. QED BY <2>2, <3>1, PutRow
  <2>. QED BY <2>4, <2>5, OrTopOK DEF Moves, IsPut, SameList
<1>. QED BY <1>3, <1>4

LEMMA SidewaysOK ==
  ASSUME NEW p \in PopupRec, CursorOK(p), NEW by \in {0, 2}
  PROVE  Moves(Sideways(p, by), p) /\ Found(Sideways(p, by))
<1>1. PICK n \in Nat \ {0} : n = ColsOf(p)
  BY ColsOK DEF PopupRec
<1>2. p.page < Pages(p) /\ p.row \in Nat /\ p.col \in Nat /\ p.row < Rows
  BY DEF CursorOK, PopupRec
<1>3. PICK col \in Nat : col = (p.col + n + by - 1) % n /\ col < n
  <2>1. PICK x \in Nat : x = p.col + n + by - 1
    BY <1>2
  <2>2. x % n \in 0 .. n - 1
    BY Div
  <2>. QED BY <2>1, <2>2
<1>4. PICK q : q = Put(p, p.page, p.row, col)
  OBVIOUS
<1>5. IsPut(q, p, p.page, p.row, col) /\ InColumn(q)
  BY <1>1, <1>2, <1>3, <1>4, PutInColumn
<1>6. Sideways(p, by) = OrTop(q)
  <2>1. Sideways(p, by) = OrTop([p EXCEPT !.col = col])
    BY <1>1, <1>3 DEF Sideways
  <2>. QED BY <1>4, <2>1, PutCol
<1>. QED BY <1>5, <1>6, OrTopOK DEF Moves, IsPut, SameList

LEMMA ColumnOK ==
  ASSUME NEW p \in PopupRec, CursorOK(p), NEW col \in Nat
  PROVE  Moves(Column(p, col), p)
<1>. DEFINE filled == {r \in 0 .. Rows - 1 : Cell(p, r, col)}
<1>1. p.page < Pages(p) /\ p.row \in Nat /\ p.row < Rows
  BY DEF CursorOK, PopupRec
<1>2. CASE col >= ColsOf(p)
  BY <1>2, CursorInColumn DEF Column
<1>3. CASE ~(col >= ColsOf(p))
  <2>1. col < ColsOf(p)
    BY <1>3, ColsOK DEF PopupRec
  <2>2. PICK row : row = IF p.row \in filled \/ filled = {} THEN p.row ELSE Max(filled)
    OBVIOUS
  <2>3. filled # {} => row \in filled
    <3>1. filled # {} => Max(filled) \in filled
      <4>1. Rows - 1 \in Nat
        BY GridSize
      <4>2. filled \subseteq 0 .. Rows - 1
        OBVIOUS
      <4>. HIDE DEF filled
      <4>. QED BY <4>1, <4>2, MaxIn
    <3>. HIDE DEF filled
    <3>. QED BY <2>2, <3>1
  <2>4. row \in Nat /\ row < Rows
    <3>1. filled = {} => row = p.row
      BY <2>2
    <3>2. row \in filled => row \in 0 .. Rows - 1
      OBVIOUS
    <3>. QED BY <1>1, <2>3, <3>1, <3>2, GridSize
  <2>5. Cell(p, row, col) \/ p.items = <<>>
    <3>1. p.items # <<>> => Cell(p, 0, col)
      BY <1>1, <2>1, TopCell
    <3>2. Cell(p, 0, col) => 0 \in filled
      BY GridSize
    <3>3. row \in filled => Cell(p, row, col)
      OBVIOUS
    <3>. HIDE DEF filled
    <3>. QED BY <2>3, <3>1, <3>2, <3>3
  <2>6. Column(p, col) = Put(p, p.page, row, col)
    <3>1. Column(p, col) = [p EXCEPT !.col = col, !.row = row]
      BY <1>3, <2>2 DEF Column
    <3>. HIDE DEF filled
    <3>. QED BY <3>1 DEF PopupRec, Put
  <2>. HIDE DEF filled
  <2>7. PICK q : q = Put(p, p.page, row, col)
    OBVIOUS
  <2>8. IsPut(q, p, p.page, row, col) /\ InColumn(q)
    BY <1>1, <2>1, <2>4, <2>7, PutInColumn
  <2>9. SameList(p, q) /\ q.page = p.page /\ q.row = row /\ q.col = col
    BY <2>8 DEF IsPut
  <2>10. Found(q)
    <3>1. Index(q, q.row, q.col) = Index(p, row, col)
      BY <2>9, SameLayout DEF Index
    <3>. QED BY <2>5, <2>9, <3>1 DEF Found, OnCandidate, Cell, SameList
  <2>. QED BY <2>6, <2>7, <2>8, <2>9, <2>10, FoundMoves DEF Moves, SameList
<1>. QED BY <1>2, <1>3

-----------------------------------------------------------------------------
(* The page buttons, and all keys together.                                *)

\* A page button leaves the cursor where it was, but on the page.
LEMMA ChangePageOK ==
  ASSUME NEW p \in PopupRec, CursorOK(p), NEW by \in {0, 2}
  PROVE  Moves(ChangePage(p, by), p)
<1>1. p.row \in Nat /\ p.col \in Nat /\ p.row < Rows /\ p.items \in Seq(Nat)
  BY DEF CursorOK, PopupRec
<1>2. CASE Pages(p) <= 1
  BY <1>2, CursorInColumn DEF ChangePage
<1>3. CASE ~(Pages(p) <= 1)
  <2>1. PICK page \in Nat : page = Turned(p, by) /\ page < Pages(p)
    BY TurnedOK
  <2>2. PICK q : q = [p EXCEPT !.page = page]
    OBVIOUS
  <2>3. /\ q \in PopupRec /\ SameList(p, q) /\ q.items \in Seq(Nat)
        /\ q.page = page /\ q.row = p.row /\ q.col = p.col
    BY <1>1, <2>2 DEF PopupRec, SameList
  <2>4. q.page < Pages(q)
    BY <2>1, <2>3, SameLayout
  <2>5. PICK n \in Nat : n = RowsOf(q)
    BY <2>3, RowsOK
  <2>6. PICK m \in Nat : m = Most(n, 1) - 1 /\ m = IF n >= 1 THEN n - 1 ELSE 0
    BY MostOfTwo
  <2>7. PICK row \in Nat : row = Least(p.row, m) /\ row <= p.row /\ row <= m
    BY <1>1, LeastOfTwo
  <2>8. PICK c \in Nat \ {0} : c = ColsOf(q)
    BY <2>3, ColsOK DEF PopupRec
  <2>9. PICK col \in Nat : col = Least(p.col, c - 1) /\ col < c
    <3>1. c - 1 \in Nat
      OBVIOUS
    <3>. QED BY <1>1, <3>1, LeastOfTwo
  <2>10. PICK z : z = Put(q, page, row, col)
    OBVIOUS
  <2>11. ChangePage(p, by) = z
    <3>1. ChangePage(p, by) = [q EXCEPT !.row = row, !.col = col]
      <4>1. row = Least(q.row, Most(RowsOf(q), 1) - 1)
        BY <2>3, <2>5, <2>6, <2>7
      <4>2. col = Least(q.col, ColsOf(q) - 1)
        BY <2>3, <2>8, <2>9
      <4>. QED BY <1>3, <2>1, <2>2, <4>1, <4>2 DEF ChangePage
    <3>2. [q EXCEPT !.row = row, !.col = col] = Put(q, page, row, col)
      BY <2>3 DEF Put, PopupRec
    <3>. QED BY <2>10, <3>1, <3>2
  <2>12. row < Rows
    BY <1>1, <2>7, GridSize
  <2>13. IsPut(z, q, q.page, row, col) /\ InColumn(z)
    BY <2>3, <2>4, <2>8, <2>9, <2>10, <2>12, PutInColumn
  <2>14. SameList(q, z) /\ z.page = page /\ z.row = row /\ z.col = col
    BY <2>3, <2>13 DEF IsPut
  <2>15. z.items = <<>> \/ OnCandidate(z) \/ (Grid(z) /\ Pages(z) > 1)
    <3>1. CASE Grid(p)
      <4>1. Grid(z) /\ Pages(z) = Pages(p)
        BY <2>3, <2>14, <3>1, SameLayout
      <4>2. Pages(p) \in Nat
        BY <1>1, PagesOK
      <4>. QED BY <1>3, <4>1, <4>2
    <3>2. CASE ~Grid(p) /\ z.items # <<>>
      <4>1. ~Grid(q) /\ ~Grid(z) /\ q.items # <<>> /\ PageSize(z) = PageSize(q)
        BY <2>3, <2>14, <3>2, SameLayout DEF SameList
      <4>2. n = OnPage(q) /\ n # 0
        BY <2>3, <2>4, <2>5, <4>1, RowsOK
      <4>3. row < OnPage(q)
        BY <2>6, <2>7, <4>2
      <4>4. q.page * PageSize(q) + row < Len(q.items)
        BY <2>3, <4>3, OnPageOK
      <4>5. Index(z, z.row, z.col) = q.page * PageSize(q) + row
        BY <2>3, <2>14, <4>1 DEF Index
      <4>. QED BY <2>14, <4>4, <4>5 DEF OnCandidate, Cell, SameList
    <3>. QED BY <3>1, <3>2
  <2>. QED BY <2>3, <2>11, <2>13, <2>14, <2>15 DEF Moves, InColumn, CursorOK, SameList
<1>. QED BY <1>2, <1>3

\* A key of the popup leaves the cursor in the popup, and, column letters
\* apart, on a candidate.
LEMMA MovedOK ==
  ASSUME NEW p \in PopupRec, CursorOK(p), NEW k
  PROVE  Moves(Moved(p, k), p) /\ (k \notin {"q", "w"} => Found(Moved(p, k)))
<1>1. Moves(p, p)
  BY CursorInColumn
<1>2. Moves(Right(p), p) /\ Found(Right(p)) /\ Moves(Left(p), p) /\ Found(Left(p))
  BY SidewaysOK, TurnOK DEF Right, Left
<1>3. Moves(Column(p, 0), p) /\ Moves(Column(p, 1), p)
  BY ColumnOK
<1>. QED
  BY <1>2, <1>3, UpOK, DownOK, ToFirstOK, ToLastOK, ExpandOK, TurnOK DEF Moved

-----------------------------------------------------------------------------
(* The order of the Hanja.                                                 *)

\* The Hanja are in order: no two have the same place, and every place has one.
LEMMA PlaceType ==
  ASSUME NEW set, NEW h \in 1 .. Hanja
  PROVE  Place(h, set) \in 1 .. Hanja
<1>. DEFINE S == 1 .. Hanja
            T == {g \in 1 .. Hanja : Precedes(g, h, set)}
<1>1. Hanja \in Nat \ {0}
  BY GridSize
<1>2. IsFiniteSet(S) /\ Cardinality(S) = Hanja
  <2>1. IsFiniteSet(1 .. Hanja) /\ Cardinality(1 .. Hanja) = IF 1 > Hanja THEN 0 ELSE Hanja - 1 + 1
    BY <1>1, FS_Interval
  <2>. QED BY <1>1, <2>1
<1>3. h \notin T
  BY DEF Precedes
<1>4. T \in SUBSET S /\ S # T
  BY <1>3
<1>5. Place(h, set) = Cardinality(T) + 1
  BY DEF Place
<1>. HIDE DEF S, T
<1>6. IsFiniteSet(T) /\ Cardinality(T) <= Cardinality(S) /\ Cardinality(T) # Cardinality(S)
  BY <1>2, <1>4, FS_Subset
<1>7. Cardinality(T) \in Nat
  BY <1>6, FS_CardinalityType
<1>. QED BY <1>1, <1>2, <1>5, <1>6, <1>7

LEMMA PrecedesPlace ==
  ASSUME NEW set, NEW g \in 1 .. Hanja, NEW h \in 1 .. Hanja, Precedes(g, h, set)
  PROVE  Place(g, set) < Place(h, set)
<1>. DEFINE S == {x \in 1 .. Hanja : Precedes(x, h, set)}
            T == {x \in 1 .. Hanja : Precedes(x, g, set)}
<1>1. g \in S /\ g \notin T
  BY DEF Precedes
<1>2. \A x \in 1 .. Hanja : Precedes(x, g, set) => Precedes(x, h, set)
  BY GridSize DEF Precedes
<1>3. T \in SUBSET S /\ S # T
  BY <1>1, <1>2
<1>4. Place(h, set) = Cardinality(S) + 1 /\ Place(g, set) = Cardinality(T) + 1
  BY DEF Place
<1>5. S \in SUBSET (1 .. Hanja)
  OBVIOUS
<1>. HIDE DEF S, T
<1>6. IsFiniteSet(S)
  <2>1. IsFiniteSet(1 .. Hanja)
    BY GridSize, FS_Interval
  <2>. QED BY <1>5, <2>1, FS_Subset
<1>7. IsFiniteSet(T) /\ Cardinality(T) <= Cardinality(S) /\ Cardinality(T) # Cardinality(S)
  BY <1>3, <1>6, FS_Subset
<1>8. Cardinality(S) \in Nat /\ Cardinality(T) \in Nat
  BY <1>6, <1>7, FS_CardinalityType
<1>. QED BY <1>4, <1>7, <1>8

LEMMA PlaceOnce ==
  ASSUME NEW set, NEW g \in 1 .. Hanja, NEW h \in 1 .. Hanja, Place(g, set) = Place(h, set)
  PROVE  g = h
<1>. SUFFICES ASSUME g # h PROVE FALSE
  OBVIOUS
<1>1. Precedes(g, h, set) \/ Precedes(h, g, set)
  BY GridSize DEF Precedes
<1>2. Place(g, set) \in 1 .. Hanja /\ Place(h, set) \in 1 .. Hanja
  BY PlaceType
<1>. QED BY <1>1, <1>2, PrecedesPlace

LEMMA PlaceTaken ==
  ASSUME NEW set, NEW n \in 1 .. Hanja
  PROVE  \E h \in 1 .. Hanja : Place(h, set) = n
<1>. DEFINE S == 1 .. Hanja
            f == [h \in S |-> Place(h, set)]
<1>1. f \in [S -> S]
  BY PlaceType
<1>2. \A g, h \in S : f[g] = f[h] => g = h
  BY PlaceOnce
<1>3. IsFiniteSet(S)
  BY GridSize, FS_Interval
<1>4. f \in Surjection(S, S)
  <2>. HIDE DEF f, S
  <2>1. f \in Injection(S, S)
    BY <1>1, <1>2 DEF Injection, IsInjective
  <2>. QED BY <1>3, <2>1, FS_Injection
<1>5. \A m \in S : \E h \in S : f[h] = m
  <2>. HIDE DEF f, S
  <2>. QED BY <1>4 DEF Surjection
<1>. QED BY <1>5

\* The list of candidates: one of each Hanja, at its place.
LEMMA OrderOK ==
  ASSUME NEW set \in SUBSET (1 .. Hanja)
  PROVE  /\ Order[set] \in Seq(Nat) /\ Len(Order[set]) = Hanja
         /\ \A n \in 1 .. Hanja : Order[set][n] \in 1 .. Hanja /\ Place(Order[set][n], set) = n
         /\ \A h \in 1 .. Hanja : Order[set][Place(h, set)] = h
<1>. DEFINE list == [n \in 1 .. Hanja |-> CHOOSE h \in 1 .. Hanja : Place(h, set) = n]
<1>1. Order[set] = list
  BY DEF Order
<1>2. \A n \in 1 .. Hanja : list[n] \in 1 .. Hanja /\ Place(list[n], set) = n
  BY PlaceTaken
<1>3. DOMAIN list = 1 .. Hanja /\ list = [n \in 1 .. Hanja |-> list[n]]
  OBVIOUS
<1>. HIDE DEF list
<1>4. list \in [1 .. Hanja -> Nat]
  BY <1>2, <1>3, GridSize
<1>5. list \in Seq(Nat) /\ Len(list) = Hanja
  BY <1>4, GridSize
<1>6. \A h \in 1 .. Hanja : list[Place(h, set)] = h
  BY <1>2, PlaceType, PlaceOnce
<1>. QED BY <1>1, <1>2, <1>5, <1>6

\* The bookmarked come first.
LEMMA MarkedFirst ==
  ASSUME NEW set \in SUBSET (1 .. Hanja), NEW i \in 1 .. Hanja, NEW j \in 1 .. Hanja,
         i < j, Order[set][j] \in set
  PROVE  Order[set][i] \in set
<1>. SUFFICES ASSUME Order[set][i] \notin set PROVE FALSE
  OBVIOUS
<1>1. PICK g \in 1 .. Hanja : g = Order[set][j] /\ Place(g, set) = j
  BY OrderOK
<1>2. PICK h \in 1 .. Hanja : h = Order[set][i] /\ Place(h, set) = i
  BY OrderOK
<1>3. Precedes(g, h, set)
  BY <1>1, <1>2 DEF Precedes
<1>4. j < i
  BY <1>1, <1>2, <1>3, PrecedesPlace
<1>. QED BY <1>4, GridSize

-----------------------------------------------------------------------------
(* Bookmarks: the Hanja moves and the cursor with it.                      *)

\* The popup of the engine: closed, or with its cursor in the grid on a page
\* there is; one of Hanja lists them in the order of the bookmarks, and belongs
\* to the conversion of Hanja.
PopupInv ==
  /\ popup = Closed \/ (popup \in PopupRec /\ CursorOK(popup))
  /\ popup.kind = "hanja" => popup.items = Order[marks]
  /\ mode = "hanja" => popup = Closed \/ popup.kind = "hanja"
  /\ marks \in SUBSET (1 .. Hanja) /\ mode \in {"none", "hanja", "special"}

LEMMA ClosedKind ==
  /\ Closed.kind = "none" /\ Closed.items = <<>> /\ Closed \notin PopupRec
  /\ \A p \in PopupRec : p.kind \in Kinds /\ p # Closed
BY DEF Closed, PopupRec, Kinds

LEMMA ToggledOK ==
  ASSUME marks \in SUBSET (1 .. Hanja), NEW index \in Nat, index < Hanja
  PROVE  /\ Toggled(index).marks \in SUBSET (1 .. Hanja)
         /\ Toggled(index).at \in Nat /\ Toggled(index).at < Hanja
         /\ Order[Toggled(index).marks][Toggled(index).at + 1] = Order[marks][index + 1]
<1>1. index + 1 \in 1 .. Hanja
  BY GridSize
<1>2. PICK hanja \in 1 .. Hanja : hanja = Order[marks][index + 1]
  BY <1>1, OrderOK
<1>3. PICK set \in SUBSET (1 .. Hanja) :
        set = IF hanja \in marks THEN marks \ {hanja} ELSE marks \cup {hanja}
  OBVIOUS
<1>4. PICK n \in 1 .. Hanja : n = Place(hanja, set)
  BY PlaceType
<1>5. Toggled(index) = [marks |-> set, at |-> n - 1]
  BY <1>2, <1>3, <1>4 DEF Toggled
<1>6. Order[set][n] = hanja
  BY <1>4, OrderOK
<1>7. n - 1 \in Nat /\ n - 1 < Hanja /\ (n - 1) + 1 = n
  BY GridSize
<1>. QED BY <1>2, <1>5, <1>6, <1>7

\* The popup as it is after a bookmark, when there is one.
LEMMA ToggleOK ==
  ASSUME PopupInv, NEW index \in Nat, index < Hanja, mode = "hanja" \/ popup.kind = "hanja",
         ToggleBookmark(index)
  PROVE  /\ PopupInv'
         /\ popup = Closed <=> popup' = Closed
         /\ popup # Closed =>
              /\ popup.kind = "hanja" /\ popup'.kind = "hanja"
              /\ popup'.expanded = popup.expanded /\ popup'.cat = popup.cat
              /\ popup'.items = Order[marks'] /\ Len(popup.items) = Len(popup'.items)
              /\ OnCandidate(popup')
              /\ AtCursor(popup') = Order[marks][index + 1]
<1>. DEFINE new == Toggled(index)
            sorted == [popup EXCEPT !.items = Order[new.marks]]
<1>1. marks \in SUBSET (1 .. Hanja)
  BY DEF PopupInv
<1>2. /\ new.marks \in SUBSET (1 .. Hanja) /\ new.at \in Nat /\ new.at < Hanja
      /\ Order[new.marks][new.at + 1] = Order[marks][index + 1]
  BY <1>1, ToggledOK
<1>3. /\ marks' = new.marks /\ mode' = mode
      /\ popup' = IF popup = Closed THEN Closed ELSE SetCursor(sorted, new.at)
  BY DEF ToggleBookmark
<1>. HIDE DEF new
<1>4. CASE popup = Closed
  BY <1>2, <1>3, <1>4, ClosedKind DEF PopupInv
<1>5. CASE popup # Closed
  <2>1. popup \in PopupRec /\ popup.kind = "hanja" /\ popup.items = Order[marks]
    BY <1>5 DEF PopupInv
  <2>2. /\ Order[new.marks] \in Seq(Nat) /\ Len(Order[new.marks]) = Hanja
        /\ Len(Order[marks]) = Hanja
    BY <1>1, <1>2, OrderOK
  <2>3. /\ sorted \in PopupRec /\ sorted.items = Order[new.marks] /\ sorted.kind = "hanja"
        /\ sorted.expanded = popup.expanded /\ sorted.cat = popup.cat
    BY <2>1, <2>2 DEF PopupRec
  <2>. HIDE DEF sorted
  <2>4. PICK q : q = SetCursor(sorted, new.at)
    OBVIOUS
  <2>5. /\ q \in PopupRec /\ SameList(sorted, q) /\ CursorOK(q) /\ q.cat = sorted.cat
        /\ Index(q, q.row, q.col) = new.at /\ OnCandidate(q)
    BY <1>2, <2>2, <2>3, <2>4, SetCursorOK
  <2>6. /\ q.kind = "hanja" /\ q.items = Order[new.marks] /\ q.expanded = popup.expanded
    BY <2>3, <2>5 DEF SameList
  <2>7. popup' = q
    BY <1>3, <1>5, <2>4
  <2>8. AtCursor(q) = Order[marks][index + 1]
    BY <1>2, <2>5, <2>6 DEF AtCursor
  <2>9. q # Closed
    BY <2>5, ClosedKind
  <2>10. PopupInv'
    BY <1>2, <1>3, <2>5, <2>6, <2>7 DEF PopupInv
  <2>11. OnCandidate(popup') /\ AtCursor(popup') = Order[marks][index + 1]
    BY <2>5, <2>7, <2>8
  <2>. QED BY <1>3, <1>5, <2>1, <2>2, <2>3, <2>5, <2>6, <2>7, <2>9, <2>10, <2>11
<1>. QED BY <1>4, <1>5

\* The candidate of the cursor as a place in the list.
LEMMA CursorIndex ==
  ASSUME NEW p \in PopupRec, OnCandidate(p)
  PROVE  Index(p, p.row, p.col) \in Nat /\ Index(p, p.row, p.col) < Len(p.items)
<1>1. p.page \in Nat /\ p.row \in Nat /\ p.col \in Nat
  BY DEF PopupRec
<1>2. p.page * PageSize(p) \in Nat /\ p.col * Rows \in Nat
  BY <1>1, SizeOK, GridSize
<1>3. Index(p, p.row, p.col) \in Nat
  BY <1>1, <1>2 DEF Index
<1>. QED BY <1>3 DEF OnCandidate, Cell

LEMMA BookmarkIndex ==
  ASSUME PopupInv, BookmarkKey
  PROVE  /\ popup # Closed /\ popup.kind = "hanja" /\ OnCandidate(popup)
         /\ popup \in PopupRec /\ popup.items = Order[marks] /\ marks \in SUBSET (1 .. Hanja)
         /\ \E index \in Nat :
              /\ index = Index(popup, popup.row, popup.col) /\ index < Hanja
              /\ ToggleBookmark(index)
<1>1. /\ popup # Closed /\ popup.kind = "hanja" /\ OnCandidate(popup)
      /\ popup \in PopupRec /\ popup.items = Order[marks] /\ marks \in SUBSET (1 .. Hanja)
  BY DEF BookmarkKey, InPopup, PopupInv
<1>2. PICK index \in Nat : index = Index(popup, popup.row, popup.col) /\ index < Hanja
  <2>1. /\ Index(popup, popup.row, popup.col) \in Nat
        /\ Index(popup, popup.row, popup.col) < Len(popup.items)
    BY <1>1, CursorIndex
  <2>2. Len(popup.items) = Hanja
    BY <1>1, OrderOK
  <2>. QED BY <2>1, <2>2
<1>3. ToggleBookmark(index)
  BY <1>2 DEF BookmarkKey
<1>. QED BY <1>1, <1>2, <1>3

LEMMA BookmarkStep ==
  ASSUME PopupInv, BookmarkKey
  PROVE  /\ OnCandidate(popup') /\ AtCursor(popup') = AtCursor(popup)
         /\ \A i, j \in 1 .. Hanja :
              i < j /\ popup'.items[j] \in marks' => popup'.items[i] \in marks'
<1>1. /\ popup # Closed /\ popup.kind = "hanja" /\ OnCandidate(popup)
      /\ popup \in PopupRec /\ popup.items = Order[marks] /\ marks \in SUBSET (1 .. Hanja)
  BY BookmarkIndex
<1>2. PICK index \in Nat : /\ index = Index(popup, popup.row, popup.col) /\ index < Hanja
                          /\ ToggleBookmark(index)
  BY BookmarkIndex
<1>4. /\ PopupInv' /\ popup'.items = Order[marks'] /\ OnCandidate(popup')
      /\ AtCursor(popup') = Order[marks][index + 1]
  BY <1>1, <1>2, ToggleOK
<1>5. AtCursor(popup) = Order[marks][index + 1]
  BY <1>1, <1>2 DEF AtCursor
<1>6. marks' \in SUBSET (1 .. Hanja)
  BY <1>4 DEF PopupInv
<1>. QED BY <1>4, <1>5, <1>6, MarkedFirst

-----------------------------------------------------------------------------
(* Signals, calls and popups as they open.                                 *)

SignalRec ==
  [act : {"show", "hide", "navigate", "reorder"}, kind : Kinds \cup {"none"},
   items : Seq(Nat), page : Nat, row : Nat, col : Nat, cols : Nat \ {0},
   from : {"key", "call"}]
SignalOK == {s \in SignalRec : s.act = "show" => s.kind \in Kinds}
Drawing == [items : Seq(Nat), page : Nat, row : Nat, col : Nat, cols : Nat \ {0}]

\* What a call of a window names is a candidate or a category.
CallOK(c) == c.index \in Nat /\ (c.op = "category" => c.index \in DOMAIN Emojis)
CallsInv == \A c \in calls : CallOK(c)

-----------------------------------------------------------------------------
\* A popup as it opens.
LEMMA NewPopup ==
  ASSUME NEW kind \in Kinds, NEW items \in Seq(Nat), NEW cat \in DOMAIN Emojis
  PROVE  LET p == Popup(kind, items, cat)
         IN  /\ p \in PopupRec /\ CursorOK(p)
             /\ p.kind = kind /\ p.items = items /\ p.cat = cat
<1>1. PICK p : p = Popup(kind, items, cat)
  OBVIOUS
<1>2. /\ p \in PopupRec /\ p.kind = kind /\ p.items = items /\ p.cat = cat
      /\ p = ToPage(p, 0)
  <2>1. p = [kind |-> kind, items |-> items, page |-> 0, row |-> 0, col |-> 0,
             expanded |-> FALSE, cat |-> cat]
    BY <1>1 DEF Popup, Closed
  <2>2. p \in PopupRec
    BY <2>1 DEF PopupRec
  <2>3. p.kind = kind /\ p.items = items /\ p.cat = cat
    BY <2>1
  <2>4. p = ToPage(p, 0)
    <3>1. p.page = 0 /\ p.row = 0 /\ p.col = 0
      BY <2>1
    <3>. QED BY <2>2, <3>1 DEF ToPage, PopupRec
  <2>. QED BY <2>2, <2>3, <2>4
<1>3. 0 < Pages(p)
  BY <1>2, PagesOK DEF PopupRec
<1>4. CursorOK(p)
  BY <1>2, <1>3, ToPageOK
<1>. QED BY <1>1, <1>2, <1>4

LEMMA EmojisOK ==
  /\ 1 \in DOMAIN Emojis /\ 2 \in DOMAIN Emojis
  /\ \A cat \in DOMAIN Emojis : NextCategory(cat) \in DOMAIN Emojis
  /\ FirstCategory \in DOMAIN Emojis
  /\ DOMAIN Emojis \subseteq Nat
<1>1. PICK n \in Nat \ {0} : n = Len(Emojis) /\ DOMAIN Emojis = 1 .. n /\ n > 1
  BY PopupAssumption
<1>2. ASSUME NEW cat \in DOMAIN Emojis PROVE NextCategory(cat) \in DOMAIN Emojis
  <2>1. PICK c \in Nat : c = cat
    BY <1>1
  <2>2. c % n \in 0 .. n - 1
    BY Div
  <2>3. NextCategory(cat) = (c % n) + 1
    BY <1>1, <2>1 DEF NextCategory
  <2>. QED BY <1>1, <2>2, <2>3
<1>. QED BY <1>1, <1>2 DEF FirstCategory

LEMMA EmojiPopupOK ==
  ASSUME NEW cat \in DOMAIN Emojis
  PROVE  LET p == EmojiPopup(cat)
         IN  p \in PopupRec /\ CursorOK(p) /\ p.kind = "emoji" /\ p # Closed
<1>1. Emojis[cat] \in Nat /\ cat \in Nat
  BY PopupAssumption, EmojisOK
<1>2. Category(cat) \in Seq(Nat)
  BY <1>1 DEF Category
<1>3. "emoji" \in Kinds
  BY DEF Kinds
<1>4. PICK p : p = EmojiPopup(cat)
  OBVIOUS
<1>5. p \in PopupRec /\ CursorOK(p) /\ p.kind = "emoji"
  BY <1>2, <1>3, <1>4, NewPopup DEF EmojiPopup
<1>. QED BY <1>4, <1>5, ClosedKind

LEMMA HanjaPopupOK ==
  ASSUME marks \in SUBSET (1 .. Hanja)
  PROVE  LET p == HanjaPopup
         IN  /\ p \in PopupRec /\ CursorOK(p) /\ p.kind = "hanja"
             /\ p.items = Order[marks] /\ p # Closed
<1>1. Order[marks] \in Seq(Nat)
  BY OrderOK
<1>2. "hanja" \in Kinds /\ 1 \in DOMAIN Emojis
  BY EmojisOK DEF Kinds
<1>3. PICK p : p = HanjaPopup
  OBVIOUS
<1>4. p \in PopupRec /\ CursorOK(p) /\ p.kind = "hanja" /\ p.items = Order[marks]
  BY <1>1, <1>2, <1>3, NewPopup DEF HanjaPopup
<1>. QED BY <1>3, <1>4, ClosedKind

LEMMA SpecialPopupOK ==
  LET p == SpecialPopup
  IN  p \in PopupRec /\ CursorOK(p) /\ p.kind = "special" /\ p # Closed
<1>1. [n \in 1 .. Specials |-> n] \in Seq(Nat)
  <2>1. Specials \in Nat
    BY PopupAssumption
  <2>2. [n \in 1 .. Specials |-> n] \in [1 .. Specials -> Nat]
    BY <2>1
  <2>. QED BY <2>1, <2>2
<1>2. "special" \in Kinds /\ 1 \in DOMAIN Emojis
  BY EmojisOK DEF Kinds
<1>3. PICK p : p = SpecialPopup
  OBVIOUS
<1>4. p \in PopupRec /\ CursorOK(p) /\ p.kind = "special"
  BY <1>1, <1>2, <1>3, NewPopup DEF SpecialPopup
<1>. QED BY <1>3, <1>4, ClosedKind

-----------------------------------------------------------------------------
(* What a step does to the popup, and what it tells the windows.           *)

Says(s) == signals' = Append(signals, s) /\ UNCHANGED <<visible, view, overtaken>>

\* It says nothing; the popup stays or goes.
Silent ==
  /\ UNCHANGED <<signals, visible, view, overtaken>>
  /\ popup' = popup \/ popup' = Closed
\* It hides the windows, with or without the popup.
HideStep ==
  /\ popup' = popup \/ popup' = Closed
  /\ \E from \in {"key", "call"} : Says(Signal("hide", Closed, from))
\* It opens a popup.
ShowStep ==
  /\ popup' # Closed
  /\ \E from \in {"key", "call"} : Says(Signal("show", popup', from))
\* It moves the cursor.
NavigateStep ==
  /\ popup # Closed /\ popup' # Closed /\ popup'.kind = popup.kind /\ popup'.items = popup.items
  /\ \E from \in {"key", "call"} : Says(Signal("navigate", popup', from))
\* It sorts the Hanja anew.
ReorderStep ==
  /\ popup = Closed <=> popup' = Closed
  /\ popup # Closed =>
       /\ popup.kind = "hanja" /\ popup'.kind = "hanja" /\ popup'.expanded = popup.expanded
       /\ popup'.items = Order[marks'] /\ Len(popup'.items) = Len(popup.items)
  /\ \E from \in {"key", "call"} :
       Says([Signal("reorder", popup', from) EXCEPT !.items = Order[marks']])
Step == Silent \/ HideStep \/ ShowStep \/ NavigateStep \/ ReorderStep

LEMMA HideIsStep ==
  ASSUME NEW from \in {"key", "call"}, Hide(from), popup' = popup \/ popup' = Closed,
         UNCHANGED <<visible, view, overtaken>>
  PROVE  HideStep
BY DEF Hide, Send, HideStep, Says

LEMMA ClosedInv ==
  ASSUME PopupInv, popup' = Closed, marks' = marks, mode' \in {"none", mode}
  PROVE  PopupInv'
BY ClosedKind DEF PopupInv

LEMMA SameInv ==
  ASSUME PopupInv, popup' = popup, marks' = marks, mode' \in {"none", mode}
  PROVE  PopupInv'
BY DEF PopupInv

LEMMA ShowIsStep ==
  ASSUME PopupInv, NEW p \in PopupRec, CursorOK(p), popup' = p, marks' = marks,
         p.kind = "hanja" => p.items = Order[marks],
         mode' \in {"none", "hanja", "special"}, mode' = "hanja" => p.kind = "hanja",
         NEW from \in {"key", "call"}, Send("show", popup', from),
         UNCHANGED <<visible, view, overtaken>>
  PROVE  PopupInv' /\ ShowStep
<1>1. popup' # Closed
  BY ClosedKind
<1>2. ShowStep
  BY <1>1 DEF ShowStep, Send, Says
<1>3. PopupInv'
  BY DEF PopupInv
<1>. QED BY <1>2, <1>3

LEMMA NavigateIsStep ==
  ASSUME PopupInv, popup # Closed, Moves(popup', popup), UNCHANGED <<marks, mode>>,
         NEW from \in {"key", "call"}, Send("navigate", popup', from),
         UNCHANGED <<visible, view, overtaken>>
  PROVE  PopupInv' /\ NavigateStep
<1>1. /\ popup' \in PopupRec /\ popup' # Closed /\ CursorOK(popup')
      /\ popup'.kind = popup.kind /\ popup'.items = popup.items
  BY ClosedKind DEF Moves
<1>2. NavigateStep
  BY <1>1 DEF NavigateStep, Send, Says
<1>3. PopupInv'
  BY <1>1 DEF PopupInv
<1>. QED BY <1>2, <1>3

-----------------------------------------------------------------------------
(* Each key and each call is one of these steps, and keeps the popup right. *)

LEMMA PressStep ==
  ASSUME PopupInv, Press
  PROVE  PopupInv' /\ Step
<1>. mode \in {"none", "hanja", "special"}
  BY DEF PopupInv
<1>1. ASSUME NEW k \in Keys, MoveCursor(k) PROVE PopupInv' /\ Step
  <2>1. popup # Closed /\ popup' = Moved(popup, k) /\ popup \in PopupRec /\ CursorOK(popup)
    BY <1>1 DEF MoveCursor, InPopup, PopupInv
  <2>2. Moves(popup', popup)
    BY <2>1, MovedOK
  <2>3. UNCHANGED <<marks, mode, visible, view, overtaken>> /\ Send("navigate", popup', "key")
    BY <1>1 DEF MoveCursor, Same, windows
  <2>. QED BY <2>1, <2>2, <2>3, NavigateIsStep DEF Step
<1>2. ASSUME NEW k \in Keys, ChangeCategory(k) PROVE PopupInv' /\ Step
  <2>1. /\ popup.kind = "emoji" /\ k \in {"tab", "a", "s"} /\ popup' = EmojiPopup(KeyCategory(k))
        /\ UNCHANGED <<marks, mode, visible, view, overtaken>> /\ Send("show", popup', "key")
    BY <1>2 DEF ChangeCategory, Same, windows
  <2>2. popup \in PopupRec /\ mode # "hanja"
    BY <2>1, ClosedKind DEF PopupInv
  <2>3. popup.cat \in DOMAIN Emojis
    BY <2>2 DEF PopupRec
  <2>4. PICK cat \in DOMAIN Emojis : cat = KeyCategory(k)
    BY <2>1, <2>3, EmojisOK DEF KeyCategory
  <2>5. PICK p : p = EmojiPopup(cat)
    OBVIOUS
  <2>6. p \in PopupRec /\ CursorOK(p) /\ p.kind = "emoji" /\ popup' = p
    BY <2>1, <2>4, <2>5, EmojiPopupOK
  <2>. QED BY <2>1, <2>2, <2>6, ShowIsStep DEF Step
<1>3. ASSUME NEW k \in Keys, SelectKey(k) PROVE PopupInv' /\ Step
  <2>1. /\ popup' = Closed /\ marks' = marks /\ mode' \in {"none", mode}
        /\ Hide("key") /\ UNCHANGED <<visible, view, overtaken>>
    BY <1>3 DEF SelectKey, PopupSelect, PopupCancel, EndConversion, Same, windows
  <2>. QED BY <2>1, HideIsStep, ClosedInv DEF Step
<1>4. ASSUME NEW k \in Keys, OtherKey(k) PROVE PopupInv' /\ Step
  <2>1. /\ popup' = Closed /\ marks' = marks /\ mode' \in {"none", mode}
        /\ Hide("key") /\ UNCHANGED <<visible, view, overtaken>>
    BY <1>4 DEF OtherKey, Same, windows
  <2>. QED BY <2>1, HideIsStep, ClosedInv DEF Step
<1>5. CASE BookmarkKey
  <2>1. popup # Closed /\ popup.kind = "hanja"
    BY <1>5, BookmarkIndex
  <2>2. PICK index \in Nat : index < Hanja /\ ToggleBookmark(index)
    BY <1>5, BookmarkIndex
  <2>3. Reordered("key") /\ UNCHANGED <<visible, view, overtaken>>
    BY <1>5 DEF BookmarkKey, windows
  <2>. QED BY <2>1, <2>2, <2>3, ToggleOK DEF Step, ReorderStep, Reordered, Says
<1>6. CASE EscapeKey
  <2>1. /\ popup' = Closed /\ marks' = marks /\ mode' \in {"none", mode}
        /\ Hide("key") /\ UNCHANGED <<visible, view, overtaken>>
    BY <1>6 DEF EscapeKey, PopupCancel, EndConversion, Same, windows
  <2>. QED BY <2>1, HideIsStep, ClosedInv DEF Step
<1>7. CASE HanjaKeyAgain
  <2>1. /\ popup' = EmojiPopup(FirstCategory) /\ mode' = "none" /\ marks' = marks
        /\ Send("show", popup', "key") /\ UNCHANGED <<visible, view, overtaken>>
    BY <1>7 DEF HanjaKeyAgain, windows
  <2>2. PICK p : p = EmojiPopup(FirstCategory)
    OBVIOUS
  <2>3. p \in PopupRec /\ CursorOK(p) /\ p.kind = "emoji"
    BY <2>2, EmojisOK, EmojiPopupOK
  <2>. QED BY <2>1, <2>2, <2>3, ShowIsStep DEF Step
<1>8. CASE Type
  <2>1. UNCHANGED <<popup, marks, mode, signals, visible, view, overtaken>>
    BY <1>8 DEF Type, Same, windows
  <2>. QED BY <2>1, SameInv DEF Step, Silent
<1>9. CASE Confirm
  <2>1. UNCHANGED <<popup, marks, mode, signals, visible, view, overtaken>>
    BY <1>9 DEF Confirm, Same, windows
  <2>. QED BY <2>1, SameInv DEF Step, Silent
<1>10. CASE HanjaKey
  <2>1. /\ marks' = marks /\ mode = "none" /\ marks \in SUBSET (1 .. Hanja)
        /\ Send("show", popup', "key") /\ UNCHANGED <<visible, view, overtaken>>
    BY <1>10 DEF HanjaKey, windows, Idle, Converting, PopupInv
  <2>2. CASE Open("hanja", HanjaPopup)
    <3>1. PICK p : p = HanjaPopup
      OBVIOUS
    <3>2. p \in PopupRec /\ CursorOK(p) /\ p.kind = "hanja" /\ p.items = Order[marks]
      BY <2>1, <3>1, HanjaPopupOK
    <3>3. popup' = p /\ mode' = "hanja"
      BY <2>2, <3>1 DEF Open
    <3>. QED BY <2>1, <3>2, <3>3, ShowIsStep DEF Step
  <2>3. CASE Open("special", SpecialPopup)
    <3>1. PICK p : p = SpecialPopup
      OBVIOUS
    <3>2. p \in PopupRec /\ CursorOK(p) /\ p.kind = "special"
      BY <3>1, SpecialPopupOK
    <3>3. popup' = p /\ mode' = "special"
      BY <2>3, <3>1 DEF Open
    <3>. QED BY <2>1, <3>2, <3>3, ShowIsStep DEF Step
  <2>4. CASE Open("emoji", EmojiPopup(FirstCategory))
    <3>1. PICK p : p = EmojiPopup(FirstCategory)
      OBVIOUS
    <3>2. p \in PopupRec /\ CursorOK(p) /\ p.kind = "emoji"
      BY <3>1, EmojisOK, EmojiPopupOK
    <3>3. popup' = p /\ mode' = "none"
      BY <2>4, <3>1 DEF Open
    <3>. QED BY <2>1, <3>2, <3>3, ShowIsStep DEF Step
  <2>. QED BY <1>10, <2>2, <2>3, <2>4 DEF HanjaKey
<1>11. CASE Leave
  <2>1. /\ popup' = Closed /\ marks' = marks /\ mode' \in {"none", mode}
        /\ Hide("key") /\ UNCHANGED <<visible, view, overtaken>>
    BY <1>11 DEF Leave, EndConversion, Same, windows
  <2>. QED BY <2>1, HideIsStep, ClosedInv DEF Step
<1> QED
  BY <1>1, <1>2, <1>3, <1>4, <1>5, <1>6, <1>7, <1>8, <1>9, <1>10, <1>11 DEF Press

LEMMA ServeStep ==
  ASSUME PopupInv, NEW c \in calls, CallOK(c), Serve(c)
  PROVE  PopupInv' /\ Step
<1>. mode \in {"none", "hanja", "special"} /\ c.index \in Nat
  BY DEF PopupInv, CallOK
<1>1. CASE FailCall(c)
  <2>1. UNCHANGED <<popup, marks, mode, signals, visible, view, overtaken>>
    BY <1>1 DEF FailCall, Nothing, engine, windows
  <2>. QED BY <2>1, SameInv DEF Step, Silent
<1>2. CASE Select(c)
  <2>1. Hide("call") /\ UNCHANGED <<visible, view, overtaken>>
    BY <1>2 DEF Select, Answered, windows
  <2>2. CASE EndConversion /\ Same
    <3>1. popup' = Closed /\ marks' = marks /\ mode' = "none"
      BY <2>2 DEF EndConversion, Same
    <3>. QED BY <2>1, <3>1, HideIsStep, ClosedInv DEF Step
  <2>3. CASE UNCHANGED engine
    <3>1. popup' = popup /\ marks' = marks /\ mode' = mode
      BY <2>3 DEF engine
    <3>. QED BY <2>1, <3>1, HideIsStep, SameInv DEF Step
  <2>. QED BY <1>2, <2>2, <2>3 DEF Select
<1>3. CASE ToggleCall(c)
  <2>1. UNCHANGED <<visible, view, overtaken>>
    BY <1>3 DEF ToggleCall, Answered, windows
  <2>2. CASE mode = "hanja" /\ c.index < Hanja
    <3>1. ToggleBookmark(c.index) /\ Reordered("call")
      BY <1>3, <2>2 DEF ToggleCall
    <3>. QED BY <2>1, <2>2, <3>1, ToggleOK DEF Step, ReorderStep, Reordered, Says
  <2>3. CASE ~(mode = "hanja" /\ c.index < Hanja)
    <3>1. UNCHANGED <<popup, marks, mode, signals>>
      BY <1>3, <2>3 DEF ToggleCall, engine
    <3>. QED BY <2>1, <3>1, SameInv DEF Step, Silent
  <2>. QED BY <2>2, <2>3
<1>4. CASE PageCall(c)
  <2>1. UNCHANGED <<marks, mode, visible, view, overtaken>>
    BY <1>4 DEF PageCall, Answered, Same, windows
  <2>2. CASE popup # Closed /\ Pages(popup) > 1
    <3>1. PICK by \in {0, 2} : popup' = ChangePage(popup, by)
      BY <1>4, <2>2 DEF PageCall
    <3>2. popup \in PopupRec /\ CursorOK(popup)
      BY <2>2 DEF PopupInv
    <3>3. Moves(popup', popup)
      BY <3>1, <3>2, ChangePageOK
    <3>4. Send("navigate", popup', "call")
      BY <1>4, <2>2 DEF PageCall
    <3>. QED BY <2>1, <2>2, <3>3, <3>4, NavigateIsStep DEF Step
  <2>3. CASE ~(popup # Closed /\ Pages(popup) > 1)
    <3>1. UNCHANGED <<popup, signals>>
      BY <1>4, <2>3 DEF PageCall
    <3>. QED BY <2>1, <3>1, SameInv DEF Step, Silent
  <2>. QED BY <2>2, <2>3
<1>5. CASE ExpandCall(c)
  <2>1. UNCHANGED <<marks, mode, visible, view, overtaken>>
    BY <1>5 DEF ExpandCall, Answered, Same, windows
  <2>2. CASE popup.kind = "hanja"
    <3>1. popup' = Expand(popup) /\ Send("navigate", popup', "call")
      BY <1>5, <2>2 DEF ExpandCall
    <3>2. popup # Closed /\ popup \in PopupRec
      BY <2>2, ClosedKind DEF PopupInv
    <3>3. Moves(popup', popup)
      BY <3>1, <3>2, ExpandOK
    <3>. QED BY <2>1, <3>1, <3>2, <3>3, NavigateIsStep DEF Step
  <2>3. CASE popup.kind # "hanja"
    <3>1. UNCHANGED <<popup, signals>>
      BY <1>5, <2>3 DEF ExpandCall
    <3>. QED BY <2>1, <3>1, SameInv DEF Step, Silent
  <2>. QED BY <2>2, <2>3
<1>6. CASE CategoryCall(c)
  <2>1. UNCHANGED <<marks, mode, visible, view, overtaken>> /\ c.op = "category"
    BY <1>6 DEF CategoryCall, Served, Answered, Same, windows
  <2>2. CASE popup.kind = "emoji"
    <3>1. popup' = EmojiPopup(c.index) /\ Send("show", popup', "call")
      BY <1>6, <2>2 DEF CategoryCall
    <3>2. c.index \in DOMAIN Emojis
      BY <2>1 DEF CallOK
    <3>3. PICK p : p = EmojiPopup(c.index)
      OBVIOUS
    <3>4. p \in PopupRec /\ CursorOK(p) /\ p.kind = "emoji" /\ popup' = p
      BY <3>1, <3>2, <3>3, EmojiPopupOK
    <3>5. mode # "hanja"
      BY <2>2, ClosedKind DEF PopupInv
    <3>. QED BY <2>1, <3>1, <3>4, <3>5, ShowIsStep DEF Step
  <2>3. CASE popup.kind # "emoji"
    <3>1. UNCHANGED <<popup, signals>>
      BY <1>6, <2>3 DEF CategoryCall
    <3>. QED BY <2>1, <3>1, SameInv DEF Step, Silent
  <2>. QED BY <2>2, <2>3
<1>7. CASE CommitEmoji(c)
  <2>1. /\ popup' = Closed /\ marks' = marks /\ mode' = mode
        /\ Hide("call") /\ UNCHANGED <<visible, view, overtaken>>
    BY <1>7 DEF CommitEmoji, Same, Answered, windows
  <2>. QED BY <2>1, HideIsStep, ClosedInv DEF Step
<1>8. ASSUME NEW kind \in {"hanja", "special"}, CancelCall(kind, c) PROVE PopupInv' /\ Step
  <2>1. /\ popup' = Closed /\ marks' = marks /\ mode' \in {"none", mode}
        /\ UNCHANGED <<visible, view, overtaken>>
    BY <1>8 DEF CancelCall, Same, Answered, windows
  <2>2. Hide("call") \/ signals' = signals
    BY <1>8 DEF CancelCall
  <2>. QED BY <2>1, <2>2, HideIsStep, ClosedInv DEF Step, Silent
<1> QED
  BY <1>1, <1>2, <1>3, <1>4, <1>5, <1>6, <1>7, <1>8 DEF Serve

-----------------------------------------------------------------------------
(* What the windows, the signals and the calls hold.                       *)

\* What goes between the engine and the windows has its type, and a window
\* that is hidden draws nothing.
WindowsInv ==
  /\ CallsInv /\ signals \in Seq(SignalOK)
  /\ visible \in SUBSET Kinds /\ view \in [Kinds -> Drawing]
  /\ \A kind \in Kinds \ visible : view[kind] = Blank
  /\ composing \in BOOLEAN /\ active \in BOOLEAN /\ opened \in 0 .. MaxPopups

LEMMA SignalType ==
  ASSUME NEW p, p = Closed \/ p \in PopupRec, NEW act \in {"show", "hide", "navigate", "reorder"},
         act = "show" => p # Closed, NEW from \in {"key", "call"}
  PROVE  /\ Signal(act, p, from) \in SignalOK
         /\ \A items \in Seq(Nat) : [Signal(act, p, from) EXCEPT !.items = items] \in SignalOK
<1>1. /\ p.kind \in Kinds \cup {"none"} /\ p.items \in Seq(Nat)
      /\ p.page \in Nat /\ p.row \in Nat /\ p.col \in Nat
  <2>1. CASE p = Closed
    BY <2>1 DEF Closed
  <2>2. CASE p \in PopupRec
    BY <2>2 DEF PopupRec
  <2>. QED BY <2>1, <2>2
<1>2. p # Closed => p.kind \in Kinds
  BY DEF PopupRec
<1>3. ColsOf(p) \in Nat \ {0}
  BY <1>1, ColsOK
<1>4. Carries(act, p) \in Seq(Nat)
  BY <1>1 DEF Carries
<1>5. PICK s : s = Signal(act, p, from)
  OBVIOUS
<1>6. s \in SignalRec /\ s.act = act /\ s.kind = p.kind
  BY <1>1, <1>3, <1>4, <1>5 DEF Signal, SignalRec
<1>7. s \in SignalOK
  BY <1>2, <1>6 DEF SignalOK
<1>8. ASSUME NEW items \in Seq(Nat) PROVE [s EXCEPT !.items = items] \in SignalOK
  <2>1. PICK z : z = [s EXCEPT !.items = items]
    OBVIOUS
  <2>2. z \in SignalRec /\ z.act = s.act /\ z.kind = s.kind
    BY <1>6, <2>1 DEF SignalRec
  <2>. QED BY <1>2, <1>6, <2>1, <2>2 DEF SignalOK
<1>. QED BY <1>5, <1>7, <1>8

LEMMA StepSignals ==
  ASSUME PopupInv, PopupInv', Step, signals \in Seq(SignalOK)
  PROVE  signals' \in Seq(SignalOK)
<1>1. \A s \in SignalOK : Append(signals, s) \in Seq(SignalOK)
  OBVIOUS
<1>2. popup' = Closed \/ popup' \in PopupRec
  BY DEF PopupInv
<1>3. marks' \in SUBSET (1 .. Hanja)
  BY DEF PopupInv
<1>4. CASE Silent BY <1>4 DEF Silent
<1>5. CASE HideStep
  <2>1. PICK from \in {"key", "call"} : signals' = Append(signals, Signal("hide", Closed, from))
    BY <1>5 DEF HideStep, Says
  <2>. QED BY <1>1, <2>1, SignalType
<1>6. CASE ShowStep
  <2>1. PICK from \in {"key", "call"} :
          signals' = Append(signals, Signal("show", popup', from)) /\ popup' # Closed
    BY <1>6 DEF ShowStep, Says
  <2>2. PICK p : p = popup'
    OBVIOUS
  <2>3. Signal("show", p, from) \in SignalOK
    BY <1>2, <2>1, <2>2, SignalType
  <2>. QED BY <1>1, <2>1, <2>2, <2>3
<1>7. CASE NavigateStep
  <2>1. PICK from \in {"key", "call"} : signals' = Append(signals, Signal("navigate", popup', from))
    BY <1>7 DEF NavigateStep, Says
  <2>2. PICK p : p = popup'
    OBVIOUS
  <2>3. Signal("navigate", p, from) \in SignalOK
    BY <1>2, <2>2, SignalType
  <2>. QED BY <1>1, <2>1, <2>2, <2>3
<1>8. CASE ReorderStep
  <2>1. PICK from \in {"key", "call"} :
          signals' = Append(signals, [Signal("reorder", popup', from) EXCEPT !.items = Order[marks']])
    BY <1>8 DEF ReorderStep, Says
  <2>2. PICK p : p = popup'
    OBVIOUS
  <2>3. PICK list : list = Order[marks']
    OBVIOUS
  <2>4. list \in Seq(Nat)
    BY <1>3, <2>3, OrderOK
  <2>5. [Signal("reorder", p, from) EXCEPT !.items = list] \in SignalOK
    BY <1>2, <2>2, <2>4, SignalType
  <2>. QED BY <1>1, <2>1, <2>2, <2>3, <2>5
<1>. QED BY <1>4, <1>5, <1>6, <1>7, <1>8 DEF Step

LEMMA StepWindows ==
  ASSUME PopupInv, PopupInv', WindowsInv, Step, CallsInv', composing' \in BOOLEAN,
         active' = active, opened' \in 0 .. MaxPopups
  PROVE  WindowsInv'
<1>1. UNCHANGED <<visible, view>>
  BY DEF Step, Silent, HideStep, ShowStep, NavigateStep, ReorderStep, Says
<1>2. signals' \in Seq(SignalOK)
  BY StepSignals DEF WindowsInv
<1>. QED BY <1>1, <1>2 DEF WindowsInv

-----------------------------------------------------------------------------
LEMMA PressRest ==
  ASSUME WindowsInv, Press
  PROVE  /\ calls' = calls /\ active' = active
         /\ composing' \in BOOLEAN /\ opened' \in 0 .. MaxPopups
<1>. MaxPopups \in Nat
  BY PopupAssumption
<1>. composing \in BOOLEAN /\ opened \in 0 .. MaxPopups
  BY DEF WindowsInv
<1>. USE DEF windows, Same
<1>1. ASSUME NEW k \in Keys, MoveCursor(k)
      PROVE  UNCHANGED <<calls, active, composing, opened>>
  BY <1>1 DEF MoveCursor
<1>2. ASSUME NEW k \in Keys, ChangeCategory(k)
      PROVE  UNCHANGED <<calls, active, composing, opened>>
  BY <1>2 DEF ChangeCategory
<1>3. ASSUME NEW k \in Keys, SelectKey(k)
      PROVE  UNCHANGED <<calls, active, opened>> /\ composing' \in BOOLEAN
  BY <1>3 DEF SelectKey, PopupSelect, PopupCancel, EndConversion
<1>4. ASSUME NEW k \in Keys, OtherKey(k)
      PROVE  UNCHANGED <<calls, active, opened>> /\ composing' \in BOOLEAN
  BY <1>4 DEF OtherKey
<1>5. CASE BookmarkKey
  BY <1>5 DEF BookmarkKey, ToggleBookmark
<1>6. CASE EscapeKey
  BY <1>6 DEF EscapeKey, PopupCancel, EndConversion
<1>7. CASE HanjaKeyAgain
  <2>1. UNCHANGED <<calls, active>> /\ composing' = FALSE
    BY <1>7 DEF HanjaKeyAgain
  <2>2. opened < MaxPopups /\ opened' = opened + 1
    BY <1>7 DEF HanjaKeyAgain
  <2>3. opened' \in 0 .. MaxPopups
    BY <2>2
  <2>. QED BY <2>1, <2>3
<1>8. CASE Type BY <1>8 DEF Type
<1>9. CASE Confirm BY <1>9 DEF Confirm
<1>10. CASE HanjaKey
  BY <1>10 DEF HanjaKey, Open
<1>11. CASE Leave BY <1>11 DEF Leave, EndConversion
<1> QED
  BY <1>1, <1>2, <1>3, <1>4, <1>5, <1>6, <1>7, <1>8, <1>9, <1>10, <1>11 DEF Press

LEMMA ServeRest ==
  ASSUME WindowsInv, NEW c \in calls, Serve(c)
  PROVE  /\ CallsInv' /\ active' = active
         /\ composing' \in BOOLEAN /\ opened' \in 0 .. MaxPopups
<1>. composing \in BOOLEAN /\ opened \in 0 .. MaxPopups
  BY DEF WindowsInv
<1>. USE DEF windows, Same, engine, Answered, Served
<1>1. calls' = calls \ {c} => CallsInv'
  BY DEF WindowsInv, CallsInv, CallOK
<1>2. CASE FailCall(c) BY <1>1, <1>2 DEF FailCall, Nothing
<1>3. CASE Select(c) BY <1>1, <1>3 DEF Select, EndConversion
<1>4. CASE ToggleCall(c) BY <1>1, <1>4 DEF ToggleCall, ToggleBookmark
<1>5. CASE PageCall(c) BY <1>1, <1>5 DEF PageCall
<1>6. CASE ExpandCall(c) BY <1>1, <1>6 DEF ExpandCall
<1>7. CASE CategoryCall(c) BY <1>1, <1>7 DEF CategoryCall
<1>8. CASE CommitEmoji(c) BY <1>1, <1>8 DEF CommitEmoji
<1>9. ASSUME NEW kind \in {"hanja", "special"}, CancelCall(kind, c)
      PROVE  /\ CallsInv' /\ active' = active
             /\ composing' \in BOOLEAN /\ opened' \in 0 .. MaxPopups
  BY <1>1, <1>9 DEF CancelCall
<1> QED
  BY <1>2, <1>3, <1>4, <1>5, <1>6, <1>7, <1>8, <1>9 DEF Serve

\* Hidden windows call, but name no candidate.
LEMMA HideCallsOK ==
  ASSUME CallsInv, NEW hidden, calls' = calls \cup HideCalls(hidden)
  PROVE  CallsInv'
BY DEF CallsInv, CallOK, HideCalls, Call, HideHook

LEMMA WindowIndexOK ==
  ASSUME WindowsInv, NEW kind \in Kinds, NEW c \in Cells(kind)
  PROVE  /\ c[1] \in Nat /\ c[2] \in Nat /\ WindowIndex(kind, c[1], c[2]) \in Nat
         /\ c[2] * Rows + c[1] \in Nat
<1>1. c[1] \in Nat /\ c[2] \in Nat
  BY GridSize DEF Cells
<1>2. view[kind] \in Drawing
  BY DEF WindowsInv
<1>3. PICK page \in Nat : page = view[kind].page
  BY <1>2 DEF Drawing
<1>4. /\ page * Rows * Columns \in Nat /\ page * Rows \in Nat
      /\ c[2] * Rows \in Nat
  BY <1>1, GridSize
<1>5. WindowIndex(kind, c[1], c[2]) \in Nat
  BY <1>1, <1>3, <1>4 DEF WindowIndex
<1>. QED BY <1>1, <1>4, <1>5

\* What the user does with the mouse: a call, or a window is hidden.
LEMMA MouseStep ==
  ASSUME WindowsInv, Mouse
  PROVE  \/ \E c : CallOK(c) /\ Ask(c)
         \/ \E kind \in Kinds : Dismiss(kind)
<1>1. ASSUME NEW kind \in Kinds, Click(kind) PROVE \E c : CallOK(c) /\ Ask(c)
  <2>1. PICK c \in Cells(kind) :
          Ask(CASE kind = "hanja" -> Call("hanja", WindowIndex(kind, c[1], c[2]))
                [] kind = "special" -> Call("special", c[2] * Rows + c[1])
                [] kind = "emoji" -> Call("emoji", 0))
    BY <1>1 DEF Click
  <2>2. CASE kind = "hanja"
    BY <2>1, <2>2, WindowIndexOK DEF CallOK, Call
  <2>3. CASE kind = "special"
    BY <2>1, <2>3, WindowIndexOK DEF CallOK, Call
  <2>4. CASE kind = "emoji"
    BY <2>1, <2>4 DEF CallOK, Call
  <2>. QED BY <2>2, <2>3, <2>4 DEF Kinds
<1>2. CASE RightClick
  <2>1. PICK c \in Cells("hanja") : Ask(Call("toggle", WindowIndex("hanja", c[1], c[2])))
    BY <1>2 DEF RightClick
  <2>. QED BY <2>1, WindowIndexOK DEF CallOK, Call, Kinds
<1>3. CASE PageButton
  BY <1>3 DEF PageButton, CallOK, Call
<1>4. CASE ExpandButton
  BY <1>4 DEF ExpandButton, CallOK, Call
<1>5. CASE CategoryTab
  BY <1>5, EmojisOK DEF CategoryTab, CallOK, Call
<1>. QED BY <1>1, <1>2, <1>3, <1>4, <1>5 DEF Mouse

-----------------------------------------------------------------------------
(* Dismissed windows, signals received, and the invariant of the session.  *)

LEMMA Removed ==
  ASSUME NEW S, NEW s \in Seq(S), NEW i \in DOMAIN s
  PROVE  RemoveAt(s, i) \in Seq(S)
<1>1. i \in 1 .. Len(s) /\ \A j \in 1 .. Len(s) : s[j] \in S
  OBVIOUS
<1>2. SubSeq(s, 1, i - 1) \in Seq(S)
  <2>1. i - 1 \in Int /\ \A j \in 1 .. i - 1 : s[j] \in S
    BY <1>1
  <2>. QED BY <2>1, SubSeqProperties
<1>3. SubSeq(s, i + 1, Len(s)) \in Seq(S)
  <2>1. i + 1 \in Int /\ Len(s) \in Int /\ \A j \in i + 1 .. Len(s) : s[j] \in S
    BY <1>1
  <2>. QED BY <2>1, SubSeqProperties
<1>. QED BY <1>2, <1>3, ConcatProperties DEF RemoveAt

LEMMA BlankOK == Blank \in Drawing
<1>1. <<>> \in Seq(Nat) /\ 1 \in Nat \ {0}
  OBVIOUS
<1>. QED BY <1>1 DEF Blank, Drawing

LEMMA DrawnOK ==
  ASSUME NEW s \in SignalOK
  PROVE  /\ Drawn(s) \in Drawing
         /\ \A v \in Drawing : /\ [Drawn(s) EXCEPT !.items = v.items] \in Drawing
                               /\ [Drawn(s) EXCEPT !.cols = v.cols] \in Drawing
BY DEF SignalOK, SignalRec, Drawn, Drawing

LEMMA DismissWindows ==
  ASSUME PopupInv, WindowsInv, NEW kind \in Kinds, Dismiss(kind)
  PROVE  PopupInv' /\ WindowsInv'
<1>1. /\ UNCHANGED <<popup, marks, mode, composing, opened, signals>>
      /\ visible' = visible \ {kind}
      /\ view' = [k \in Kinds |-> IF k \in {kind} THEN Blank ELSE view[k]]
      /\ calls' = calls \cup HideCalls({kind} \cap visible)
      /\ active' = (active /\ kind # "emoji")
  BY DEF Dismiss, engine, HidWindows
<1>2. PopupInv'
  BY <1>1, SameInv DEF PopupInv
<1>3. CallsInv'
  BY <1>1, HideCallsOK DEF WindowsInv
<1>4. view' \in [Kinds -> Drawing]
  BY <1>1, BlankOK DEF WindowsInv
<1>5. \A k \in Kinds \ visible' : view'[k] = Blank
  BY <1>1 DEF WindowsInv
<1>. QED BY <1>1, <1>2, <1>3, <1>4, <1>5 DEF WindowsInv

LEMMA DeliverWindows ==
  ASSUME PopupInv, WindowsInv, NEW i \in DOMAIN signals, Deliver(i)
  PROVE  PopupInv' /\ WindowsInv'
<1>. DEFINE s == signals[i]
<1>1. /\ signals' = RemoveAt(signals, i) /\ UNCHANGED engine
  BY DEF Deliver, ShowSignal, HideSignal, NavigateSignal, ReorderSignal, Receives
<1>2. PopupInv'
  BY <1>1, SameInv DEF PopupInv, engine
<1>3. signals \in Seq(SignalOK) /\ s \in SignalOK /\ view \in [Kinds -> Drawing] /\ visible \in SUBSET Kinds
  BY DEF WindowsInv
<1>4. signals' \in Seq(SignalOK)
  BY <1>1, <1>3, Removed
<1>5. composing' \in BOOLEAN /\ opened' \in 0 .. MaxPopups
  BY <1>1 DEF WindowsInv, engine
<1>. HIDE DEF s
<1>6. CASE ShowSignal(i)
  <2>. DEFINE hidden == HidesOf(s.kind) \cap visible
  <2>1. s.kind \in Kinds
    BY <1>3, <1>6 DEF ShowSignal, Receives, SignalOK, s
  <2>2. /\ visible' = (visible \ hidden) \cup {s.kind} /\ calls' = calls \cup HideCalls(hidden)
        /\ view' = [k \in Kinds |-> IF k = s.kind THEN Drawn(s)
                                    ELSE IF k \in hidden THEN Blank ELSE view[k]]
        /\ active' = TRUE
    BY <1>6 DEF ShowSignal, s
  <2>. HIDE DEF hidden
  <2>3. CallsInv'
    BY <2>2, HideCallsOK DEF WindowsInv
  <2>4. Drawn(s) \in Drawing
    BY <1>3, DrawnOK
  <2>5. view' \in [Kinds -> Drawing]
    BY <1>3, <2>2, <2>4, BlankOK
  <2>6. \A k \in Kinds \ visible' : view'[k] = Blank
    BY <2>2 DEF WindowsInv
  <2>. QED BY <1>2, <1>3, <1>4, <1>5, <2>1, <2>2, <2>3, <2>5, <2>6 DEF WindowsInv
<1>7. CASE HideSignal(i)
  <2>1. /\ visible' = visible \ Kinds /\ calls' = calls \cup HideCalls(Kinds \cap visible)
        /\ view' = [k \in Kinds |-> IF k \in Kinds THEN Blank ELSE view[k]]
        /\ active' = (active /\ "emoji" \notin visible)
    BY <1>7 DEF HideSignal, HidWindows
  <2>2. CallsInv'
    BY <2>1, HideCallsOK DEF WindowsInv
  <2>. QED BY <1>2, <1>3, <1>4, <1>5, <2>1, <2>2, BlankOK DEF WindowsInv
<1>8. CASE NavigateSignal(i)
  <2>1. /\ UNCHANGED <<visible, active, calls>>
        /\ view' = [k \in Kinds |-> IF k \in visible THEN [Drawn(s) EXCEPT !.items = view[k].items]
                                    ELSE view[k]]
    BY <1>8 DEF NavigateSignal, s
  <2>2. \A k \in Kinds : [Drawn(s) EXCEPT !.items = view[k].items] \in Drawing
    BY <1>3, DrawnOK
  <2>3. view' \in [Kinds -> Drawing]
    BY <1>3, <2>1, <2>2
  <2>4. CallsInv'
    BY <2>1 DEF WindowsInv, CallsInv
  <2>. QED BY <1>2, <1>3, <1>4, <1>5, <2>1, <2>3, <2>4 DEF WindowsInv
<1>9. CASE ReorderSignal(i)
  <2>. DEFINE drawn == [Drawn(s) EXCEPT !.cols = view["hanja"].cols]
  <2>1. /\ UNCHANGED <<visible, active, calls>>
        /\ view' = IF "hanja" \in visible THEN [view EXCEPT !["hanja"] = drawn] ELSE view
    BY <1>9 DEF ReorderSignal, s
  <2>2. "hanja" \in Kinds
    BY DEF Kinds
  <2>3. drawn \in Drawing
    BY <1>3, <2>2, DrawnOK
  <2>. HIDE DEF drawn
  <2>4. view' \in [Kinds -> Drawing]
    BY <1>3, <2>1, <2>2, <2>3
  <2>5. \A k \in Kinds \ visible' : view'[k] = Blank
    BY <1>3, <2>1 DEF WindowsInv
  <2>6. CallsInv'
    BY <2>1 DEF WindowsInv, CallsInv
  <2>. QED BY <1>2, <1>3, <1>4, <1>5, <2>1, <2>4, <2>5, <2>6 DEF WindowsInv
<1>. QED BY <1>6, <1>7, <1>8, <1>9 DEF Deliver

-----------------------------------------------------------------------------
SessionInv == PopupInv /\ WindowsInv

LEMMA SessionInit == Init => SessionInv
<1>. SUFFICES ASSUME Init PROVE SessionInv
  OBVIOUS
<1>1. PopupInv
  BY ClosedKind DEF Init, PopupInv
<1>2. calls = {} /\ signals = <<>> /\ visible = {} /\ view = [kind \in Kinds |-> Blank]
  BY DEF Init
<1>3. CallsInv /\ signals \in Seq(SignalOK)
  BY <1>2 DEF CallsInv
<1>4. view \in [Kinds -> Drawing] /\ \A kind \in Kinds \ visible : view[kind] = Blank
  BY <1>2, BlankOK
<1>5. composing \in BOOLEAN /\ active \in BOOLEAN /\ opened \in 0 .. MaxPopups
  <2>1. MaxPopups \in Nat
    BY PopupAssumption
  <2>2. composing = FALSE /\ active = FALSE /\ opened = 0
    BY DEF Init
  <2>3. opened \in 0 .. MaxPopups
    BY <2>1, <2>2
  <2>. QED BY <2>2, <2>3
<1>. QED BY <1>1, <1>2, <1>3, <1>4, <1>5 DEF SessionInv, WindowsInv

LEMMA AskWindows ==
  ASSUME SessionInv, NEW c, CallOK(c), Ask(c)
  PROVE  SessionInv' /\ UNCHANGED <<popup, marks, signals, visible, view, overtaken>>
<1>1. /\ calls' = calls \cup {c} /\ active' = active
      /\ UNCHANGED <<popup, marks, mode, composing, opened, signals, visible, view, overtaken>>
  BY DEF Ask, engine, windows
<1>2. CallsInv'
  BY <1>1 DEF SessionInv, WindowsInv, CallsInv
<1>. QED BY <1>1, <1>2, SameInv DEF SessionInv, WindowsInv, PopupInv

LEMMA SessionNext ==
  ASSUME SessionInv, [Next]_vars
  PROVE  /\ SessionInv'
         /\ \/ Step
            \/ \E kind \in Kinds : Dismiss(kind)
            \/ \E i \in DOMAIN signals : Deliver(i)
<1>. PopupInv /\ WindowsInv /\ CallsInv
  BY DEF SessionInv, WindowsInv
<1>1. CASE Press
  <2>1. PopupInv' /\ Step
    BY <1>1, PressStep
  <2>2. /\ calls' = calls /\ active' = active
        /\ composing' \in BOOLEAN /\ opened' \in 0 .. MaxPopups
    BY <1>1, PressRest
  <2>3. CallsInv'
    BY <2>2 DEF CallsInv
  <2>. QED BY <2>1, <2>2, <2>3, StepWindows DEF SessionInv
<1>2. CASE Mouse
  <2>1. CASE \E c : CallOK(c) /\ Ask(c)
    BY <2>1, AskWindows DEF Step, Silent
  <2>2. CASE \E kind \in Kinds : Dismiss(kind)
    BY <2>2, DismissWindows DEF SessionInv
  <2>. QED BY <1>2, <2>1, <2>2, MouseStep
<1>3. CASE \E c \in calls : Serve(c)
  <2>1. PICK c \in calls : Serve(c)
    BY <1>3
  <2>2. CallOK(c)
    BY DEF CallsInv
  <2>3. PopupInv' /\ Step
    BY <2>1, <2>2, ServeStep
  <2>4. CallsInv' /\ active' = active /\ composing' \in BOOLEAN /\ opened' \in 0 .. MaxPopups
    BY <2>1, ServeRest
  <2>. QED BY <2>3, <2>4, StepWindows DEF SessionInv
<1>4. CASE \E i \in DOMAIN signals : Deliver(i)
  BY <1>4, DeliverWindows DEF SessionInv
<1>5. CASE UNCHANGED vars
  <2>1. UNCHANGED <<popup, marks, mode, composing, calls, opened, signals, visible, view, active, overtaken>>
    BY <1>5 DEF vars
  <2>2. PopupInv' /\ CallsInv'
    BY <2>1, SameInv DEF PopupInv, CallsInv
  <2>. QED BY <2>1, <2>2 DEF SessionInv, WindowsInv, Step, Silent
<1>. QED BY <1>1, <1>2, <1>3, <1>4, <1>5 DEF Next

LEMMA SessionType ==
  ASSUME SessionInv
  PROVE  PopupTypeOK
<1>1. ASSUME popup # Closed
      PROVE  /\ popup.kind \in Kinds /\ popup.page \in 0 .. Pages(popup) - 1
             /\ popup.row \in 0 .. Rows - 1 /\ popup.col \in 0 .. Columns - 1
  <2>1. popup \in PopupRec /\ CursorOK(popup)
    BY <1>1 DEF SessionInv, PopupInv
  <2>2. /\ popup.kind \in Kinds /\ popup.page \in Nat /\ popup.row \in Nat /\ popup.col \in Nat
        /\ popup.items \in Seq(Nat)
    BY <2>1 DEF PopupRec
  <2>3. popup.page < Pages(popup) /\ popup.row < Rows /\ popup.col < ColsOf(popup)
    BY <2>1 DEF CursorOK
  <2>4. ColsOf(popup) \in Nat /\ ColsOf(popup) <= Columns /\ Pages(popup) \in Nat
    BY <2>2, ColsOK, PagesOK
  <2>. QED BY <2>2, <2>3, <2>4, GridSize
<1>. QED BY <1>1 DEF SessionInv, PopupInv, WindowsInv, PopupTypeOK

(* The cursor of a popup is inside the grid and on a page there is, whatever *)
(* the keys, buttons and bookmarks do to the number of its rows, columns and *)
(* pages, and a window that is not on the screen draws nothing.            *)
THEOREM PopupTypeCorrect == Spec => []PopupTypeOK
<1>1. SessionInv /\ [Next]_vars => SessionInv'
  BY SessionNext
<1>. QED BY <1>1, SessionInit, SessionType, PTL DEF Spec

(* A key that moves the cursor leaves it on a candidate, though a page     *)
(* button (popup_change_page) had left it beside those of a shorter page:  *)
(* handle_hanja_key and handle_special_key correct the row.                *)
THEOREM NavigationLands == Spec => NavigationFindsCandidate
<1>. DEFINE A == \/ OnCandidate(popup') \/ popup.items = <<>>
                 \/ \A k \in Keys \ {"q", "w"} : ~MoveCursor(k)
<1>1. SessionInv /\ [Next]_vars => SessionInv'
  BY SessionNext
<1>2. SessionInv /\ [Next]_vars => [A]_vars
  <2>. SUFFICES ASSUME SessionInv, NEW k \in Keys \ {"q", "w"}, MoveCursor(k)
                PROVE  OnCandidate(popup') \/ popup.items = <<>>
    OBVIOUS
  <2>1. popup # Closed /\ popup' = Moved(popup, k) /\ popup \in PopupRec /\ CursorOK(popup)
    BY DEF MoveCursor, InPopup, SessionInv, PopupInv
  <2>2. Moves(popup', popup) /\ Found(popup')
    BY <2>1, MovedOK
  <2>. QED BY <2>2 DEF Moves, Found
<1>. QED BY <1>1, <1>2, SessionInit, PTL DEF Spec, NavigationFindsCandidate

(* toggle_hanja_bookmark: when the space bar has sorted the Hanja anew, the *)
(* cursor is on the Hanja that was toggled, on whatever page it is now, and *)
(* the bookmarked come first.                                              *)
THEOREM BookmarkFollows == Spec => BookmarkKeepsCursor
<1>. DEFINE A == BookmarkKey =>
                   /\ OnCandidate(popup') /\ AtCursor(popup') = AtCursor(popup)
                   /\ \A i, j \in 1 .. Hanja :
                        i < j /\ popup'.items[j] \in marks' => popup'.items[i] \in marks'
<1>1. SessionInv /\ [Next]_vars => SessionInv'
  BY SessionNext
<1>2. SessionInv /\ [Next]_vars => [A]_vars
  BY BookmarkStep DEF SessionInv
<1>. QED BY <1>1, <1>2, SessionInit, PTL DEF Spec, BookmarkKeepsCursor

-----------------------------------------------------------------------------
(* The signals on their way: what a window may draw when it has taken the  *)
(* first, the second, ... the last of them.                                *)

\* What the window of a kind draws: nothing, or one drawing.
Window(k) == IF k \in visible THEN {view[k]} ELSE {}

\* What it draws once it has taken the signal s.
Takes(w, s, k) ==
  IF s.act = "hide" THEN {}
  ELSE IF s.act = "show"
    THEN IF s.kind = k THEN {Drawn(s)} ELSE IF k \in HidesOf(s.kind) THEN {} ELSE w
  ELSE IF s.act = "navigate" THEN {[Drawn(s) EXCEPT !.items = v.items] : v \in w}
  ELSE IF k = "hanja" THEN {[Drawn(s) EXCEPT !.cols = v.cols] : v \in w}
  ELSE w

\* f[n] is what the window may draw when it has taken the first n signals; the
\* user may hide it at any time.
Replays(f, k) ==
  /\ f \in [0 .. Len(signals) -> SUBSET Drawing]
  /\ f[0] \subseteq Window(k)
  /\ \A n \in 1 .. Len(signals) : f[n] \subseteq Takes(f[n - 1], signals[n], k)

\* The drawing v is one of the popup p.
Shows(v, p) ==
  /\ v.items = p.items /\ v.page = p.page /\ v.row = p.row /\ v.col = p.col
  /\ p.kind = "hanja" =>
       IF p.expanded THEN v.cols > 1 \/ NarrowEnd(p) \/ (Pages(p) = 1 /\ v.cols = ColsOf(p))
       ELSE v.cols = 1

\* Signals that arrive in their order bring the window to the popup.
Arrives ==
  ~overtaken /\ popup # Closed =>
    \A f : Replays(f, popup.kind) => \A v \in f[Len(signals)] : Shows(v, popup)

-----------------------------------------------------------------------------
\* A page of one column, when there are others, is the last.
LEMMA NarrowIsLast ==
  ASSUME NEW p \in PopupRec, p.expanded, p.page < Pages(p), ColsOf(p) = 1, Pages(p) > 1
  PROVE  NarrowEnd(p)
<1>1. p.items \in Seq(Nat) /\ p.page \in Nat /\ Grid(p)
  BY DEF PopupRec, Grid
<1>2. PICK last \in Nat : last = Pages(p) - 1
  BY <1>1, PagesOK
<1>3. PICK q : q = [p EXCEPT !.page = last]
  OBVIOUS
<1>4. q \in PopupRec /\ q.page = last /\ SameList(p, q) /\ q.items \in Seq(Nat)
  BY <1>1, <1>3 DEF PopupRec, SameList
<1>5. ColsOf(q) = 1
  <2>1. CASE Columns = 1
    <3>1. ColsOf(q) \in Nat \ {0} /\ ColsOf(q) <= Columns
      BY <1>4, ColsOK
    <3>. QED BY <2>1, <3>1
  <2>2. CASE Columns # 1
    <3>1. PICK n \in Nat : n = OnPage(p)
      BY <1>1, OnPageOK
    <3>2. PICK c \in Nat : c = Ceil(n, Rows) /\ n <= Rows * c
      BY GridSize, CeilBounds
    <3>3. c <= 1
      <4>1. PICK m \in Nat : m = Most(1, c) /\ m = IF 1 >= c THEN 1 ELSE c
        BY MostOfTwo
      <4>2. ColsOf(p) = Least(Columns, m)
        BY <1>1, <3>1, <3>2, <4>1 DEF ColsOf
      <4>3. Least(Columns, m) = IF Columns <= m THEN Columns ELSE m
        BY GridSize, LeastOfTwo
      <4>. QED BY <2>2, <4>1, <4>2, <4>3, GridSize
    <3>4. n <= Rows
      <4>1. c = 0 \/ c = 1
        BY <3>3
      <4>2. c = 0 => Rows * c = 0
        BY GridSize
      <4>3. c = 1 => Rows * c = Rows
        BY GridSize
      <4>. QED BY <3>2, <4>1, <4>2, <4>3, GridSize
    <3>5. PICK d \in Nat : d = PageSize(p) /\ Rows < d
      <4>1. \A a, b \in Nat \ {0} : b # 1 => a < a * b
        OBVIOUS
      <4>2. PageSize(p) = Rows * Columns
        BY <1>1 DEF PageSize
      <4>. QED BY <2>2, <4>1, <4>2, GridSize
    <3>6. PICK b \in Nat : b = p.page * d
      BY <1>1
    <3>7. ~(b + n < Len(p.items))
      <4>1. n < d
        BY <3>4, <3>5, GridSize
      <4>. QED BY <1>1, <3>1, <3>5, <3>6, <4>1, OnPageOK
    <3>8. ~(p.page + 1 < Pages(p))
      <4>. SUFFICES ASSUME p.page + 1 < Pages(p) PROVE FALSE
        OBVIOUS
      <4>1. p.page + 1 \in Nat /\ p.items # <<>>
        <5>1. p.items = <<>> => Pages(p) = 1
          <6>1. p.items = <<>> => Len(p.items) = 0
            OBVIOUS
          <6>2. PICK e \in Nat \ {0} : e = PageSize(p)
            BY SizeOK
          <6>3. PICK z \in Nat : z = Ceil(0, e) /\ e * z < 0 + e
            BY CeilBounds
          <6>4. z <= 1
            <7>1. z > 1 => e * z >= e
              OBVIOUS
            <7>. QED BY <6>3, <7>1
          <6>5. p.items = <<>> => Pages(p) = Most(1, z)
            BY <6>1, <6>2, <6>3 DEF Pages
          <6>. QED BY <6>4, <6>5, MostOfTwo
        <5>. QED BY <1>1, <5>1
      <4>2. (p.page + 1) * PageSize(p) < Len(p.items)
        BY <1>1, <4>1, PagesOK
      <4>3. (p.page + 1) * d = b + d
        BY <1>1, <3>6
      <4>4. b + d < Len(p.items)
        BY <3>5, <4>2, <4>3
      <4>. QED BY <1>1, <3>4, <3>5, <3>7, <4>4, GridSize
    <3>9. p.page = last
      BY <1>1, <1>2, <3>8, PagesOK
    <3>. QED BY <1>4, <3>9, SameLayout
  <2>. QED BY <2>1, <2>2
<1>. QED BY <1>2, <1>3, <1>5 DEF NarrowEnd

\* What the engine sends of its popup shows it.
LEMMA DrawnShows ==
  ASSUME NEW p \in PopupRec, CursorOK(p), NEW v,
         v.items = p.items, v.page = p.page, v.row = p.row, v.col = p.col, v.cols = ColsOf(p)
  PROVE  Shows(v, p)
<1>1. p.items \in Seq(Nat) /\ p.page \in Nat /\ p.page < Pages(p) /\ p.expanded \in BOOLEAN
  BY DEF PopupRec, CursorOK
<1>2. ColsOf(p) \in Nat \ {0} /\ Pages(p) \in Nat \ {0} /\ (~Grid(p) => ColsOf(p) = 1)
  BY <1>1, ColsOK, PagesOK
<1>3. ASSUME p.kind = "hanja", ~p.expanded PROVE v.cols = 1
  BY <1>2, <1>3 DEF Grid
<1>4. ASSUME p.expanded, ~(v.cols > 1), Pages(p) # 1 PROVE NarrowEnd(p)
  BY <1>1, <1>2, <1>4, NarrowIsLast
<1>. QED BY <1>3, <1>4 DEF Shows

\* What depends on the number of candidates and not on which they are.
LEMMA SameLength ==
  ASSUME NEW p \in PopupRec, NEW q \in PopupRec, p.kind = q.kind, p.expanded = q.expanded,
         Len(p.items) = Len(q.items)
  PROVE  /\ Pages(p) = Pages(q) /\ (NarrowEnd(p) <=> NarrowEnd(q))
         /\ p.page = q.page => ColsOf(p) = ColsOf(q)
<1>1. PageSize(p) = PageSize(q) /\ (Grid(p) <=> Grid(q)) /\ Pages(p) = Pages(q)
  BY DEF PageSize, Grid, Pages
<1>2. ASSUME NEW x, NEW y, x.page = y.page, PageSize(x) = PageSize(y), Grid(x) <=> Grid(y),
             Len(x.items) = Len(y.items)
      PROVE  ColsOf(x) = ColsOf(y)
  BY <1>2 DEF ColsOf, OnPage
<1>3. NarrowEnd(p) <=> NarrowEnd(q)
  <2>1. PICK x : x = [p EXCEPT !.page = Pages(p) - 1]
    OBVIOUS
  <2>2. PICK y : y = [q EXCEPT !.page = Pages(q) - 1]
    OBVIOUS
  <2>3. /\ x.page = Pages(p) - 1 /\ x.kind = p.kind /\ x.expanded = p.expanded /\ x.items = p.items
        /\ y.page = Pages(q) - 1 /\ y.kind = q.kind /\ y.expanded = q.expanded /\ y.items = q.items
    BY <2>1, <2>2 DEF PopupRec
  <2>4. PageSize(x) = PageSize(y) /\ (Grid(x) <=> Grid(y))
    BY <2>3 DEF PageSize, Grid
  <2>5. ColsOf(x) = ColsOf(y)
    BY <1>1, <1>2, <2>3, <2>4
  <2>. QED BY <1>1, <2>1, <2>2, <2>5 DEF NarrowEnd
<1>. QED BY <1>1, <1>2, <1>3

-----------------------------------------------------------------------------
(* A signal is sent: the windows take it after those on their way.         *)

\* Before a signal was sent, the windows could draw what they draw before it.
LEMMA ReplaysBefore ==
  ASSUME signals \in Seq(SignalOK), NEW s \in SignalOK, Says(s), NEW k, NEW f, Replays(f, k)'
  PROVE  \E g : /\ Replays(g, k)
                /\ f[Len(signals')] \subseteq Takes(g[Len(signals)], s, k)
                /\ g[Len(signals)] \in SUBSET Drawing
<1>1. PICK L \in Nat : L = Len(signals)
  OBVIOUS
<1>2. /\ Len(signals') = L + 1 /\ signals'[L + 1] = s
      /\ \A n \in 1 .. L : signals'[n] = signals[n]
  BY <1>1 DEF Says
<1>3. /\ f \in [0 .. L + 1 -> SUBSET Drawing] /\ f[0] \subseteq Window(k)
      /\ \A n \in 1 .. L + 1 : f[n] \subseteq Takes(f[n - 1], signals'[n], k)
  <2>1. Window(k)' = Window(k)
    BY DEF Says, Window
  <2>. QED BY <1>2, <2>1 DEF Replays
<1>. DEFINE g == [n \in 0 .. L |-> f[n]]
<1>4. g \in [0 .. L -> SUBSET Drawing] /\ \A n \in 0 .. L : g[n] = f[n]
  BY <1>3
<1>. HIDE DEF g
<1>5. g[0] \subseteq Window(k) /\ g[L] \in SUBSET Drawing
  BY <1>3, <1>4
<1>6. \A n \in 1 .. L : g[n] \subseteq Takes(g[n - 1], signals[n], k)
  <2>. TAKE n \in 1 .. L
  <2>1. n \in 0 .. L /\ n - 1 \in 0 .. L /\ n \in 1 .. L + 1
    BY <1>1
  <2>. QED BY <1>2, <1>3, <1>4, <2>1
<1>7. Replays(g, k)
  BY <1>1, <1>4, <1>5, <1>6 DEF Replays
<1>8. f[L + 1] \subseteq Takes(g[L], s, k)
  <2>1. L + 1 \in 1 .. L + 1 /\ L \in 0 .. L /\ (L + 1) - 1 = L
    OBVIOUS
  <2>2. f[L + 1] \subseteq Takes(f[(L + 1) - 1], signals'[L + 1], k)
    BY <1>3, <2>1
  <2>. QED BY <1>2, <1>4, <2>1, <2>2
<1>. QED BY <1>1, <1>2, <1>5, <1>7, <1>8

\* After the signal, the window draws what it makes of the drawing before it.
LEMMA SaysArrives ==
  ASSUME signals \in Seq(SignalOK), NEW s \in SignalOK, Says(s), popup' # Closed,
         ASSUME ~overtaken, NEW w \in SUBSET Drawing,
                popup # Closed /\ popup.kind = popup'.kind => \A v \in w : Shows(v, popup)
         PROVE  \A v \in Takes(w, s, popup'.kind) : Shows(v, popup'),
         Arrives
  PROVE  Arrives'
<1>. SUFFICES ASSUME NEW k, k = popup'.kind, ~overtaken', NEW f, Replays(f, k)',
                     NEW v \in f[Len(signals')]
              PROVE  Shows(v, popup)'
  BY DEF Arrives, Replays, Window
<1>2. ~overtaken
  BY DEF Says
<1>4. PICK g : /\ Replays(g, k)
               /\ f[Len(signals')] \subseteq Takes(g[Len(signals)], s, k)
               /\ g[Len(signals)] \in SUBSET Drawing
  BY ReplaysBefore
<1>5. popup # Closed /\ popup.kind = k => \A x \in g[Len(signals)] : Shows(x, popup)
  BY <1>2, <1>4 DEF Arrives
<1>6. \A x \in Takes(g[Len(signals)], s, k) : Shows(x, popup')
  BY <1>2, <1>4, <1>5
<1>7. Shows(v, popup')
  BY <1>4, <1>6
<1>. QED BY <1>7 DEF Shows, NarrowEnd, Pages, ColsOf, PageSize, OnPage, Grid

-----------------------------------------------------------------------------
(* What each step of the engine sends brings the windows to its popup.     *)

\* What a signal of the engine's popup carries.
LEMMA SignalSays ==
  ASSUME NEW p, NEW act, NEW from, NEW s, s = Signal(act, p, from)
  PROVE  /\ s.act = act /\ s.kind = p.kind
         /\ Drawn(s) = [items |-> Carries(act, p), page |-> p.page, row |-> p.row,
                        col |-> p.col, cols |-> ColsOf(p)]
BY DEF Signal, Drawn

\* What the windows may draw, when they draw no more than before.
LEMMA SameArrives ==
  ASSUME UNCHANGED <<popup, signals, overtaken>>, \A k : Window(k)' \subseteq Window(k), Arrives
  PROVE  Arrives'
<1>. SUFFICES ASSUME NEW k, k = popup'.kind, ~overtaken', popup' # Closed,
                     NEW f, Replays(f, k)', NEW v \in f[Len(signals')]
              PROVE  Shows(v, popup)'
  BY DEF Arrives, Replays, Window
<1>1. Replays(f, k)
  BY DEF Replays
<1>2. Shows(v, popup)
  BY <1>1 DEF Arrives
<1>. QED BY <1>2 DEF Shows, NarrowEnd, Pages, ColsOf, PageSize, OnPage, Grid

LEMMA SilentArrives == ASSUME Silent, Arrives PROVE Arrives'
<1>1. UNCHANGED <<signals, visible, view, overtaken>>
  BY DEF Silent
<1>2. CASE popup' = Closed
  BY <1>2 DEF Arrives
<1>3. CASE popup' = popup
  <2>1. \A k : Window(k)' \subseteq Window(k)
    BY <1>1 DEF Window
  <2>. QED BY <1>1, <1>3, <2>1, SameArrives
<1>. QED BY <1>2, <1>3 DEF Silent

LEMMA HideArrives ==
  ASSUME signals \in Seq(SignalOK), HideStep, Arrives PROVE Arrives'
<1>1. CASE popup' = Closed
  BY <1>1 DEF Arrives
<1>2. CASE popup' # Closed
  <2>1. PICK from \in {"key", "call"} : Says(Signal("hide", Closed, from))
    BY DEF HideStep
  <2>2. PICK s : s = Signal("hide", Closed, from)
    OBVIOUS
  <2>3. s \in SignalOK /\ s.act = "hide" /\ Says(s)
    BY <2>1, <2>2, SignalType, SignalSays
  <2>4. \A w, k : Takes(w, s, k) = {}
    BY <2>3 DEF Takes
  <2>. QED BY <1>2, <2>3, <2>4, SaysArrives
<1>. QED BY <1>1, <1>2

LEMMA ShowArrives ==
  ASSUME signals \in Seq(SignalOK), PopupInv', ShowStep, Arrives PROVE Arrives'
<1>1. PICK p : p = popup'
  OBVIOUS
<1>2. p \in PopupRec /\ CursorOK(p) /\ p # Closed
  BY <1>1 DEF PopupInv, ShowStep
<1>3. PICK from \in {"key", "call"} : Says(Signal("show", p, from))
  BY <1>1 DEF ShowStep
<1>4. PICK s : s = Signal("show", p, from)
  OBVIOUS
<1>5. /\ s \in SignalOK /\ Says(s) /\ s.act = "show" /\ s.kind = p.kind
      /\ Drawn(s) = [items |-> p.items, page |-> p.page, row |-> p.row,
                     col |-> p.col, cols |-> ColsOf(p)]
  BY <1>2, <1>3, <1>4, SignalType, SignalSays DEF Carries
<1>6. Shows(Drawn(s), p)
  <2>1. PICK v : v = Drawn(s)
    OBVIOUS
  <2>2. v.items = p.items /\ v.page = p.page /\ v.row = p.row /\ v.col = p.col /\ v.cols = ColsOf(p)
    BY <1>5, <2>1
  <2>. QED BY <1>2, <2>1, <2>2, DrawnShows
<1>7. \A w : Takes(w, s, p.kind) = {Drawn(s)}
  BY <1>5 DEF Takes
<1>. QED BY <1>1, <1>2, <1>5, <1>6, <1>7, SaysArrives

LEMMA NavigateArrives ==
  ASSUME signals \in Seq(SignalOK), PopupInv', NavigateStep, Arrives PROVE Arrives'
<1>1. PICK p : p = popup'
  OBVIOUS
<1>2. p \in PopupRec /\ CursorOK(p) /\ p # Closed
  BY <1>1 DEF PopupInv, NavigateStep
<1>3. PICK from \in {"key", "call"} : Says(Signal("navigate", p, from))
  BY <1>1 DEF NavigateStep
<1>4. PICK s : s = Signal("navigate", p, from)
  OBVIOUS
<1>5. /\ s \in SignalOK /\ Says(s) /\ s.act = "navigate" /\ s.kind = p.kind
      /\ Drawn(s) = [items |-> <<>>, page |-> p.page, row |-> p.row,
                     col |-> p.col, cols |-> ColsOf(p)]
  BY <1>2, <1>3, <1>4, SignalType, SignalSays DEF Carries
<1>6. ASSUME NEW w \in SUBSET Drawing,
             popup # Closed /\ popup.kind = p.kind => \A v \in w : Shows(v, popup),
             NEW z \in Takes(w, s, p.kind)
      PROVE  Shows(z, p)
  <2>1. PICK v \in w : z = [Drawn(s) EXCEPT !.items = v.items]
    BY <1>5, <1>6 DEF Takes
  <2>2. v.items = p.items
    BY <1>1, <1>6 DEF NavigateStep, Shows
  <2>3. z.items = p.items /\ z.page = p.page /\ z.row = p.row /\ z.col = p.col /\ z.cols = ColsOf(p)
    BY <1>5, <2>1, <2>2
  <2>. QED BY <1>2, <2>3, DrawnShows
<1>. QED BY <1>1, <1>2, <1>5, <1>6, SaysArrives

LEMMA ReorderArrives ==
  ASSUME signals \in Seq(SignalOK), PopupInv, PopupInv', ReorderStep, Arrives PROVE Arrives'
<1>. SUFFICES ASSUME popup' # Closed PROVE Arrives'
  BY DEF Arrives
<1>1. PICK p : p = popup'
  OBVIOUS
<1>2. PICK o : o = popup
  OBVIOUS
<1>3. /\ p \in PopupRec /\ CursorOK(p) /\ p # Closed /\ o \in PopupRec /\ CursorOK(o) /\ o # Closed
      /\ p.kind = "hanja" /\ o.kind = "hanja" /\ p.expanded = o.expanded
      /\ p.items = Order[marks'] /\ Len(p.items) = Len(o.items)
  BY <1>1, <1>2 DEF PopupInv, ReorderStep
<1>4. PICK list : list = Order[marks']
  OBVIOUS
<1>5. PICK from \in {"key", "call"} : Says([Signal("reorder", p, from) EXCEPT !.items = list])
  BY <1>1, <1>4 DEF ReorderStep
<1>6. PICK t : t = Signal("reorder", p, from)
  OBVIOUS
<1>7. PICK s : s = [t EXCEPT !.items = list]
  OBVIOUS
<1>8. list \in Seq(Nat)
  <2>1. p.items \in Seq(Nat)
    BY <1>3 DEF PopupRec
  <2>. QED BY <1>3, <1>4, <2>1
<1>9. s \in SignalOK /\ Says(s)
  BY <1>3, <1>5, <1>6, <1>7, <1>8, SignalType
<1>10. /\ s.act = "reorder" /\ s.kind = p.kind /\ s.items = p.items
       /\ s.page = p.page /\ s.row = p.row /\ s.col = p.col
  BY <1>3, <1>4, <1>6, <1>7 DEF Signal
<1>11. ASSUME NEW w \in SUBSET Drawing,
              popup # Closed /\ popup.kind = p.kind => \A v \in w : Shows(v, popup),
              NEW z \in Takes(w, s, p.kind)
       PROVE  Shows(z, p)
  <2>1. PICK v \in w : z = [Drawn(s) EXCEPT !.cols = v.cols]
    BY <1>3, <1>10, <1>11 DEF Takes
  <2>2. Shows(v, o)
    BY <1>2, <1>3, <1>11
  <2>3. z.items = p.items /\ z.page = p.page /\ z.row = p.row /\ z.col = p.col /\ z.cols = v.cols
    BY <1>10, <2>1 DEF Drawn
  <2>4. /\ Pages(p) = Pages(o) /\ (NarrowEnd(p) <=> NarrowEnd(o))
        /\ p.page = o.page => ColsOf(p) = ColsOf(o)
    BY <1>3, SameLength
  <2>5. Pages(p) = 1 => p.page = o.page
    <3>1. p.page \in Nat /\ o.page \in Nat /\ p.page < Pages(p) /\ o.page < Pages(o)
      BY <1>3 DEF PopupRec, CursorOK
    <3>. QED BY <2>4, <3>1
  <2>. QED BY <1>3, <2>2, <2>3, <2>4, <2>5 DEF Shows
<1>. QED BY <1>1, <1>9, <1>11, SaysArrives

LEMMA StepArrives ==
  ASSUME SessionInv, SessionInv', Step, Arrives PROVE Arrives'
<1>1. signals \in Seq(SignalOK) /\ PopupInv /\ PopupInv'
  BY DEF SessionInv, WindowsInv
<1>. QED
  BY <1>1, SilentArrives, HideArrives, ShowArrives, NavigateArrives, ReorderArrives DEF Step

\* Hiding a window leaves the others as they are.
LEMMA DismissArrives ==
  ASSUME NEW kind \in Kinds, Dismiss(kind), view \in [Kinds -> Drawing], visible \in SUBSET Kinds, Arrives
  PROVE  Arrives'
<1>1. /\ UNCHANGED <<popup, signals, overtaken>> /\ visible' = visible \ {kind}
      /\ view' = [k \in Kinds |-> IF k \in {kind} THEN Blank ELSE view[k]]
  BY DEF Dismiss, engine, HidWindows
<1>2. \A k : Window(k)' \subseteq Window(k)
  BY <1>1 DEF Window
<1>. QED BY <1>1, <1>2, SameArrives

-----------------------------------------------------------------------------
(* A signal is received: what is left brings the windows where it did.     *)

\* A window that takes the first signal draws what is made of its drawing.
LEMMA WindowTakes ==
  ASSUME WindowsInv, NEW i \in DOMAIN signals, Deliver(i), NEW k \in Kinds
  PROVE  Window(k)' \subseteq Takes(Window(k), signals[i], k)
<1>1. PICK s : s = signals[i]
  OBVIOUS
<1>2. s \in SignalOK /\ view \in [Kinds -> Drawing] /\ visible \in SUBSET Kinds
  BY <1>1 DEF WindowsInv
<1>3. CASE ShowSignal(i)
  <2>1. PICK hidden : hidden = HidesOf(s.kind) \cap visible
    OBVIOUS
  <2>2. /\ visible' = (visible \ hidden) \cup {s.kind} /\ s.act = "show"
        /\ view'[k] = IF k = s.kind THEN Drawn(s) ELSE IF k \in hidden THEN Blank ELSE view[k]
    BY <1>1, <1>3, <2>1 DEF ShowSignal, Receives
  <2>. QED BY <1>1, <2>1, <2>2 DEF Window, Takes
<1>4. CASE HideSignal(i)
  <2>1. visible' = visible \ Kinds
    BY <1>4 DEF HideSignal, HidWindows
  <2>. QED BY <2>1 DEF Window
<1>5. CASE NavigateSignal(i)
  <2>1. /\ visible' = visible /\ s.act = "navigate"
        /\ k \in visible => view'[k] = [Drawn(s) EXCEPT !.items = view[k].items]
    BY <1>1, <1>5 DEF NavigateSignal, Receives
  <2>2. Takes(Window(k), s, k) = {[Drawn(s) EXCEPT !.items = v.items] : v \in Window(k)}
    BY <2>1 DEF Takes
  <2>. QED BY <1>1, <2>1, <2>2 DEF Window
<1>6. CASE ReorderSignal(i)
  <2>1. visible' = visible /\ s.act = "reorder"
    BY <1>1, <1>6 DEF ReorderSignal, Receives
  <2>2. view' = IF "hanja" \in visible
                  THEN [view EXCEPT !["hanja"] = [Drawn(s) EXCEPT !.cols = view["hanja"].cols]]
                  ELSE view
    BY <1>1, <1>6 DEF ReorderSignal
  <2>3. CASE k = "hanja"
    <3>1. Takes(Window(k), s, k) = {[Drawn(s) EXCEPT !.cols = v.cols] : v \in Window(k)}
      BY <2>1, <2>3 DEF Takes
    <3>2. k \in visible => view'[k] = [Drawn(s) EXCEPT !.cols = view[k].cols]
      BY <1>2, <2>2, <2>3
    <3>. QED BY <1>1, <2>1, <3>1, <3>2 DEF Window
  <2>4. CASE k # "hanja"
    <3>1. view'[k] = view[k] /\ Takes(Window(k), s, k) = Window(k)
      BY <1>2, <2>1, <2>2, <2>4 DEF Takes
    <3>. QED BY <1>1, <2>1, <3>1 DEF Window
  <2>. QED BY <2>3, <2>4
<1>. QED BY <1>3, <1>4, <1>5, <1>6 DEF Deliver

\* The first of a sequence taken away.
LEMMA FirstRemoved ==
  ASSUME NEW S, NEW s \in Seq(S), s # <<>>
  PROVE  /\ Len(RemoveAt(s, 1)) = Len(s) - 1
         /\ \A n \in 1 .. Len(s) - 1 : RemoveAt(s, 1)[n] = s[n + 1]
<1>1. PICK L \in Nat \ {0} : L = Len(s)
  BY EmptySeq
<1>2. SubSeq(s, 1, 1 - 1) = <<>>
  BY EmptySeq, SubSeqProperties
<1>3. PICK t : t = SubSeq(s, 1 + 1, Len(s))
  OBVIOUS
<1>4. t \in Seq(S) /\ Len(t) = L - 1 /\ \A n \in 1 .. L - 1 : t[n] = s[n + 1]
  BY <1>1, <1>3
<1>5. RemoveAt(s, 1) = t
  BY <1>2, <1>3, <1>4 DEF RemoveAt
<1>. QED BY <1>1, <1>4, <1>5

LEMMA DeliverArrives ==
  ASSUME SessionInv, NEW i \in DOMAIN signals, Deliver(i), Arrives
  PROVE  Arrives'
<1>1. /\ signals' = RemoveAt(signals, i) /\ overtaken' = (overtaken \/ i > 1) /\ popup' = popup
  BY DEF Deliver, ShowSignal, HideSignal, NavigateSignal, ReorderSignal, Receives, engine
<1>. SUFFICES ASSUME NEW k, k = popup'.kind, ~overtaken', popup' # Closed,
                     NEW f, Replays(f, k)', NEW v \in f[Len(signals')]
              PROVE  Shows(v, popup)'
  BY DEF Arrives, Replays, Window
<1>2. signals \in Seq(SignalOK) /\ WindowsInv /\ k \in Kinds
  BY <1>1 DEF SessionInv, WindowsInv, PopupInv, PopupRec
<1>3. i = 1 /\ signals # <<>> /\ ~overtaken
  <2>1. i \in 1 .. Len(signals)
    BY <1>2
  <2>2. ~overtaken /\ ~(i > 1)
    BY <1>1
  <2>3. signals # <<>>
    BY <2>1
  <2>. QED BY <2>1, <2>2, <2>3
<1>4. PICK L \in Nat : Len(signals) = L + 1
  BY <1>2, <1>3
<1>5. Len(signals') = L /\ \A n \in 1 .. L : signals'[n] = signals[n + 1]
  BY <1>1, <1>2, <1>3, <1>4, FirstRemoved
<1>6. PICK w : w = Window(k)
  OBVIOUS
<1>7. /\ f \in [0 .. L -> SUBSET Drawing] /\ f[0] \subseteq Takes(w, signals[1], k)
      /\ \A n \in 1 .. L : f[n] \subseteq Takes(f[n - 1], signals[n + 1], k)
  <2>1. Window(k)' \subseteq Takes(Window(k), signals[1], k)
    BY <1>2, <1>3, WindowTakes
  <2>. QED BY <1>5, <1>6, <2>1 DEF Replays
<1>8. w \in SUBSET Drawing
  BY <1>2, <1>6 DEF Window, WindowsInv
<1>. DEFINE g == [n \in 0 .. L + 1 |-> IF n = 0 THEN w ELSE f[n - 1]]
<1>9. /\ g \in [0 .. L + 1 -> SUBSET Drawing] /\ g[0] = w
      /\ \A n \in 0 .. L : g[n + 1] = f[n]
  <2>1. \A n \in 0 .. L + 1 : n # 0 => n - 1 \in 0 .. L
    OBVIOUS
  <2>2. \A n \in 0 .. L + 1 : g[n] \in SUBSET Drawing
    BY <1>7, <1>8, <2>1
  <2>. QED BY <2>2
<1>. HIDE DEF g
<1>10. \A n \in 1 .. L + 1 : g[n] \subseteq Takes(g[n - 1], signals[n], k)
  <2>. TAKE n \in 1 .. L + 1
  <2>1. CASE n = 1
    <3>1. g[1] = f[0] /\ n - 1 = 0
      BY <1>9, <2>1
    <3>. QED BY <1>7, <1>9, <2>1, <3>1
  <2>2. CASE n # 1
    <3>1. PICK m \in 1 .. L : n = m + 1
      BY <2>2
    <3>2. m \in 0 .. L /\ m - 1 \in 0 .. L /\ n - 1 = (m - 1) + 1
      BY <3>1
    <3>3. g[n] = f[m] /\ g[n - 1] = f[m - 1]
      BY <1>9, <3>1, <3>2
    <3>. QED BY <1>7, <3>1, <3>3
  <2>. QED BY <2>1, <2>2
<1>11. Replays(g, k)
  BY <1>4, <1>6, <1>9, <1>10 DEF Replays
<1>12. v \in g[Len(signals)]
  BY <1>4, <1>5, <1>9
<1>13. Shows(v, popup)
  BY <1>1, <1>3, <1>11, <1>12 DEF Arrives
<1>. QED BY <1>1, <1>13 DEF Shows, NarrowEnd, Pages, ColsOf, PageSize, OnPage, Grid

\* With no signal on its way the window draws the popup.
LEMMA ArrivedShows ==
  ASSUME SessionInv, Arrives
  PROVE  HighlightIsCursor
<1>. SUFFICES ASSUME popup # Closed, popup.kind \in visible, signals = <<>>, ~overtaken
              PROVE  LET v == view[popup.kind]
                     IN  /\ v.items = popup.items
                         /\ \/ WindowIndex(popup.kind, v.row, v.col) = Index(popup, popup.row, popup.col)
                            \/ NarrowEnd(popup) /\ v.cols = 1
  BY DEF HighlightIsCursor
<1>1. PICK k : k = popup.kind
  OBVIOUS
<1>2. PICK v : v = view[k]
  OBVIOUS
<1>3. popup \in PopupRec /\ CursorOK(popup) /\ k \in Kinds /\ v \in Drawing
  BY <1>1, <1>2 DEF SessionInv, PopupInv, WindowsInv, PopupRec
<1>4. Shows(v, popup)
  <2>. DEFINE f == [n \in 0 .. 0 |-> {v}]
  <2>1. Len(signals) = 0 /\ f \in [0 .. 0 -> SUBSET Drawing] /\ f[0] = {v}
    BY <1>3
  <2>. HIDE DEF f
  <2>2. Replays(f, k)
    BY <1>1, <1>2, <2>1 DEF Replays, Window
  <2>. QED BY <1>1, <2>1, <2>2 DEF Arrives
<1>5. /\ popup.items \in Seq(Nat) /\ popup.page \in Nat /\ popup.row \in Nat /\ popup.col \in Nat
      /\ popup.expanded \in BOOLEAN /\ v.cols \in Nat \ {0}
  BY <1>3 DEF PopupRec, Drawing
<1>6. v.items = popup.items /\ v.page = popup.page /\ v.row = popup.row /\ v.col = popup.col
  BY <1>4 DEF Shows
<1>7. popup.page < Pages(popup) /\ popup.col < ColsOf(popup) /\ ColsOf(popup) \in Nat \ {0}
  BY <1>3, <1>5, ColsOK DEF CursorOK
<1>8. PICK page \in Nat, row \in Nat, col \in Nat : page = popup.page /\ row = popup.row /\ col = popup.col
  BY <1>5
<1>9. page * (Rows * Columns) = page * Rows * Columns
  BY GridSize
<1>10. WindowIndex(k, row, col) =
         IF v.cols > 1 \/ k # "hanja" THEN page * Rows * Columns + col * Rows + row
         ELSE page * Rows + row
  BY <1>2, <1>6, <1>8 DEF WindowIndex
<1>11. Index(popup, row, col) =
         IF Grid(popup) THEN page * (Rows * Columns) + (col * Rows + row) ELSE page * Rows + row
  BY <1>8 DEF Index, PageSize
<1>12. page * Rows * Columns \in Nat /\ col * Rows \in Nat /\ page * Rows \in Nat
  BY GridSize
<1>13. Grid(popup) <=> k # "hanja" \/ popup.expanded
  BY <1>1 DEF Grid
<1>14. CASE v.cols > 1 \/ k # "hanja"
  <2>1. Grid(popup)
    BY <1>1, <1>4, <1>13, <1>14 DEF Shows
  <2>. QED BY <1>1, <1>2, <1>6, <1>8, <1>9, <1>10, <1>11, <1>12, <1>14, <2>1
<1>15. CASE v.cols = 1 /\ k = "hanja" /\ ~popup.expanded
  BY <1>1, <1>2, <1>6, <1>8, <1>10, <1>11, <1>13, <1>15
<1>16. CASE v.cols = 1 /\ k = "hanja" /\ popup.expanded /\ ~NarrowEnd(popup)
  <2>1. Pages(popup) = 1 /\ ColsOf(popup) = 1
    BY <1>1, <1>4, <1>16 DEF Shows
  <2>2. page = 0 /\ col = 0
    BY <1>7, <1>8, <2>1
  <2>3. page * Rows = 0 /\ page * (Rows * Columns) = 0 /\ col * Rows = 0
    BY <2>2, GridSize
  <2>. QED BY <1>1, <1>2, <1>6, <1>8, <1>10, <1>11, <1>13, <1>16, <2>3
<1>. QED BY <1>1, <1>2, <1>5, <1>6, <1>14, <1>15, <1>16

LEMMA ArrivesStep ==
  ASSUME SessionInv, Arrives, [Next]_vars
  PROVE  SessionInv' /\ Arrives'
<1>1. /\ SessionInv'
      /\ \/ Step
         \/ \E kind \in Kinds : Dismiss(kind)
         \/ \E i \in DOMAIN signals : Deliver(i)
  BY SessionNext
<1>. QED BY <1>1, StepArrives, DismissArrives, DeliverArrives DEF SessionInv, WindowsInv

(* The window draws the candidates of the engine and highlights the one that *)
(* Enter takes when the signals have arrived, none of them overtaken,      *)
(* whatever was opened, moved, expanded, sorted and hidden in between; the *)
(* exception is the popup whose last page has one column (NarrowEnd).      *)
THEOREM HighlightTrue == Spec => []HighlightIsCursor
<1>1. Init => SessionInv /\ Arrives
  BY SessionInit DEF Init, Arrives
<1>2. SessionInv /\ Arrives /\ [Next]_vars => (SessionInv /\ Arrives)'
  BY ArrivesStep
<1>. QED BY <1>1, <1>2, ArrivedShows, PTL DEF Spec
=============================================================================
