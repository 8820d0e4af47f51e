---------------------------- MODULE PopupSession ----------------------------
(***************************************************************************)
(* The candidate popup of one input context: the engine's PopupState and   *)
(* the conversion it belongs to (src/popup, candidates.rs,                 *)
(* popup_dispatch.rs), and the windows of unim-popup-service that draw it. *)
(* Keys reach the engine; clicks, buttons and the windows' hide hooks      *)
(* reach it as D-Bus calls, each from a thread of its own, in any order.   *)
(* What changes goes back as signals; those of two requests answered by    *)
(* different tasks may overtake each other.                                *)
(*                                                                         *)
(* The 9 x 9 grid is Rows x Columns and a compact Hanja page has Rows      *)
(* candidates.  Candidates are numbers; labels, meanings and stars are     *)
(* left out, and the list of recent emoji does not change.                 *)
(***************************************************************************)
EXTENDS Integers, Sequences, SequencesExt, FiniteSets, FiniteSetsExt

CONSTANTS
  Rows, Columns,  \* MAX_ROWS and MAX_COLS
  Hanja,          \* number of Hanja of a target
  Specials,       \* number of special characters of a consonant
  Emojis,         \* size of each emoji category; the first is the recent ones
  Keys,           \* keys the user presses
  MaxPopups,      \* popups opened in a behaviour
  MaxMarks,       \* Hanja bookmarked at once
  MaxInFlight     \* calls and signals in flight after the user acts

ASSUME PopupAssumption ==
  /\ {Rows, Columns} \subseteq Nat \ {0} /\ {Hanja, Specials} \subseteq Nat \ {0}
  /\ Emojis \in Seq(Nat) /\ Len(Emojis) > 1
  /\ {MaxPopups, MaxMarks, MaxInFlight} \subseteq Nat

Kinds == {"hanja", "special", "emoji"}
Closed == [kind |-> "none", items |-> <<>>, page |-> 0, row |-> 0, col |-> 0,
           expanded |-> FALSE, cat |-> 1]

VARIABLES
  mode,       \* the conversion: "none", "hanja" or "special"
  popup,      \* PopupState of the engine, or Closed
  marks,      \* the Hanja bookmarked for the target
  composing,  \* is there a composition?
  calls,      \* calls of the windows not yet served
  signals,    \* signals not yet received by the windows
  visible,    \* the windows on the screen
  view,       \* what each window draws
  active,     \* is ACTIVE_CONTEXT_PATH set?
  ended,      \* history: how often the last conversion was ended
  opened,     \* history: popups opened
  overtaken   \* history: did a signal ever overtake another?

vars == <<mode, popup, marks, composing, calls, signals, visible, view, active,
          ended, opened, overtaken>>
engine == <<mode, popup, marks, composing, ended, opened>>
windows == <<visible, view, active, overtaken>>
-----------------------------------------------------------------------------
(* The layout of a page.                                                   *)

(* The smaller and the larger of two numbers.                             *)
Least(a, b) == IF a <= b THEN a ELSE b
Most(a, b) == IF a >= b THEN a ELSE b

Grid(p) == p.kind # "hanja" \/ p.expanded
PageSize(p) == IF Grid(p) THEN Rows * Columns ELSE Rows
Ceil(n, d) == (n + d - 1) \div d
Pages(p) == Most(1, Ceil(Len(p.items), PageSize(p)))
OnPage(p) == Least(PageSize(p), Len(p.items) - Least(p.page * PageSize(p), Len(p.items)))
RowsOf(p) == IF Grid(p) THEN Rows ELSE OnPage(p)
ColsOf(p) == IF Grid(p) THEN Least(Columns, Most(1, Ceil(OnPage(p), Rows))) ELSE 1
Index(p, row, col) == p.page * PageSize(p) + (IF Grid(p) THEN col * Rows + row ELSE row)
Cell(p, row, col) == Index(p, row, col) < Len(p.items)
OnCandidate(p) == Cell(p, p.row, p.col)

(* A mutant: set_selected_global leaves the page.                          *)
SetCursorOnPage(p, index) ==
  LET offset == index % PageSize(p)
  IN  [p EXCEPT !.row = IF Grid(p) THEN offset % Rows ELSE offset,
                !.col = IF Grid(p) THEN offset \div Rows ELSE 0]

(* set_selected_global.                                                    *)
SetCursor(p, index) ==
  LET offset == index % PageSize(p)
  IN  [p EXCEPT !.page = index \div PageSize(p),
                !.row = IF Grid(p) THEN offset % Rows ELSE offset,
                !.col = IF Grid(p) THEN offset \div Rows ELSE 0]

ToPage(p, page) == [p EXCEPT !.page = page, !.row = 0, !.col = 0]
Turned(p, by) == (p.page + Pages(p) + by - 1) % Pages(p)
NextPage(p) == IF Pages(p) > 1 THEN ToPage(p, Turned(p, 2)) ELSE p
PrevPage(p) == IF Pages(p) > 1 THEN ToPage(p, Turned(p, 0)) ELSE p
ToFirst(p) == ToPage(p, 0)
ToLast(p) ==
  IF p.items = <<>> THEN ToPage(p, Pages(p) - 1) ELSE SetCursor(p, Len(p.items) - 1)
(* A mutant: expanding keeps the page.                                     *)
ExpandKeepsPage(p) == [p EXCEPT !.expanded = ~p.expanded]
Expand(p) == [ToPage(p, 0) EXCEPT !.expanded = ~p.expanded]

(* popup_change_page: the cursor stays where it was, within the rows and   *)
(* columns of the new page, be there a candidate or not.                   *)
ChangePage(p, by) ==
  LET q == [p EXCEPT !.page = Turned(p, by)]
  IN  IF Pages(p) <= 1 THEN p
      ELSE [q EXCEPT !.row = Least(q.row, Most(RowsOf(q), 1) - 1),
                     !.col = Least(q.col, ColsOf(q) - 1)]

(* A mutant: the row is not corrected.                                     *)
OrTopNever(p) == p
OrTop(p) == IF OnCandidate(p) THEN p ELSE [p EXCEPT !.row = 0]
Up(p) ==
  LET n == RowsOf(p)
      above == (p.row + n - 1) % n
  IN  IF n = 0 THEN p
      ELSE [p EXCEPT !.row = Max({r \in 0 .. above : r = 0 \/ Cell(p, r, p.col)})]
Down(p) ==
  LET n == RowsOf(p)
  IN  IF n = 0 THEN p ELSE OrTop([p EXCEPT !.row = (p.row + 1) % n])
Sideways(p, by) == OrTop([p EXCEPT !.col = (p.col + ColsOf(p) + by - 1) % ColsOf(p)])
Right(p) == IF Grid(p) THEN Sideways(p, 2) ELSE NextPage(p)
Left(p) == IF Grid(p) THEN Sideways(p, 0) ELSE PrevPage(p)

(* A letter of the top row names a column.                                 *)
Column(p, col) ==
  LET filled == {r \in 0 .. Rows - 1 : Cell(p, r, col)}
  IN  IF col >= ColsOf(p) THEN p
      ELSE [p EXCEPT !.col = col,
                     !.row = IF @ \in filled \/ filled = {} THEN @ ELSE Max(filled)]
-----------------------------------------------------------------------------
(* Candidates.                                                             *)

(* Bookmarked Hanja first, each part in the order of the dictionary.       *)
Precedes(g, h, bookmarks) ==
  IF g \in bookmarks <=> h \in bookmarks THEN g < h ELSE g \in bookmarks
Place(h, bookmarks) == Cardinality({g \in 1 .. Hanja : Precedes(g, h, bookmarks)}) + 1
Order ==
  [bookmarks \in SUBSET (1 .. Hanja) |->
     [n \in 1 .. Hanja |-> CHOOSE h \in 1 .. Hanja : Place(h, bookmarks) = n]]
Category(cat) == [n \in 1 .. Emojis[cat] |-> 100 * cat + n]
Popup(kind, items, cat) == [Closed EXCEPT !.kind = kind, !.items = items, !.cat = cat]
HanjaPopup == Popup("hanja", Order[marks], 1)
SpecialPopup == Popup("special", [n \in 1 .. Specials |-> n], 1)
EmojiPopup(cat) == Popup("emoji", Category(cat), cat)
FirstCategory == IF Emojis[1] = 0 THEN 2 ELSE 1

(* toggle_hanja_bookmark sorts anew; the cursor follows the Hanja.         *)
Toggled(index) ==
  LET hanja == Order[marks][index + 1]
      set == IF hanja \in marks THEN marks \ {hanja} ELSE marks \cup {hanja}
  IN  [marks |-> set, at |-> Place(hanja, set) - 1]
-----------------------------------------------------------------------------
(* Signals and windows.                                                    *)

Carries(act, p) == IF act \in {"show", "reorder"} THEN p.items ELSE <<>>
Signal(act, p, from) ==
  [act |-> act, kind |-> p.kind, items |-> Carries(act, p), page |-> p.page,
   row |-> p.row, col |-> p.col, cols |-> ColsOf(p), from |-> from]
Send(act, p, from) == signals' = Append(signals, Signal(act, p, from))
Hide(from) == Send("hide", Closed, from)

Drawn(s) == [items |-> s.items, page |-> s.page, row |-> s.row, col |-> s.col, cols |-> s.cols]
Blank == [items |-> <<>>, page |-> 0, row |-> 0, col |-> 0, cols |-> 1]

(* Every window that hides runs its hook: a call of CancelHanja or of      *)
(* CancelSpecialChar, or, for emoji, ACTIVE_CONTEXT_PATH is cleared.       *)
Call(op, index) == [op |-> op, index |-> index]
HideHook(kind) == IF kind = "hanja" THEN "cancelHanja" ELSE "cancelSpecial"
HideCallsNone(hidden) == {}  \* A mutant: the windows have no hide hook.
HideCalls(hidden) == {Call(HideHook(kind), 0) : kind \in hidden \ {"emoji"}}
HidWindows(hidden) ==
  /\ visible' = visible \ hidden
  /\ view' = [kind \in Kinds |-> IF kind \in hidden THEN Blank ELSE view[kind]]
  /\ calls' = calls \cup HideCalls(hidden \cap visible)

HidesOf(kind) == CASE kind = "hanja" -> {"special"}
                   [] kind = "special" -> {"hanja", "emoji"}
                   [] kind = "emoji" -> {"hanja", "special"}
-----------------------------------------------------------------------------
(* What the engine does; each operator says what becomes of the engine's   *)
(* variables, the actions below which signal follows.                      *)

Same == UNCHANGED <<marks, opened>>
Converting == mode # "none"
Idle == ~Converting /\ popup = Closed
Once == ended' = IF ended < 2 THEN ended + 1 ELSE 2

(* The conversion ends and its target or a candidate is committed.         *)
EndConversion ==
  /\ mode' = "none" /\ popup' = Closed /\ composing' = FALSE
  /\ IF Converting THEN Once ELSE UNCHANGED ended

(* popup_cancel; an emoji popup has no target and leaves the composition.  *)
PopupCancel ==
  IF Converting THEN EndConversion
  ELSE popup' = Closed /\ UNCHANGED <<mode, composing, ended>>

(* popup_select: with no conversion it takes an emoji.                     *)
PopupSelect == PopupCancel

Open(kind, p) ==
  /\ opened < MaxPopups
  /\ popup' = p /\ opened' = opened + 1
  /\ mode' = IF kind = "emoji" THEN "none" ELSE kind
  /\ ended' = IF kind = "emoji" THEN ended ELSE 0

(* toggle_hanja_bookmark; the popup may have been closed under it.         *)
ToggleBookmark(index) ==
  LET new == Toggled(index)
      sorted == [popup EXCEPT !.items = Order[new.marks]]
  IN  /\ Cardinality(new.marks) <= MaxMarks
      /\ marks' = new.marks
      /\ popup' = IF popup = Closed THEN Closed ELSE SetCursor(sorted, new.at)
      /\ UNCHANGED <<mode, composing, ended, opened>>
(* A mutant: the signal carries the cursor of before the toggle.           *)
ReorderedEarly(from) ==
  signals' = Append(signals, [Signal("reorder", popup, from) EXCEPT !.items = Order[marks']])
Reordered(from) ==
  signals' = Append(signals, [Signal("reorder", popup', from) EXCEPT !.items = Order[marks']])
-----------------------------------------------------------------------------
(* Keys.  A key the popup knows moves, selects, toggles or cancels; any    *)
(* other cancels the popup and is then processed as if there were none.    *)

UserMayAct == Cardinality(calls) + Len(signals) < MaxInFlight
InPopup(k) == k \in Keys /\ popup # Closed /\ UserMayAct

TurnKeys(p) == CASE p.kind = "hanja" -> {"tab", "pageDown", "pageUp", "backspace"}
                 [] p.kind = "special" -> {"tab", "pageDown", "space", "pageUp"}
                 [] p.kind = "emoji" -> {"pageDown", "pageUp"}
MoveKeys(p) ==
  {"up", "down", "left", "right", "home", "end"} \cup TurnKeys(p)
    \cup (IF Grid(p) THEN {"q", "w"} ELSE {})
    \cup (IF p.kind = "hanja" THEN {"period"} ELSE {})

Moved(p, k) ==
  CASE k = "up" -> Up(p) [] k = "down" -> Down(p)
    [] k = "left" -> Left(p) [] k = "right" -> Right(p)
    [] k = "home" -> ToFirst(p) [] k = "end" -> ToLast(p)
    [] k = "q" -> Column(p, 0) [] k = "w" -> Column(p, 1)
    [] k = "period" -> Expand(p)
    [] k \in {"pageUp", "backspace"} -> PrevPage(p)
    [] OTHER -> NextPage(p)

MoveCursor(k) ==
  /\ InPopup(k) /\ k \in MoveKeys(popup)
  /\ popup' = Moved(popup, k)
  /\ Send("navigate", popup', "key")
  /\ UNCHANGED <<mode, composing, ended, calls, windows>> /\ Same

(* Tab and the home row choose an emoji category.                          *)
NextCategory(cat) == (cat % Len(Emojis)) + 1
KeyCategory(k) == CASE k = "tab" -> NextCategory(popup.cat) [] k = "a" -> 1 [] k = "s" -> 2
ChangeCategory(k) ==
  /\ InPopup(k) /\ k \in {"tab", "a", "s"} /\ popup.kind = "emoji"
  /\ KeyCategory(k) # popup.cat
  /\ popup' = EmojiPopup(KeyCategory(k))
  /\ Send("show", popup', "key")
  /\ UNCHANGED <<mode, composing, ended, calls, windows>> /\ Same

(* Enter takes the candidate at the cursor, 1 the one of the first row.    *)
SelectKey(k) ==
  /\ InPopup(k)
  /\ \/ k = "enter" /\ OnCandidate(popup)
     \/ k = "one" /\ Cell(popup, 0, popup.col)
  /\ PopupSelect /\ Hide("key")
  /\ UNCHANGED <<calls, windows>> /\ Same

BookmarkKey ==
  /\ InPopup("space") /\ popup.kind = "hanja" /\ OnCandidate(popup)
  /\ ToggleBookmark(Index(popup, popup.row, popup.col))
  /\ Reordered("key")
  /\ UNCHANGED <<calls, windows>>

EscapeKey ==
  /\ InPopup("escape")
  /\ PopupCancel /\ Hide("key")
  /\ UNCHANGED <<calls, windows>> /\ Same

NotHandled(k) ==
  \/ popup = Closed /\ Converting
  \/ popup # Closed /\ k \in {"letter", "hanjaKey"}
  \/ popup.kind = "special" /\ k = "backspace"
  \/ popup.kind = "hanja" /\ ~popup.expanded /\ k \in {"q", "w"}
Typing(k) == k \in {"letter", "q", "w", "a", "s"}

(* The key cancels and is pressed again, now without a popup.              *)
OtherKey(k) ==
  /\ k \in Keys /\ UserMayAct /\ ~Idle /\ NotHandled(k) /\ k # "hanjaKey"
  /\ IF Converting THEN Once /\ mode' = "none" ELSE UNCHANGED <<ended, mode>>
  /\ popup' = Closed
  /\ composing' = IF Typing(k) THEN TRUE ELSE composing /\ ~Converting
  /\ Hide("key")
  /\ UNCHANGED <<calls, windows>> /\ Same

(* The Hanja key again: the conversion ends, and the emoji popup opens in  *)
(* the same step, its ShowEmoji in place of the HidePopup.                 *)
HanjaKeyAgain ==
  /\ "hanjaKey" \in Keys /\ UserMayAct /\ ~Idle /\ NotHandled("hanjaKey")
  /\ opened < MaxPopups /\ (Converting \/ ~composing)
  /\ popup' = EmojiPopup(FirstCategory) /\ opened' = opened + 1
  /\ mode' = "none" /\ composing' = FALSE
  /\ IF Converting THEN Once ELSE UNCHANGED ended
  /\ Send("show", popup', "key")
  /\ UNCHANGED <<marks, calls, windows>>

(* No popup: a letter composes, a space confirms, the Hanja key opens a    *)
(* popup for what is composed (start_hanja_conversion), or for emoji.      *)
Type ==
  /\ Idle /\ ~composing /\ "letter" \in Keys
  /\ composing' = TRUE
  /\ UNCHANGED <<mode, popup, ended, signals, calls, windows>> /\ Same
Confirm ==
  /\ Idle /\ composing /\ "space" \in Keys
  /\ composing' = FALSE
  /\ UNCHANGED <<mode, popup, ended, signals, calls, windows>> /\ Same
HanjaKey ==
  /\ Idle /\ UserMayAct /\ "hanjaKey" \in Keys
  /\ \/ composing /\ Open("hanja", HanjaPopup)
     \/ composing /\ Open("special", SpecialPopup)
     \/ ~composing /\ Open("emoji", EmojiPopup(FirstCategory))
  /\ Send("show", popup', "key")
  /\ UNCHANGED <<marks, composing, calls, windows>>

(* FocusOut or Reset: the target is committed and the engine made anew.    *)
Leave ==
  /\ UserMayAct /\ "focus" \in Keys
  /\ ~Idle \/ composing
  /\ EndConversion /\ Hide("key")
  /\ UNCHANGED <<calls, windows>> /\ Same
-----------------------------------------------------------------------------
(* The user at a window.                                                   *)

WindowIndex(kind, row, col) ==
  LET v == view[kind]
      grid == v.cols > 1 \/ kind # "hanja"
  IN  IF grid THEN v.page * Rows * Columns + col * Rows + row ELSE v.page * Rows + row
Cells(kind) ==
  {c \in (0 .. Rows - 1) \X (0 .. Columns - 1) :
     /\ kind = "hanja" /\ view[kind].cols = 1 => c[2] = 0
     /\ WindowIndex(kind, c[1], c[2]) < Len(view[kind].items)}
MayClick(kind) == kind \in visible /\ active /\ UserMayAct
Ask(call) == calls' = calls \cup {call} /\ UNCHANGED <<engine, signals, windows>>

(* A click on a special character sends its place on the page.             *)
Click(kind) ==
  /\ MayClick(kind)
  /\ \E c \in Cells(kind) :
       Ask(CASE kind = "hanja" -> Call("hanja", WindowIndex(kind, c[1], c[2]))
             [] kind = "special" -> Call("special", c[2] * Rows + c[1])
             [] kind = "emoji" -> Call("emoji", 0))
RightClick ==
  /\ MayClick("hanja")
  /\ \E c \in Cells("hanja") : Ask(Call("toggle", WindowIndex("hanja", c[1], c[2])))
PageButton ==
  \E kind \in visible, op \in {"next", "previous"} : MayClick(kind) /\ Ask(Call(op, 0))
ExpandButton == MayClick("hanja") /\ Ask(Call("expand", 0))
CategoryTab ==
  /\ "emoji" \in visible /\ UserMayAct
  /\ \E cat \in DOMAIN Emojis : Ask(Call("category", cat))

(* A click outside, or Escape in the window of emoji, hides the window.    *)
Dismiss(kind) ==
  /\ kind \in visible /\ UserMayAct
  /\ HidWindows({kind})
  /\ active' = (active /\ kind # "emoji")
  /\ UNCHANGED <<engine, signals, overtaken>>
-----------------------------------------------------------------------------
(* The daemon serves the calls, in any order.  Those of the input context  *)
(* go by ACTIVE_CONTEXT_PATH and fail without it; the calls of the emoji   *)
(* window do not.                                                          *)

ByPath(c) == c.op \notin {"emoji", "category"}
Served(c) == c \in calls /\ (ByPath(c) => active) /\ calls' = calls \ {c}
Nothing == UNCHANGED <<engine, windows, signals>>
Answered == UNCHANGED windows

FailCall(c) ==
  /\ c \in calls /\ ByPath(c) /\ ~active
  /\ calls' = calls \ {c} /\ Nothing

(* SelectHanja and SelectSpecialChar; the windows hide in any case.        *)
Select(c) ==
  /\ Served(c) /\ c.op \in {"hanja", "special"}
  /\ IF mode = c.op /\ c.index < (IF mode = "hanja" THEN Hanja ELSE Specials)
       THEN EndConversion /\ Same ELSE UNCHANGED engine
  /\ Hide("call") /\ Answered

ToggleCall(c) ==
  /\ Served(c) /\ c.op = "toggle"
  /\ IF mode = "hanja" /\ c.index < Hanja
       THEN ToggleBookmark(c.index) /\ Reordered("call") ELSE UNCHANGED <<engine, signals>>
  /\ Answered

PageCall(c) ==
  /\ Served(c) /\ c.op \in {"next", "previous"}
  /\ IF popup # Closed /\ Pages(popup) > 1
       THEN /\ popup' = ChangePage(popup, IF c.op = "next" THEN 2 ELSE 0)
            /\ Send("navigate", popup', "call")
       ELSE UNCHANGED <<popup, signals>>
  /\ UNCHANGED <<mode, composing, ended>> /\ Same /\ Answered

ExpandCall(c) ==
  /\ Served(c) /\ c.op = "expand"
  /\ IF popup.kind = "hanja"
       THEN popup' = Expand(popup) /\ Send("navigate", popup', "call")
       ELSE UNCHANGED <<popup, signals>>
  /\ UNCHANGED <<mode, composing, ended>> /\ Same /\ Answered

(* SetEmojiCategory.                                                       *)
CategoryCall(c) ==
  /\ Served(c) /\ c.op = "category"
  /\ IF popup.kind = "emoji"
       THEN popup' = EmojiPopup(c.index) /\ Send("show", popup', "call")
       ELSE UNCHANGED <<popup, signals>>
  /\ UNCHANGED <<mode, composing, ended>> /\ Same /\ Answered

(* CommitEmoji closes the engine's popup, whatever its kind.               *)
CommitEmoji(c) ==
  /\ Served(c) /\ c.op = "emoji"
  /\ popup' = Closed
  /\ Hide("call")
  /\ UNCHANGED <<mode, composing, ended>> /\ Same /\ Answered

(* CancelHanja and CancelSpecialChar: the target is committed and the      *)
(* windows hide if there is one; popup and composition are cleared whether *)
(* there is or not.                                                        *)
TargetAlways(kind) == TRUE  \* A mutant: the target is not cleared when it is committed.
Target(kind) == mode = kind
CancelCall(kind, c) ==
  /\ Served(c) /\ c.op = HideHook(kind)
  /\ mode' = (IF mode = kind THEN "none" ELSE mode)
  /\ popup' = Closed /\ composing' = FALSE
  /\ IF Target(kind) THEN Once /\ Hide("call") ELSE UNCHANGED <<ended, signals>>
  /\ Same /\ Answered

Serve(c) ==
  \/ FailCall(c) \/ Select(c) \/ ToggleCall(c) \/ PageCall(c) \/ ExpandCall(c)
  \/ CategoryCall(c) \/ CommitEmoji(c)
  \/ \E kind \in {"hanja", "special"} : CancelCall(kind, c)
-----------------------------------------------------------------------------
(* The windows take a signal.  Those that answer keys come from one task   *)
(* and stay in order; the answer of a call may come before or after them.  *)

Next1(i) == signals[i].from = "key" => \A j \in 1 .. i - 1 : signals[j].from # "key"
Receives(i, act) ==
  /\ i \in DOMAIN signals /\ Next1(i) /\ signals[i].act = act
  /\ signals' = RemoveAt(signals, i)
  /\ overtaken' = (overtaken \/ i > 1)
  /\ UNCHANGED engine

ShowSignal(i) ==
  /\ Receives(i, "show")
  /\ LET kind == signals[i].kind
         hidden == HidesOf(kind) \cap visible
     IN  /\ visible' = (visible \ hidden) \cup {kind}
         /\ calls' = calls \cup HideCalls(hidden)
         /\ view' = [k \in Kinds |-> IF k = kind THEN Drawn(signals[i])
                                     ELSE IF k \in hidden THEN Blank ELSE view[k]]
         /\ active' = TRUE

HideSignal(i) ==
  /\ Receives(i, "hide")
  /\ HidWindows(Kinds)
  /\ active' = (active /\ "emoji" \notin visible)

(* PopupNavigate names no kind: every window on the screen follows it.     *)
NavigateSignal(i) ==
  /\ Receives(i, "navigate")
  /\ view' = [kind \in Kinds |->
                IF kind \in visible
                  THEN [Drawn(signals[i]) EXCEPT !.items = view[kind].items]
                  ELSE view[kind]]
  /\ UNCHANGED <<visible, active, calls>>

(* HanjaCandidatesReordered carries no number of columns.                  *)
ReorderSignal(i) ==
  /\ Receives(i, "reorder")
  /\ view' = IF "hanja" \in visible
               THEN [view EXCEPT !["hanja"] =
                       [Drawn(signals[i]) EXCEPT !.cols = view["hanja"].cols]]
               ELSE view
  /\ UNCHANGED <<visible, active, calls>>

Deliver(i) == ShowSignal(i) \/ HideSignal(i) \/ NavigateSignal(i) \/ ReorderSignal(i)
-----------------------------------------------------------------------------
Init ==
  /\ mode = "none" /\ popup = Closed /\ marks = {} /\ composing = FALSE
  /\ calls = {} /\ signals = <<>>
  /\ visible = {} /\ view = [kind \in Kinds |-> Blank] /\ active = FALSE
  /\ ended = 1 /\ opened = 0 /\ overtaken = FALSE

Press ==
  \/ \E k \in Keys : MoveCursor(k) \/ ChangeCategory(k) \/ SelectKey(k) \/ OtherKey(k)
  \/ BookmarkKey \/ EscapeKey \/ HanjaKeyAgain \/ Type \/ Confirm \/ HanjaKey \/ Leave
Mouse ==
  \/ \E kind \in Kinds : Click(kind) \/ Dismiss(kind)
  \/ RightClick \/ PageButton \/ ExpandButton \/ CategoryTab

Next ==
  \/ Press \/ Mouse
  \/ \E c \in calls : Serve(c)
  \/ \E i \in DOMAIN signals : Deliver(i)

(* Signals arrive and calls are answered; the user need not do anything.   *)
Fairness ==
  /\ WF_vars(\E i \in DOMAIN signals : i = 1 /\ Deliver(i))
  /\ WF_vars(\E c \in calls : Serve(c))
Spec == Init /\ [][Next]_vars /\ Fairness
-----------------------------------------------------------------------------
(* The types, and: a window that is not on the screen draws nothing, and a *)
(* cursor of the engine is inside the grid, on a page there is.            *)
PopupTypeOK ==
  /\ mode \in {"none", "hanja", "special"}
  /\ popup # Closed =>
       /\ popup.kind \in Kinds
       /\ popup.page \in 0 .. Pages(popup) - 1
       /\ popup.row \in 0 .. Rows - 1 /\ popup.col \in 0 .. Columns - 1
  /\ marks \subseteq 1 .. Hanja /\ composing \in BOOLEAN /\ active \in BOOLEAN
  /\ visible \subseteq Kinds
  /\ \A kind \in Kinds \ visible : view[kind] = Blank
  /\ opened \in 0 .. MaxPopups

(* A conversion commits its target or a candidate exactly once, whichever  *)
(* of the key, the click, the hide hook of the window and the focus comes  *)
(* first, and while it goes on it has committed neither.                   *)
ConversionEndsOnce == ended = IF Converting THEN 0 ELSE 1

(* What the user sees is what Enter takes: when all signals have arrived,  *)
(* none out of order, a window of the popup draws the engine's candidates  *)
(* and highlights the one the engine's cursor is on.  The exception is an  *)
(* expanded popup whose last page has one column: the window takes that    *)
(* page for a compact one, and goes on doing so when a bookmark takes the  *)
(* cursor back to a wider page, for HanjaCandidatesReordered carries no    *)
(* number of columns.                                                      *)
NarrowEnd(p) ==
  p.expanded /\ Pages(p) > 1 /\ ColsOf([p EXCEPT !.page = Pages(p) - 1]) = 1
HighlightIsCursor ==
  LET v == view[popup.kind]
  IN  popup # Closed /\ popup.kind \in visible /\ signals = <<>> /\ ~overtaken
      => /\ v.items = popup.items
         /\ \/ WindowIndex(popup.kind, v.row, v.col) = Index(popup, popup.row, popup.col)
            \/ NarrowEnd(popup) /\ v.cols = 1

(* A key that moves the cursor leaves it on a candidate, even when a page  *)
(* button had left it beside the candidates of a shorter page.  (A column  *)
(* letter is no such key.)                                                 *)
NavigationFindsCandidate ==
  [][\/ OnCandidate(popup') \/ popup.items = <<>>
     \/ \A k \in Keys \ {"q", "w"} : ~MoveCursor(k)]_vars

(* A bookmark toggled with the space bar moves the Hanja, across pages if  *)
(* need be, and the cursor with it; the bookmarked come first.             *)
AtCursor(p) == p.items[Index(p, p.row, p.col) + 1]
BookmarkKeepsCursor ==
  [][BookmarkKey =>
       /\ OnCandidate(popup') /\ AtCursor(popup') = AtCursor(popup)
       /\ \A i, j \in 1 .. Hanja :
            i < j /\ popup'.items[j] \in marks' => popup'.items[i] \in marks']_vars

(* A window on the screen and a conversion in the engine find each other   *)
(* again: either may be ahead of the other, but not for good, unless a     *)
(* signal overtook another.                                                *)
WindowAgrees ==
  \A kind \in {"hanja", "special"} :
    []<>(overtaken \/ ((kind \in visible) <=> (mode = kind)))

=============================================================================
