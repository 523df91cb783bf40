-------------------------------- MODULE Tui ---------------------------------
(***************************************************************************)
(* The terminal interface of tui.rs: a thread of its own that takes a      *)
(* message of an unbounded queue, draws, and then handles the keys pressed *)
(* meanwhile.  A row of the table is known by its proxy; text and the log  *)
(* lines, on which nothing depends, are left out.  Senders never wait, and *)
(* get an error once the thread has ended.                                 *)
(***************************************************************************)
EXTENDS Integers, Sequences

CONSTANTS
  Proxy,         \* ProxyIds
  Nobody,        \* the id 0 that is shown first
  Word,          \* values of a usize
  Keys           \* keys that are pressed, among "up", "down" and "q"

ASSUME TuiAssumption ==
  /\ Nobody \notin Proxy
  /\ Word \in Nat \ {0} /\ Keys \subseteq {"up", "down", "q"}

VARIABLES
  queue,         \* messages sent to the TUI
  rows,          \* ProxyList
  selected,      \* proxy_table_state: index of the highlighted row, or NoRow
  shown,         \* selected_proxy: whose log lines are shown
  up,            \* whether the thread runs
  exit,          \* App::exit: the user pressed q
  moved,         \* history: selected may no longer be where shown is
  presses,       \* history: keys pressed on an empty table since a drawing
  drawn,         \* history: the last drawing had room for the table
  panicked       \* history: the thread ended by a panic

tuiHistory == << moved, presses, drawn, panicked >>
tuiVars == << queue, rows, selected, shown, up, exit, tuiHistory >>

NoRow == Word
Message == [type : {"Proxy", "Log", "Remove"}, id : Proxy]
Msg(t, p) == [type |-> t, id |-> p]

TuiInit ==
  /\ queue = << >> /\ rows = << >>
  /\ selected = NoRow /\ shown = Nobody
  /\ up = TRUE /\ exit = FALSE
  /\ moved = FALSE /\ presses = 0 /\ drawn = TRUE /\ panicked = FALSE

(* An error of the queue is returned to the sender. *)
Post(m) == queue' = IF up THEN Append(queue, m) ELSE queue

-----------------------------------------------------------------------------
(* The other rows, in their order. *)
Without(p) ==
  LET keep[k \in 0 .. Len(rows)] ==
        IF k = 0 THEN << >>
        ELSE IF rows[k] = p THEN keep[k - 1] ELSE Append(keep[k - 1], rows[k])
  IN keep[Len(rows)]

Above(p) == \E k \in DOMAIN rows : rows[k] = p /\ k <= selected + 1

HandleMessage(m) ==
  /\ rows' = CASE m.type = "Proxy"  -> Append(rows, m.id)
               [] m.type = "Remove" -> Without(m.id)
               [] OTHER             -> rows
  /\ moved' = (moved \/ (m.type = "Remove" /\ selected # NoRow /\ Above(m.id)))

(* Drawing the table brings the selection back into it.  In a window with  *)
(* no room for the table nothing is drawn and the selection is left alone. *)
Draw(table) ==
  /\ \/ /\ drawn' = TRUE
        /\ selected' = IF selected = NoRow \/ table = << >> THEN NoRow
                       ELSE IF selected < Len(table) THEN selected ELSE Len(table) - 1
     \/ drawn' = FALSE /\ UNCHANGED selected
  /\ presses' = 0

\* Mutant: the table is drawn before the message is handled.
BugTurn ==
  /\ up /\ ~exit
  /\ \/ /\ queue # << >>
        /\ queue' = Tail(queue)
        /\ HandleMessage(Head(queue))
     \/ queue = << >> /\ UNCHANGED << queue, rows, moved >>
  /\ Draw(rows)
  /\ UNCHANGED << shown, up, exit, panicked >>

(* A turn of App::run up to its handling of events. *)
Turn ==
  /\ up /\ ~exit
  /\ \/ /\ queue # << >>
        /\ queue' = Tail(queue)
        /\ HandleMessage(Head(queue))
     \/ queue = << >> /\ UNCHANGED << queue, rows, moved >>
  /\ Draw(rows')
  /\ UNCHANGED << shown, up, exit, panicked >>

(* The thread takes its queue and the whole App along. *)
End ==
  /\ up' = FALSE /\ queue' = << >> /\ rows' = << >>
  /\ selected' = NoRow /\ shown' = Nobody /\ exit' = FALSE /\ moved' = FALSE

(* What the panic's property needs to know is forgotten without one. *)
EndQuietly == End /\ presses' = 0 /\ drawn' = FALSE /\ UNCHANGED panicked

Leave ==
  /\ up /\ exit
  /\ EndQuietly

(* An error of the terminal: of its set-up, of the logger's, of a drawing, *)
(* or of waiting for events and reading them.                              *)
Fail ==
  /\ up
  /\ EndQuietly

(* len() - 1: on an empty table a debug build panics, which ends the       *)
(* thread (first alternative of Scroll), and a release build wraps around. *)
LastRow == (Len(rows) - 1) % Word

\* Mutant: the selection leaves the table before it returns to the top.
BugNextRow(key) ==
  IF selected = NoRow THEN 0
  ELSE IF key = "down" THEN IF selected > LastRow THEN 0 ELSE selected + 1
                       ELSE IF selected = 0 THEN LastRow ELSE selected - 1

NextRow(key) ==
  IF selected = NoRow THEN 0
  ELSE IF key = "down" THEN IF selected >= LastRow THEN 0 ELSE selected + 1
                       ELSE IF selected = 0 THEN LastRow ELSE selected - 1

NeedsLast(key) == selected # NoRow /\ (key = "down" \/ selected = 0)

(* The index is past the table and the key does not bring it back. *)
Astray(key) ==
  rows = << >> \/ (key = "up" /\ selected # NoRow /\ selected > Len(rows))

Scroll(key) ==
  /\ up /\ key \in Keys
  /\ presses' = IF rows = << >> /\ presses < 2 THEN presses + 1 ELSE presses
  /\ \/ /\ rows = << >> /\ NeedsLast(key)
        /\ End /\ panicked' = TRUE /\ UNCHANGED drawn
     \/ /\ selected' = NextRow(key)
        /\ shown' = IF NextRow(key) < Len(rows) THEN rows[NextRow(key) + 1]
                                                ELSE shown
        /\ moved' = Astray(key)
        /\ UNCHANGED << queue, rows, up, exit, drawn, panicked >>

Quit ==
  /\ up /\ ~exit /\ "q" \in Keys
  /\ exit' = TRUE
  /\ UNCHANGED << queue, rows, selected, shown, up, tuiHistory >>

TuiNext == Turn \/ Leave \/ Fail \/ Scroll("up") \/ Scroll("down") \/ Quit

-----------------------------------------------------------------------------
TuiTypeOK ==
  /\ queue \in Seq(Message) /\ rows \in Seq(Proxy)
  /\ selected \in 0 .. Word - 1 \cup {NoRow} /\ shown \in Proxy \cup {Nobody}
  /\ up \in BOOLEAN /\ exit \in BOOLEAN /\ moved \in BOOLEAN /\ presses \in 0 .. 2
  /\ drawn \in BOOLEAN /\ panicked \in BOOLEAN

(* The log lines shown are those of the highlighted row, unless that row   *)
(* or one above it was removed, or a key left the index past the table.    *)
HighlightIsShown ==
  up /\ selected # NoRow /\ ~moved =>
    selected < Len(rows) /\ rows[selected + 1] = shown

(* No single key makes the thread panic, as long as the table is drawn: it *)
(* takes two of them between two drawings of an empty table.  (The thread  *)
(* also ends when the user quits and on any error of the terminal.)        *)
PanicTakesTwoKeys == panicked /\ drawn => presses = 2
=============================================================================
