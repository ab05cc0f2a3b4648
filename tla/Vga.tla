-------------------------------- MODULE Vga --------------------------------
(***************************************************************************)
(* devices/vga.c: the text display.  paper is what the display shows a     *)
(* window of: the lines printed since the screen was last cleared.         *)
(***************************************************************************)
EXTENDS Naturals, Sequences

CONSTANTS COL_CNT, ROW_CNT, TAB,
          MaxLines      \* bound on the length of paper

VARIABLES fb, cx, cy,   \* framebuffer and cursor of vga.c
          hw,           \* the hardware cursor
          beeping,      \* a thread is in speaker_beep, with interrupts on
          paper

vars == <<fb, cx, cy, hw, beeping, paper>>

Blank == [x \in 1 .. COL_CNT |-> " "]

(* The display as the BIOS left it; init finds the cursor there. *)
Init ==
  /\ hw \in 0 .. COL_CNT * ROW_CNT - 1
  /\ cx = hw % COL_CNT /\ cy = hw \div COL_CNT
  /\ fb = [y \in 1 .. ROW_CNT |->
             IF y <= hw \div COL_CNT THEN [Blank EXCEPT ![1] = "o"] ELSE Blank]
  /\ beeping = FALSE
  /\ paper = SubSeq(fb, 1, cy + 1)

(* A variant that scrolls without clearing the last row. *)
newline_dirty(s) ==
  IF s.cy + 1 >= ROW_CNT
  THEN [s EXCEPT !.cx = 0, !.fb = Tail(s.fb) \o <<s.fb[ROW_CNT]>>]
  ELSE [s EXCEPT !.cx = 0, !.cy = @ + 1]

newline(s) ==
  IF s.cy + 1 >= ROW_CNT
  THEN [s EXCEPT !.cx = 0, !.fb = Tail(s.fb) \o <<Blank>>]
  ELSE [s EXCEPT !.cx = 0, !.cy = @ + 1]

cls == [fb |-> [y \in 1 .. ROW_CNT |-> Blank], cx |-> 0, cy |-> 0]

ROUND_UP(x, step) == ((x + step - 1) \div step) * step

(* Where vga_putc leaves framebuffer and cursor. *)
Putc(s, c) ==
  LET wrap(t) == IF t.cx >= COL_CNT THEN newline(t) ELSE t
  IN  CASE c = "\n" -> newline(s)
        [] c = "\f" -> cls
        [] c = "bs" -> [s EXCEPT !.cx = IF @ > 0 THEN @ - 1 ELSE @]
        [] c = "\r" -> [s EXCEPT !.cx = 0]
        [] c = "\t" -> wrap([s EXCEPT !.cx = ROUND_UP(@ + 1, TAB)])
        [] OTHER -> wrap([s EXCEPT !.fb[s.cy + 1][s.cx + 1] = c, !.cx = @ + 1])

Screen == [fb |-> fb, cx |-> cx, cy |-> cy]

move_cursor(s) == hw' = s.cx + COL_CNT * s.cy

(* The paper after c, as a printing terminal would write it. *)
Written(c) ==
  LET last == Len(paper)
      feed == CASE c = "\n" -> TRUE
                [] c = "\t" -> cx + TAB - (cx % TAB) >= COL_CNT
                [] c \in {"bs", "\r"} -> FALSE
                [] OTHER -> cx + 1 = COL_CNT
      inked == IF c = "x" THEN [paper EXCEPT ![last][cx + 1] = c] ELSE paper
  IN  IF c = "\f" THEN <<Blank>> ELSE IF feed THEN Append(inked, Blank) ELSE inked

vga_putc(c) ==
  /\ Len(paper) < MaxLines
  /\ LET s == Putc(Screen, c)
     IN  fb' = s.fb /\ cx' = s.cx /\ cy' = s.cy /\ move_cursor(s)
  /\ paper' = Written(c)
  /\ UNCHANGED beeping

(* The bell rings with interrupts as they were; others may print. *)
Bell == ~ beeping /\ beeping' = TRUE /\ UNCHANGED <<fb, cx, cy, hw, paper>>

BellRung ==
  /\ beeping
  /\ beeping' = FALSE
  /\ move_cursor(Screen)
  /\ UNCHANGED <<fb, cx, cy, paper>>

Next ==
  \/ \E c \in {"\n", "\f", "bs", "\r", "\t", "x"} : vga_putc(c)
  \/ Bell \/ BellRung
-----------------------------------------------------------------------------
(* The display shows the end of what was printed, with the cursor on its   *)
(* last line; the lines below it are blank.                                *)
ShowsEndOfPaper ==
  /\ cy + 1 = IF Len(paper) < ROW_CNT THEN Len(paper) ELSE ROW_CNT
  /\ SubSeq(fb, 1, cy + 1) = SubSeq(paper, Len(paper) - cy, Len(paper))
  /\ \A y \in cy + 2 .. ROW_CNT : fb[y] = Blank

(* The cursor stays on the display and the hardware shows it, the bell's   *)
(* window with interrupts on included.                                     *)
CursorOnScreen == cx < COL_CNT /\ cy < ROW_CNT /\ hw = cx + COL_CNT * cy
=============================================================================
