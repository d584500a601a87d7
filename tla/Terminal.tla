------------------------------ MODULE Terminal ------------------------------
(***************************************************************************)
(* What the console screen promises: a text terminal of Rows lines of Cols *)
(* cells with a cursor that is always on the screen.  A character appears  *)
(* under the cursor, which moves on, over the end of a line, and over the  *)
(* end of the last line by scrolling every line up by one.                 *)
(***************************************************************************)
EXTENDS Naturals

CONSTANTS
  Rows, Cols,
  Glyphs,     \* the characters that can appear
  Attrs,      \* the colours of a cell
  White       \* the colours of a character that brings its own

VARIABLES
  lines,      \* lines[r][c] : the cell in line r, column c
  row, col,   \* the cursor
  attr        \* the colours of what is printed next

vars == <<lines, row, col, attr>>

Space == 32
Blank == [ch |-> Space, attr |-> attr]

\* The cursor goes to column c of the line below, the text `text' on the screen.
Down(c, text) ==
  /\ col' = c
  /\ IF row + 1 < Rows
     THEN row' = row + 1 /\ lines' = text
     ELSE /\ row' = row
          /\ lines' = [r \in 0..(Rows - 1) |->
                         IF r + 1 < Rows THEN text[r + 1]
                                         ELSE [c2 \in 0..(Cols - 1) |-> Blank]]

Show(ch, a) ==
  /\ LET text == [lines EXCEPT ![row][col] = [ch |-> ch, attr |-> a]]
     IN  IF col + 1 < Cols THEN col' = col + 1 /\ lines' = text /\ UNCHANGED row
                           ELSE Down(0, text)
  /\ UNCHANGED attr

NewLine == Down(0, lines) /\ UNCHANGED attr

Return == col' = 0 /\ UNCHANGED <<lines, row, attr>>

\* Backspace erases, and goes back over the start of a line but not of the screen.
Back ==
  /\ row > 0 \/ col > 0
  /\ row' = IF col > 0 THEN row ELSE row - 1
  /\ col' = IF col > 0 THEN col - 1 ELSE Cols - 1
  /\ lines' = [lines EXCEPT ![row'][col'] = Blank]
  /\ UNCHANGED attr

Colour == attr' \in Attrs /\ UNCHANGED <<lines, row, col>>

Next == \/ \E ch \in Glyphs, a \in {attr, White} : Show(ch, a)
        \/ NewLine \/ Return \/ Back \/ Colour

OnScreen == row \in 0..(Rows - 1) /\ col \in 0..(Cols - 1)

Spec == OnScreen /\ [][Next]_vars

=============================================================================
