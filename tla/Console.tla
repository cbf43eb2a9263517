------------------------------ MODULE Console -------------------------------
(***************************************************************************)
(* The text console of kernel/console.c: a screen of characters and the    *)
(* place of the next one.  Colours and number formatting are left out.     *)
(***************************************************************************)
EXTENDS Integers, Sequences, SequencesExt

CONSTANTS VGA_WIDTH, VGA_HEIGHT,
          TabStop   \* columns between tab stops, 8 in the code

ASSUME ConsoleAssumption ==
  VGA_WIDTH \in Nat \ {0} /\ VGA_HEIGHT \in Nat \ {0} /\ TabStop \in Nat \ {0}

VARIABLE console   \* [cell: characters by row and column, row, col]

NL == "\n"
CR == "\r"
TAB == "\t"
BS == "backspace"
SP == " "

Rows == 0 .. VGA_HEIGHT - 1
Cols == 0 .. VGA_WIDTH - 1

console_clear == [cell |-> [r \in Rows |-> [c \in Cols |-> SP]], row |-> 0, col |-> 0]

(* The rows move up by one and an empty one comes in below. *)
console_scroll(con) ==
  [cell |-> [r \in Rows |-> IF r < VGA_HEIGHT - 1 THEN con.cell[r + 1] ELSE [c \in Cols |-> SP]],
   row |-> VGA_HEIGHT - 1, col |-> 0]

(* The character itself, before the wrap. *)
Put(con, c) ==
  CASE c = NL -> [con EXCEPT !.row = @ + 1, !.col = 0]
    [] c = CR -> [con EXCEPT !.col = 0]
    [] c = TAB -> [con EXCEPT !.col = ((@ + TabStop) \div TabStop) * TabStop]
    [] c = BS -> IF con.col > 0
                   THEN [con EXCEPT !.col = @ - 1, !.cell[con.row][con.col - 1] = SP]
                   ELSE con
    [] OTHER -> [con EXCEPT !.cell[con.row][con.col] = c, !.col = @ + 1]

Wrap(con) == IF con.col >= VGA_WIDTH THEN [con EXCEPT !.col = 0, !.row = @ + 1] ELSE con

Scroll(con) == IF con.row >= VGA_HEIGHT THEN console_scroll(con) ELSE con

console_putchar(con, c) == Scroll(Wrap(Put(con, c)))

console_puts(con, str) == FoldLeft(console_putchar, con, str)
=============================================================================
