------------------------------- MODULE Shell --------------------------------
(***************************************************************************)
(* The shell's loop in shell/shell.c: the line being typed and its echo on *)
(* the console, the ring of earlier lines, and the split of a line into    *)
(* words.  A key is one step; a command prints something or clears the     *)
(* screen.                                                                 *)
(***************************************************************************)
EXTENDS Console, FiniteSetsExt

CONSTANTS
  SHELL_MAX_LINE, SHELL_MAX_ARGS, SHELL_HISTORY_SIZE,
  Prompt,       \* the characters of the prompt
  Char,         \* printable characters that are typed
  Output        \* what commands print, complete lines

VARIABLES
  line,         \* the characters typed; pos is its length
  history, history_count, history_head, history_nav,
  recent,       \* the lines that were entered, newest first
  wrapped       \* the line has reached the right edge since the prompt

ring == <<history, history_count, history_head>>
vars == <<console, line, ring, history_nav, recent, wrapped>>

Blank == <<>>

-----------------------------------------------------------------------------
(* The ring of earlier lines. *)

history_index_at(nav) == (history_head - 1 - nav) % SHELL_HISTORY_SIZE

(* Mutant: compares with the slot that is written next. *)
history_push_Mutant(l) ==
  IF history_count > 0 /\ history[history_head] = l THEN UNCHANGED ring
  ELSE /\ history' = [history EXCEPT ![history_head] = l]
       /\ history_head' = (history_head + 1) % SHELL_HISTORY_SIZE
       /\ history_count' = IF history_count < SHELL_HISTORY_SIZE THEN history_count + 1
                                                                 ELSE history_count

history_push(l) ==
  IF history_count > 0 /\ history[history_index_at(0)] = l THEN UNCHANGED ring
  ELSE /\ history' = [history EXCEPT ![history_head] = l]
       /\ history_head' = (history_head + 1) % SHELL_HISTORY_SIZE
       /\ history_count' = IF history_count < SHELL_HISTORY_SIZE THEN history_count + 1
                                                                 ELSE history_count

-----------------------------------------------------------------------------
(* Words. *)

(* The index of the first character from i on that is, or is not, a space. *)
SkipTo(l, i, space) ==
  Min({j \in i .. Len(l) : (l[j] = SP) = space} \cup {Len(l) + 1})

(* Mutant: the NUL put behind a word ends the line. *)
shell_parse_Mutant(l, max_args) ==
  LET i == SkipTo(l, 1, FALSE)
  IN  IF i > Len(l) THEN <<>> ELSE <<<<i, SkipTo(l, i, TRUE) - 1>>>>

(* The words as their first and last index, in the order of argv. *)
shell_parse(l, max_args) ==
  LET words[argc \in 0 .. max_args, i \in 1 .. Len(l) + 2] ==
        LET start == SkipTo(l, i, FALSE)
            end == SkipTo(l, start, TRUE)
        IN  IF argc = max_args \/ start > Len(l) THEN <<>>
            ELSE <<<<start, end - 1>>>> \o words[argc + 1, end + 1]
  IN  words[0, 1]

-----------------------------------------------------------------------------
(* Keys. *)

(* Mutant: steps back as far as the new line is long. *)
line_replace_Mutant(con, old, new) ==
  LET times(c) == [i \in 1 .. Len(new) |-> c]
  IN  console_puts(con, times(BS) \o times(SP) \o times(BS) \o new)

(* Back over the old line, blanks, back again, and the new line. *)
line_replace(con, old, new) ==
  LET times(c) == [i \in 1 .. Len(old) |-> c]
  IN  console_puts(con, times(BS) \o times(SP) \o times(BS) \o new)

Edge(l) == wrapped' = (wrapped \/ Len(Prompt) + Len(l) >= VGA_WIDTH)

Type(cs) ==
  /\ line' = line \o cs
  /\ console' = console_puts(console, cs)
  /\ Edge(line')
  /\ UNCHANGED <<ring, history_nav, recent>>

KeyChar(c) == Len(line) < SHELL_MAX_LINE - 1 /\ Type(<<c>>)

(* Up to four spaces. *)
KeyTab == Type([i \in 1 .. Min({4, SHELL_MAX_LINE - 1 - Len(line)}) |-> SP])

KeyBackspace ==
  /\ line # Blank
  /\ line' = Front(line)
  /\ console' = console_puts(console, <<BS, SP, BS>>)
  /\ UNCHANGED <<ring, history_nav, recent, wrapped>>

Show(nav, l) ==
  /\ history_nav' = nav
  /\ line' = l
  /\ console' = line_replace(console, line, l)
  /\ Edge(l)
  /\ UNCHANGED <<ring, recent>>

KeyUp ==
  /\ history_nav < history_count - 1
  /\ Show(history_nav + 1, history[history_index_at(history_nav + 1)])

KeyDown ==
  \/ history_nav > 0 /\ Show(history_nav - 1, history[history_index_at(history_nav - 1)])
  \/ history_nav = 0 /\ Show(-1, Blank)

-----------------------------------------------------------------------------
(* The head of the loop, on the console as the last command left it. *)
NewPrompt(con) ==
  /\ console' = console_puts(con, Prompt)
  /\ line' = Blank
  /\ history_nav' = -1
  /\ wrapped' = (Len(Prompt) >= VGA_WIDTH)

(* What the shell should remember after line l. *)
Remember(l) ==
  IF recent # <<>> /\ Head(recent) = l THEN recent
  ELSE SubSeq(<<l>> \o recent, 1, Min({SHELL_HISTORY_SIZE, Len(recent) + 1}))

(* ENTER: history_push, shell_execute, and the next prompt. *)
KeyEnter ==
  LET below == console_putchar(console, NL)
  IN  \/ /\ line = Blank
         /\ NewPrompt(below)
         /\ UNCHANGED <<ring, recent>>
      \/ /\ line # Blank
         /\ history_push(line)
         /\ recent' = Remember(line)
         /\ \/ shell_parse(line, SHELL_MAX_ARGS) = <<>> /\ NewPrompt(below)
            \/ /\ shell_parse(line, SHELL_MAX_ARGS) # <<>>
               /\ \/ \E out \in Output : NewPrompt(console_puts(below, out))
                  \/ NewPrompt(console_clear)

Init ==
  /\ console = console_puts(console_clear, Prompt)
  /\ line = Blank
  /\ history = [i \in 0 .. SHELL_HISTORY_SIZE - 1 |-> Blank]
  /\ history_count = 0 /\ history_head = 0 /\ history_nav = -1
  /\ recent = <<>> /\ wrapped = FALSE

Next ==
  \/ \E c \in Char : KeyChar(c)
  \/ KeyTab
  \/ KeyBackspace
  \/ KeyUp
  \/ KeyDown
  \/ KeyEnter

Spec == Init /\ [][Next]_vars

-----------------------------------------------------------------------------
(* Properties. *)

(* console_putchar leaves the cursor on the screen, and the line and the   *)
(* history stay within their arrays.                                       *)
TypeOK ==
  /\ console.row \in Rows /\ console.col \in Cols
  /\ DOMAIN console.cell = Rows /\ \A r \in Rows : DOMAIN console.cell[r] = Cols
  /\ Len(line) < SHELL_MAX_LINE
  /\ history_head \in 0 .. SHELL_HISTORY_SIZE - 1 /\ history_count \in 0 .. SHELL_HISTORY_SIZE
  /\ history_nav \in -1 .. history_count - 1

(* What the user sees is what ENTER will run: the cursor's row shows the   *)
(* prompt and the line, and nothing behind it, also after a longer line    *)
(* was recalled and replaced.  docs/shell.md:46 says "The display always   *)
(* reflects the buffer"; it does while the line has not reached the right  *)
(* edge, which console_putchar cannot step back over.                      *)
EchoIsLine ==
  ~ wrapped =>
    LET shown == Prompt \o line
    IN  /\ console.col = Len(shown)
        /\ \A c \in Cols :
             console.cell[console.row][c] = IF c < Len(shown) THEN shown[c + 1] ELSE SP

(* The ring holds the lines entered last, newest first, without one that   *)
(* repeats the line before it, however often it has gone round             *)
(* (docs/shell.md:67).                                                     *)
HistoryIsRecent ==
  /\ TypeOK
  /\ history_count = Len(recent)
  /\ \A nav \in 0 .. history_count - 1 : history[history_index_at(nav)] = recent[nav + 1]

(* shell_parse finds the words, in order: the longest stretches without a  *)
(* space, as many of them as argv has room for.                            *)
WordsExact ==
  LET word(i, j) ==
        /\ i <= j /\ \A k \in i .. j : line[k] # SP
        /\ i = 1 \/ line[i - 1] = SP
        /\ j = Len(line) \/ line[j + 1] = SP
      all == {w \in (1 .. Len(line)) \X (1 .. Len(line)) : word(w[1], w[2])}
      exact(found, max_args) ==
        /\ Len(found) = Min({max_args, Cardinality(all)})
        /\ \A k \in DOMAIN found :
             found[k] \in all /\ Cardinality({w \in all : w[1] < found[k][1]}) = k - 1
  IN  \A max_args \in 1 .. SHELL_MAX_ARGS : exact(shell_parse(line, max_args), max_args)
=============================================================================
