------------------------------- MODULE Editor -------------------------------
(***************************************************************************)
(* The text editor of editor/editor.c over the system calls: its buffer,   *)
(* cursor and viewport, loading and saving one call at a time, the command *)
(* line, and other processes that hold descriptors meanwhile.  g_buf[i] is *)
(* buf[i + 1], and g_len is Len(buf).                                      *)
(***************************************************************************)
EXTENDS Syscall, SequencesExt

CONSTANTS
  EDITOR_BUFFER_SIZE, EDITOR_TEXT_ROWS, EDITOR_SCREEN_COLS,
  Char,         \* characters that keys insert; a newline among them
  Programs      \* descriptors that other processes may hold

VARIABLES
  buf, cursor, view_off, path, dirty,
  pc,           \* "shell", "edit", or the next step of a load or a save
  fd, n,        \* of ed_load_file and ed_save_file
  quit,         \* the editor returns after the save if nothing is dirty
  unstored,     \* the path's file was not read or written in full when last tried
  held,         \* descriptors of other processes
  outlived      \* a descriptor is open on a file system that was mounted anew

text == <<buf, cursor, view_off, dirty>>
call == <<fd, n, quit>>
others == <<held, outlived>>
vars == <<sys, text, path, pc, call, unstored, others>>

NL == "\n"
NoName == ""
Blank == "cleared"   \* a cell that was cleared, told apart from a space that was typed

-----------------------------------------------------------------------------
(* Geometry: where lines begin and end, and rows of the screen.  The array *)
(* b may have a byte that is left over after its first len.                *)

ed_line_start(b, off) == Max({0} \cup {i \in 1 .. off : b[i] = NL})

ed_line_end(b, len, off) == Min({len} \cup {i \in off .. len - 1 : b[i + 1] = NL})

ed_prev_line(b, off) ==
  LET start == ed_line_start(b, off)
  IN  IF start = 0 THEN 0 ELSE ed_line_start(b, start - 1)

ed_next_line(b, len, off) ==
  LET end == ed_line_end(b, len, off)
  IN  IF end >= len THEN len ELSE end + 1

ed_col_at(b, off) == off - ed_line_start(b, off)

ed_screen_row(b, view, off) ==
  LET row == Cardinality({i \in view + 1 .. off : b[i] = NL})
  IN  IF off < view THEN -1
      ELSE IF row >= EDITOR_TEXT_ROWS THEN EDITOR_TEXT_ROWS ELSE row

(* Mutant: a newline does not end the part of a line that is cut off. *)
ed_render_Mutant(b, view) ==
  LET put(s, c) ==
        IF s.row >= EDITOR_TEXT_ROWS THEN s
        ELSE IF s.col < EDITOR_SCREEN_COLS
          THEN IF c = NL THEN [s EXCEPT !.row = @ + 1, !.col = 0]
                         ELSE [s EXCEPT !.cell[s.row, s.col] = c, !.col = @ + 1]
        ELSE s
      cleared == [r \in 0 .. EDITOR_TEXT_ROWS - 1, c \in 0 .. EDITOR_SCREEN_COLS - 1 |-> Blank]
  IN  FoldLeft(put, [row |-> 0, col |-> 0, cell |-> cleared], SubSeq(b, view + 1, Len(b))).cell

(* The text area after ed_render: a character per row and column. *)
ed_render(b, view) ==
  LET put(s, c) ==
        IF s.row >= EDITOR_TEXT_ROWS THEN s
        ELSE IF c = NL THEN [s EXCEPT !.row = @ + 1, !.col = 0]
        ELSE IF s.col < EDITOR_SCREEN_COLS
          THEN [s EXCEPT !.cell[s.row, s.col] = c, !.col = @ + 1]
        ELSE s
      cleared == [r \in 0 .. EDITOR_TEXT_ROWS - 1, c \in 0 .. EDITOR_SCREEN_COLS - 1 |-> Blank]
  IN  FoldLeft(put, [row |-> 0, col |-> 0, cell |-> cleared], SubSeq(b, view + 1, Len(b))).cell

ed_scroll_into_view(b, len, c) ==
  LET up[v \in 0 .. Len(b)] == IF c < v THEN up[ed_prev_line(b, v)] ELSE v
      down[v \in 0 .. len] ==
        LET next == ed_next_line(b, len, v)
        IN  IF ed_screen_row(b, v, c) < EDITOR_TEXT_ROWS THEN v
            ELSE IF next >= len THEN next ELSE down[next]
  IN  down[up[view_off]]

-----------------------------------------------------------------------------
(* Keys.  Each ends with ed_scroll_into_view and ed_render. *)

Refresh(b, len, c) ==
  /\ cursor' = c
  /\ buf' = SubSeq(b, 1, len)
  /\ view_off' = ed_scroll_into_view(b, len, c)

(* The buffer and cursor after ed_insert_char, which may find it full. *)
ed_insert_char(t, c) ==
  IF Len(t.buf) + 1 >= EDITOR_BUFFER_SIZE THEN t
  ELSE [buf |-> InsertAt(t.buf, t.cursor + 1, c), cursor |-> t.cursor + 1, dirty |-> TRUE]

Here == [buf |-> buf, cursor |-> cursor, dirty |-> dirty]

Insert(t) ==
  /\ pc = "edit"
  /\ Refresh(t.buf, Len(t.buf), t.cursor)
  /\ dirty' = t.dirty
  /\ UNCHANGED <<sys, path, pc, call, unstored, others>>

KeyChar(c) == Insert(ed_insert_char(Here, c))
KeyTab == Insert(ed_insert_char(ed_insert_char(Here, " "), " "))

(* The last byte stays where it was, after the end of the text. *)
ed_delete_before ==
  /\ pc = "edit"
  /\ cursor > 0
  /\ Refresh(Append(RemoveAt(buf, cursor), Last(buf)), Len(buf) - 1, cursor - 1)
  /\ dirty' = TRUE
  /\ UNCHANGED <<sys, path, pc, call, unstored, others>>

MoveTo(c) ==
  /\ pc = "edit"
  /\ UNCHANGED <<sys, dirty, path, pc, call, unstored, others>>
  /\ Refresh(buf, Len(buf), c)

ed_move_left == MoveTo(IF cursor > 0 THEN cursor - 1 ELSE cursor)
ed_move_right == MoveTo(IF cursor < Len(buf) THEN cursor + 1 ELSE cursor)

(* Mutant: the column is not cut to the length of the line above. *)
ed_move_up_Mutant ==
  LET prev == ed_prev_line(buf, cursor)
  IN  MoveTo(IF prev = ed_line_start(buf, cursor) THEN cursor
             ELSE prev + ed_col_at(buf, cursor))

ed_move_up ==
  LET col == ed_col_at(buf, cursor)
      prev == ed_prev_line(buf, cursor)
      prev_len == ed_line_end(buf, Len(buf), prev) - prev
  IN  MoveTo(IF prev = ed_line_start(buf, cursor) THEN cursor
             ELSE prev + (IF col < prev_len THEN col ELSE prev_len))

(* On the last line, and on the one above an empty last line, nothing      *)
(* moves.                                                                  *)
ed_move_down ==
  LET col == ed_col_at(buf, cursor)
      start == ed_line_start(buf, cursor)
      next == ed_next_line(buf, Len(buf), cursor)
      last_end == ed_line_end(buf, Len(buf), cursor)
      next_len == ed_line_end(buf, Len(buf), next) - next
  IN  MoveTo(IF next >= Len(buf)
               THEN IF col < last_end - start THEN start + col ELSE last_end
               ELSE next + (IF col < next_len THEN col ELSE next_len))

-----------------------------------------------------------------------------
(* Loading and saving. *)

Empty == buf' = <<>> /\ cursor' = 0 /\ view_off' = 0 /\ dirty' = FALSE
NoCall == fd' = NONE /\ n' = 0 /\ quit' = FALSE

(* What a file holds; one that does not exist is edited as an empty one. *)
Stored(p) == IF file[p] = Absent THEN <<>> ELSE file[p]

(* editor_open and ed_load_file, up to ed_sys_open. *)
editor_open(p) ==
  /\ pc = "shell"
  /\ path' = p
  /\ Empty
  /\ \E f \in DOMAIN fd_table \cup {NONE} :
       /\ sys_open(p, {}, f)
       /\ fd' = f
       /\ pc' = IF f = NONE THEN "edit" ELSE "read"
       /\ unstored' = (f = NONE /\ file[p] # Absent)
  /\ UNCHANGED <<n, quit, others>>

LoadRead ==
  /\ pc = "read"
  /\ \E got \in {Absent} \cup {SubSeq(file[path], 1, k) : k \in 0 .. Len(file[path])} :
       /\ sys_read(fd, EDITOR_BUFFER_SIZE - 1, got)
       /\ buf' = IF got = Absent THEN <<>> ELSE got
       /\ unstored' = (got # file[path])
  /\ pc' = "loaded"
  /\ UNCHANGED <<cursor, view_off, dirty, path, call, others>>

LoadClose ==
  /\ pc = "loaded"
  /\ sys_close(fd)
  /\ pc' = "edit"
  /\ NoCall
  /\ UNCHANGED <<text, path, unstored, others>>

(* The editor returns to the shell; its variables are set anew next time. *)
Leave == pc' = "shell" /\ path' = NoName /\ unstored' = FALSE /\ Empty /\ NoCall

Stay == Refresh(buf, Len(buf), cursor) /\ UNCHANGED dirty

(* ed_save_file up to ed_sys_open, on path p; q: for :wq. *)
ed_save_file(p, q) ==
  /\ pc = "edit"
  /\ \/ /\ p = NoName
        /\ IF q /\ ~ dirty THEN Leave
           ELSE path' = p /\ Stay /\ UNCHANGED <<pc, call, unstored>>
        /\ UNCHANGED sys
     \/ /\ p # NoName
        /\ sys_open(p, {"WRONLY", "CREAT", "TRUNC"}, NONE)
        /\ IF q /\ ~ dirty THEN Leave
           ELSE path' = p /\ unstored' = TRUE /\ Stay /\ UNCHANGED <<pc, call>>
     \/ /\ p # NoName
        /\ \E f \in DOMAIN fd_table : sys_open(p, {"WRONLY", "CREAT", "TRUNC"}, f) /\ fd' = f
        /\ path' = p /\ quit' = q /\ pc' = "write" /\ unstored' = TRUE
        /\ UNCHANGED <<text, n>>
  /\ UNCHANGED others

SaveWrite ==
  /\ pc = "write"
  /\ \E k \in -1 .. Len(buf) : sys_write(fd, buf, k) /\ n' = k
  /\ pc' = "written"
  /\ UNCHANGED <<text, path, fd, quit, unstored, others>>

(* Mutant: a short write counts as a save. *)
Saved_Mutant == n >= 0

Saved == n = Len(buf)

(* A save through a console descriptor reaches no file. *)
SaveClose ==
  /\ pc = "written"
  /\ sys_close(fd)
  /\ IF quit /\ (Saved \/ ~ dirty) THEN Leave
     ELSE /\ pc' = "edit"
          /\ NoCall
          /\ Refresh(buf, Len(buf), cursor)
          /\ dirty' = (dirty /\ ~ Saved)
          /\ unstored' = (fd \in {STDOUT, STDERR} \/ ~ Saved)
          /\ UNCHANGED path
  /\ UNCHANGED others

-----------------------------------------------------------------------------
(* ^X, which does not look at g_dirty, and :q!. *)
ForceQuit == pc = "edit" /\ Leave /\ UNCHANGED <<sys, others>>

(* :q, refused while there are unsaved changes. *)
Quit == ~ dirty /\ ForceQuit

(* ESC and a command: :q, :q!, :w and :wq, :w with a name.  ^S is :w. *)
ed_run_command ==
  \/ Quit
  \/ ForceQuit
  \/ \E q \in BOOLEAN : ed_save_file(path, q)
  \/ \E p \in Path \cup {NoName} : ed_save_file(p, FALSE)

-----------------------------------------------------------------------------
(* The rest of the system. *)

(* Another process opens a file to read it, and closes it. *)
ProgramOpen(p) ==
  /\ Cardinality(held) < Programs
  /\ \E f \in DOMAIN fd_table \cup {NONE} :
       sys_open(p, {}, f) /\ held' = held \cup ({f} \ {NONE})
  /\ UNCHANGED <<text, path, pc, call, unstored, outlived>>

ProgramClose(f) ==
  /\ sys_close(f)
  /\ held' = held \ {f}
  /\ UNCHANGED <<text, path, pc, call, unstored, outlived>>

(* The shell's test command: fs_init mounts the file system anew, and a    *)
(* test of it that fails half-way does not close its file.                 *)
cmd_test ==
  /\ pc = "shell"
  /\ \E leak \in {Closed, [path |-> "/test.txt", pos |-> 0, flags |-> {"WRONLY"}]} :
       g_fds' = [a \in DOMAIN g_fds |-> IF a = 0 THEN leak ELSE Closed]
  /\ outlived' = \E f \in DOMAIN fd_table : fd_table[f] # NONE
  /\ UNCHANGED <<file, fd_table, text, path, pc, call, unstored, held>>

Init ==
  /\ SyscallInit
  /\ file \in [Path -> {Absent, [i \in 1 .. EDITOR_BUFFER_SIZE |-> NL]}]
  /\ buf = <<>> /\ cursor = 0 /\ view_off = 0 /\ dirty = FALSE
  /\ path = NoName /\ pc = "shell" /\ fd = NONE /\ n = 0 /\ quit = FALSE
  /\ unstored = FALSE /\ held = {} /\ outlived = FALSE

(* Once a descriptor has outlived its file system the model stops. *)
Next ==
  /\ ~ outlived
  /\ \/ \E p \in Path : editor_open(p)
     \/ LoadRead
     \/ LoadClose
     \/ \E c \in Char : KeyChar(c)
     \/ KeyTab
     \/ ed_delete_before
     \/ ed_move_left
     \/ ed_move_right
     \/ ed_move_up
     \/ ed_move_down
     \/ ed_run_command
     \/ SaveWrite
     \/ SaveClose
     \/ \E p \in Path : ProgramOpen(p)
     \/ \E f \in held : ProgramClose(f)
     \/ cmd_test

Spec == Init /\ [][Next]_vars

-----------------------------------------------------------------------------
(* Properties. *)

(* The cursor and the view stay inside the text, which leaves the last     *)
(* byte of g_buf unused, as ed_insert_char and ed_load_file see to.        *)
TypeOK ==
  /\ buf \in Seq(Char \cup {" "}) /\ cursor \in 0 .. Len(buf) /\ view_off \in 0 .. Len(buf)
  /\ Len(buf) < EDITOR_BUFFER_SIZE
  /\ path \in Path \cup {NoName} /\ dirty \in BOOLEAN
  /\ fd \in DOMAIN fd_table \cup {NONE} /\ n \in -1 .. EDITOR_BUFFER_SIZE

(* After every key the view starts at a line, the cursor's row is on the   *)
(* screen, and the cell under the hardware cursor shows the character that *)
(* the next key acts on, unless the line is cut off before it: what        *)
(* ed_render draws and what ed_screen_row and ed_col_at compute agree,     *)
(* also after the line at the top was joined to the one above.             *)
CursorOnCharacter ==
  /\ TypeOK
  /\ pc = "edit" =>
       LET row == ed_screen_row(buf, view_off, cursor)
           col == ed_col_at(buf, cursor)
       IN  /\ view_off = ed_line_start(buf, view_off)
           /\ row \in 0 .. EDITOR_TEXT_ROWS - 1
           /\ col < EDITOR_SCREEN_COLS =>
                ed_render(buf, view_off)[row, col] =
                  IF cursor = Len(buf) \/ buf[cursor + 1] = NL THEN Blank ELSE buf[cursor + 1]

(* Rows and columns of a text, counted from its first character. *)
Row(c) == Cardinality({i \in 1 .. c : buf[i] = NL})
LineLength(r) == Cardinality({i \in 1 .. Len(buf) : buf[i] # NL /\ Row(i) = r})
Col(c) == Cardinality({i \in 1 .. c : buf[i] # NL /\ Row(i) = Row(c)})

(* The arrow keys go one line up or down, to the same column or the end of *)
(* a shorter line, and not at all beyond the first and the last line.  An  *)
(* empty last line is not reached by ed_move_down.                         *)
VerticalMoves ==
  [][LET to(r) == /\ Row(cursor') = r
                  /\ Col(cursor') = Min({Col(cursor), LineLength(r)})
         last == Row(Len(buf))
     IN  /\ ed_move_up => IF Row(cursor) = 0 THEN UNCHANGED cursor ELSE to(Row(cursor) - 1)
         /\ ed_move_down =>
              IF Row(cursor) = last \/ (Row(cursor) = last - 1 /\ LineLength(last) = 0)
                THEN UNCHANGED cursor ELSE to(Row(cursor) + 1)]_vars

(* A text that is not marked dirty is what its file holds, so that :q and  *)
(* :wq lose nothing, whichever call of the last save failed or was short.  *)
(* The exceptions are in unstored: a load or save of an unchanged text     *)
(* that failed, a file longer than the buffer, and a save to descriptor 1  *)
(* or 2, which sys_write sends to the console.                             *)
CleanIsStored ==
  pc = "edit" /\ ~ dirty /\ ~ unstored /\ path # NoName => Stored(path) = buf

(* Both tables hold exactly the descriptors that are in use: two never     *)
(* share an entry of the file system's table, and a load or save that      *)
(* fails anywhere leaves none behind, so that mounting anew under the      *)
(* shell cannot cut one off.                                               *)
DescriptorsPaired ==
  LET used == held \cup (IF pc \in {"shell", "edit"} THEN {} ELSE {fd})
  IN  ~ outlived =>
        /\ {f \in DOMAIN fd_table : fd_table[f] # NONE} = used
        /\ \A f, g \in used : fd_table[f] = fd_table[g] => f = g
        /\ {a \in DOMAIN g_fds : g_fds[a] # Closed /\ g_fds[a].path \in Path} =
             {fd_table[f] : f \in used}
=============================================================================
