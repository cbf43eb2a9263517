------------------------------ MODULE Syscall -------------------------------
(***************************************************************************)
(* The file calls of syscall/syscall.c: a table of descriptors in front of *)
(* the one that the file system keeps.  INT 0x80 is an interrupt gate, so  *)
(* a call is one step.  The file system is its interface here: a file is   *)
(* the sequence of its bytes, and any call on it may fail or, on a full    *)
(* disk, write less than asked; what happens on the disk is AresFS.  The   *)
(* slots' own pos is left out, because nothing reads it.                   *)
(***************************************************************************)
EXTENDS Integers, Sequences, FiniteSetsExt

CONSTANTS
  SYSCALL_MAX_FDS, ARESFS_MAX_OPEN_FILES,
  Path         \* paths of files

VARIABLES
  file,        \* the bytes of each file, or Absent
  g_fds,       \* the file system's descriptors
  fd_table     \* per descriptor the one of the file system, or -1

sys == <<file, g_fds, fd_table>>

NONE == -1
Absent == <<"absent">>
STDOUT == 1
STDERR == 2

Closed == [path |-> "", pos |-> 0, flags |-> {}]

(* The first index of a table whose entry is unused, or -1. *)
FirstUnused(table, unused) ==
  LET is == {i \in DOMAIN table : table[i] = unused}
  IN  IF is = {} THEN NONE ELSE Min(is)

SyscallInit ==
  /\ g_fds = [a \in 0 .. ARESFS_MAX_OPEN_FILES - 1 |-> Closed]
  /\ fd_table = [fd \in 0 .. SYSCALL_MAX_FDS - 1 |-> NONE]

-----------------------------------------------------------------------------
(* The file system. *)

Openable(path, flags) == file[path] # Absent \/ "CREAT" \in flags

(* The files once path is open: it may have been created or truncated. *)
Opened(path, flags) ==
  [file EXCEPT ![path] = IF @ = Absent \/ "TRUNC" \in flags THEN <<>> ELSE @]

(* A file is created or truncated before the table is found to be full. *)
aresfs_open(path, flags, a) ==
  \/ a = NONE /\ UNCHANGED <<file, g_fds>>
  \/ /\ Openable(path, flags)
     /\ a = FirstUnused(g_fds, Closed)
     /\ file' = Opened(path, flags)
     /\ g_fds' = [i \in DOMAIN g_fds |->
                    IF i = a THEN [path |-> path, pos |-> 0, flags |-> flags] ELSE g_fds[i]]

aresfs_close(a) ==
  g_fds' = [i \in DOMAIN g_fds |-> IF i = a THEN Closed ELSE g_fds[i]]

Readable(a) == a \in DOMAIN g_fds /\ g_fds[a] # Closed /\ "WRONLY" \notin g_fds[a].flags
Writable(a) == a \in DOMAIN g_fds /\ "WRONLY" \in g_fds[a].flags

(* The bytes read, or Absent for -1. *)
aresfs_read(a, count, got) ==
  \/ got = Absent /\ UNCHANGED g_fds
  \/ /\ Readable(a)
     /\ LET bytes == file[g_fds[a].path]
            end == g_fds[a].pos + count
        IN  got = SubSeq(bytes, g_fds[a].pos + 1, IF end < Len(bytes) THEN end ELSE Len(bytes))
     /\ g_fds' = [g_fds EXCEPT ![a].pos = @ + Len(got)]

(* bytes, with data written over them from pos on. *)
Overwrite(bytes, pos, data) ==
  SubSeq(bytes, 1, pos) \o data \o SubSeq(bytes, pos + Len(data) + 1, Len(bytes))

(* A write that fails leaves the length as it was. *)
aresfs_write(a, data, n) ==
  \/ n = -1 /\ ~ Writable(a) /\ UNCHANGED <<file, g_fds>>
  \/ /\ Writable(a)
     /\ \E k \in 0 .. Len(data) :
          LET old == file[g_fds[a].path]
              new == Overwrite(old, g_fds[a].pos, SubSeq(data, 1, k))
          IN  /\ n \in {-1, k}
              /\ file' = [file EXCEPT ![g_fds[a].path] =
                            IF n = -1 THEN SubSeq(new, 1, Len(old)) ELSE new]
              /\ g_fds' = [g_fds EXCEPT ![a].pos = @ + (IF n = -1 THEN 0 ELSE n)]

-----------------------------------------------------------------------------
(* The calls; the last parameter is what the caller gets in rax. *)

syscall_fd_from_fd(fd) == IF fd \in DOMAIN fd_table THEN fd_table[fd] ELSE NONE

(* Mutant: the file system's descriptor stays open if the table is full. *)
sys_open_Mutant(path, flags, fd) ==
  \E a \in DOMAIN g_fds \cup {NONE} :
    /\ aresfs_open(path, flags, a)
    /\ fd = IF a = NONE THEN NONE ELSE FirstUnused(fd_table, NONE)
    /\ fd_table' = [i \in DOMAIN fd_table |-> IF i = fd THEN a ELSE fd_table[i]]

(* With no slot left, the file is opened and closed again. *)
sys_open(path, flags, fd) ==
  \/ /\ fd = NONE
     /\ aresfs_open(path, flags, NONE)
     /\ UNCHANGED fd_table
  \/ /\ fd = FirstUnused(fd_table, NONE) /\ fd # NONE
     /\ \E a \in DOMAIN g_fds :
          /\ aresfs_open(path, flags, a)
          /\ fd_table' = [fd_table EXCEPT ![fd] = a]
  \/ /\ fd = FirstUnused(fd_table, NONE) /\ fd = NONE
     /\ FirstUnused(g_fds, Closed) # NONE /\ Openable(path, flags)
     /\ file' = Opened(path, flags)
     /\ UNCHANGED <<g_fds, fd_table>>

sys_close(fd) ==
  /\ aresfs_close(syscall_fd_from_fd(fd))
  /\ fd_table' = [i \in DOMAIN fd_table |-> IF i = fd THEN NONE ELSE fd_table[i]]
  /\ UNCHANGED file

sys_read(fd, count, got) ==
  /\ aresfs_read(syscall_fd_from_fd(fd), count, got)
  /\ UNCHANGED <<file, fd_table>>

(* Descriptors 1 and 2 are the console, whatever the table holds. *)
sys_write(fd, data, n) ==
  /\ IF fd \in {STDOUT, STDERR}
       THEN n = Len(data) /\ UNCHANGED <<file, g_fds>>
       ELSE aresfs_write(syscall_fd_from_fd(fd), data, n)
  /\ UNCHANGED fd_table
=============================================================================
