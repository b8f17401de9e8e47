------------------------------- MODULE FileCopy -------------------------------
(***************************************************************************)
(* bridge/file/test.c: copy a file of the host through the bridge, and     *)
(* show it on the way.  A read gives as many characters as the bridge      *)
(* likes, none only at the end of the file; main makes a string of them in *)
(* the buffer.  The file is the program's own source, shorter than the     *)
(* buffer.  Its k-th character is k; 0 is NUL.                             *)
(***************************************************************************)
EXTENDS Integers, Sequences, FiniteSetsExt

CONSTANTS FILE_BUFFER,  \* 8192 in the code
          FILE_LENGTH   \* 1273 in the code

FileAssumption == FILE_BUFFER \in Nat /\ FILE_LENGTH \in 1 .. FILE_BUFFER - 1

VARIABLES pc,      \* where main is
          at,      \* the position in the file that is read
          res,     \* local of main
          buffer,  \* the buffer, and in its last cell what follows it in memory
          copied,  \* the file that is written
          shown    \* what puts has printed, without its line ends

vars == << pc, at, res, buffer, copied, shown >>

\* What no statement of main writes.
Untouched == -1

TypeOK ==
  /\ pc \in {"begin", "read", "write", "terminate", "puts", "exit_0", "exit_-1"}
  /\ at \in 0 .. FILE_LENGTH
  /\ res \in 0 .. FILE_BUFFER
  /\ buffer \in [0 .. FILE_BUFFER -> 0 .. FILE_LENGTH \cup {Untouched}]
  /\ copied \in Seq(1 .. FILE_LENGTH) /\ shown \in Seq(1 .. FILE_LENGTH)

Init ==
  /\ pc = "begin" /\ at = 0 /\ res = 0
  /\ buffer = [k \in 0 .. FILE_BUFFER |-> IF k = FILE_BUFFER THEN Untouched ELSE 0]
  /\ copied = << >> /\ shown = << >>

-----------------------------------------------------------------------------
\* The connection and the two opens; both are made before main looks at them.
Open ==
  /\ pc = "begin"
  /\ pc' \in {"read", "exit_-1"}
  /\ UNCHANGED << at, res, buffer, copied, shown >>

\* The head of the loop.
Read ==
  /\ pc = "read"
  /\ \E n \in 0 .. Min({FILE_BUFFER, FILE_LENGTH - at}) :
       /\ n = 0 <=> at = FILE_LENGTH
       /\ res' = n /\ at' = at + n
       /\ buffer' = [k \in 0 .. FILE_BUFFER |-> IF k < n THEN at + k + 1 ELSE buffer[k]]
  /\ pc' = IF res' = 0 THEN "exit_0" ELSE "write"
  /\ UNCHANGED << copied, shown >>

Write ==
  /\ pc = "write"
  /\ copied' = copied \o [k \in 1 .. res |-> buffer[k - 1]]
  /\ pc' = "terminate"
  /\ UNCHANGED << at, res, buffer, shown >>

\* buffer[res] = 0.
Terminate ==
  /\ pc = "terminate"
  /\ buffer' = [buffer EXCEPT ![res] = 0]
  /\ pc' = "puts"
  /\ UNCHANGED << at, res, copied, shown >>

\* Everything up to the first NUL, which may be left from an earlier turn.
Puts ==
  /\ pc = "puts"
  /\ LET length == Min({k \in 0 .. FILE_BUFFER : buffer[k] \in {0, Untouched}})
     IN  shown' = shown \o [k \in 1 .. length |-> buffer[k - 1]]
  /\ pc' = "read"
  /\ UNCHANGED << at, res, buffer, copied >>

Main == Open \/ Read \/ Write \/ Terminate \/ Puts

Stopped == pc \in {"exit_0", "exit_-1"} /\ UNCHANGED vars

-----------------------------------------------------------------------------
\* However the bridge cuts the file up, what is copied and what is shown is
\* the file as far as it has been read, and all of it at the end: nothing of a
\* longer piece read before is shown again.
NothingLost ==
  /\ copied = [k \in 1 .. Len(copied) |-> k]
  /\ shown = [k \in 1 .. Len(shown) |-> k]
  /\ pc \in {"read", "exit_0"} => Len(copied) = at /\ Len(shown) = at
  /\ pc = "exit_0" => at = FILE_LENGTH

\* The NUL that ends the string lands in the buffer.
InBounds == buffer[FILE_BUFFER] = Untouched
=============================================================================
