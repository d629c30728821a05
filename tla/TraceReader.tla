----------------------------- MODULE TraceReader -----------------------------
(***************************************************************************)
(* The reader of a trace (inc/tracereader.h, inc/repeatable.h) inflates    *)
(* the file in blocks and finds the target of a branch in the instruction  *)
(* that follows, which may be in the next block.  The instructions of the  *)
(* file are 1..length, all of them taken branches.                         *)
(***************************************************************************)
EXTENDS Naturals, Sequences

CONSTANTS buffer_size, refresh_thresh, Lengths

\* A block is of two instructions at least, one stays back for the target of the
\* next, and no file is empty.
ASSUME ReaderAssumption ==
  /\ buffer_size \in Nat /\ buffer_size > 2 /\ refresh_thresh = 1
  /\ Lengths \subseteq Nat \ {0}

VARIABLE reader

TargetToCome == 0

Opened == [position |-> 0, file_eof |-> FALSE, instr_buffer |-> <<>>]

ReaderInit ==
  \E length \in Lengths, repeat \in BOOLEAN :
    reader = [length |-> length, repeat |-> repeat, file |-> Opened,
              \* history: the last two that were handed out
              before |-> 0, out |-> [n |-> 0, target |-> 1]]

FileEof(file) == file.file_eof /\ Len(file.instr_buffer) <= refresh_thresh

\* A trace that is repeated never ends.
eof == ~reader.repeat /\ FileEof(reader.file)

\* apply_branch_target, from the back to the front; the last one is as it was.
set_branch_targets(buffer) ==
  [k \in 1..Len(buffer) |-> IF k = Len(buffer) THEN buffer[k]
                            ELSE [buffer[k] EXCEPT !.target = buffer[k + 1].n]]

\* Mutant of Refresh: only the new block gets its targets.
Refresh_NewOnly(file) ==
  LET wanted == buffer_size - refresh_thresh
      there == reader.length - file.position
      count == IF there < wanted THEN there ELSE wanted
      block == [k \in 1..count |-> [n |-> file.position + k, target |-> TargetToCome]]
  IN  [position |-> file.position + count, file_eof |-> file.file_eof \/ there < wanted,
       instr_buffer |-> file.instr_buffer \o set_branch_targets(block)]

\* The end of the file is seen only when less is there than is asked for.
Refresh(file) ==
  LET wanted == buffer_size - refresh_thresh
      there == reader.length - file.position
      count == IF there < wanted THEN there ELSE wanted
      block == [k \in 1..count |-> [n |-> file.position + k, target |-> TargetToCome]]
  IN  [position |-> file.position + count, file_eof |-> file.file_eof \/ there < wanted,
       instr_buffer |-> set_branch_targets(file.instr_buffer \o block)]

\* repeatable opens the file again when the reader has ended.
Read ==
  /\ ~eof
  /\ LET opened == IF FileEof(reader.file) THEN Opened ELSE reader.file
         full == IF Len(opened.instr_buffer) <= refresh_thresh THEN Refresh(opened) ELSE opened
     IN  reader' = [reader EXCEPT
                      !.file = [full EXCEPT !.instr_buffer = Tail(@)],
                      !.before = reader.out.n,
                      !.out = Head(full.instr_buffer)]

ReaderNext == Read

ReaderSpec == ReaderInit /\ [][ReaderNext]_reader

----------------------------------------------------------------------------
\* Across the blocks, every instruction is handed out once and in its place, with
\* the one behind it as its target; at the seams of a trace only its last
\* instruction may be left out, and only it may come without a target.
TraceInOrder ==
  /\ reader.out.n > 1 => reader.out.n = reader.before + 1
  /\ (reader.out.n = 1 /\ reader.before # 0) => reader.before >= reader.length - 1
  /\ reader.out.n < reader.length => reader.out.target = reader.out.n + 1
  /\ eof => reader.out.n >= reader.length - 1
==============================================================================
