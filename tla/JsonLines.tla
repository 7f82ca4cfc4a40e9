------------------------------ MODULE JsonLines ------------------------------
(***************************************************************************)
(* A file to which processes append one record per line, and die doing it  *)
(* (src/src/strategies/pastofi_crypto/store.py: Store._append, read_jsonl).*)
(*                                                                         *)
(* A line that was not finished has no newline.  What is written next goes *)
(* on in the same line, and neither record can be read any more.  The text *)
(* is not ASCII: cut inside a character, the file as a whole can no longer *)
(* be decoded, whatever is written after it.                               *)
(***************************************************************************)
EXTENDS Integers, Sequences, SequencesExt

\* Lines in the order written; "cut" or "bare" when the last has no newline,
\* bare when nothing else of it is missing; whether read_text can decode it.
EmptyFile == [lines |-> <<>>, tail |-> "end", decodes |-> TRUE]
Line(rec) == [good |-> TRUE, rec |-> rec]
Spoilt(line) == [line EXCEPT !.good = FALSE]

AddLine(file, rec) ==
    IF file.tail = "end" THEN [file EXCEPT !.lines = Append(@, Line(rec))]
    ELSE [lines |-> Append(Front(file.lines), Spoilt(Last(file.lines))), tail |-> "end",
          decodes |-> file.decodes]
\* What may be left of it when the process dies writing rec: a part, which may
\* end inside a character, all but the newline, or nothing.
TornFiles(file, rec) ==
    LET more == AddLine(file, rec)
    IN  {[lines |-> Append(Front(more.lines), Spoilt(Last(more.lines))), tail |-> "cut",
          decodes |-> d] : d \in {file.decodes, FALSE}}
        \cup
        {[more EXCEPT !.tail = IF file.tail = "end" THEN "bare" ELSE "cut"],
         file}

\* Mutant of ReadJsonl: reading ends at the first line that cannot be parsed.
ReadUntilBad(file) ==
    LET bad == {i \in DOMAIN file.lines : ~file.lines[i].good}
        whole == {n \in 0..Len(file.lines) : \A i \in bad : n < i}
        n == CHOOSE m \in whole : \A o \in whole : o <= m
    IN  [i \in 1..n |-> file.lines[i].rec]
\* read_jsonl of a file that decodes: the records of the lines that can be
\* parsed.  Of another it raises, and every caller fails.
ReadJsonl(file) ==
    LET read[n \in 0..Len(file.lines)] ==
          IF n = 0 THEN <<>>
          ELSE IF file.lines[n].good THEN Append(read[n - 1], file.lines[n].rec)
          ELSE read[n - 1]
    IN  read[Len(file.lines)]
=============================================================================
