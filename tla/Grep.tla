-------------------------------- MODULE Grep --------------------------------
(***************************************************************************)
(* user/grep.c: the regular expression matcher, and the loop that reads a  *)
(* file or a pipe into a buffer and prints the lines that match.           *)
(*                                                                         *)
(* A file is a sequence of characters; read returns some of them, as many  *)
(* as it likes up to the number asked for, none at the end of the file.    *)
(***************************************************************************)
EXTENDS Integers, Sequences, FiniteSets, SequencesExt

CONSTANTS
  Patterns, Files,
  BUFSIZE     \* sizeof(buf)

VARIABLES
  pattern, file,
  pos,        \* how much of the file was read
  buf,        \* the first m characters of the buffer
  p,          \* where the search for the next line begins, 0 between reads
  out,        \* lines printed
  pc

vars == <<pattern, file, pos, buf, p, out, pc>>

Init ==
  /\ pattern \in Patterns
  /\ file \in Files
  /\ pos = 0
  /\ buf = <<>>
  /\ p = 0
  /\ out = <<>>
  /\ pc = "read"

-----------------------------------------------------------------------------
\* The matcher

Dots(c, d) == c = "." \/ c = d

RECURSIVE matchhere(_, _)

\* Some number of c, then re.
matchstar(c, re, text) ==
  \E k \in 0..Len(text) :
    /\ \A j \in 1..k : Dots(c, text[j])
    /\ matchhere(re, SubSeq(text, k + 1, Len(text)))

matchhere(re, text) ==
  IF re = <<>> THEN TRUE
  ELSE IF Len(re) > 1 /\ re[2] = "*" THEN matchstar(re[1], Tail(Tail(re)), text)
  ELSE IF re = <<"$">> THEN text = <<>>
  ELSE text # <<>> /\ Dots(re[1], text[1]) /\ matchhere(Tail(re), Tail(text))

match(re, text) ==
  IF re # <<>> /\ re[1] = "^" THEN matchhere(Tail(re), text)
  ELSE \E k \in 0..Len(text) : matchhere(re, SubSeq(text, k + 1, Len(text)))

-----------------------------------------------------------------------------
\* grep

\* What is asked of read
Ask == BUFSIZE - Len(buf) - 1

Read ==
  LET left == Len(file) - pos
      most == IF left < Ask THEN left ELSE Ask
  IN  /\ pc = "read"
      /\ IF most = 0 THEN pc' = "done" /\ UNCHANGED <<buf, pos, p>>
         ELSE \E n \in 1..most :
                /\ buf' = buf \o SubSeq(file, pos + 1, pos + n)
                /\ pos' = pos + n
                /\ p' = 1
                /\ pc' = "lines"
      /\ UNCHANGED <<pattern, file, out>>

Newlines == {k \in p..Len(buf) : buf[k] = "nl"}

\* A turn of the inner loop: a line is complete.
Line ==
  LET q == CHOOSE k \in Newlines : \A j \in Newlines : k <= j
      line == SubSeq(buf, p, q - 1)
  IN  /\ pc = "lines" /\ Newlines # {}
      /\ out' = IF match(pattern, line) THEN Append(out, line) ELSE out
      /\ p' = q + 1
      /\ UNCHANGED <<pattern, file, pos, buf, pc>>

\* The beginning of a line, moved to the front
Rest == SubSeq(buf, p, Len(buf))

Move ==
  /\ pc = "lines" /\ Newlines = {}
  /\ buf' = Rest
  /\ p' = 0
  /\ pc' = "read"
  /\ UNCHANGED <<pattern, file, pos, out>>

Next == Read \/ Line \/ Move

Spec == Init /\ [][Next]_vars

-----------------------------------------------------------------------------

TypeOK == Len(buf) < BUFSIZE /\ p \in 0..(Len(buf) + 1) /\ pos \in 0..Len(file)

\* The same language, from sets of positions: is the k-th character of re an
\* operator that repeats the one before it?
Repeats(re) ==
  LET r[k \in 1..Len(re)] == k > 1 /\ re[k] = "*" /\ ~r[k - 1]
  IN  r

\* Where a match of the k-th character of re can end if it begins in S
Ends(re, k, S, text) ==
  IF k < Len(re) /\ Repeats(re)[k + 1]
    THEN {j \in 0..Len(text) : \E i \in S : i <= j /\ \A x \in (i + 1)..j : Dots(re[k], text[x])}
    ELSE {j \in 1..Len(text) : j - 1 \in S /\ Dots(re[k], text[j])}

EndsOfAll(re, S, text) ==
  LET e[k \in 0..Len(re)] ==
        IF k = 0 THEN S ELSE IF Repeats(re)[k] THEN e[k - 1] ELSE Ends(re, k, e[k - 1], text)
  IN  e[Len(re)]

Matches(re, text) ==
  LET left == re # <<>> /\ re[1] = "^"
      body == IF left THEN Tail(re) ELSE re
      right == body # <<>> /\ Last(body) = "$"
      ends == EndsOfAll(IF right THEN Front(body) ELSE body, IF left THEN {0} ELSE 0..Len(text), text)
  IN  IF right THEN Len(text) \in ends ELSE ends # {}

\* The lines of a file that end in a newline, up to the first that does not
\* fit into the buffer
Ending == {k \in 1..Len(file) : file[k] = "nl"}
Starts == {0} \cup Ending
LineFrom(k) == SubSeq(file, k + 1, (CHOOSE j \in Ending : j > k /\ \A i \in Ending : i > k => j <= i) - 1)
Complete == {k \in Starts : \E j \in Ending : j > k}
Fitting == {k \in Complete : \A i \in Complete : i <= k => Len(LineFrom(i)) < BUFSIZE - 1}
Lines == LET s == SetToSortSeq(Fitting, <) IN [k \in 1..Len(s) |-> LineFrom(s[k])]

\* grep prints exactly the lines that the expression describes, once and in
\* order, however read cuts the file into pieces, up to a line that does not
\* fit into the buffer (grep, match, matchhere, matchstar).
OutputExact == pc = "done" => out = SelectSeq(Lines, LAMBDA line : Matches(pattern, line))

=============================================================================
