-------------------------------- MODULE SpeOpt -------------------------------
(***************************************************************************)
(* The options of src/spe/spe_opt.c: a file read line by line, and the     *)
(* look-up of an option of a section.  A line is a record; SpeIoReaduntil  *)
(* returns the length of the line, so 0 for an empty one.                  *)
(***************************************************************************)
EXTENDS Integers, SequencesExt

CONSTANTS Sections,     \* "global" among them
          Keys, Values,
          MaxLines      \* bound: lines of the file

VARIABLES file,         \* the lines to come
          read,         \* the lines that were read
          sec, options, \* the section, and the options in the order they came
          status        \* "reading", or what speOptCreate returned

vars == <<file, read, sec, options, status>>

\* A line that is "skipped" has blanks or a comment, one that is "wrong" has no
\* section name between brackets or not two parts around "=".  The last line
\* may lack its newline.
Lines ==
  [kind : {"section"}, name : Sections] \cup [kind : {"option"}, key : Keys, val : Values]
    \cup [kind : {"empty", "skipped", "wrong", "unterminated"}]

Init ==
  /\ file \in UNION {[1..n -> Lines] : n \in 0..MaxLines}
  /\ \A i \in DOMAIN file : file[i].kind = "unterminated" => i = Len(file)
  /\ read = <<>> /\ sec = "global" /\ options = <<>> /\ status = "reading"

-----------------------------------------------------------------------------
speOptSet(key, val) == options' = Append(options, [sec |-> sec, key |-> key, val |-> val])

OptionLine(line) ==
  /\ line.kind = "option"
  /\ speOptSet(line.key, line.val) /\ UNCHANGED <<sec, status>>

SectionLine(line) ==
  /\ line.kind = "section" /\ sec' = line.name /\ UNCHANGED <<options, status>>

\* A line of length 0 and the end of the file, with or without bytes before it,
\* end the loop.
LastLine(line) ==
  /\ line.kind \in {"empty", "unterminated"} /\ status' = "true" /\ UNCHANGED <<sec, options>>

\* What was set stays set.
WrongLine(line) ==
  /\ line.kind = "wrong" /\ status' = "false" /\ UNCHANGED <<sec, options>>

SkippedLine(line) == line.kind = "skipped" /\ UNCHANGED <<sec, options, status>>

\* One turn of the loop of speOptCreate.
ReadLine ==
  /\ status = "reading" /\ file # <<>>
  /\ file' = Tail(file) /\ read' = Append(read, Head(file))
  /\ LET line == Head(file)
     IN  \/ OptionLine(line) \/ SectionLine(line) \/ LastLine(line)
         \/ WrongLine(line) \/ SkippedLine(line)

ReadEnd ==
  /\ status = "reading" /\ file = <<>> /\ status' = "true"
  /\ UNCHANGED <<file, read, sec, options>>

speOptDestroy ==
  /\ status \in {"true", "false"}
  /\ options' = <<>> /\ status' = "destroyed"
  /\ UNCHANGED <<file, read, sec>>

Next == ReadLine \/ ReadEnd \/ speOptDestroy

Spec == Init /\ [][Next]_vars

-----------------------------------------------------------------------------
\* SpeOptString, and SpeOptInt with the conversion: the first that matches; no
\* section means "global".
SpeOptString(section, key, default) ==
  LET found == {i \in DOMAIN options : options[i].sec = section /\ options[i].key = key}
  IN  IF found = {} THEN default ELSE options[Min(found)].val

\* The section a line of the file is in.
SectionOf(i) ==
  LET before == {j \in 1..i : read[j].kind = "section"}
  IN  IF before = {} THEN "global" ELSE read[Max(before)].name

\* spe_opt.c:29-152.  A look-up gives the first value among the lines read for
\* the key under the section it asks for, or else the default.  A file that is
\* accepted has no wrong line among those read, and was read to its end if none
\* of them was empty.
OptionsAreOfFile ==
  /\ status # "destroyed" =>
       \A s \in Sections, k \in Keys :
         LET lines == {i \in DOMAIN read : /\ read[i].kind = "option"
                                           /\ read[i].key = k /\ SectionOf(i) = s}
         IN  SpeOptString(s, k, "default") = IF lines = {} THEN "default" ELSE read[Min(lines)].val
  /\ status = "true" =>
       /\ \A i \in DOMAIN read : read[i].kind # "wrong"
       /\ file = <<>> \/ \E i \in DOMAIN read : read[i].kind = "empty"

\* spe_opt.c:100.  The comment: "ignore empty and comment line".  No option of a
\* file that is accepted is left unread.
EmptyLinesAreIgnored ==
  status = "true" => \A i \in DOMAIN file : file[i].kind # "option"
=============================================================================
