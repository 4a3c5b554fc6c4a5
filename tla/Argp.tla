-------------------------------- MODULE Argp --------------------------------
(***************************************************************************)
(* The argument parser of open1722 (open1722/argp.c): the words of a       *)
(* command line, parsed one option at a time with a table of options whose *)
(* parser is called with the key and the value of each.  A word is a       *)
(* sequence of characters, the program's name is the first.                *)
(***************************************************************************)
EXTENDS Integers, Sequences

CONSTANTS
  Option,      \* argp->options: a sequence of [name, key, arg]; no name is
               \* <<>>, no key is NUL, arg says that it takes an argument
  Argv         \* bound: the command lines

ASSUME ArgpAssumption == \A argv \in Argv : Len(argv) \in Nat

VARIABLES
  agArgv,      \* argv, from 1
  agNext,      \* state.next, from 1
  agCalls,     \* history: the calls of argp->parser, each with the option, its
               \* value (<<>> for NULL), its word and whether the value is the
               \* next word
  agAt         \* "parsing", or how it ended: "done", "failure" or "help"
agVars == <<agArgv, agNext, agCalls, agAt>>

AgNUL == "nul"
Help == <<"h", "e", "l", "p">>

AgInit ==
  /\ agArgv \in Argv
  /\ agNext = 2
  /\ agCalls = <<>>
  /\ agAt = "parsing"

-----------------------------------------------------------------------------
Word == agArgv[agNext]
More == agNext + 1 <= Len(agArgv)
IsPrefix(s, t) == Len(s) <= Len(t) /\ SubSeq(t, 1, Len(s)) = s

\* The loop over the options: the first that matches is called, unless the
\* word asks for help and the first option is not the one it names.
Call(matching, help, value, taken) ==
  LET m == CHOOSE i \in matching : \A j \in matching : i <= j
  IN  /\ agNext' = agNext + (IF taken THEN 2 ELSE 1)
      /\ IF help /\ Option # <<>> /\ 1 \notin matching
         THEN agAt' = "help" /\ UNCHANGED agCalls
         ELSE IF matching = {} \/ (Option[m].arg /\ value = <<>>)
         THEN agAt' = "failure" /\ UNCHANGED agCalls
         ELSE /\ agCalls' = Append(agCalls, [opt |-> m, value |-> value,
                                             word |-> agNext, taken |-> taken])
              /\ UNCHANGED agAt
      /\ UNCHANGED agArgv

NextWord == IF More THEN <<agArgv[agNext + 1]>> ELSE <<>>

\* The value is what stands behind the first "=", else the next word, whether
\* the option takes one or not.  A name may be cut short, even to nothing.
parse_long_option ==
  LET arg == SubSeq(Word, 3, Len(Word))
      eqs == {i \in DOMAIN arg : arg[i] = "="}
      pos == CHOOSE i \in eqs : \A j \in eqs : i <= j
      name == IF eqs = {} THEN arg ELSE SubSeq(arg, 1, pos - 1)
      matching == {i \in DOMAIN Option : Option[i].name # <<>> /\ IsPrefix(name, Option[i].name)}
  IN  IF eqs = {} THEN Call(matching, arg = Help, NextWord, More)
      ELSE Call(matching, FALSE, <<SubSeq(arg, pos + 1, Len(arg))>>, FALSE)

fault_short_option ==          \* fault: state->next++ although the value is attached
  LET arg == SubSeq(Word, 2, Len(Word))
      matching == {i \in DOMAIN Option : Option[i].key = arg[1]}
  IN  /\ Len(arg) > 0
      /\ Call(matching, arg[1] = "h",
              IF Len(arg) > 1 THEN <<SubSeq(arg, 2, Len(arg))>> ELSE NextWord, More)

\* The value is the rest of the word, else the next word.  Behind the word "-",
\* whose key is NUL, a character that is not its own is looked at.
parse_short_option ==
  LET arg == SubSeq(Word, 2, Len(Word))
      key == IF arg = <<>> THEN AgNUL ELSE arg[1]
      matching == {i \in DOMAIN Option : Option[i].key = key}
  IN  \/ Len(arg) <= 1 /\ Call(matching, key = "h", NextWord, More)
      \/ Len(arg) > 1 /\ Call(matching, key = "h", <<SubSeq(arg, 2, Len(arg))>>, FALSE)
      \/ arg = <<>> /\ Call(matching, FALSE, <<<<"beyond">>>>, FALSE)

\* argp_parse: the first word that is no option ends it.
IsOption == agNext <= Len(agArgv) /\ Word # <<>> /\ Word[1] = "-"
Parse ==
  /\ agAt = "parsing" /\ IsOption
  /\ IF Len(Word) > 1 /\ Word[2] = "-" THEN parse_long_option ELSE parse_short_option

ParseEnds ==
  /\ agAt = "parsing" /\ ~IsOption
  /\ agAt' = "done"
  /\ UNCHANGED <<agArgv, agNext, agCalls>>

AgNext == Parse \/ ParseEnds

AgSpec == AgInit /\ [][AgNext]_agVars

-----------------------------------------------------------------------------
\* No word is lost and none is used twice: every word passed over is the word
\* of one call of the parser or the value of the call before, in order, except
\* the words of an option that ended the program; an option that takes an
\* argument is never called without one, and one is called without only at the
\* end of the line.
WordsAccounted ==
  LET Count == Len(agCalls)
      After(i) == agCalls[i].word + (IF agCalls[i].taken THEN 2 ELSE 1)
  IN  /\ \A i \in 1..Count :
           /\ agCalls[i].word = IF i = 1 THEN 2 ELSE After(i - 1)
           /\ agCalls[i].taken => agCalls[i].value = <<agArgv[agCalls[i].word + 1]>>
           /\ agCalls[i].value = <<>> =>
                ~Option[agCalls[i].opt].arg /\ agCalls[i].word = Len(agArgv)
      /\ agAt \in {"parsing", "done"} => agNext = (IF Count = 0 THEN 2 ELSE After(Count))
=============================================================================
