---------------------------- MODULE CommandLine ----------------------------
(***************************************************************************)
(* The command line Launcher.cpp writes for its target and the arguments   *)
(* the C runtime of the target reads from it.  A string is a sequence of   *)
(* kinds of characters: all that quoting and parsing tell apart.           *)
(***************************************************************************)
EXTENDS Naturals, Sequences, SequencesExt

\* "blank" is what separates arguments.  Newline and vertical tab, which the
\* launcher quotes too although they separate nothing, are not told from it.
Char == {"backslash", "quote", "blank", "other"}

-----------------------------------------------------------------------------
(* appendQuoted                                                            *)

\* The backslashes from i on run up to a quote or to the end of the argument,
\* where the closing quote is put.
RunsIntoQuote(arg, i) ==
  \A j \in i .. Len(arg) :
    (\A k \in i .. j - 1 : arg[k] = "backslash")
      => arg[j] \in {"backslash", "quote"}

\* Mutant: backslashes are doubled before a quote of the argument only.
EscapedButAtEnd(arg, i) ==
  CASE arg[i] = "quote" -> <<"backslash", "quote">>
    [] arg[i] = "backslash" /\ RunsIntoQuote(arg, i)
       /\ \E j \in i .. Len(arg) : arg[j] = "quote"
         -> <<"backslash", "backslash">>
    [] OTHER -> <<arg[i]>>

\* What the character at i becomes between quotes.
Escaped(arg, i) ==
  CASE arg[i] = "quote" -> <<"backslash", "quote">>
    [] arg[i] = "backslash" /\ RunsIntoQuote(arg, i)
         -> <<"backslash", "backslash">>
    [] OTHER -> <<arg[i]>>

Bare(arg) ==
  arg # <<>> /\ \A i \in 1 .. Len(arg) : arg[i] \in {"backslash", "other"}

Quoted(arg) ==
  IF Bare(arg) THEN arg
  ELSE <<"quote">> \o FlattenSeq([i \in 1 .. Len(arg) |-> Escaped(arg, i)])
       \o <<"quote">>

\* The loop of wmain over argv[2] and what follows it.
Line(args) ==
  FlattenSeq([k \in 1 .. Len(args) |->
                IF k = 1 THEN Quoted(args[k])
                ELSE <<"blank">> \o Quoted(args[k])])

-----------------------------------------------------------------------------
(* The C runtime of the target                                             *)

\* args: those read; arg: the one being read, if inside; slashes: backslashes
\* just read, whose meaning depends on what comes next.
NothingRead ==
  [args |-> <<>>, arg |-> <<>>, inside |-> FALSE, inQuotes |-> FALSE,
   slashes |-> 0]

Backslashes(n) == [i \in 1 .. n |-> "backslash"]

EndOfArgument(s) ==
  IF s.inside
  THEN [NothingRead EXCEPT
          !.args = Append(s.args, s.arg \o Backslashes(s.slashes))]
  ELSE s

\* In the program name, which comes first, a backslash stands for itself.
\* Elsewhere two of them before a quote are one, and one makes the quote part
\* of the argument.
ReadChar(s, c) ==
  LET escape == s.slashes % 2 = 1
  IN  CASE c = "blank" /\ ~s.inQuotes -> EndOfArgument(s)
        [] c = "quote" ->
             [s EXCEPT !.arg = @ \o Backslashes(s.slashes \div 2)
                                 \o (IF escape THEN <<"quote">> ELSE <<>>),
                       !.inQuotes = (@ = escape),
                       !.inside = TRUE, !.slashes = 0]
        [] c = "backslash" /\ s.args # <<>> ->
             [s EXCEPT !.slashes = @ + 1, !.inside = TRUE]
        [] OTHER ->
             [s EXCEPT !.arg = @ \o Backslashes(s.slashes) \o <<c>>,
                       !.inside = TRUE, !.slashes = 0]

\* The state after the characters of line.
Reading(line) ==
  LET read[i \in 0 .. Len(line)] ==
        IF i = 0 THEN NothingRead ELSE ReadChar(read[i - 1], line[i])
  IN  read[Len(line)]

Parsed(line) == EndOfArgument(Reading(line)).args

=============================================================================
