------------------------------ MODULE MCProcess ------------------------------
EXTENDS Process

CONSTANTS other, eager, lazy

\* What is given to the launcher: a program alone, a program with one argument
\* of up to four characters, or with two of up to two.
MCArgv ==
  LET word(n) == UNION {[1 .. i -> Char] : i \in 0 .. n}
  IN  {<<>>, <<<<"other", "blank", "other">>>>}
      \cup {<<<<"other">>, arg>> : arg \in word(4)}
      \cup {<<<<"blank">>, arg1, arg2>> : arg1 \in word(2), arg2 \in word(2)}
      \cup {<<name>> : name \in word(2) \ {<<>>}}
=============================================================================
