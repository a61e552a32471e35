----------------------------- MODULE MCScanner -----------------------------
EXTENDS Scanner

Over(characters) ==
  LET strings[n \in 0..5] == IF n = 0 THEN {""} ELSE {s \o c : s \in strings[n - 1], c \in characters}
  IN  UNION {strings[n] : n \in 0..5}

\* Keywords, the words that nearly are, and what may come next.
Words ==
  {word \o next : word \in Lexical!Keywords, next \in {"", "r", "1", "(", "\t", "/"}}
  \cup UNION {{SubSeq(word, 1, n) \o "x" : n \in 0..(Len(word) - 1)} : word \in Lexical!Keywords}
  \cup UNION {{SubSeq(word, 1, n) : n \in 1..(Len(word) - 1)} : word \in Lexical!Keywords}

Pairs == {x \o y : x, y \in Lexical!Symbols \cup {"", " ", "\r", "@", "_1", "0.5"}}

MCText == Over({"o", "1", ".", "\"", "/", "\n", " ", "="}) \cup Words \cup Pairs
============================================================================
