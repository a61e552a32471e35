------------------------------ MODULE Scanner ------------------------------
(***************************************************************************)
(* scanToken(): the next token of the source each time the parser calls.   *)
(* A step is one turn of one of the loops over the characters.  The source *)
(* is a string, positions in it count from 0, and "" is its terminator.    *)
(***************************************************************************)
EXTENDS Integers, Sequences, SequencesExt

CONSTANT Text   \* the sources

VARIABLES
  source,
  start,    \* scanner.start
  current,  \* scanner.current
  line,     \* scanner.line
  loop,     \* the loop that the scanner is in; "none" between two calls
  tokens    \* the tokens so far

vars == <<source, start, current, line, loop, tokens>>

Characters(s) == {SubSeq(s, i, i) : i \in 1..Len(s)}

Alpha == Characters("abcdefghijklmnopqrstuvwxyzABCDEFGHIJKLMNOPQRSTUVWXYZ_")
Digit == Characters("0123456789")
Quote == "\""

CharAt(i) == IF i < Len(source) THEN SubSeq(source, i + 1, i + 1) ELSE ""

IsAtEnd == CharAt(current) = ""

Peek == CharAt(current)

PeekNext == IF IsAtEnd THEN "" ELSE CharAt(current + 1)

Lexeme(end) == SubSeq(source, start + 1, end)

\* checkKeyword(): what follows the first characters of the word is rest.
CheckKeyword(word, count, rest, type) ==
  IF SubSeq(word, count + 1, Len(word)) = rest THEN type ELSE "identifier"

IdentifierType(word) ==
  LET first  == SubSeq(word, 1, 1)
      second == IF Len(word) > 1 THEN SubSeq(word, 2, 2) ELSE ""
  IN  CASE first = "a" -> CheckKeyword(word, 1, "nd", "and")
        [] first = "c" -> CheckKeyword(word, 1, "lass", "class")
        [] first = "e" -> CheckKeyword(word, 1, "lse", "else")
        [] first = "f" /\ second = "a" -> CheckKeyword(word, 2, "lse", "false")
        [] first = "f" /\ second = "o" -> CheckKeyword(word, 2, "r", "for")
        [] first = "f" /\ second = "u" -> CheckKeyword(word, 2, "n", "fun")
        [] first = "i" -> CheckKeyword(word, 1, "f", "if")
        [] first = "n" -> CheckKeyword(word, 1, "il", "nil")
        [] first = "o" -> CheckKeyword(word, 1, "r", "or")
        [] first = "p" -> CheckKeyword(word, 1, "rint", "print")
        [] first = "r" -> CheckKeyword(word, 1, "eturn", "return")
        [] first = "s" -> CheckKeyword(word, 1, "uper", "super")
        [] first = "t" /\ second = "h" -> CheckKeyword(word, 2, "is", "this")
        [] first = "t" /\ second = "r" -> CheckKeyword(word, 2, "ue", "true")
        [] first = "v" -> CheckKeyword(word, 1, "ar", "var")
        [] first = "w" -> CheckKeyword(word, 1, "hile", "while")
        [] OTHER -> "identifier"

----------------------------------------------------------------------------
\* On to a loop, over so many characters and lines.
Going(next, count, lines) ==
  /\ loop' = next
  /\ current' = current + count
  /\ line' = line + lines
  /\ UNCHANGED <<source, start, tokens>>

Return(type, text, end) ==
  /\ tokens' = Append(tokens, [type |-> type, text |-> text, line |-> line])
  /\ current' = end
  /\ loop' = "none"
  /\ UNCHANGED <<source, start, line>>

MakeToken(type, end) == Return(type, Lexeme(end), end)

ErrorToken(message, end) == Return("error", message, end)

Done == tokens # <<>> /\ Last(tokens).type = "EOF"

\* The parser asks for tokens up to the end.
Call == loop = "none" /\ ~ Done /\ Going("whitespace", 0, 0)

\* Mutation: skipWhitespace() does not return at a slash that begins no comment.
SlashStanding ==
  /\ loop = "whitespace"
  /\ CASE Peek \in {" ", "\r", "\t"} -> Going("whitespace", 1, 0)
       [] Peek = "\n"                -> Going("whitespace", 1, 1)
       [] Peek = "/" -> Going(IF PeekNext = "/" THEN "comment" ELSE "whitespace", 0, 0)
       [] OTHER -> loop' = "token" /\ start' = current /\ UNCHANGED <<source, current, line, tokens>>

SkipWhitespace ==
  /\ loop = "whitespace"
  /\ CASE Peek \in {" ", "\r", "\t"}       -> Going("whitespace", 1, 0)
       [] Peek = "\n"                      -> Going("whitespace", 1, 1)
       [] Peek = "/" /\ PeekNext = "/"     -> Going("comment", 0, 0)
       [] OTHER -> loop' = "token" /\ start' = current /\ UNCHANGED <<source, current, line, tokens>>

\* Mutation: a comment does not end with the source.
CommentToNewline ==
  loop = "comment" /\ IF Peek # "\n" THEN Going("comment", 1, 0) ELSE Going("whitespace", 0, 0)

Comment ==
  loop = "comment" /\ IF Peek # "\n" /\ ~ IsAtEnd THEN Going("comment", 1, 0) ELSE Going("whitespace", 0, 0)

\* scanToken() from the first character of the token
ScanToken ==
  /\ loop = "token"
  /\ CASE IsAtEnd        -> MakeToken("EOF", current)
       [] Peek \in Alpha -> Going("identifier", 1, 0)
       [] Peek \in Digit -> Going("number", 1, 0)
       [] Peek = Quote   -> Going("string", 1, 0)
       [] Peek \in Characters("(){};,.-+/*") -> MakeToken(Peek, current + 1)
       [] Peek \in Characters("!=<>") ->
            IF CharAt(current + 1) = "=" THEN MakeToken(Peek \o "=", current + 2) ELSE MakeToken(Peek, current + 1)
       [] OTHER -> ErrorToken("Unexpected character", current + 1)

Identifier ==
  /\ loop = "identifier"
  /\ IF Peek \in Alpha \cup Digit THEN Going("identifier", 1, 0)
     ELSE MakeToken(IdentifierType(Lexeme(current)), current)

\* Mutation: the point needs no digit after it.
NumberWithPoint ==
  /\ loop = "number"
  /\ CASE Peek \in Digit -> Going("number", 1, 0)
       [] Peek = "."     -> Going("fraction", 1, 0)
       [] OTHER          -> MakeToken("number", current)

Number ==
  /\ loop = "number"
  /\ CASE Peek \in Digit                     -> Going("number", 1, 0)
       [] Peek = "." /\ PeekNext \in Digit   -> Going("fraction", 1, 0)
       [] OTHER                              -> MakeToken("number", current)

Fraction ==
  /\ loop = "fraction"
  /\ IF Peek \in Digit THEN Going("fraction", 1, 0) ELSE MakeToken("number", current)

String ==
  /\ loop = "string"
  /\ CASE IsAtEnd      -> ErrorToken("Unterminated string.", current)
       [] Peek = Quote -> MakeToken("string", current + 1)
       [] OTHER        -> Going("string", 1, IF Peek = "\n" THEN 1 ELSE 0)

Init ==
  /\ source \in Text
  /\ start = 0 /\ current = 0 /\ line = 1
  /\ loop = "none" /\ tokens = <<>>

Next ==
  Call \/ SkipWhitespace \/ Comment \/ ScanToken \/ Identifier \/ Number \/ Fraction \/ String

Spec == Init /\ [][Next]_vars /\ WF_vars(Next)

----------------------------------------------------------------------------
\* The scanner never goes beyond the terminator of the source, from any of its loops.
TypeOK ==
  /\ current \in 0..Len(source) /\ start \in 0..current
  /\ line \in 1..(Len(source) + 1)
  /\ loop \in {"none", "whitespace", "comment", "token", "identifier", "number", "fraction", "string"}

Lexical == INSTANCE Lexemes

\* The tokens are the longest ones from left to right, each with the line that it
\* ends in: the scanner's own lookahead of two characters and its tree of keywords
\* decide as if it had seen the whole text.
Tokenizes == Done => tokens = Lexical!Tokens(source)

\* Every source comes to its end.
Terminates == <>Done
============================================================================
