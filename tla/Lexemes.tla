------------------------------ MODULE Lexemes ------------------------------
(***************************************************************************)
(* The tokens of a text, without reference to how it is scanned: which     *)
(* strings are tokens or blanks, and that the longest one is taken.        *)
(***************************************************************************)
EXTENDS Integers, Sequences, FiniteSetsExt

Keywords ==
  {"and", "class", "else", "false", "for", "fun", "if", "nil", "or", "print", "return", "super",
   "this", "true", "var", "while"}

Symbols ==
  {"(", ")", "{", "}", ";", ",", ".", "-", "+", "/", "*", "!", "!=", "=", "==", "<", "<=", ">", ">="}

LOCAL Part(s, i, j) == SubSeq(s, i, j)

LOCAL Consists(s, characters) == \A i \in 1..Len(s) : Part(s, i, i) \in characters

LOCAL Set(s) == {Part(s, i, i) : i \in 1..Len(s)}

LOCAL Digits  == Set("0123456789")
LOCAL Letters == Set("abcdefghijklmnopqrstuvwxyzABCDEFGHIJKLMNOPQRSTUVWXYZ_")

IsWord(s) == Part(s, 1, 1) \in Letters /\ Consists(s, Letters \cup Digits)

IsNumber(s) ==
  \/ Consists(s, Digits)
  \/ \E i \in 2..(Len(s) - 1) :
       /\ Part(s, i, i) = "."
       /\ Consists(Part(s, 1, i - 1), Digits) /\ Consists(Part(s, i + 1, Len(s)), Digits)

IsString(s) ==
  /\ Len(s) > 1 /\ Part(s, 1, 1) = "\"" /\ Part(s, Len(s), Len(s)) = "\""
  /\ \A i \in 2..(Len(s) - 1) : Part(s, i, i) # "\""

IsComment(s) == Len(s) > 1 /\ Part(s, 1, 2) = "//" /\ \A i \in 1..Len(s) : Part(s, i, i) # "\n"

Kind(s) ==
  CASE s \in {" ", "\r", "\t", "\n"} \/ IsComment(s) -> "blank"
    [] s \in Keywords \cup Symbols -> s
    [] IsWord(s) /\ s \notin Keywords -> "identifier"
    [] IsNumber(s) -> "number"
    [] IsString(s) -> "string"
    [] OTHER -> "none"

Tokens(s) ==
  LET line(i) == 1 + Cardinality({j \in 1..i : Part(s, j, j) = "\n"})
      \* The tokens from position i on
      from[i \in 1..(Len(s) + 1)] ==
        LET ends == {j \in i..Len(s) : Kind(Part(s, i, j)) # "none"}
            token(type, text, j) == << [type |-> type, text |-> text, line |-> line(j)] >>
        IN  CASE i > Len(s)  -> token("EOF", "", Len(s))
              [] ends # {}   -> LET j    == Max(ends)
                                    text == Part(s, i, j)
                                IN  (IF Kind(text) = "blank" THEN <<>> ELSE token(Kind(text), text, j)) \o from[j + 1]
              [] ends = {} /\ i <= Len(s) ->
                   IF Part(s, i, i) = "\"" THEN token("error", "Unterminated string.", Len(s)) \o from[Len(s) + 1]
                   ELSE token("error", "Unexpected character", i) \o from[i + 1]
  IN  from[1]
============================================================================
