----------------------------- MODULE MCRecovery -----------------------------
EXTENDS Acceptance

MCLiteral == [token \in {"1"} |-> Number(1)]

\* Programs that begin with given tokens and go on with any of some others.
Family(prefix, tokens, length) == [prefix |-> prefix, tokens |-> tokens, length |-> length]

Families ==
  { Family(<<>>, {"a", "1", "=", "-", "or", "(", ")", ";"}, 4),
    Family(<<"-">>, {"a", "=", "or", ";"}, 4),
    Family(<<"a", "or">>, {"a", "=", "-", ";"}, 4),
    Family(<<"print", "1">>, {"==", "-", "and", "1", "(", ")", ",", ";"}, 4),
    Family(<<"{">>, {"var", "a", "=", ";", "}", "error"}, 5),
    Family(<<"{", "var", "a", ";", "fun", "b", "(", ")", "{">>, {"a", "return", ";", "}", "class"}, 5),
    Family(<<"fun", "a", "(">>, {"b", ",", ")", "{", "}"}, 5),
    Family(<<"if", "(">>, {"1", ")", ";", "else"}, 6),
    Family(<<"while", "(">>, {"1", ")", ";", "{", "}"}, 5),
    Family(<<"for", "(">>, {"a", ";", ")", "}"}, 6),
    Family(<<"for", "(", "var">>, {"a", "=", ";", ")"}, 6),
    Family(<<"{", "var", "b", ";", "var", "c", ";", "var", "d", ";">>, {"var", "a", ";", "}"}, 5),
    Family(<<"a", ";", "a", ";", "a", ";">>, {"1", "a", ";", "="}, 4) }

MCContinuations(s) ==
  {"EOF"} \cup
  UNION {LET n == Len(s)
             m == Len(f.prefix)
         IN  IF n < m THEN (IF SubSeq(f.prefix, 1, n) = s THEN {f.prefix[n + 1]} ELSE {})
             ELSE IF n < m + f.length /\ SubSeq(s, 1, m) = f.prefix /\ \A i \in (m + 1)..n : s[i] \in f.tokens
             THEN f.tokens ELSE {}
         : f \in Families}
============================================================================
