----------------------------- MODULE FlexScanner -----------------------------
(* The same lexical analysis as flex makes it out of flex_scanner/scanner.l:  *)
(* of the rules that match at a place, the one with the longest match is      *)
(* taken, and of those the first; a variable of the scanner's own says        *)
(* whether it is in a comment.  A whole text is scanned at once.              *)
EXTENDS CustomScanner, FiniteSetsExt

\* How many characters of S there are in t from position p on
Run(t, p, S) == Min({n \in 0..Len(t) : p + n > Len(t) \/ t[Min({p + n, Len(t)})] \notin S})

Is(t, p, c) == p <= Len(t) /\ t[p] = c

\* The patterns {ID}, {INTEGER}, {REAL} and {STRING}: the length of the match
\* of each at p, or 0
id_length(t, p) == IF Run(t, p, Letters) = 0 THEN 0
                   ELSE Run(t, p, Letters \union Digits \union {"_"})
integer_length(t, p) == Run(t, p, Digits)
real_length(t, p) ==
  LET n == Run(t, p, Digits)
      m == Run(t, p + n + 1, Digits)
  IN  IF Is(t, p + n, ".") /\ m > 0 THEN n + 1 + m ELSE 0
string_length(t, p) ==
  LET \* the position of the closing quote, or 0
      closed[q \in 1..(Len(t) + 2)] ==
        IF q > Len(t) THEN 0
        ELSE IF t[q] = "\"" THEN q
        ELSE IF t[q] # "\\" THEN closed[q + 1]
        ELSE IF Is(t, q + 1, "\n") THEN 0 ELSE closed[q + 2]
  IN  IF Is(t, p, "\"") /\ closed[p + 1] > 0 THEN closed[p + 1] - p + 1 ELSE 0

\* The other patterns, all of them of fixed length
Fixed ==
  [s \in {<<"*", "/">>, <<"/", "*">>, <<"/", "/">>, <<"=", "=">>, <<"!", "=">>,
          <<"+", "+">>, <<"-", "-">>, <<">", "=">>, <<"<", "=">>, <<":", ":">>,
          <<".", ".">>} |->
     CASE s = <<"*", "/">> -> "BLOCK_COMMENT_CLOSE"
       [] s = <<"/", "*">> -> "BLOCK_COMMENT_OPEN"
       [] s = <<"/", "/">> -> "LINE_COMMENT" [] s = <<"=", "=">> -> "EQUALITY"
       [] s = <<"!", "=">> -> "INEQUALITY" [] s = <<"+", "+">> -> "INCREMENT"
       [] s = <<"-", "-">> -> "DECREMENT" [] s = <<">", "=">> -> "GREATER_OR_EQUAL"
       [] s = <<"<", "=">> -> "LESS_OR_EQUAL" [] s = <<":", ":">> -> "DOUBLE_COLON"
       [] s = <<".", ".">> -> "DOUBLE_DOT"]
Single ==
  [c \in {":", ".", "=", "+", "-", "<", ">", "*", "/", "%", "\""} |->
     CASE c = ":" -> "COLON" [] c = "." -> "DOT" [] c = "=" -> "ASSIGNMENT"
       [] c = "+" -> "ADDITION" [] c = "-" -> "SUBTRACTION" [] c = "<" -> "LESS_THAN"
       [] c = ">" -> "GREATER_THAN" [] c = "*" -> "MULTIPLICATION"
       [] c = "/" -> "DIVISION" [] c = "%" -> "MODULO"
       [] c = "\"" -> "INCOMPLETE_STRING"]
Unknown == {"!", "@", "#", "$", "^", "&", "~", "`", "'", "|", "?", "\\"}

\* The rule and the length of its match; a rule further up in scanner.l comes
\* first where lengths are equal, which only keywords make use of.
Match(t, p) ==
  LET word == id_length(t, p)
      real == real_length(t, p)
      string == string_length(t, p)
      two == SubSeq(t, p, Min({p + 1, Len(t)}))
      lex == SubSeq(t, p, p + word - 1)
      Rule(r, n) == [rule |-> r, length |-> n]
  IN  CASE word > 0 -> Rule(IF lex \in Keywords THEN "KEYWORD" ELSE "ID", word)
        [] real > 0 -> Rule("REAL", real)
        [] word = 0 /\ real = 0 /\ t[p] \in Digits -> Rule("INTEGER", integer_length(t, p))
        [] string > 0 -> Rule("STRING", string)
        [] real = 0 /\ two \in DOMAIN Fixed -> Rule(Fixed[two], 2)
        [] t[p] \in Delimiters -> Rule("DELIMITER", 1)
        [] t[p] \in DOMAIN is_single_char_punctuation ->
             Rule(is_single_char_punctuation[t[p]], 1)
        [] real = 0 /\ string = 0 /\ two \notin DOMAIN Fixed /\ t[p] \in DOMAIN Single ->
             Rule(Single[t[p]], 1)
        [] t[p] \in Unknown /\ two \notin DOMAIN Fixed -> Rule("UNKNOWN_CHARACTER", 1)
        [] OTHER -> Rule("ECHO", 1)

Newlines(s) == Len(SelectSeq(s, LAMBDA c : c = "\n"))

\* What a rule does, to the scanner's state and to the tokens.  odd: the cases
\* met in which the two scanners part.
Act(s, rule, lex) ==
  LET line == s.line + Newlines(lex) \* yylineno is that of the match's end
      Add(new) == [s EXCEPT !.line = line, !.tokens = @ \o new]
      default == s.state = "DEFAULT_STATE"
      Odd(r, what) == [r EXCEPT !.odd = @ \union {what}]
  IN  CASE rule = "DELIMITER" ->
             [s EXCEPT !.line = line,
                       !.state = IF lex = <<"\n">> /\ @ = "LINE_COMMENT"
                                 THEN "DEFAULT_STATE" ELSE @]
        [] rule = "BLOCK_COMMENT_OPEN" ->
             IF s.state = "LINE_COMMENT" THEN s
             ELSE [s EXCEPT !.stack = Append(@, line), !.state = "COMMENT_BLOCK"]
        [] rule = "BLOCK_COMMENT_CLOSE" ->
             IF s.state = "LINE_COMMENT" THEN s
             ELSE IF s.stack = <<>>
             THEN Add(<<Token(line, "MULTIPLICATION", <<"*">>),
                        Token(line, "DIVISION", <<"/">>)>>)
             ELSE [Add(<<Comment(Last(s.stack), line,
                                 IF Len(s.stack) = 1 THEN "BLOCK_COMMENT" ELSE "NESTED")>>)
                   EXCEPT !.stack = Front(@),
                          !.state = IF Len(s.stack) = 1 THEN "DEFAULT_STATE" ELSE @]
        [] rule = "LINE_COMMENT" ->
             IF default
             THEN [Add(<<Token(line, "LINE_COMMENT", <<>>)>>)
                   EXCEPT !.state = "LINE_COMMENT"]
             ELSE IF s.state = "COMMENT_BLOCK"
             THEN Odd([s EXCEPT !.pos = @ - 1], "slashes") \* unput
             ELSE s
        [] rule = "STRING" ->
             IF ~default THEN Odd([s EXCEPT !.line = line], "quote")
             ELSE IF str_format(lex) = <<EOF>> THEN [s EXCEPT !.result = "failed"]
             ELSE LET added == Add(<<Token(line, "STRING", str_format(lex))>>)
                  IN  IF line = s.line THEN added ELSE Odd(added, "newline")
        [] rule = "INCOMPLETE_STRING" ->
             LET failed == [s EXCEPT !.result = "failed"]
             IN  IF default THEN failed ELSE Odd(failed, "quote")
        [] rule = "UNKNOWN_CHARACTER" ->
             IF default THEN [s EXCEPT !.result = "failed"] ELSE s
        [] rule = "ECHO" -> Odd(s, "underscore")
        [] OTHER -> IF default THEN Add(<<Token(line, rule, lex)>>) ELSE s

\* <<EOF>>
AtEnd(s) == [s EXCEPT !.result = IF s.state = "COMMENT_BLOCK" THEN "failed" ELSE "scanned"]

RECURSIVE Scan(_, _)
Scan(t, s) ==
  IF s.result # "" THEN s
  ELSE IF s.pos > Len(t) THEN AtEnd(s)
  ELSE LET m == Match(t, s.pos)
           lex == SubSeq(t, s.pos, s.pos + m.length - 1)
           \* flex makes an INTEGER and a DOT of 1. , the other one a REAL
           dotted == IF m.rule = "INTEGER" /\ Is(t, s.pos + m.length, ".")
                     THEN {"dot"} ELSE {}
       IN  Scan(t, Act([s EXCEPT !.pos = @ + m.length, !.odd = @ \union dotted],
                       m.rule, lex))

alpha_yylex(t) ==
  Scan(t, [pos |-> 1, state |-> "DEFAULT_STATE", stack |-> <<>>, line |-> 1,
           tokens |-> <<>>, result |-> "", odd |-> {}])

\* The flex scanner gives line comments no text.
Compared(tokens) ==
  [i \in DOMAIN tokens |-> IF tokens[i].type = "LINE_COMMENT"
                           THEN [tokens[i] EXCEPT !.literal = <<>>] ELSE tokens[i]]

SameAs(flex) == /\ result = flex.result
                /\ result = "scanned" => Compared(queue) = flex.tokens

\* Both scanners make the same tokens, on the same lines, of any text that both
\* can be expected to, and refuse the same texts (tokenize, alpha_yylex).
\* Where they part: 1. ; a newline in a string; // or a quote in a block
\* comment; a quote in a line comment; _ outside of an identifier.
AgreesWithFlex ==
  result # "" => LET flex == alpha_yylex(text)
                 IN  flex.odd = {} => SameAs(flex)
=============================================================================
