---------------------------- MODULE CustomScanner ----------------------------
(* The hand-written lexical analyser: a state machine that reads characters   *)
(* (gettoken2), and a loop that turns what it recognises into tokens and      *)
(* keeps track of block comments (tokenize).                                   *)
(*                                                                             *)
(* A character is a string of length one.  The input file is made up as it is  *)
(* read.                                                                       *)
EXTENDS Integers, Sequences, SequencesExt, FiniteSets

CONSTANTS
  Inputs,    \* bound: the files tried, as [chars, size]: any text of at most
             \* size of these characters
  Keywords,  \* the lexemes is_keyword knows
  MAX_LEXEME

VARIABLES
  input,          \* one of Inputs
  text,           \* what fgetc has returned
  eof,            \* fgetc has returned EOF
  look_ahead,     \* the character to be read again, "" if !use_look_ahead
  lexeme,         \* lexeme[0 .. curr - 1]
  current_state,
  escape_char,
  line_number,
  comment_block,
  stack,          \* lines of the block comments that are open
  queue,          \* the tokens
  result          \* of tokenize; "" while it runs

file == <<input, text, eof, look_ahead>>
vars == <<file, lexeme, current_state, escape_char, line_number, comment_block,
          stack, queue, result>>

EOF == "EOF"

\* fgetc tells EOF from every character, and "" is no character.
ASSUME InputsAssumption ==
  \A i \in Inputs : i.size \in Nat /\ i.chars \cap {"", EOF} = {}
ASSUME LexemeAssumption == MAX_LEXEME \in Nat

Letters == {"a", "b", "c", "n", "t"}
Digits == {"0", "1", "2"}
Delimiters == {"\n", " ", "\r", "\t"}

is_single_char_punctuation ==
  [c \in {"{", "}", "[", "]", "(", ")", ";", ","} |->
     CASE c = "{" -> "LEFT_CURLY_BRACKET" [] c = "}" -> "RIGHT_CURLY_BRACKET"
       [] c = "[" -> "LEFT_SQUARE_BRACKET" [] c = "]" -> "RIGHT_SQUARE_BRACKET"
       [] c = "(" -> "LEFT_PARENTHESES" [] c = ")" -> "RIGHT_PARENTHESES"
       [] c = ";" -> "SEMICOLON" [] c = "," -> "COMMA"]
-----------------------------------------------------------------------------
(* The state machine.  A state function goes on to a state, or has found a    *)
(* token that ends before its character (Retract), with it (Extend), or with  *)
(* it but without its being put in the lexeme (Found).                         *)

Step(state, token, lexeme_too, back) ==
  [state |-> state, token |-> token, extend |-> lexeme_too, retract |-> back]
State(s) == Step(s, "", TRUE, FALSE)
Found(t) == Step(0, t, FALSE, FALSE)
Extend(t) == Step(0, t, TRUE, FALSE)
Retract(t) == Step(0, t, FALSE, TRUE)

First == [c \in {":", ".", "=", "+", "-", "<", ">", "!", "*", "/"} |->
            CASE c = ":" -> 6 [] c = "." -> 7 [] c = "=" -> 8 [] c = "+" -> 9
              [] c = "-" -> 10 [] c = "<" -> 11 [] c = ">" -> 12 [] c = "!" -> 13
              [] c = "*" -> 14 [] c = "/" -> 15]

initial_state(c) ==
  CASE c \in Letters -> State(1)
    [] c \in Digits -> State(2)
    [] c \in Delimiters -> Found("DELIMITER")
    [] c = "\"" -> State(4)
    [] c \in DOMAIN First -> State(First[c])
    [] c \in DOMAIN is_single_char_punctuation ->
         Extend(is_single_char_punctuation[c])
    [] c = "%" -> Extend("MODULO")
    [] c = EOF -> Found("END_OF_FILE")
    [] OTHER -> Found("UNKNOWN_CHARACTER")

\* The states 6, 8..13: an operator of one character or, with another, of two
Second ==
  [s \in {6, 8, 9, 10, 11, 12, 13} |->
     CASE s = 6 -> <<":", "DOUBLE_COLON", "COLON">>
       [] s = 8 -> <<"=", "EQUALITY", "ASSIGNMENT">>
       [] s = 9 -> <<"+", "INCREMENT", "ADDITION">>
       [] s = 10 -> <<"-", "DECREMENT", "SUBTRACTION">>
       [] s = 11 -> <<"=", "LESS_OR_EQUAL", "LESS_THAN">>
       [] s = 12 -> <<"=", "GREATER_OR_EQUAL", "GREATER_THAN">>
       [] s = 13 -> <<"=", "INEQUALITY", "UNKNOWN_CHARACTER">>]

\* A mutant: a dot always starts a number.
state_function7_number(c) ==
  IF c = "." THEN Extend("DOUBLE_DOT") ELSE State(3)

state_function7(c) ==
  IF c = "." THEN Extend("DOUBLE_DOT")
  ELSE IF c \in Digits THEN State(3) ELSE Retract("DOT")

state_function4(c) ==
  IF c = "\"" /\ ~escape_char THEN Extend("STRING")
  ELSE IF c = EOF THEN Found("STRING_UNFINISHED") ELSE State(4)

escape_char_after(c) ==
  IF current_state # 4 \/ c = EOF \/ (c = "\"" /\ ~escape_char) THEN escape_char
  ELSE c = "\\" /\ ~escape_char

state_function14(c) == IF c = "/" THEN Found("BLOCK_COMMENT_CLOSE")
                       ELSE Retract("MULTIPLICATION")

state_function15(c) == IF c = "/" THEN State(16)
                       ELSE IF c = "*" THEN Found("BLOCK_COMMENT_OPEN")
                       ELSE Retract("DIVISION")

\* In a block comment the character after // is skipped.
state_function16(c) == IF c \in {EOF, "\n"} THEN Found("LINE_COMMENT")
                       ELSE IF comment_block THEN State(0) ELSE State(16)

state_functions(s, c) ==
  CASE s = 0 -> initial_state(c)
    [] s = 1 -> IF c \in Letters \union Digits \union {"_"} THEN State(1)
                ELSE Retract("ID")
    [] s = 2 -> IF c \in Digits THEN State(2)
                ELSE IF c = "." THEN State(3) ELSE Retract("INTEGER")
    [] s = 3 -> IF c \in Digits THEN State(3) ELSE Retract("REAL")
    [] s = 4 -> state_function4(c)
    [] s = 7 -> state_function7(c)
    [] s \in DOMAIN Second ->
         IF c = Second[s][1] THEN Extend(Second[s][2]) ELSE Retract(Second[s][3])
    [] s = 14 -> state_function14(c)
    [] s = 15 -> state_function15(c)
    [] s = 16 -> state_function16(c)
-----------------------------------------------------------------------------
(* Strings *)

Escapes == [c \in {"n", "\\", "\"", "t", "r", "v"} |->
              CASE c = "n" -> "\n" [] c = "t" -> "\t" [] c = "r" -> "\r"
                [] c = "v" -> "VT" [] OTHER -> c]

\* str_format: the characters between the quotes of s, or <<EOF>> if a
\* backslash has something else behind it
str_format(s) ==
  LET from[i \in 2..Len(s)] ==
        IF i = Len(s) THEN <<>>
        ELSE IF s[i] # "\\" THEN <<s[i]>> \o from[i + 1]
        ELSE IF s[i + 1] \in DOMAIN Escapes
             THEN <<Escapes[s[i + 1]]>> \o from[i + 2]
             ELSE <<EOF>>
      formatted == from[2]
  IN  IF EOF \in ToSet(formatted) THEN <<EOF>> ELSE formatted
-----------------------------------------------------------------------------
(* Tokens *)

\* literal: the characters a token keeps; end: the last line of a comment
Token(line, type, literal) ==
  [line |-> line, end |-> 0, type |-> type, literal |-> literal]
Comment(line, end, type) ==
  [line |-> line, end |-> end, type |-> type, literal |-> <<>>]

Tokens(new) == /\ queue' = queue \o new
               /\ UNCHANGED <<comment_block, stack, result>>
Fail == /\ result' = "failed"
        /\ UNCHANGED <<comment_block, stack, queue>>
Nothing == UNCHANGED <<comment_block, stack, queue, result>>

\* A mutant: an inner bracket ends the comment.
close_comment_inner(line) ==
  /\ queue' = Append(queue, Comment(Last(stack), line, IF Len(stack) = 1
                                                    THEN "BLOCK_COMMENT" ELSE "NESTED"))
  /\ stack' = Front(stack)
  /\ comment_block' = FALSE
  /\ UNCHANGED result

\* stack_pop, lines_to_string
close_comment(line) ==
  /\ queue' = Append(queue, Comment(Last(stack), line, IF Len(stack) = 1
                                                    THEN "BLOCK_COMMENT" ELSE "NESTED"))
  /\ stack' = Front(stack)
  /\ comment_block' = (Len(stack) > 1)
  /\ UNCHANGED result

open_comment(line) ==
  /\ stack' = Append(stack, line)
  /\ comment_block' = TRUE
  /\ UNCHANGED <<queue, result>>

\* tokenize, for a token that ends on the given line with lexeme lex
in_comment(token, line) ==
  CASE token = "BLOCK_COMMENT_OPEN" -> open_comment(line)
    [] token = "BLOCK_COMMENT_CLOSE" -> close_comment(line)
    [] token = "END_OF_FILE" ->
         /\ stack' = Front(stack)
         /\ result' = "failed"
         /\ UNCHANGED <<comment_block, queue>>
    [] OTHER -> Nothing

outside_comments(token, line, lex) ==
  CASE token = "DELIMITER" -> Nothing
    [] token = "ID" ->
         Tokens(<<Token(line, IF lex \in Keywords THEN "KEYWORD" ELSE "ID", lex)>>)
    [] token = "STRING" ->
         IF str_format(lex) = <<EOF>> THEN Fail
         ELSE Tokens(<<Token(line, "STRING", str_format(lex))>>)
    [] token = "LINE_COMMENT" ->
         Tokens(<<Token(line, token, SubSeq(lex, 3, Len(lex)))>>)
    [] token = "END_OF_FILE" ->
         /\ result' = "scanned"
         /\ UNCHANGED <<comment_block, stack, queue>>
    [] token = "BLOCK_COMMENT_OPEN" -> open_comment(line)
    [] token = "BLOCK_COMMENT_CLOSE" ->
         Tokens(<<Token(line, "MULTIPLICATION", lex), Token(line, "DIVISION", <<"/">>)>>)
    [] token \in {"UNKNOWN_CHARACTER", "STRING_UNFINISHED"} -> Fail
    [] OTHER -> Tokens(<<Token(line, token, lex)>>)

\* A mutant: the line a line comment ends is not counted.
line_after_comment_not(token, line) == line

\* tokenize counts the newline that ended a line comment, but not in a block
\* comment.
line_after_comment(token, line) ==
  IF token = "LINE_COMMENT" /\ ~comment_block THEN line + 1 ELSE line
-----------------------------------------------------------------------------
Init ==
  /\ input \in Inputs
  /\ text = <<>> /\ eof = FALSE
  /\ look_ahead = ""
  /\ lexeme = <<>> /\ current_state = 0
  /\ escape_char = FALSE
  /\ line_number = 1
  /\ comment_block = FALSE /\ stack = <<>>
  /\ queue = <<>>
  /\ result = ""

fgetc(c) == \/ /\ c = EOF
               /\ eof' = TRUE
               /\ UNCHANGED text
            \/ /\ ~eof /\ c \in input.chars /\ Len(text) < input.size
               /\ text' = Append(text, c)
               /\ UNCHANGED eof

\* A mutant: use_look_ahead is not reset when the character is read again.
look_ahead_after_kept(step, c) == IF step.retract THEN c ELSE look_ahead

look_ahead_after(step, c) == IF step.retract THEN c ELSE ""

get_next_char(c) == IF look_ahead # "" THEN c = look_ahead /\ UNCHANGED <<text, eof>>
                    ELSE fgetc(c)

\* One round of the loop of gettoken2 and, with the last character of a
\* token, the round of tokenize that deals with it
gettoken2(c) ==
  LET step == state_functions(current_state, c)
      longer == IF step.extend THEN Append(lexeme, c) ELSE lexeme
      line == IF current_state = 0 /\ c = "\n" THEN line_number + 1 ELSE line_number
  IN  /\ look_ahead' = look_ahead_after(step, c)
      /\ escape_char' = escape_char_after(c)
      /\ current_state' = step.state
      /\ IF Len(longer) > MAX_LEXEME \* extend_lexeme: exit(-1)
         THEN Fail /\ UNCHANGED <<lexeme, line_number>>
         ELSE IF step.token = ""
         THEN lexeme' = longer /\ line_number' = line /\ Nothing
         ELSE /\ lexeme' = <<>>
              /\ line_number' = line_after_comment(step.token, line)
              /\ IF comment_block THEN in_comment(step.token, line)
                 ELSE outside_comments(step.token, line, longer)

Read == /\ result = ""
        /\ \E c \in input.chars \union {EOF} : get_next_char(c) /\ gettoken2(c)
        /\ UNCHANGED input

Returned == result # "" /\ UNCHANGED vars

Next == Read \/ Returned

\* Files end, and nothing but the program itself can hold up the loop.
Spec == Init /\ [][Next]_vars /\ WF_vars(Read)
-----------------------------------------------------------------------------
(* Properties *)

TypeOK ==
  /\ input \in Inputs
  /\ text \in Seq(input.chars) /\ Len(text) <= input.size
  /\ eof \in BOOLEAN
  /\ look_ahead \in input.chars \union {"", EOF}
  /\ lexeme \in Seq(input.chars) /\ Len(lexeme) <= MAX_LEXEME
  /\ current_state \in 0..16 /\ escape_char \in BOOLEAN
  /\ line_number \in 1..(Len(text) + 2)
  /\ comment_block \in BOOLEAN /\ stack \in Seq(Nat)
  /\ \A i \in DOMAIN queue : queue[i].line \in 1..line_number
  /\ result \in {"", "scanned", "failed"}

\* What the brackets of a text t are, told from the text alone.  A bracket is
\* known by the place of its second character; of pairs that overlap, as in
\* /*/*/, every other one is a bracket.
Pairs(t) == {q \in 2..Len(t) : <<t[q - 1], t[q]>> \in {<<"/", "*">>, <<"*", "/">>}}
EveryOther(P) ==
  {q \in P : \E p \in 1..(q - 1) :
     p \notin P /\ (p + 1)..q \subseteq P /\ (q - p) % 2 = 1}
Brackets(t) == EveryOther(Pairs(t))

\* The places of Open after which, up to any place until n, there is always
\* more of Open than of Close
NeverBalanced(Open, Close, n) ==
  {p \in Open : \A q \in p..n :
     Cardinality(Open \cap p..q) > Cardinality(Close \cap p..q)}

\* The opening brackets that nothing has closed
Unclosed(t) == NeverBalanced({q \in Brackets(t) : t[q] = "*"},
                             {q \in Brackets(t) : t[q] = "/"}, Len(t))

LineAt(t, p) == 1 + Cardinality({q \in 1..p : t[q] = "\n"})

\* A text whose brackets no string and no line comment hides
Plain(t) == \A q \in 1..Len(t) : t[q] # "\"" /\ (q > 1 => <<t[q - 1], t[q]>> # <<"/", "/">>)

\* Whatever was opened, closed and retracted: the scanner is in a comment as
\* long as a bracket is open, and brackets were opened outside in.  If no
\* bracket is hidden, those open are those that the text leaves open, each on
\* the line where it stands (tokenize, gettoken2).
CommentsNest ==
  result = "" =>
    /\ comment_block = (stack # <<>>)
    /\ \A i \in 2..Len(stack) : stack[i - 1] <= stack[i]
    /\ Plain(text) =>
         /\ Len(stack) = Cardinality(Unclosed(text))
         /\ \A p \in Unclosed(text) :
              stack[Cardinality(Unclosed(text) \cap 1..p)] = LineAt(text, p)

\* No text, complete or not, keeps the scanner busy for ever (get_next_char,
\* retract).
ScansToTheEnd == <>(result # "")
=============================================================================
