------------------------- MODULE CustomScannerProofs -------------------------
(* For all files, keywords and lengths of lexemes: the hand-written scanner   *)
(* is well typed, every line number it hands out is one of the file's, it is   *)
(* in a block comment as long as a bracket is open, and in a text that hides   *)
(* no bracket the open ones are those the text leaves open.                    *)
EXTENDS CustomScanner, FiniteSetTheorems, SequenceTheorems, WellFoundedInduction, TLAPS

-----------------------------------------------------------------------------
(* The state machine. *)

\* The states there are a function for (state_functions[]).
States == (0..16) \ {5}

\* What tokenize relies on of a round of gettoken2 in state s with character c.
Sound(step, s, c) ==
  /\ step.state \in States /\ step.extend \in BOOLEAN /\ step.retract \in BOOLEAN
  /\ step.retract => step.state = 0 /\ s # 0
  /\ step.extend => c # EOF
  /\ c = EOF => step.state = 0
  /\ step.token = "LINE_COMMENT" => s = 16 /\ c \in {EOF, "\n"} /\ ~step.retract

\* A state that goes on keeps the character, which is one.
LEMMA StateSound ==
  ASSUME NEW s, NEW c, NEW n \in States, c # EOF
  PROVE  Sound(State(n), s, c)
BY DEF Sound, State, Step

\* A token is found without its last character.
LEMMA FoundSound ==
  ASSUME NEW s, NEW c, NEW t,
         t # "LINE_COMMENT" \/ (s = 16 /\ c \in {EOF, "\n"})
  PROVE  Sound(Found(t), s, c)
BY DEF Sound, Found, Step, States

\* A token is found with its last character.
LEMMA ExtendSound ==
  ASSUME NEW s, NEW c, NEW t, t # "LINE_COMMENT", c # EOF
  PROVE  Sound(Extend(t), s, c)
BY DEF Sound, Extend, Step, States

\* A token ends before the character, which is not its first.
LEMMA RetractSound ==
  ASSUME NEW s \in States, NEW c, NEW t, t # "LINE_COMMENT", s # 0
  PROVE  Sound(Retract(t), s, c)
BY DEF Sound, Retract, Step, States

\* Which character a token or a state starts with (initial_state)
LEMMA InitialCases ==
  ASSUME NEW c
  PROVE  \/ c \in Letters /\ initial_state(c) = State(1)
         \/ c \in Digits /\ initial_state(c) = State(2)
         \/ c \in Delimiters /\ initial_state(c) = Found("DELIMITER")
         \/ c = "\"" /\ initial_state(c) = State(4)
         \/ c \in DOMAIN First /\ initial_state(c) = State(First[c])
         \/ /\ c \in DOMAIN is_single_char_punctuation
            /\ initial_state(c) = Extend(is_single_char_punctuation[c])
         \/ c = "%" /\ initial_state(c) = Extend("MODULO")
         \/ c = EOF /\ initial_state(c) = Found("END_OF_FILE")
         \/ /\ c \notin Delimiters /\ c \notin DOMAIN First
            /\ initial_state(c) = Found("UNKNOWN_CHARACTER")
<1> DEFINE Punctuation == DOMAIN is_single_char_punctuation
           Firsts == DOMAIN First
<1>1. Firsts = {":", ".", "=", "+", "-", "<", ">", "!", "*", "/"}
  BY DEF First
<1>2. Punctuation = {"{", "}", "[", "]", "(", ")", ";", ","}
  BY DEF is_single_char_punctuation
<1>3. CASE c \in Letters
  <2>1. /\ c \notin Digits /\ c \notin Delimiters /\ c # "\"" /\ c \notin Firsts
        /\ c \notin Punctuation /\ c # "%" /\ c # EOF
    BY <1>1, <1>2, <1>3 DEF Letters, Digits, Delimiters, EOF
  <2> QED BY Zenon, <1>3, <2>1 DEF initial_state
<1>4. CASE c \in Digits
  <2>1. /\ c \notin Letters /\ c \notin Delimiters /\ c # "\"" /\ c \notin Firsts
        /\ c \notin Punctuation /\ c # "%" /\ c # EOF
    BY <1>1, <1>2, <1>4 DEF Letters, Digits, Delimiters, EOF
  <2> QED BY Zenon, <1>4, <2>1 DEF initial_state
<1>5. CASE c \in Delimiters
  <2>1. /\ c \notin Letters /\ c \notin Digits /\ c # "\"" /\ c \notin Firsts
        /\ c \notin Punctuation /\ c # "%" /\ c # EOF
    BY <1>1, <1>2, <1>5 DEF Letters, Digits, Delimiters, EOF
  <2> QED BY Zenon, <1>5, <2>1 DEF initial_state
<1>6. CASE c = "\""
  <2>1. /\ c \notin Letters /\ c \notin Digits /\ c \notin Delimiters /\ c \notin Firsts
        /\ c \notin Punctuation /\ c # "%" /\ c # EOF
    BY <1>1, <1>2, <1>6 DEF Letters, Digits, Delimiters, EOF
  <2> QED BY Zenon, <1>6, <2>1 DEF initial_state
<1>7. CASE c \in Firsts
  <2>1. /\ c \notin Letters /\ c \notin Digits /\ c \notin Delimiters /\ c # "\""
        /\ c \notin Punctuation /\ c # "%" /\ c # EOF
    BY <1>1, <1>2, <1>7 DEF Letters, Digits, Delimiters, EOF
  <2> QED BY Zenon, <1>7, <2>1 DEF initial_state
<1>8. CASE c \in Punctuation
  <2>1. /\ c \notin Letters /\ c \notin Digits /\ c \notin Delimiters /\ c # "\""
        /\ c \notin Firsts /\ c # "%" /\ c # EOF
    BY <1>1, <1>2, <1>8 DEF Letters, Digits, Delimiters, EOF
  <2> QED BY Zenon, <1>8, <2>1 DEF initial_state
<1>9. CASE c = "%"
  <2>1. /\ c \notin Letters /\ c \notin Digits /\ c \notin Delimiters /\ c # "\""
        /\ c \notin Firsts /\ c \notin Punctuation /\ c # EOF
    BY <1>1, <1>2, <1>9 DEF Letters, Digits, Delimiters, EOF
  <2> QED BY Zenon, <1>9, <2>1 DEF initial_state
<1>10. CASE c = EOF
  <2>1. /\ c \notin Letters /\ c \notin Digits /\ c \notin Delimiters /\ c # "\""
        /\ c \notin Firsts /\ c \notin Punctuation /\ c # "%"
    BY <1>1, <1>2, <1>10 DEF Letters, Digits, Delimiters, EOF
  <2> QED BY Zenon, <1>10, <2>1 DEF initial_state
<1>11. CASE /\ c \notin Letters /\ c \notin Digits /\ c \notin Delimiters /\ c # "\""
            /\ c \notin Firsts /\ c \notin Punctuation /\ c # "%" /\ c # EOF
  BY Zenon, <1>11 DEF initial_state
<1> HIDE DEF Punctuation, Firsts
<1> QED BY Zenon, <1>3, <1>4, <1>5, <1>6, <1>7, <1>8, <1>9, <1>10, <1>11

\* The state functions of operators that a second character makes longer are
\* alike (state_functions[]).
LEMMA SecondCases ==
  ASSUME NEW c, NEW s \in {6, 8, 9, 10, 11, 12, 13}
  PROVE  /\ state_functions(s, c) = IF c = Second[s][1] THEN Extend(Second[s][2])
                                    ELSE Retract(Second[s][3])
         /\ Second[s][1] \in {":", "=", "+", "-"}
         /\ Second[s][2] \in {"DOUBLE_COLON", "EQUALITY", "INCREMENT", "DECREMENT",
                              "LESS_OR_EQUAL", "GREATER_OR_EQUAL", "INEQUALITY"}
         /\ Second[s][3] \in {"COLON", "ASSIGNMENT", "ADDITION", "SUBTRACTION",
                              "LESS_THAN", "GREATER_THAN", "UNKNOWN_CHARACTER"}
<1>1. DOMAIN Second = {6, 8, 9, 10, 11, 12, 13}
  BY DEF Second
<1>2. state_functions(s, c) = IF c = Second[s][1] THEN Extend(Second[s][2])
                              ELSE Retract(Second[s][3])
  BY <1>1 DEF state_functions
<1>3. /\ Second[s][1] \in {":", "=", "+", "-"}
      /\ Second[s][2] \in {"DOUBLE_COLON", "EQUALITY", "INCREMENT", "DECREMENT",
                           "LESS_OR_EQUAL", "GREATER_OR_EQUAL", "INEQUALITY"}
      /\ Second[s][3] \in {"COLON", "ASSIGNMENT", "ADDITION", "SUBTRACTION",
                           "LESS_THAN", "GREATER_THAN", "UNKNOWN_CHARACTER"}
  BY DEF Second
<1> QED BY <1>2, <1>3

\* The other state functions
LEMMA StateCases ==
  ASSUME NEW c
  PROVE  /\ state_functions(0, c) = initial_state(c)
         /\ state_functions(1, c) = IF c \in Letters \union Digits \union {"_"} THEN State(1)
                                    ELSE Retract("ID")
         /\ state_functions(2, c) = IF c \in Digits THEN State(2)
                                    ELSE IF c = "." THEN State(3) ELSE Retract("INTEGER")
         /\ state_functions(3, c) = IF c \in Digits THEN State(3) ELSE Retract("REAL")
         /\ state_functions(4, c) = state_function4(c)
         /\ state_functions(7, c) = state_function7(c)
         /\ state_functions(14, c) = state_function14(c)
         /\ state_functions(15, c) = state_function15(c)
         /\ state_functions(16, c) = state_function16(c)
<1>1. DOMAIN Second = {6, 8, 9, 10, 11, 12, 13}
  BY DEF Second
<1>3. \A s \in {0, 1, 2, 3, 4, 7, 14, 15, 16} : s \notin DOMAIN Second
  BY <1>1
<1>4. /\ state_functions(0, c) = initial_state(c)
      /\ state_functions(1, c) = IF c \in Letters \union Digits \union {"_"} THEN State(1)
                                 ELSE Retract("ID")
      /\ state_functions(2, c) = IF c \in Digits THEN State(2)
                                 ELSE IF c = "." THEN State(3) ELSE Retract("INTEGER")
      /\ state_functions(3, c) = IF c \in Digits THEN State(3) ELSE Retract("REAL")
      /\ state_functions(4, c) = state_function4(c)
  BY <1>3 DEF state_functions
<1>5. /\ state_functions(7, c) = state_function7(c)
      /\ state_functions(14, c) = state_function14(c)
      /\ state_functions(15, c) = state_function15(c)
      /\ state_functions(16, c) = state_function16(c)
  BY <1>3 DEF state_functions
<1> QED BY <1>4, <1>5


\* Between tokens
LEMMA InitialSound ==
  ASSUME NEW c
  PROVE  Sound(initial_state(c), 0, c)
<1>1. DOMAIN First = {":", ".", "=", "+", "-", "<", ">", "!", "*", "/"}
  BY DEF First
<1>2. DOMAIN is_single_char_punctuation = {"{", "}", "[", "]", "(", ")", ";", ","}
  BY DEF is_single_char_punctuation
<1>3. CASE c \in Letters /\ initial_state(c) = State(1)
  <2>1. c # EOF /\ 1 \in States
    BY <1>3 DEF Letters, EOF, States
  <2> QED BY <1>3, <2>1, StateSound
<1>4. CASE c \in Digits /\ initial_state(c) = State(2)
  <2>1. c # EOF /\ 2 \in States
    BY <1>4 DEF Digits, EOF, States
  <2> QED BY <1>4, <2>1, StateSound
<1>5. CASE c = "\"" /\ initial_state(c) = State(4)
  <2>1. c # EOF
    BY <1>5 DEF EOF
  <2>2. 4 \in States
    BY DEF States
  <2> QED BY <1>5, <2>1, <2>2, StateSound
<1>6. CASE c \in DOMAIN First /\ initial_state(c) = State(First[c])
  <2>1. c # EOF /\ First[c] \in States
    BY <1>1, <1>6 DEF First, EOF, States
  <2> QED BY <1>6, <2>1, StateSound
<1>7. CASE /\ c \in DOMAIN is_single_char_punctuation
           /\ initial_state(c) = Extend(is_single_char_punctuation[c])
  <2>1. c # EOF /\ is_single_char_punctuation[c] # "LINE_COMMENT"
    BY <1>2, <1>7 DEF is_single_char_punctuation, EOF
  <2> QED BY <1>7, <2>1, ExtendSound
<1>8. CASE c = "%" /\ initial_state(c) = Extend("MODULO")
  <2>1. c # EOF
    BY <1>8 DEF EOF
  <2> QED BY <1>8, <2>1, ExtendSound
<1>9. CASE initial_state(c) \in {Found("DELIMITER"), Found("END_OF_FILE"),
                                 Found("UNKNOWN_CHARACTER")}
  BY <1>9, FoundSound
<1> QED BY Zenon, <1>3, <1>4, <1>5, <1>6, <1>7, <1>8, <1>9, InitialCases

\* In every state
LEMMA StatesSound ==
  ASSUME NEW s \in States, NEW c
  PROVE  Sound(state_functions(s, c), s, c)
<1>a. /\ c \in Letters \union Digits \union {"_"} => c # EOF
      /\ c \in Digits => c # EOF
      /\ c = "." \/ c = "\"" \/ c = "/" \/ c \in {":", "=", "+", "-"} => c # EOF
  BY DEF Letters, Digits, EOF
<1>b. \A n \in {0, 1, 2, 3, 4, 16} : n \in States
  BY DEF States
<1>c. /\ c # EOF => \A n \in States : Sound(State(n), s, c)
      /\ \A x : x # "LINE_COMMENT" =>
           /\ c # EOF => Sound(Extend(x), s, c)
           /\ Sound(Found(x), s, c)
  BY StateSound, ExtendSound, FoundSound
<1>d. s # 0 => \A x : x # "LINE_COMMENT" => Sound(Retract(x), s, c)
  BY RetractSound
<1>1. CASE s = 0
  <2>1. state_functions(s, c) = initial_state(c)
    BY Zenon, <1>1, StateCases
  <2> QED BY Zenon, <1>1, <2>1, InitialSound
<1>2. CASE s = 1
  <2>1. \/ c \in Letters \union Digits \union {"_"} /\ state_functions(s, c) = State(1)
        \/ state_functions(s, c) = Retract("ID")
    BY <1>2, StateCases
  <2>2. Sound(Retract("ID"), s, c)
    BY <1>2, <1>d
  <2>3. c \in Letters \union Digits \union {"_"} => Sound(State(1), s, c)
    BY <1>a, <1>b, <1>c
  <2> QED BY Zenon, <2>1, <2>2, <2>3
<1>3. CASE s = 2
  <2>1. \/ c \in Digits /\ state_functions(s, c) = State(2)
        \/ c = "." /\ state_functions(s, c) = State(3)
        \/ state_functions(s, c) = Retract("INTEGER")
    BY <1>3, StateCases
  <2>2. Sound(Retract("INTEGER"), s, c)
    BY <1>3, <1>d
  <2>3. c \in Digits \/ c = "." => Sound(State(2), s, c) /\ Sound(State(3), s, c)
    BY <1>a, <1>b, <1>c
  <2> QED BY Zenon, <2>1, <2>2, <2>3
<1>4. CASE s = 3
  <2>1. \/ c \in Digits /\ state_functions(s, c) = State(3)
        \/ state_functions(s, c) = Retract("REAL")
    BY <1>4, StateCases
  <2>2. Sound(Retract("REAL"), s, c)
    BY <1>4, <1>d
  <2>3. c \in Digits => Sound(State(3), s, c)
    BY <1>a, <1>b, <1>c
  <2> QED BY Zenon, <2>1, <2>2, <2>3
<1>5. CASE s = 4
  <2>1. \/ c = "\"" /\ state_functions(s, c) = Extend("STRING")
        \/ state_functions(s, c) = Found("STRING_UNFINISHED")
        \/ c # EOF /\ state_functions(s, c) = State(4)
    BY <1>5, StateCases DEF state_function4
  <2> QED BY <1>5, <1>a, <1>b, <1>c, <1>d, <2>1
<1>6. CASE s = 7
  <2>1. \/ c = "." /\ state_functions(s, c) = Extend("DOUBLE_DOT")
        \/ c \in Digits /\ state_functions(s, c) = State(3)
        \/ state_functions(s, c) = Retract("DOT")
    BY <1>6, StateCases DEF state_function7
  <2>2. Sound(Retract("DOT"), s, c)
    BY <1>6, <1>d
  <2>3. c \in Digits \/ c = "." => Sound(State(3), s, c) /\ Sound(Extend("DOUBLE_DOT"), s, c)
    BY <1>a, <1>b, <1>c
  <2> QED BY Zenon, <2>1, <2>2, <2>3
<1>7. CASE s \in {6, 8, 9, 10, 11, 12, 13}
  <2>1. /\ state_functions(s, c) = IF c = Second[s][1] THEN Extend(Second[s][2])
                                   ELSE Retract(Second[s][3])
        /\ Second[s][1] \in {":", "=", "+", "-"}
        /\ Second[s][2] # "LINE_COMMENT" /\ Second[s][3] # "LINE_COMMENT"
    BY <1>7, SecondCases
  <2>2. Sound(Retract(Second[s][3]), s, c)
    BY <1>7, <1>d, <2>1
  <2>3. c = Second[s][1] => Sound(Extend(Second[s][2]), s, c)
    BY <1>a, <1>c, <2>1
  <2> QED BY <2>1, <2>2, <2>3
<1>8. CASE s = 14
  <2>1. state_functions(s, c) \in {Found("BLOCK_COMMENT_CLOSE"), Retract("MULTIPLICATION")}
    BY <1>8, StateCases DEF state_function14
  <2> QED BY <1>8, <1>c, <1>d, <2>1
<1>9. CASE s = 15
  <2>1. \/ c = "/" /\ state_functions(s, c) = State(16)
        \/ state_functions(s, c) \in {Found("BLOCK_COMMENT_OPEN"), Retract("DIVISION")}
    BY <1>9, StateCases DEF state_function15
  <2>2. Sound(Retract("DIVISION"), s, c) /\ Sound(Found("BLOCK_COMMENT_OPEN"), s, c)
    BY <1>9, <1>c, <1>d
  <2>3. c = "/" => Sound(State(16), s, c)
    BY <1>a, <1>b, <1>c
  <2> QED BY Zenon, <2>1, <2>2, <2>3
<1>10. CASE s = 16
  <2>1. \/ c \in {EOF, "\n"} /\ state_functions(s, c) = Found("LINE_COMMENT")
        \/ c # EOF /\ state_functions(s, c) \in {State(0), State(16)}
    BY <1>10, StateCases DEF state_function16
  <2> QED BY <1>10, <1>b, <1>c, <1>d, <2>1, FoundSound
<1> QED BY <1>1, <1>2, <1>3, <1>4, <1>5, <1>6, <1>7, <1>8, <1>9, <1>10 DEF States

-----------------------------------------------------------------------------
(* Brackets of comments in the state machine. *)

\* The tokens of brackets
Marks == {"BLOCK_COMMENT_OPEN", "BLOCK_COMMENT_CLOSE"}

\* What a round says of brackets in a state s that is neither of a string nor
\* of a line comment
Marking(step, s, c) ==
  /\ step.token = "BLOCK_COMMENT_OPEN" <=> s = 15 /\ c = "*"
  /\ step.token = "BLOCK_COMMENT_CLOSE" <=> s = 14 /\ c = "/"
  /\ step.token \in Marks => ~step.retract
  /\ step.state = 15 <=> s = 0 /\ c = "/"
  /\ step.state = 14 <=> s = 0 /\ c = "*"
  /\ step.state = 4 => c = "\""
  /\ step.state = 16 => s = 15 /\ c = "/"
  /\ s # 0 /\ c \in {"/", "*", "\n"} =>
       step.retract \/ step.state = 16 \/ step.token \in Marks

\* A round that has nothing to do with brackets
LEMMA NoMarking ==
  ASSUME NEW s, NEW c, s = 0 => c \notin {"/", "*"}, s = 14 => c # "/", s = 15 => c # "*"
  PROVE  /\ \A t : t \notin Marks => Marking(Retract(t), s, c)
         /\ s = 0 \/ c \notin {"/", "*", "\n"} =>
              /\ \A n : n \notin {4, 14, 15, 16} => Marking(State(n), s, c)
              /\ \A t : t \notin Marks => Marking(Found(t), s, c) /\ Marking(Extend(t), s, c)
<1>1. ASSUME NEW t, t \notin Marks PROVE Marking(Retract(t), s, c)
  BY <1>1 DEF Marking, Marks, Retract, Step
<1>2. ASSUME s = 0 \/ c \notin {"/", "*", "\n"}, NEW n, n \notin {4, 14, 15, 16}
      PROVE  Marking(State(n), s, c)
  BY <1>2 DEF Marking, Marks, State, Step
<1>3. ASSUME s = 0 \/ c \notin {"/", "*", "\n"}, NEW t, t \notin Marks
      PROVE  Marking(Found(t), s, c) /\ Marking(Extend(t), s, c)
  <2>1. Marking(Found(t), s, c)
    BY <1>3 DEF Marking, Marks, Found, Step
  <2>2. Marking(Extend(t), s, c)
    BY <1>3 DEF Marking, Marks, Extend, Step
  <2> QED BY <2>1, <2>2
<1> QED BY <1>1, <1>2, <1>3

\* The rounds that have
LEMMA WithMarking ==
  /\ Marking(State(4), 0, "\"") /\ Marking(State(14), 0, "*") /\ Marking(State(15), 0, "/")
  /\ Marking(State(16), 15, "/")
  /\ Marking(Found("BLOCK_COMMENT_OPEN"), 15, "*")
  /\ Marking(Found("BLOCK_COMMENT_CLOSE"), 14, "/")
<1>1. Marking(State(4), 0, "\"")
  BY DEF Marking, Marks, State, Step
<1>2. Marking(State(14), 0, "*") /\ Marking(State(15), 0, "/") /\ Marking(State(16), 15, "/")
  BY DEF Marking, Marks, State, Step
<1>3. /\ Marking(Found("BLOCK_COMMENT_OPEN"), 15, "*")
      /\ Marking(Found("BLOCK_COMMENT_CLOSE"), 14, "/")
  BY DEF Marking, Marks, Found, Step
<1> QED BY <1>1, <1>2, <1>3

\* Between tokens
LEMMA InitialMarking ==
  ASSUME NEW c
  PROVE  Marking(initial_state(c), 0, c)
<1>1. DOMAIN First = {":", ".", "=", "+", "-", "<", ">", "!", "*", "/"}
  BY DEF First
<1>2. DOMAIN is_single_char_punctuation = {"{", "}", "[", "]", "(", ")", ";", ","}
  BY DEF is_single_char_punctuation
<1>3. /\ \A t : t \notin Marks /\ c \notin {"/", "*"} =>
           Marking(Found(t), 0, c) /\ Marking(Extend(t), 0, c)
      /\ \A n : n \notin {4, 14, 15, 16} /\ c \notin {"/", "*"} => Marking(State(n), 0, c)
  BY NoMarking
<1>4. CASE c \in Letters /\ initial_state(c) = State(1)
  <2>1. c \notin {"/", "*"} /\ 1 \notin {4, 14, 15, 16}
    BY <1>4 DEF Letters
  <2> QED BY <1>3, <1>4, <2>1
<1>5. CASE c \in Digits /\ initial_state(c) = State(2)
  <2>1. c \notin {"/", "*"} /\ 2 \notin {4, 14, 15, 16}
    BY <1>5 DEF Digits
  <2> QED BY <1>3, <1>5, <2>1
<1>6. CASE c \in Delimiters /\ initial_state(c) = Found("DELIMITER")
  <2>1. c \notin {"/", "*"} /\ "DELIMITER" \notin Marks
    BY <1>6 DEF Delimiters, Marks
  <2> QED BY <1>3, <1>6, <2>1
<1>7. CASE c = "\"" /\ initial_state(c) = State(4)
  BY Zenon, <1>7, WithMarking
<1>8. CASE c \in DOMAIN First /\ initial_state(c) = State(First[c])
  <2>1. CASE c = "/"
    <3>1. First[c] = 15
      BY <1>1, <2>1 DEF First
    <3> QED BY Zenon, <1>8, <2>1, <3>1, WithMarking
  <2>2. CASE c = "*"
    <3>1. First[c] = 14
      BY <1>1, <2>2 DEF First
    <3> QED BY Zenon, <1>8, <2>2, <3>1, WithMarking
  <2>3. CASE c \notin {"/", "*"}
    <3>1. First[c] \notin {4, 14, 15, 16}
      BY <1>1, <1>8, <2>3 DEF First
    <3> QED BY Zenon, <1>3, <1>8, <2>3, <3>1
  <2> QED BY <2>1, <2>2, <2>3
<1>9. CASE /\ c \in DOMAIN is_single_char_punctuation
           /\ initial_state(c) = Extend(is_single_char_punctuation[c])
  <2>1. c \notin {"/", "*"} /\ is_single_char_punctuation[c] \notin Marks
    BY <1>2, <1>9 DEF is_single_char_punctuation, Marks
  <2> QED BY Zenon, <1>3, <1>9, <2>1
<1>10. CASE c = "%" /\ initial_state(c) = Extend("MODULO")
  <2>1. c \notin {"/", "*"} /\ "MODULO" \notin Marks
    BY <1>10 DEF Marks
  <2> QED BY Zenon, <1>3, <1>10, <2>1
<1>11. CASE c = EOF /\ initial_state(c) = Found("END_OF_FILE")
  <2>1. c \notin {"/", "*"} /\ "END_OF_FILE" \notin Marks
    BY <1>11 DEF Marks, EOF
  <2> QED BY Zenon, <1>3, <1>11, <2>1
<1>12. CASE /\ c \notin Delimiters /\ c \notin DOMAIN First
            /\ initial_state(c) = Found("UNKNOWN_CHARACTER")
  <2>1. c \notin {"/", "*"} /\ "UNKNOWN_CHARACTER" \notin Marks
    BY <1>1, <1>12 DEF Marks
  <2> QED BY Zenon, <1>3, <1>12, <2>1
<1> QED BY Zenon, <1>4, <1>5, <1>6, <1>7, <1>8, <1>9, <1>10, <1>11, <1>12, InitialCases

\* In every state but those of strings and line comments
LEMMA StatesMarking ==
  ASSUME NEW s \in States \ {4, 16}, NEW c
  PROVE  Marking(state_functions(s, c), s, c)
<1>a. s \notin {0, 14, 15} =>
        /\ \A t : t \notin Marks => Marking(Retract(t), s, c)
        /\ c \notin {"/", "*", "\n"} =>
             /\ \A n : n \notin {4, 14, 15, 16} => Marking(State(n), s, c)
             /\ \A t : t \notin Marks => Marking(Extend(t), s, c)
  BY NoMarking
<1>b. /\ \A n \in {1, 2, 3} : n \notin {4, 14, 15, 16}
      /\ \A t \in {"ID", "INTEGER", "REAL", "DOUBLE_DOT", "DOT", "MULTIPLICATION", "DIVISION"} :
           t \notin Marks
  BY DEF Marks
<1>c. \A x \in Letters \union Digits \union {"_", "."} : x \notin {"/", "*", "\n"}
  BY DEF Letters, Digits
<1>1. CASE s = 0
  <2>1. state_functions(s, c) = initial_state(c)
    BY Zenon, <1>1, StateCases
  <2> QED BY Zenon, <1>1, <2>1, InitialMarking
<1>2. CASE s = 1
  <2>1. \/ c \in Letters \union Digits \union {"_"} /\ state_functions(s, c) = State(1)
        \/ state_functions(s, c) = Retract("ID")
    BY <1>2, StateCases
  <2> QED BY <1>2, <1>a, <1>b, <1>c, <2>1
<1>3. CASE s = 2
  <2>1. \/ c \in Digits /\ state_functions(s, c) = State(2)
        \/ c = "." /\ state_functions(s, c) = State(3)
        \/ state_functions(s, c) = Retract("INTEGER")
    BY <1>3, StateCases
  <2> QED BY <1>3, <1>a, <1>b, <1>c, <2>1
<1>4. CASE s = 3
  <2>1. \/ c \in Digits /\ state_functions(s, c) = State(3)
        \/ state_functions(s, c) = Retract("REAL")
    BY <1>4, StateCases
  <2> QED BY <1>4, <1>a, <1>b, <1>c, <2>1
<1>5. CASE s = 7
  <2>1. \/ c = "." /\ state_functions(s, c) = Extend("DOUBLE_DOT")
        \/ c \in Digits /\ state_functions(s, c) = State(3)
        \/ state_functions(s, c) = Retract("DOT")
    BY <1>5, StateCases DEF state_function7
  <2>2. c \in Digits \union {"."} => c \notin {"/", "*", "\n"}
    BY <1>c
  <2>3. Marking(Retract("DOT"), s, c)
    BY <1>5, <1>a, <1>b
  <2>4. c \in Digits \union {"."} =>
          Marking(State(3), s, c) /\ Marking(Extend("DOUBLE_DOT"), s, c)
    BY <1>5, <1>a, <1>b, <2>2
  <2> QED BY Zenon, <2>1, <2>3, <2>4
<1>6. CASE s \in {6, 8, 9, 10, 11, 12, 13}
  <2>1. /\ state_functions(s, c) = IF c = Second[s][1] THEN Extend(Second[s][2])
                                   ELSE Retract(Second[s][3])
        /\ Second[s][1] \in {":", "=", "+", "-"}
        /\ Second[s][2] \in {"DOUBLE_COLON", "EQUALITY", "INCREMENT", "DECREMENT",
                             "LESS_OR_EQUAL", "GREATER_OR_EQUAL", "INEQUALITY"}
        /\ Second[s][3] \in {"COLON", "ASSIGNMENT", "ADDITION", "SUBTRACTION",
                             "LESS_THAN", "GREATER_THAN", "UNKNOWN_CHARACTER"}
    BY <1>6, SecondCases
  <2>2. /\ c = Second[s][1] => c \notin {"/", "*", "\n"}
        /\ Second[s][2] \notin Marks /\ Second[s][3] \notin Marks
    BY <2>1 DEF Marks
  <2> QED BY <1>6, <1>a, <2>1, <2>2
<1>7. CASE s = 14
  <2>1. state_functions(s, c) = IF c = "/" THEN Found("BLOCK_COMMENT_CLOSE")
                                ELSE Retract("MULTIPLICATION")
    BY <1>7, StateCases DEF state_function14
  <2>2. CASE c = "/"
    BY <1>7, <2>1, <2>2, WithMarking
  <2>3. CASE c # "/"
    BY <1>7, <1>b, <2>1, <2>3, NoMarking
  <2> QED BY <2>2, <2>3
<1>8. CASE s = 15
  <2>1. state_functions(s, c) = IF c = "/" THEN State(16)
                                ELSE IF c = "*" THEN Found("BLOCK_COMMENT_OPEN")
                                ELSE Retract("DIVISION")
    BY <1>8, StateCases DEF state_function15
  <2>2. CASE c = "/"
    BY <1>8, <2>1, <2>2, WithMarking
  <2>3. CASE c = "*"
    <3>1. state_functions(s, c) = Found("BLOCK_COMMENT_OPEN")
      BY <2>1, <2>3
    <3> QED BY <1>8, <2>3, <3>1, WithMarking
  <2>4. CASE c \notin {"/", "*"}
    BY <1>8, <1>b, <2>1, <2>4, NoMarking
  <2> QED BY <2>2, <2>3, <2>4
<1> QED BY <1>1, <1>2, <1>3, <1>4, <1>5, <1>6, <1>7, <1>8 DEF States

-----------------------------------------------------------------------------
(* What tokenize does with a token. *)

\* Every token of the list q is of a line up to l.
Listed(q, l) == q \in Seq(ToSet(q)) /\ \A i \in DOMAIN q : q[i].line \in 1..l

\* The open brackets s are of lines up to l, outside in.
Bracketed(s, l) ==
  s \in Seq(1..l) /\ \A i \in DOMAIN s : \A j \in 1..i : s[j] <= s[i]

\* Later lines allow what earlier ones do.
LEMMA LaterLine ==
  ASSUME NEW q, NEW s, NEW l \in Nat, NEW m \in Nat, l <= m
  PROVE  /\ Listed(q, l) => Listed(q, m)
         /\ Bracketed(s, l) => Bracketed(s, m)
<1>1. 1..l \subseteq 1..m
  OBVIOUS
<1>2. s \in Seq(1..l) => s \in Seq(1..m)
  BY <1>1, SeqMonotonic
<1> QED BY <1>1, <1>2 DEF Listed, Bracketed

\* A line is one of the lines up to it.
LEMMA OwnLine == \A l \in Nat \ {0} : l \in 1..l
OBVIOUS

\* A list of one token.
LEMMA ListedOne ==
  ASSUME NEW x, NEW l, x.line \in 1..l
  PROVE  Listed(<<x>>, l)
<1>1. <<x>> \in Seq(ToSet(<<x>>)) /\ DOMAIN <<x>> = {1} /\ <<x>>[1] = x
  BY DEF ToSet
<1> QED BY <1>1 DEF Listed

\* Lists of tokens are put together.
LEMMA ListedConcat ==
  ASSUME NEW q, NEW new, NEW l, Listed(q, l), Listed(new, l)
  PROVE  Listed(q \o new, l)
<1> DEFINE S == ToSet(q) \union ToSet(new)
           r == q \o new
<1>1. q \in Seq(S) /\ new \in Seq(S)
  BY SeqMonotonic DEF Listed
<1>2. /\ r \in Seq(S) /\ Len(r) = Len(q) + Len(new)
      /\ \A i \in 1..Len(r) : r[i] = IF i <= Len(q) THEN q[i] ELSE new[i - Len(q)]
  BY <1>1, ConcatProperties
<1>3. Len(q) \in Nat /\ Len(new) \in Nat /\ DOMAIN q = 1..Len(q) /\ DOMAIN new = 1..Len(new)
      /\ DOMAIN r = 1..Len(r)
  BY <1>1, <1>2, LenProperties
<1> HIDE DEF S, r
<1>4. ASSUME NEW i \in DOMAIN r PROVE r[i] \in ToSet(r) /\ r[i].line \in 1..l
  <2>1. r[i] \in ToSet(r)
    BY <1>4 DEF ToSet
  <2>2. CASE i <= Len(q)
    <3>1. i \in DOMAIN q /\ r[i] = q[i]
      BY <1>2, <1>3, <2>2
    <3> QED BY <2>1, <3>1 DEF Listed
  <2>3. CASE ~(i <= Len(q))
    <3>1. i - Len(q) \in DOMAIN new /\ r[i] = new[i - Len(q)]
      BY <1>2, <1>3, <2>3
    <3> QED BY <2>1, <3>1 DEF Listed
  <2> QED BY <2>2, <2>3
<1>5. r \in Seq(ToSet(r))
  BY <1>2, <1>3, <1>4, IsASeq
<1> QED BY <1>4, <1>5 DEF Listed, r

\* The tokens of one character or word are lists; a token is one element longer.
LEMMA ListedAppend ==
  ASSUME NEW q, NEW x, NEW l, Listed(q, l), x.line \in 1..l
  PROVE  Listed(Append(q, x), l)
<1>1. q \in Seq(ToSet(q) \union {x})
  BY SeqMonotonic DEF Listed
<1>2. Append(q, x) = q \o <<x>>
  BY <1>1, AppendIsConcat
<1> QED BY <1>2, ListedOne, ListedConcat

\* A list of two tokens.
LEMMA ListedTwo ==
  ASSUME NEW x, NEW y, NEW l, x.line \in 1..l, y.line \in 1..l
  PROVE  Listed(<<x, y>>, l)
<1>1. <<x, y>> \in Seq(ToSet(<<x, y>>)) /\ DOMAIN <<x, y>> = {1, 2}
      /\ <<x, y>>[1] = x /\ <<x, y>>[2] = y
  BY DEF ToSet
<1> QED BY <1>1 DEF Listed

\* A bracket that is opened is the innermost.
LEMMA BracketOpened ==
  ASSUME NEW s, NEW l \in Nat \ {0}, Bracketed(s, l)
  PROVE  Bracketed(Append(s, l), l) /\ Append(s, l) # <<>>
<1> DEFINE r == Append(s, l)
<1>1. /\ r \in Seq(1..l) /\ Len(r) = Len(s) + 1 /\ Len(s) \in Nat
      /\ DOMAIN s = 1..Len(s) /\ DOMAIN r = 1..Len(r)
      /\ \A i \in 1..Len(s) : r[i] = s[i] /\ s[i] \in 1..l
      /\ r[Len(s) + 1] = l
  BY DEF Bracketed
<1> HIDE DEF r
<1>2. ASSUME NEW i \in DOMAIN r, NEW j \in 1..i PROVE r[j] <= r[i]
  <2>1. CASE i <= Len(s)
    <3>1. i \in DOMAIN s /\ j \in 1..Len(s)
      BY <1>1, <2>1
    <3> QED BY <1>1, <3>1 DEF Bracketed
  <2>2. CASE i = Len(s) + 1
    <3>1. r[i] = l /\ r[j] \in 1..l
      BY <1>1, <2>2
    <3> QED BY <3>1
  <2> QED BY <1>1, <2>1, <2>2
<1>3. r # <<>>
  BY <1>1, EmptySeq
<1> QED BY <1>1, <1>2, <1>3 DEF Bracketed, r

\* What is left when the innermost bracket is closed.
LEMMA BracketClosed ==
  ASSUME NEW s, NEW l \in Nat, Bracketed(s, l), s # <<>>
  PROVE  /\ Bracketed(Front(s), l) /\ Last(s) \in 1..l
         /\ (Len(s) > 1) = (Front(s) # <<>>)
<1>1. s \in Seq(1..l) /\ Len(s) \in Nat \ {0} /\ DOMAIN s = 1..Len(s)
  BY DEF Bracketed
<1>2. /\ Front(s) \in Seq(1..l) /\ Len(Front(s)) = Len(s) - 1
      /\ \A i \in 1..(Len(s) - 1) : Front(s)[i] = s[i]
  BY <1>1 DEF Front
<1>3. Last(s) \in 1..l
  BY <1>1 DEF Last
<1>4. (Len(s) > 1) = (Front(s) # <<>>)
  <2>1. Front(s) = <<>> => Len(Front(s)) = 0
    BY EmptySeq
  <2>2. Front(s) # <<>> => Len(Front(s)) \in Nat \ {0}
    BY <1>2, EmptySeq
  <2> QED BY <1>1, <1>2, <2>1, <2>2
<1>5. ASSUME NEW i \in DOMAIN Front(s), NEW j \in 1..i PROVE Front(s)[j] <= Front(s)[i]
  <2>1. i \in 1..(Len(s) - 1) /\ j \in 1..(Len(s) - 1) /\ i \in DOMAIN s
    BY <1>1, <1>2
  <2>2. Front(s)[i] = s[i] /\ Front(s)[j] = s[j]
    BY <1>1, <1>2, <2>1
  <2> QED BY <2>1, <2>2 DEF Bracketed
<1> QED BY <1>2, <1>3, <1>4, <1>5 DEF Bracketed

\* tokenize has not ended.
Running == result = ""

\* What a round of tokenize leaves, the line number of its token being at most m.
Tokenized(m) ==
  /\ Listed(queue, m) /\ Bracketed(stack, m)
  /\ comment_block \in BOOLEAN /\ result \in {"", "scanned", "failed"}
  /\ Running => comment_block = (stack # <<>>)

\* Putting tokens in the queue, failing and doing nothing.
LEMMA TokensKept ==
  ASSUME NEW l \in Nat, Tokenized(l), Running
  PROVE  /\ \A new : Listed(new, l) /\ Tokens(new) => Tokenized(l)'
         /\ Fail => Tokenized(l)' /\ ~Running'
         /\ Nothing => Tokenized(l)'
<1>1. ASSUME NEW new, Listed(new, l), Tokens(new) PROVE Tokenized(l)'
  <2>1. queue' = queue \o new
        /\ comment_block' = comment_block /\ stack' = stack /\ result' = result
    BY <1>1 DEF Tokens
  <2>2. Listed(queue', l)
    BY <1>1, <2>1, ListedConcat DEF Tokenized
  <2>3. Listed(queue, l)' = Listed(queue', l) /\ Bracketed(stack, l)' = Bracketed(stack, l)
    BY <2>1 DEF Listed, Bracketed
  <2> QED BY <2>1, <2>2, <2>3 DEF Tokenized, Running
<1>2. ASSUME Fail PROVE Tokenized(l)' /\ ~Running'
  BY <1>2 DEF Tokenized, Fail, Listed, Bracketed, Running
<1>3. ASSUME Nothing PROVE Tokenized(l)'
  BY <1>3 DEF Tokenized, Nothing, Listed, Bracketed, Running
<1> QED BY <1>1, <1>2, <1>3

\* A bracket is opened, in a comment or outside of one.
LEMMA CommentOpened ==
  ASSUME NEW l \in Nat \ {0}, Tokenized(l), Running, open_comment(l)
  PROVE  Tokenized(l)'
<1>1. stack' = Append(stack, l) /\ comment_block' = TRUE
      /\ queue' = queue /\ result' = result
  BY DEF open_comment
<1>2. Bracketed(stack', l) /\ stack' # <<>>
  BY <1>1, BracketOpened DEF Tokenized
<1>3. Listed(queue, l)' = Listed(queue, l) /\ Bracketed(stack, l)' = Bracketed(stack', l)
  BY <1>1 DEF Listed, Bracketed
<1> QED BY <1>1, <1>2, <1>3 DEF Tokenized, Running

\* A bracket is closed, which ends the comment if no other is open.
LEMMA CommentClosed ==
  ASSUME NEW l \in Nat, Tokenized(l), Running, comment_block, close_comment(l)
  PROVE  Tokenized(l)'
<1> DEFINE x == Comment(Last(stack), l, IF Len(stack) = 1 THEN "BLOCK_COMMENT" ELSE "NESTED")
<1>1. queue' = Append(queue, x) /\ stack' = Front(stack)
      /\ comment_block' = (Len(stack) > 1) /\ result' = result
  BY DEF close_comment
<1>2. stack # <<>>
  BY DEF Tokenized
<1>3. Bracketed(stack', l) /\ Last(stack) \in 1..l /\ (Len(stack) > 1) = (stack' # <<>>)
  BY <1>1, <1>2, BracketClosed DEF Tokenized
<1>4. x.line \in 1..l
  BY <1>3 DEF Comment
<1> HIDE DEF x
<1>5. Listed(queue', l)
  BY <1>1, <1>4, ListedAppend DEF Tokenized
<1>6. Listed(queue, l)' = Listed(queue', l) /\ Bracketed(stack, l)' = Bracketed(stack', l)
  BY DEF Listed, Bracketed
<1> QED BY <1>1, <1>3, <1>5, <1>6 DEF Tokenized, Running

\* tokenize while a comment is open
LEMMA InComment ==
  ASSUME NEW token, NEW l \in Nat \ {0}, Tokenized(l), Running, comment_block,
         in_comment(token, l)
  PROVE  Tokenized(l)'
<1>1. CASE token = "BLOCK_COMMENT_OPEN"
  <2>1. token # "BLOCK_COMMENT_CLOSE" /\ token # "END_OF_FILE"
    BY <1>1
  <2>2. open_comment(l)
    BY Zenon, <1>1, <2>1 DEF in_comment
  <2> QED BY <2>1, <2>2, CommentOpened
<1>2. CASE token = "BLOCK_COMMENT_CLOSE"
  <2>1. token # "BLOCK_COMMENT_OPEN" /\ token # "END_OF_FILE"
    BY <1>2
  <2>2. close_comment(l)
    BY Zenon, <1>2, <2>1 DEF in_comment
  <2> QED BY <2>1, <2>2, CommentClosed
<1>3. CASE token = "END_OF_FILE"
  <2>1. token # "BLOCK_COMMENT_OPEN" /\ token # "BLOCK_COMMENT_CLOSE"
    BY <1>3
  <2>2. stack' = Front(stack) /\ result' = "failed"
        /\ UNCHANGED <<comment_block, queue>>
    BY Zenon, <1>3, <2>1 DEF in_comment
  <2>3. Bracketed(stack', l)
    BY <2>2, BracketClosed DEF Tokenized
  <2>4. Listed(queue, l)' = Listed(queue, l) /\ Bracketed(stack, l)' = Bracketed(stack', l)
    BY <2>2 DEF Listed, Bracketed
  <2> QED BY <2>2, <2>3, <2>4 DEF Tokenized, Running
<1>4. CASE token \notin {"BLOCK_COMMENT_OPEN", "BLOCK_COMMENT_CLOSE", "END_OF_FILE"}
  <2>1. Nothing
    BY Zenon, <1>4 DEF in_comment
  <2> QED BY <1>4, <2>1, TokensKept
<1> QED BY <1>1, <1>2, <1>3, <1>4

\* tokenize outside of comments
LEMMA OutsideComments ==
  ASSUME NEW token, NEW l \in Nat \ {0}, NEW lex, Tokenized(l), Running,
         outside_comments(token, l, lex)
  PROVE  Tokenized(l)'
<1> DEFINE Arms == {"DELIMITER", "ID", "STRING", "LINE_COMMENT", "END_OF_FILE",
                    "BLOCK_COMMENT_OPEN", "BLOCK_COMMENT_CLOSE", "UNKNOWN_CHARACTER",
                    "STRING_UNFINISHED"}
<1>a. l \in 1..l
  BY OwnLine
<1>0. \A type, literal : Listed(<<Token(l, type, literal)>>, l)
  <2> SUFFICES ASSUME NEW type, NEW literal
               PROVE  Listed(<<Token(l, type, literal)>>, l)
    OBVIOUS
  <2>1. Token(l, type, literal).line = l
    BY DEF Token
  <2>2. Token(l, type, literal).line \in 1..l
    BY Zenon, <1>a, <2>1
  <2> QED BY <2>2, ListedOne
<1>1. CASE token = "DELIMITER"
  <2>1. \A a \in Arms : token = a => a = "DELIMITER"
    BY <1>1
  <2>2. Nothing
    BY Zenon, <1>1, <2>1 DEF outside_comments
  <2> QED BY <1>1, <2>2, TokensKept
<1>2. CASE token = "ID"
  <2>1. \A a \in Arms : token = a => a = "ID"
    BY <1>2
  <2>2. Tokens(<<Token(l, IF lex \in Keywords THEN "KEYWORD" ELSE "ID", lex)>>)
    BY Zenon, <1>2, <2>1 DEF outside_comments
  <2> QED BY <1>0, <1>2, <2>2, TokensKept
<1>3. CASE token = "STRING"
  <2>1. \A a \in Arms : token = a => a = "STRING"
    BY <1>3
  <2>2. IF str_format(lex) = <<EOF>> THEN Fail
       ELSE Tokens(<<Token(l, "STRING", str_format(lex))>>)
    BY Zenon, <1>3, <2>1 DEF outside_comments
  <2>3. Fail \/ \E literal : Tokens(<<Token(l, "STRING", literal)>>)
    BY Zenon, <2>2
  <2> QED BY <1>0, <1>3, <2>3, TokensKept
<1>4. CASE token = "LINE_COMMENT"
  <2>1. \A a \in Arms : token = a => a = "LINE_COMMENT"
    BY <1>4
  <2>2. Tokens(<<Token(l, token, SubSeq(lex, 3, Len(lex)))>>)
    BY Zenon, <1>4, <2>1 DEF outside_comments
  <2> QED BY <1>0, <1>4, <2>2, TokensKept
<1>5. CASE token = "END_OF_FILE"
  <2>1. \A a \in Arms : token = a => a = "END_OF_FILE"
    BY <1>5
  <2>2. result' = "scanned" /\ UNCHANGED <<comment_block, stack, queue>>
    BY Zenon, <1>5, <2>1 DEF outside_comments
  <2> QED BY <2>2 DEF Tokenized, Listed, Bracketed, Running
<1>6. CASE token = "BLOCK_COMMENT_OPEN"
  <2>1. \A a \in Arms : token = a => a = "BLOCK_COMMENT_OPEN"
    BY <1>6
  <2>2. open_comment(l)
    BY Zenon, <1>6, <2>1 DEF outside_comments
  <2> QED BY <1>6, <2>2, CommentOpened
<1>7. CASE token = "BLOCK_COMMENT_CLOSE"
  <2>1. \A a \in Arms : token = a => a = "BLOCK_COMMENT_CLOSE"
    BY <1>7
  <2>2. Tokens(<<Token(l, "MULTIPLICATION", lex), Token(l, "DIVISION", <<"/">>)>>)
    BY Zenon, <1>7, <2>1 DEF outside_comments
  <2> DEFINE x == Token(l, "MULTIPLICATION", lex)
             y == Token(l, "DIVISION", <<"/">>)
  <2>3. x.line = l /\ y.line = l
    BY DEF Token
  <2> HIDE DEF x, y
  <2>4. x.line \in 1..l /\ y.line \in 1..l
    BY Zenon, <1>a, <2>3
  <2>5. Listed(<<x, y>>, l)
    BY <2>4, ListedTwo
  <2>6. Tokens(<<x, y>>)
    BY <2>2 DEF x, y
  <2> QED BY <1>7, <2>5, <2>6, TokensKept
<1>8. CASE token \in {"UNKNOWN_CHARACTER", "STRING_UNFINISHED"}
  <2>1. \A a \in Arms : token = a => a \in {"UNKNOWN_CHARACTER", "STRING_UNFINISHED"}
    BY <1>8
  <2>2. Fail
    BY Zenon, <1>8, <2>1 DEF outside_comments
  <2> QED BY <1>8, <2>2, TokensKept
<1>9. CASE token \notin Arms
  <2>1. Tokens(<<Token(l, token, lex)>>)
    BY Zenon, <1>9 DEF outside_comments
  <2> QED BY <1>0, <1>9, <2>1, TokensKept
<1> QED BY <1>1, <1>2, <1>3, <1>4, <1>5, <1>6, <1>7, <1>8, <1>9

\* The tokens of brackets stack a line or take one away, and no other token
\* moves the stack while the scan goes on.
LEMMA StackMoves ==
  ASSUME NEW token, NEW l, NEW lex, Running', comment_block \in BOOLEAN,
         IF comment_block THEN in_comment(token, l) ELSE outside_comments(token, l, lex)
  PROVE  /\ token = "BLOCK_COMMENT_OPEN" => stack' = Append(stack, l)
         /\ token = "BLOCK_COMMENT_CLOSE" =>
              stack' = IF comment_block THEN Front(stack) ELSE stack
         /\ token \notin Marks => stack' = stack
<1>1. CASE comment_block
  <2>1. in_comment(token, l)
    BY <1>1
  <2>2. CASE token = "BLOCK_COMMENT_OPEN"
    <3>1. token # "BLOCK_COMMENT_CLOSE" /\ token # "END_OF_FILE" /\ token \in Marks
      BY <2>2 DEF Marks
    <3>2. open_comment(l)
      BY Zenon, <2>1, <2>2, <3>1 DEF in_comment
    <3> QED BY <2>2, <3>1, <3>2 DEF open_comment
  <2>3. CASE token = "BLOCK_COMMENT_CLOSE"
    <3>1. token # "BLOCK_COMMENT_OPEN" /\ token # "END_OF_FILE" /\ token \in Marks
      BY <2>3 DEF Marks
    <3>2. close_comment(l)
      BY Zenon, <2>1, <2>3, <3>1 DEF in_comment
    <3> QED BY <1>1, <2>3, <3>1, <3>2 DEF close_comment
  <2>4. CASE token = "END_OF_FILE"
    <3>1. token # "BLOCK_COMMENT_OPEN" /\ token # "BLOCK_COMMENT_CLOSE"
      BY <2>4
    <3>2. result' = "failed"
      BY Zenon, <2>1, <2>4, <3>1 DEF in_comment
    <3> QED BY <3>2 DEF Running
  <2>5. CASE token \notin {"BLOCK_COMMENT_OPEN", "BLOCK_COMMENT_CLOSE", "END_OF_FILE"}
    <3>1. Nothing
      BY Zenon, <2>1, <2>5 DEF in_comment
    <3> QED BY <2>5, <3>1 DEF Nothing
  <2> QED BY <2>2, <2>3, <2>4, <2>5
<1>2. CASE ~comment_block
  <2>1. outside_comments(token, l, lex)
    BY <1>2
  <2>2. CASE token = "BLOCK_COMMENT_OPEN"
    <3>1. \A a \in {"DELIMITER", "ID", "STRING", "LINE_COMMENT", "END_OF_FILE",
                    "BLOCK_COMMENT_CLOSE", "UNKNOWN_CHARACTER", "STRING_UNFINISHED"} : token # a
      BY <2>2
    <3>2. open_comment(l) /\ token \in Marks /\ token # "BLOCK_COMMENT_CLOSE"
      BY Zenon, <2>1, <2>2, <3>1 DEF outside_comments, Marks
    <3> QED BY <2>2, <3>2 DEF open_comment
  <2>3. CASE token # "BLOCK_COMMENT_OPEN"
    <3>1. stack' = stack
      BY Zenon, <2>1, <2>3 DEF outside_comments, Tokens, Fail, Nothing
    <3> QED BY <1>2, <2>3, <3>1
  <2> QED BY <2>2, <2>3
<1> QED BY <1>1, <1>2

-----------------------------------------------------------------------------
(* The inductive invariant. *)

\* No character waits to be read again.
NoCharacter == ""

\* Where the scanner is in the file: a character is put back only between
\* tokens, the end of the file is met once inside of one, and no more lines are
\* counted than have been read.
Reading ==
  /\ look_ahead = EOF => eof
  /\ Running =>
       /\ current_state # 5
       /\ look_ahead # NoCharacter => current_state = 0
       /\ eof => current_state = 0 /\ look_ahead \in {NoCharacter, EOF}
       /\ line_number + (IF look_ahead = "\n" THEN 1 ELSE 0)
            <= Len(text) + 1 + (IF eof THEN 1 ELSE 0)

\* The inductive invariant
Inv == TypeOK /\ Reading /\ Tokenized(line_number)

\* What gettoken2 adds to the lines: those of its character, of a line comment
\* that has ended, and of a newline that is put back.
LineOf(c) == IF current_state = 0 /\ c = "\n" THEN line_number + 1 ELSE line_number
Ended(step) == IF step.token = "LINE_COMMENT" THEN 1 ELSE 0
PutBack(step, c) == IF step.retract /\ c = "\n" THEN 1 ELSE 0

\* get_next_char: the character, the text read and the lines in it.
LEMMA CharacterRead ==
  ASSUME Inv, Running, NEW c \in input.chars \union {EOF}, get_next_char(c),
         NEW step, Sound(step, current_state, c)
  PROVE  /\ text' \in Seq(input.chars) /\ Len(text') <= input.size /\ eof' \in BOOLEAN
         /\ c = EOF => eof'
         /\ eof' /\ c # EOF => FALSE
         /\ LineOf(c) + Ended(step) + PutBack(step, c)
              <= Len(text') + 1 + (IF eof' THEN 1 ELSE 0)
<1>1. /\ text \in Seq(input.chars) /\ Len(text) \in Nat /\ Len(text) <= input.size
      /\ eof \in BOOLEAN /\ line_number \in Nat /\ input.size \in Nat
      /\ c = EOF \/ c \in input.chars
      /\ EOF \notin input.chars
  <2>1. /\ input \in Inputs /\ text \in Seq(input.chars) /\ Len(text) <= input.size
        /\ eof \in BOOLEAN /\ line_number \in 1..(Len(text) + 2)
    BY Zenon DEF Inv, TypeOK
  <2>2. input.size \in Nat /\ EOF \notin input.chars
    BY Zenon, <2>1, InputsAssumption
  <2>3. Len(text) \in Nat
    BY <2>1
  <2> QED BY <2>1, <2>2, <2>3
<1>2. /\ look_ahead = EOF => eof
      /\ look_ahead # NoCharacter => current_state = 0
      /\ eof => current_state = 0 /\ look_ahead \in {NoCharacter, EOF}
      /\ line_number + (IF look_ahead = "\n" THEN 1 ELSE 0)
           <= Len(text) + 1 + (IF eof THEN 1 ELSE 0)
  BY DEF Inv, Reading
<1>3. /\ step.retract => current_state # 0
      /\ step.token = "LINE_COMMENT" => current_state = 16 /\ ~step.retract
  BY DEF Sound
<1>4. CASE look_ahead # NoCharacter
  <2>1. c = look_ahead /\ text' = text /\ eof' = eof
    BY Zenon, <1>4 DEF get_next_char, NoCharacter
  <2>2. current_state = 0 /\ Ended(step) = 0 /\ PutBack(step, c) = 0
    BY <1>2, <1>3, <1>4 DEF Ended, PutBack
  <2>3. LineOf(c) <= Len(text) + 1 + (IF eof THEN 1 ELSE 0)
    BY <1>1, <1>2, <2>1, <2>2 DEF LineOf
  <2>4. eof /\ c # EOF => FALSE
    BY <1>2, <1>4, <2>1
  <2>5. LineOf(c) \in Nat
    BY <1>1 DEF LineOf
  <2> QED BY <1>1, <1>2, <2>1, <2>2, <2>3, <2>4, <2>5
<1>5. CASE look_ahead = NoCharacter /\ c = EOF /\ eof' = TRUE /\ text' = text
  <2>1. LineOf(c) = line_number /\ PutBack(step, c) = 0
    BY <1>1, <1>5 DEF LineOf, PutBack, EOF
  <2>2. Ended(step) = 1 => ~eof
    BY <1>2, <1>3 DEF Ended
  <2>3. Ended(step) \in {0, 1}
    BY DEF Ended
  <2>4. line_number <= Len(text) + 1 + (IF eof THEN 1 ELSE 0)
    BY <1>1, <1>2, <1>5
  <2> QED BY <1>1, <1>5, <2>1, <2>2, <2>3, <2>4
<1>6. CASE /\ look_ahead = NoCharacter /\ ~eof /\ c \in input.chars /\ Len(text) < input.size
           /\ text' = Append(text, c) /\ eof' = eof
  <2>1. text' \in Seq(input.chars) /\ Len(text') = Len(text) + 1
    BY <1>1, <1>6
  <2>2. line_number <= Len(text) + 1
    BY <1>1, <1>2, <1>6
  <2>3. LineOf(c) + Ended(step) + PutBack(step, c) <= line_number + 1
    <3>1. CASE current_state = 0
      BY <1>1, <1>3, <3>1 DEF LineOf, Ended, PutBack
    <3>2. CASE current_state # 0
      BY <1>1, <1>3, <3>2 DEF LineOf, Ended, PutBack
    <3> QED BY <3>1, <3>2
  <2>4. LineOf(c) + Ended(step) + PutBack(step, c) \in Nat
    BY <1>1 DEF LineOf, Ended, PutBack
  <2>5. c # EOF
    BY <1>1, <1>6
  <2> HIDE DEF LineOf, Ended, PutBack
  <2>6. LineOf(c) + Ended(step) + PutBack(step, c) <= Len(text') + 1 + (IF eof' THEN 1 ELSE 0)
    BY <1>1, <1>6, <2>1, <2>2, <2>3, <2>4
  <2> QED BY <1>1, <1>6, <2>1, <2>5, <2>6
<1> QED BY <1>4, <1>5, <1>6 DEF get_next_char, fgetc, NoCharacter

\* One round of the loop of gettoken2, and of tokenize at the end of a token.
LEMMA ReadKeeps ==
  ASSUME Inv, Running, input' = input,
         NEW c \in input.chars \union {EOF}, get_next_char(c), gettoken2(c)
  PROVE  Inv'
<1>1. PICK step : step = state_functions(current_state, c)
  OBVIOUS
<1>2. PICK line : line = LineOf(c)
  OBVIOUS
<1>3. PICK longer : longer = IF step.extend THEN Append(lexeme, c) ELSE lexeme
  OBVIOUS
<1>4. /\ look_ahead' = look_ahead_after(step, c) /\ escape_char' = escape_char_after(c)
      /\ current_state' = step.state
      /\ IF Len(longer) > MAX_LEXEME THEN Fail /\ UNCHANGED <<lexeme, line_number>>
         ELSE IF step.token = "" THEN lexeme' = longer /\ line_number' = line /\ Nothing
         ELSE /\ lexeme' = <<>>
              /\ line_number' = line_after_comment(step.token, line)
              /\ IF comment_block THEN in_comment(step.token, line)
                 ELSE outside_comments(step.token, line, longer)
  BY Zenon, <1>1, <1>2, <1>3 DEF gettoken2, LineOf
<1>5. /\ current_state \in States /\ line_number \in Nat \ {0} /\ Tokenized(line_number)
      /\ lexeme \in Seq(input.chars) /\ Len(lexeme) <= MAX_LEXEME
      /\ escape_char \in BOOLEAN /\ input \in Inputs
  <2>1. /\ current_state \in 0..16 /\ line_number \in 1..(Len(text) + 2)
        /\ Tokenized(line_number)
        /\ lexeme \in Seq(input.chars) /\ Len(lexeme) <= MAX_LEXEME
        /\ escape_char \in BOOLEAN /\ input \in Inputs /\ text \in Seq(input.chars)
    BY Zenon DEF Inv, TypeOK
  <2>2. current_state # 5
    BY Zenon DEF Inv, Reading
  <2> QED BY <2>1, <2>2 DEF States
<1>6. Sound(step, current_state, c)
  BY <1>1, <1>5, StatesSound
<1>7. /\ text' \in Seq(input.chars) /\ Len(text') <= input.size /\ eof' \in BOOLEAN
      /\ c = EOF => eof'
      /\ ~(eof' /\ c # EOF)
      /\ line + Ended(step) + PutBack(step, c) <= Len(text') + 1 + (IF eof' THEN 1 ELSE 0)
  BY <1>2, <1>6, CharacterRead
<1>8. line \in Nat \ {0} /\ line_number <= line /\ Ended(step) \in {0, 1}
      /\ PutBack(step, c) \in {0, 1} /\ Len(text') \in Nat
  BY <1>2, <1>5, <1>7 DEF LineOf, Ended, PutBack
<1>9. longer \in Seq(input.chars)
  <2>1. step.extend => c \in input.chars
    BY <1>6 DEF Sound
  <2>2. CASE step.extend
    <3>1. longer = Append(lexeme, c)
      BY <1>3, <2>2
    <3> QED BY <1>5, <2>1, <2>2, <3>1, AppendProperties
  <2>3. CASE ~step.extend
    BY <1>3, <1>5, <2>3
  <2> QED BY <2>2, <2>3
<1>10. /\ lexeme' \in Seq(input.chars) /\ Len(lexeme') <= MAX_LEXEME
       /\ Tokenized(line_number)' /\ line_number' \in {line_number, line, line + Ended(step)}
       /\ Running' => line_number' \in {line, line + Ended(step)}
  <2>1. CASE Len(longer) > MAX_LEXEME
    <3>1. Fail /\ lexeme' = lexeme /\ line_number' = line_number
      BY <1>4, <2>1
    <3>2. PICK n \in Nat : n = line_number
      BY <1>5
    <3>3. Tokenized(n)' /\ ~Running'
      BY <1>5, <3>1, <3>2, TokensKept
    <3>4. Tokenized(line_number)'
      BY Zenon, <3>1, <3>2, <3>3 DEF Tokenized
    <3> QED BY <1>5, <3>1, <3>3, <3>4
  <2>2. Tokenized(line)
    BY <1>5, <1>8, LaterLine DEF Tokenized
  <2>3. CASE ~(Len(longer) > MAX_LEXEME) /\ step.token = ""
    <3>1. lexeme' = longer /\ line_number' = line /\ Nothing
      BY Zenon, <1>4, <2>3
    <3>2. Tokenized(line)'
      BY <1>8, <2>2, <3>1, TokensKept
    <3>3. Tokenized(line_number)'
      BY Zenon, <3>1, <3>2 DEF Tokenized
    <3>4. Len(longer) <= MAX_LEXEME
      <4>1. ~(Len(longer) > MAX_LEXEME)
        BY <2>3
      <4>2. Len(longer) \in Nat
        BY <1>9
      <4> QED BY <4>1, <4>2, LexemeAssumption
    <3> QED BY Zenon, <1>9, <3>1, <3>3, <3>4
  <2>4. CASE ~(Len(longer) > MAX_LEXEME) /\ step.token # ""
    <3>1. /\ lexeme' = <<>>
          /\ line_number' = line_after_comment(step.token, line)
          /\ IF comment_block THEN in_comment(step.token, line)
             ELSE outside_comments(step.token, line, longer)
      BY Zenon, <1>4, <2>4
    <3>2. Tokenized(line)'
      BY <1>8, <2>2, <3>1, InComment, OutsideComments
    <3>3. line_number' \in {line, line + Ended(step)}
      BY <3>1 DEF line_after_comment, Ended
    <3>4. PICK n \in Nat : n = line_number' /\ line <= n
      BY <1>8, <3>3
    <3>5. Tokenized(n)'
      BY <1>8, <3>2, <3>4, LaterLine DEF Tokenized
    <3>6. Tokenized(line_number)'
      BY Zenon, <3>4, <3>5 DEF Tokenized
    <3>7. <<>> \in Seq(input.chars) /\ Len(<<>>) <= MAX_LEXEME
      BY LexemeAssumption, EmptySeq
    <3> QED BY Zenon, <3>1, <3>3, <3>6, <3>7
  <2> QED BY Zenon, <2>1, <2>3, <2>4
<1>11. escape_char' \in BOOLEAN /\ look_ahead' \in input.chars \union {NoCharacter, EOF}
  <2>1. escape_char' \in BOOLEAN
    BY Zenon, <1>4, <1>5 DEF escape_char_after
  <2> QED BY Zenon, <1>4, <2>1 DEF look_ahead_after, NoCharacter
<1>12. TypeOK'
  <2>1. line_number' \in 1..(Len(text') + 2)
    BY <1>5, <1>7, <1>8, <1>10
  <2>2. current_state' \in 0..16
    BY <1>4, <1>6 DEF Sound, States
  <2>3. /\ comment_block' \in BOOLEAN /\ stack' \in Seq(1..line_number')
        /\ \A i \in DOMAIN queue' : queue'[i].line \in 1..line_number'
        /\ result' \in {"", "scanned", "failed"}
    BY Zenon, <1>10 DEF Tokenized, Listed, Bracketed
  <2>4. stack' \in Seq(Nat)
    <3>1. 1..line_number' \subseteq Nat
      BY <2>1
    <3> QED BY <2>3, <3>1, SeqMonotonic
  <2> QED BY Zenon, <1>5, <1>7, <1>10, <1>11, <2>1, <2>2, <2>3, <2>4
          DEF TypeOK, NoCharacter
<1>13. Reading'
  <2>1. look_ahead' = IF step.retract THEN c ELSE NoCharacter
    BY Zenon, <1>4 DEF look_ahead_after, NoCharacter
  <2>2. look_ahead' = EOF => eof'
    BY Zenon, <1>7, <2>1 DEF NoCharacter, EOF
  <2>3. ASSUME Running'
        PROVE  /\ current_state' # 5
               /\ look_ahead' # NoCharacter => current_state' = 0
               /\ eof' => current_state' = 0 /\ look_ahead' \in {NoCharacter, EOF}
               /\ line_number' + (IF look_ahead' = "\n" THEN 1 ELSE 0)
                    <= Len(text') + 1 + (IF eof' THEN 1 ELSE 0)
    <3>1. current_state' # 5
      BY <1>4, <1>6 DEF Sound, States
    <3>2. look_ahead' # NoCharacter => current_state' = 0
      BY <1>4, <1>6, <2>1 DEF Sound
    <3>3. eof' => current_state' = 0 /\ look_ahead' \in {NoCharacter, EOF}
      BY <1>4, <1>6, <1>7, <2>1 DEF Sound
    <3>4. look_ahead' = "\n" => PutBack(step, c) = 1
      BY <2>1 DEF PutBack, NoCharacter
    <3>5. line_number' <= line + Ended(step) /\ line_number' \in Nat
      BY <1>8, <1>10, <2>3
    <3> QED BY <1>7, <1>8, <3>1, <3>2, <3>3, <3>4, <3>5
  <2> QED BY Zenon, <2>2, <2>3 DEF Reading, Running, NoCharacter
<1> QED BY <1>10, <1>12, <1>13 DEF Inv

-----------------------------------------------------------------------------
(* Brackets in a text that grows. *)

\* How many of a set of places lie between two
Count(A, p, q) == Cardinality(A \cap p..q)

\* The brackets of a text t, by what they do
Opening(t) == {q \in Brackets(t) : t[q] = "*"}
Closing(t) == {q \in Brackets(t) : t[q] = "/"}

\* Every pair is in a run of pairs that overlap, which has a first.
HaveFirst(P) == \A q \in P : \E p \in 1..(q - 1) : p \notin P /\ (p + 1)..q \subseteq P

\* Whether characters a and b are a pair
Pair(a, b) == <<a, b>> \in {<<"/", "*">>, <<"*", "/">>}

\* The pairs of a text that is one character longer
LEMMA PairsGrow ==
  ASSUME NEW S, NEW t \in Seq(S), NEW c \in S
  PROVE  /\ Pairs(t) \subseteq 2..Len(t)
         /\ Pairs(Append(t, c)) = Pairs(t) \union
              (IF Len(t) > 0 /\ Pair(t[Len(t)], c) THEN {Len(t) + 1} ELSE {})
<1> DEFINE n == Len(t)
           u == Append(t, c)
<1>1. n \in Nat /\ Len(u) = n + 1 /\ u[n + 1] = c /\ \A i \in 1..n : u[i] = t[i]
  OBVIOUS
<1>2. Pairs(t) = {q \in 2..n : Pair(t[q - 1], t[q])}
  BY DEF Pairs, Pair
<1>3. Pairs(u) = {q \in 2..(n + 1) : Pair(u[q - 1], u[q])}
  BY <1>1 DEF Pairs, Pair
<1> HIDE DEF n, u
<1>4. \A q \in 2..n : u[q - 1] = t[q - 1] /\ u[q] = t[q]
  BY <1>1
<1>5. n > 0 => u[(n + 1) - 1] = t[n] /\ u[n + 1] = c
  BY <1>1
<1>6. \A q : q \in 2..(n + 1) <=> q \in 2..n \/ (n > 0 /\ q = n + 1)
  BY <1>1
<1>7. \A q : q \in Pairs(u) <=>
        \/ q \in Pairs(t)
        \/ n > 0 /\ q = n + 1 /\ Pair(t[n], c)
  BY <1>2, <1>3, <1>4, <1>5, <1>6
<1>8. Pairs(t) \subseteq 2..n
  BY <1>2
<1> QED BY <1>7, <1>8 DEF n, u

\* The first of a run is the only one.
LEMMA OneFirst ==
  ASSUME NEW P, NEW n \in Nat, NEW p \in 1..(n - 1), NEW q \in 1..(n - 1),
         p \notin P, (p + 1)..n \subseteq P, q \notin P, (q + 1)..n \subseteq P
  PROVE  p = q
<1>1. CASE p < q
  <2>1. q \in (p + 1)..n
    BY <1>1
  <2> QED BY <2>1
<1>2. CASE q < p
  <2>1. p \in (q + 1)..n
    BY <1>2
  <2> QED BY <2>1
<1> QED BY <1>1, <1>2

\* A pair at the end of a text is a bracket if and only if the one before is not.
LEMMA EveryOtherGrows ==
  ASSUME NEW n \in Nat \ {0}, NEW P \in SUBSET (2..n), HaveFirst(P)
  PROVE  /\ HaveFirst(P \union {n + 1})
         /\ EveryOther(P \union {n + 1})
              = EveryOther(P) \union (IF n \in EveryOther(P) THEN {} ELSE {n + 1})
<1> DEFINE Q == P \union {n + 1}
<1>1. \A q \in P : q \in 2..n
  OBVIOUS
<1>2. \A q \in P : \A p \in 1..(q - 1) :
        /\ p \in Q <=> p \in P
        /\ (p + 1)..q \subseteq Q <=> (p + 1)..q \subseteq P
  <2> SUFFICES ASSUME NEW q \in P, NEW p \in 1..(q - 1)
               PROVE  /\ p \in Q <=> p \in P
                      /\ (p + 1)..q \subseteq Q <=> (p + 1)..q \subseteq P
    OBVIOUS
  <2>1. q <= n /\ p # n + 1 /\ n + 1 \notin (p + 1)..q
    BY <1>1
  <2> QED BY <2>1
<1>3. ASSUME NEW q \in P PROVE q \in EveryOther(Q) <=> q \in EveryOther(P)
  BY <1>2, <1>3 DEF EveryOther
<1>4. \A q : q \in EveryOther(Q) => q \in P \/ q = n + 1
  BY DEF EveryOther
<1>5. \A q : q \in EveryOther(P) => q \in P
  BY DEF EveryOther
<1>6. n + 1 \notin P
  BY <1>1
<1>7. n + 1 \in EveryOther(Q) <=>
        \E p \in 1..n : p \notin Q /\ (p + 1)..(n + 1) \subseteq Q /\ (n + 1 - p) % 2 = 1
  BY DEF EveryOther
<1>8. \A p \in 1..n :
        /\ p \in Q <=> p \in P
        /\ (p + 1)..(n + 1) \subseteq Q <=> (p + 1)..n \subseteq P
  <2> SUFFICES ASSUME NEW p \in 1..n
               PROVE  /\ p \in Q <=> p \in P
                      /\ (p + 1)..(n + 1) \subseteq Q <=> (p + 1)..n \subseteq P
    OBVIOUS
  <2>1. p # n + 1 /\ (p + 1)..(n + 1) = (p + 1)..n \union {n + 1} /\ n + 1 \notin (p + 1)..n
    OBVIOUS
  <2> QED BY <2>1
<1>9. n + 1 \in EveryOther(Q) <=>
        \E p \in 1..n : p \notin P /\ (p + 1)..n \subseteq P /\ (n + 1 - p) % 2 = 1
  BY <1>7, <1>8
<1>10. CASE n \notin P
  <2>1. n \notin EveryOther(P)
    BY <1>5, <1>10
  <2>2. n \in 1..n /\ (n + 1)..n = {} /\ (n + 1 - n) % 2 = 1
    OBVIOUS
  <2>3. n + 1 \in EveryOther(Q)
    BY <1>9, <1>10, <2>2
  <2>4. \E p \in 1..n : p \notin Q /\ (p + 1)..(n + 1) \subseteq Q
    BY <1>8, <1>10, <2>2
  <2>5. HaveFirst(Q)
    BY <1>2, <1>6, <2>4 DEF HaveFirst
  <2> HIDE DEF Q
  <2>6. EveryOther(Q) = EveryOther(P) \union {n + 1}
    BY <1>3, <1>4, <1>5, <2>3
  <2> QED BY <2>1, <2>5, <2>6 DEF Q
<1>11. CASE n \in P
  <2>1. PICK f \in 1..(n - 1) : f \notin P /\ (f + 1)..n \subseteq P
    BY <1>11 DEF HaveFirst
  <2>2. \A p \in 1..n : p \notin P /\ (p + 1)..n \subseteq P => p = f
    <3> SUFFICES ASSUME NEW p \in 1..n, p \notin P, (p + 1)..n \subseteq P PROVE p = f
      OBVIOUS
    <3>1. p \in 1..(n - 1)
      BY <1>11
    <3> QED BY <2>1, <3>1, OneFirst
  <2>3. n \in EveryOther(P) <=> (n - f) % 2 = 1
    <3>1. \A p \in 1..(n - 1) : p \in 1..n
      OBVIOUS
    <3> QED BY <1>11, <2>1, <2>2, <3>1 DEF EveryOther
  <2>4. n + 1 \in EveryOther(Q) <=> (n + 1 - f) % 2 = 1
    <3>1. f \in 1..n
      OBVIOUS
    <3> QED BY <1>9, <2>1, <2>2, <3>1
  <2>5. (n + 1 - f) % 2 = 1 <=> (n - f) % 2 # 1
    OBVIOUS
  <2>6. \E p \in 1..n : p \notin Q /\ (p + 1)..(n + 1) \subseteq Q
    <3>1. f \in 1..n
      OBVIOUS
    <3> QED BY <1>8, <2>1, <3>1
  <2>7. HaveFirst(Q)
    BY <1>2, <1>6, <2>6 DEF HaveFirst
  <2> HIDE DEF Q
  <2>8. EveryOther(Q) = EveryOther(P) \union (IF n \in EveryOther(P) THEN {} ELSE {n + 1})
    BY <1>3, <1>4, <1>5, <1>6, <2>3, <2>4, <2>5
  <2> QED BY <2>7, <2>8 DEF Q
<1> QED BY <1>10, <1>11

\* The brackets of a text that is one character longer
LEMMA BracketsGrow ==
  ASSUME NEW S, NEW t \in Seq(S), NEW c \in S, HaveFirst(Pairs(t))
  PROVE  /\ HaveFirst(Pairs(Append(t, c))) /\ Brackets(t) \subseteq 2..Len(t)
         /\ Brackets(Append(t, c)) = Brackets(t) \union
              (IF Len(t) > 0 /\ Pair(t[Len(t)], c) /\ Len(t) \notin Brackets(t)
               THEN {Len(t) + 1} ELSE {})
<1> DEFINE n == Len(t)
<1>1. n \in Nat /\ Pairs(t) \in SUBSET (2..n)
  BY PairsGrow
<1>2. Brackets(t) \subseteq 2..n
  BY <1>1 DEF Brackets, EveryOther
<1>3. CASE n > 0 /\ Pair(t[n], c)
  <2>1. Pairs(Append(t, c)) = Pairs(t) \union {n + 1} /\ n \in Nat \ {0}
    BY <1>1, <1>3, PairsGrow
  <2> HIDE DEF n
  <2>2. /\ HaveFirst(Pairs(t) \union {n + 1})
        /\ EveryOther(Pairs(t) \union {n + 1}) = EveryOther(Pairs(t)) \union
             (IF n \in EveryOther(Pairs(t)) THEN {} ELSE {n + 1})
    BY <1>1, <2>1, EveryOtherGrows
  <2> QED BY <1>2, <1>3, <2>1, <2>2 DEF Brackets, n
<1>4. CASE ~(n > 0 /\ Pair(t[n], c))
  <2>1. Pairs(Append(t, c)) = Pairs(t)
    BY <1>4, PairsGrow
  <2> QED BY <1>2, <1>4, <2>1 DEF Brackets
<1> QED BY <1>3, <1>4

\* Counting with and without a new last place
LEMMA Counted ==
  ASSUME NEW n \in Nat, NEW A \in SUBSET (1..n), NEW p \in 1..(n + 1)
  PROVE  /\ \A q \in Nat : Count(A, p, q) \in Nat
         /\ \A q \in Nat : q <= n => Count(A \union {n + 1}, p, q) = Count(A, p, q)
         /\ Count(A, p, n + 1) = Count(A, p, n)
         /\ Count(A \union {n + 1}, p, n + 1) = Count(A, p, n) + 1
         /\ p = n + 1 => Count(A, p, n) = 0
<1>1. ASSUME NEW q \in Nat PROVE IsFiniteSet(A \cap p..q) /\ Count(A, p, q) \in Nat
  <2>1. IsFiniteSet(p..q)
    BY FS_Interval
  <2>2. IsFiniteSet(A \cap p..q)
    BY <2>1, FS_Subset
  <2> QED BY <2>2, FS_CardinalityType DEF Count
<1>2. ASSUME NEW q \in Nat, q <= n
      PROVE  Count(A \union {n + 1}, p, q) = Count(A, p, q)
  <2>1. (A \union {n + 1}) \cap p..q = A \cap p..q
    BY <1>2
  <2> QED BY <2>1 DEF Count
<1>3. Count(A, p, n + 1) = Count(A, p, n)
  <2>1. A \cap p..(n + 1) = A \cap p..n
    OBVIOUS
  <2> QED BY <2>1 DEF Count
<1>4. Count(A \union {n + 1}, p, n + 1) = Count(A, p, n) + 1
  <2>1. (A \union {n + 1}) \cap p..(n + 1) = (A \cap p..n) \union {n + 1}
    OBVIOUS
  <2>2. n + 1 \notin A \cap p..n
    OBVIOUS
  <2>3. IsFiniteSet(A \cap p..n)
    BY <1>1
  <2> QED BY <2>1, <2>2, <2>3, FS_AddElement DEF Count
<1>5. ASSUME p = n + 1 PROVE Count(A, p, n) = 0
  <2>1. A \cap p..n = {}
    BY <1>5
  <2> QED BY <2>1, FS_EmptySet DEF Count
<1> QED BY <1>1, <1>2, <1>3, <1>4, <1>5

\* What is left open when a text is longer by no bracket, an opening one or a
\* closing one
BalanceAfter(O, C, n) ==
  /\ NeverBalanced(O, C, n) \subseteq O
  /\ NeverBalanced(O, C, n + 1) = NeverBalanced(O, C, n)
  /\ NeverBalanced(O \union {n + 1}, C, n + 1) = NeverBalanced(O, C, n) \union {n + 1}
  /\ NeverBalanced(O, C \union {n + 1}, n + 1)
       = {p \in NeverBalanced(O, C, n) : Count(O, p, n) > Count(C, p, n) + 1}

\* A place after n is in neither set, in Open, or in Close.
LEMMA BalanceGrows ==
  ASSUME NEW n \in Nat, NEW O \in SUBSET (1..n), NEW C \in SUBSET (1..n)
  PROVE  BalanceAfter(O, C, n)
<1>1. \A A, B \in SUBSET Int : \A m \in Nat : NeverBalanced(A, B, m)
        = {p \in A : \A q \in p..m : Count(A, p, q) > Count(B, p, q)}
  BY DEF NeverBalanced, Count
<1>2. /\ O \in SUBSET Int /\ C \in SUBSET Int
      /\ O \union {n + 1} \in SUBSET Int /\ C \union {n + 1} \in SUBSET Int
  OBVIOUS
<1>3. ASSUME NEW p \in O
      PROVE  /\ p \in 1..(n + 1) /\ n \in p..n
             /\ \A q : q \in p..(n + 1) <=> q \in p..n \/ q = n + 1
             /\ \A q \in p..n : q \in Nat /\ q <= n
  BY <1>3
<1>4. ASSUME NEW p \in NeverBalanced(O, C, n)
      PROVE  p \in O /\ Count(O, p, n) > Count(C, p, n)
  <2>1. p \in O /\ \A q \in p..n : Count(O, p, q) > Count(C, p, q)
    BY DEF NeverBalanced, Count
  <2> QED BY <1>3, <2>1
<1>5. ASSUME NEW p \in O
      PROVE  /\ p \in NeverBalanced(O, C, n + 1) <=> p \in NeverBalanced(O, C, n)
             /\ p \in NeverBalanced(O \union {n + 1}, C, n + 1) <=> p \in NeverBalanced(O, C, n)
             /\ p \in NeverBalanced(O, C \union {n + 1}, n + 1) <=>
                  p \in NeverBalanced(O, C, n) /\ Count(O, p, n) > Count(C, p, n) + 1
  <2>1. /\ \A q \in p..n : Count(O \union {n + 1}, p, q) = Count(O, p, q)
        /\ \A q \in p..n : Count(C \union {n + 1}, p, q) = Count(C, p, q)
        /\ Count(O, p, n + 1) = Count(O, p, n) /\ Count(C, p, n + 1) = Count(C, p, n)
        /\ Count(O \union {n + 1}, p, n + 1) = Count(O, p, n) + 1
        /\ Count(C \union {n + 1}, p, n + 1) = Count(C, p, n) + 1
        /\ Count(O, p, n) \in Nat /\ Count(C, p, n) \in Nat
    BY <1>3, <1>5, Counted
  <2>2. p \in NeverBalanced(O, C, n) <=> \A q \in p..n : Count(O, p, q) > Count(C, p, q)
    BY <1>1, <1>2, <1>5
  <2>3. p \in NeverBalanced(O, C, n) => Count(O, p, n) > Count(C, p, n)
    BY <1>4
  <2>4. p \in NeverBalanced(O, C, n + 1) <=>
          \A q \in p..(n + 1) : Count(O, p, q) > Count(C, p, q)
    BY <1>1, <1>2, <1>5
  <2>5. p \in NeverBalanced(O \union {n + 1}, C, n + 1) <=>
          \A q \in p..(n + 1) : Count(O \union {n + 1}, p, q) > Count(C, p, q)
    BY <1>1, <1>2, <1>5
  <2>6. p \in NeverBalanced(O, C \union {n + 1}, n + 1) <=>
          \A q \in p..(n + 1) : Count(O, p, q) > Count(C \union {n + 1}, p, q)
    BY <1>1, <1>2, <1>5
  <2>7. p \in NeverBalanced(O, C, n + 1) <=> p \in NeverBalanced(O, C, n)
    BY <1>3, <1>5, <2>1, <2>2, <2>3, <2>4
  <2>8. p \in NeverBalanced(O \union {n + 1}, C, n + 1) <=> p \in NeverBalanced(O, C, n)
    BY <1>3, <1>5, <2>1, <2>2, <2>3, <2>5
  <2>9. p \in NeverBalanced(O, C \union {n + 1}, n + 1) <=>
          p \in NeverBalanced(O, C, n) /\ Count(O, p, n) > Count(C, p, n) + 1
    BY <1>3, <1>5, <2>1, <2>2, <2>3, <2>6
  <2> QED BY <2>7, <2>8, <2>9
<1>6. n + 1 \in NeverBalanced(O \union {n + 1}, C, n + 1)
  <2>1. /\ n + 1 \in 1..(n + 1) /\ (n + 1)..(n + 1) = {n + 1}
    OBVIOUS
  <2>2. Count(O \union {n + 1}, n + 1, n + 1) = 1 /\ Count(C, n + 1, n + 1) = 0
    <3>1. /\ Count(O \union {n + 1}, n + 1, n + 1) = Count(O, n + 1, n) + 1
          /\ Count(O, n + 1, n) = 0
      BY <2>1, Counted
    <3>2. Count(C, n + 1, n + 1) = Count(C, n + 1, n) /\ Count(C, n + 1, n) = 0
      BY <2>1, Counted
    <3> QED BY <3>1, <3>2
  <2>3. n + 1 \in NeverBalanced(O \union {n + 1}, C, n + 1) <=>
          \A q \in (n + 1)..(n + 1) : Count(O \union {n + 1}, n + 1, q) > Count(C, n + 1, q)
    BY <1>1, <1>2
  <2> QED BY <2>1, <2>2, <2>3
<1>7. /\ \A p : p \in NeverBalanced(O, C, n + 1) => p \in O
      /\ \A p : p \in NeverBalanced(O, C \union {n + 1}, n + 1) => p \in O
      /\ \A p : p \in NeverBalanced(O \union {n + 1}, C, n + 1) => p \in O \/ p = n + 1
  BY DEF NeverBalanced
<1>8. NeverBalanced(O, C, n + 1) = NeverBalanced(O, C, n)
  BY <1>4, <1>5, <1>7
<1>9. NeverBalanced(O \union {n + 1}, C, n + 1) = NeverBalanced(O, C, n) \union {n + 1}
  BY <1>4, <1>5, <1>6, <1>7
<1>10. NeverBalanced(O, C \union {n + 1}, n + 1)
         = {p \in NeverBalanced(O, C, n) : Count(O, p, n) > Count(C, p, n) + 1}
  BY <1>4, <1>5, <1>7
<1> QED BY <1>4, <1>8, <1>9, <1>10 DEF BalanceAfter

\* The line of a place in a text that is one character longer
LEMMA LinesGrow ==
  ASSUME NEW S, NEW t \in Seq(S), NEW c \in S
  PROVE  /\ \A p \in 0..Len(t) : LineAt(t, p) \in Nat /\ LineAt(Append(t, c), p) = LineAt(t, p)
         /\ LineAt(Append(t, c), Len(t) + 1)
              = LineAt(t, Len(t)) + IF c = "\n" THEN 1 ELSE 0
<1> DEFINE n == Len(t)
           u == Append(t, c)
           Ends(s, p) == {q \in 1..p : s[q] = "\n"}
<1>1. n \in Nat /\ u[n + 1] = c /\ \A i \in 1..n : u[i] = t[i]
  OBVIOUS
<1>2. ASSUME NEW p \in 0..n
      PROVE  /\ IsFiniteSet(Ends(t, p)) /\ Cardinality(Ends(t, p)) \in Nat
             /\ Ends(u, p) = Ends(t, p)
  <2>1. p \in Nat /\ IsFiniteSet(1..p)
    BY <1>1, FS_Interval
  <2>2. IsFiniteSet(Ends(t, p))
    BY <2>1, FS_Subset
  <2>3. \A q \in 1..p : q \in 1..n
    BY <1>1
  <2>4. Ends(u, p) = Ends(t, p)
    BY <1>1, <2>3
  <2> QED BY <2>2, <2>4, FS_CardinalityType
<1>3. Ends(u, n + 1) = IF c = "\n" THEN Ends(t, n) \union {n + 1} ELSE Ends(t, n)
  <2>1. \A q : q \in 1..(n + 1) <=> q \in 1..n \/ q = n + 1
    BY <1>1
  <2> HIDE DEF u, n
  <2> QED BY <1>1, <2>1
<1>4. n + 1 \notin Ends(t, n) /\ n \in 0..n
  BY <1>1
<1> HIDE DEF Ends
<1>5. Cardinality(Ends(u, n + 1)) = Cardinality(Ends(t, n)) + IF c = "\n" THEN 1 ELSE 0
  <2>1. IsFiniteSet(Ends(t, n)) /\ Cardinality(Ends(t, n)) \in Nat
    BY <1>2, <1>4
  <2>2. Cardinality(Ends(t, n) \union {n + 1}) = Cardinality(Ends(t, n)) + 1
    BY <1>4, <2>1, FS_AddElement
  <2>3. CASE c = "\n"
    BY <1>3, <2>2, <2>3
  <2>4. CASE c # "\n"
    BY <1>3, <2>1, <2>4
  <2> QED BY <2>3, <2>4
<1>6. \A s, p : LineAt(s, p) = 1 + Cardinality(Ends(s, p))
  BY DEF LineAt, Ends
<1> HIDE DEF u, n
<1>7. LineAt(u, n + 1) = LineAt(t, n) + IF c = "\n" THEN 1 ELSE 0
  BY <1>2, <1>4, <1>5, <1>6
<1>8. \A p \in 0..n : LineAt(t, p) \in Nat /\ LineAt(u, p) = LineAt(t, p)
  BY <1>2, <1>6
<1> QED BY <1>7, <1>8 DEF u, n

\* A set of places that is not empty has a last one.
LEMMA LastPlace ==
  ASSUME NEW n \in Nat, NEW U \in SUBSET (1..n), U # {}
  PROVE  \E m \in U : \A p \in U : p <= m
<1> DEFINE Behind == {n - p : p \in U}
<1>1. Behind \subseteq Nat /\ Behind # {}
  <2>1. \A p \in U : p \in 1..n /\ n - p \in Nat
    OBVIOUS
  <2> QED BY <2>1
<1>2. PICK least \in Behind : \A k \in Behind : ~(<<k, least>> \in OpToRel(<, Nat))
  BY <1>1, NatLessThanWellFounded, WFMin
<1>3. ASSUME NEW k \in Behind PROVE least <= k
  <2>1. least \in Nat /\ k \in Nat /\ <<k, least>> \in Nat \X Nat
    BY <1>1, <1>3
  <2>2. ~(k < least)
    BY <1>2, <2>1 DEF OpToRel
  <2> QED BY <2>1, <2>2
<1>4. PICK m \in U : least = n - m
  OBVIOUS
<1>5. ASSUME NEW p \in U PROVE p <= m
  <2>1. least <= n - p /\ p \in 1..n /\ m \in 1..n
    BY <1>3
  <2> QED BY <1>4, <2>1
<1> QED BY <1>5

\* Counting without the last of some places
LEMMA CountedWithoutLast ==
  ASSUME NEW n \in Nat, NEW U \in SUBSET (1..n), NEW m \in U, \A p \in U : p <= m,
         NEW p \in U
  PROVE  /\ Count(U, m, n) = 1
         /\ Count(U, 1, m) = Count(U, 1, n)
         /\ p # m => /\ Count(U \ {m}, p, n) = Count(U, p, n) - 1
                     /\ Count(U, p, n) > 1
                     /\ Count(U \ {m}, 1, p) = Count(U, 1, p)
                     /\ Count(U, 1, p) < Count(U, 1, n)
<1>1. U \cap m..n = {m} /\ U \cap 1..m = U \cap 1..n
  OBVIOUS
<1>2. Count(U, m, n) = 1 /\ Count(U, 1, m) = Count(U, 1, n)
  BY <1>1, FS_Singleton DEF Count
<1>3. ASSUME p # m
      PROVE  /\ Count(U \ {m}, p, n) = Count(U, p, n) - 1
             /\ Count(U, p, n) > 1
             /\ Count(U \ {m}, 1, p) = Count(U, 1, p)
             /\ Count(U, 1, p) < Count(U, 1, n)
  <2>1. p < m /\ p \in 1..n /\ m \in 1..n
    BY <1>3
  <2>2. /\ (U \ {m}) \cap p..n = (U \cap p..n) \ {m} /\ m \in U \cap p..n
        /\ p \in (U \ {m}) \cap p..n
        /\ (U \ {m}) \cap 1..p = U \cap 1..p
        /\ U \cap 1..p \subseteq (U \cap 1..n) \ {m} /\ m \in U \cap 1..n
    BY <2>1
  <2>3. /\ IsFiniteSet(U \cap p..n) /\ IsFiniteSet(U \cap 1..n)
        /\ Count(U, p, n) \in Nat /\ Count(U, 1, n) \in Nat
    <3>1. IsFiniteSet(p..n) /\ IsFiniteSet(1..n)
      BY FS_Interval
    <3>2. IsFiniteSet(U \cap p..n) /\ IsFiniteSet(U \cap 1..n)
      BY <3>1, FS_Subset
    <3> QED BY <3>2, FS_CardinalityType DEF Count
  <2>4. /\ IsFiniteSet((U \ {m}) \cap p..n) /\ Count(U \ {m}, p, n) = Count(U, p, n) - 1
        /\ Count(U \ {m}, p, n) \in Nat
    <3>1. /\ IsFiniteSet((U \cap p..n) \ {m})
          /\ Cardinality((U \cap p..n) \ {m}) = Cardinality(U \cap p..n) - 1
      BY <2>2, <2>3, FS_RemoveElement
    <3>2. Cardinality((U \cap p..n) \ {m}) \in Nat
      BY <3>1, FS_CardinalityType
    <3> QED BY <2>2, <3>1, <3>2 DEF Count
  <2>5. Count(U \ {m}, p, n) # 0
    BY <2>2, <2>4, FS_EmptySet DEF Count
  <2>6. Count(U, 1, p) < Count(U, 1, n)
    <3>1. /\ IsFiniteSet((U \cap 1..n) \ {m})
          /\ Cardinality((U \cap 1..n) \ {m}) = Count(U, 1, n) - 1
      BY <2>2, <2>3, FS_RemoveElement DEF Count
    <3>2. /\ IsFiniteSet(U \cap 1..p)
          /\ Count(U, 1, p) <= Cardinality((U \cap 1..n) \ {m})
      BY <2>2, <3>1, FS_Subset DEF Count
    <3>3. Count(U, 1, p) \in Nat
      BY <3>2, FS_CardinalityType DEF Count
    <3> QED BY <2>3, <3>1, <3>2, <3>3
  <2>7. Count(U \ {m}, 1, p) = Count(U, 1, p)
    BY <2>2 DEF Count
  <2> QED BY <2>3, <2>4, <2>5, <2>6, <2>7
<1> QED BY <1>2, <1>3

\* What is left of the open brackets U when another one is closed
NotClosed(U, O, C, n) == {p \in U : Count(O, p, n) > Count(C, p, n) + 1}

\* What a longer text leaves open
Grown(t, u, n, c) ==
  /\ n \in Nat /\ Len(u) = n + 1
  /\ Opening(t) \in SUBSET (1..n) /\ Closing(t) \in SUBSET (1..n)
  /\ Unclosed(t) \in SUBSET (1..n)
  /\ n + 1 \notin Brackets(u) =>
       Opening(u) = Opening(t) /\ Closing(u) = Closing(t) /\ Unclosed(u) = Unclosed(t)
  /\ n + 1 \in Brackets(u) /\ c = "*" =>
       /\ Opening(u) = Opening(t) \union {n + 1} /\ Closing(u) = Closing(t)
       /\ Unclosed(u) = Unclosed(t) \union {n + 1}
  /\ n + 1 \in Brackets(u) /\ c = "/" =>
       /\ Opening(u) = Opening(t) /\ Closing(u) = Closing(t) \union {n + 1}
       /\ Unclosed(u) = NotClosed(Unclosed(t), Opening(t), Closing(t), n)

\* A text grows by a character that completes a bracket, or does not.
LEMMA UnclosedGrows ==
  ASSUME NEW S, NEW t \in Seq(S), NEW c \in S, HaveFirst(Pairs(t)),
         NEW u, u = Append(t, c), NEW n, n = Len(t)
  PROVE  Grown(t, u, n, c)
<1> DEFINE O == Opening(t)
           C == Closing(t)
           B == Brackets(t)
<1>1. /\ n \in Nat /\ Len(u) = n + 1 /\ u[n + 1] = c /\ \A i \in 1..n : u[i] = t[i]
  OBVIOUS
<1>2. /\ B \subseteq 2..n
      /\ Brackets(u) = B \/ Brackets(u) = B \union {n + 1}
  <2>1. /\ B \subseteq 2..Len(t)
        /\ Brackets(Append(t, c)) = B \union
             (IF Len(t) > 0 /\ Pair(t[Len(t)], c) /\ Len(t) \notin B THEN {Len(t) + 1} ELSE {})
    BY Zenon, BracketsGrow
  <2>2. B \union {} = B
    OBVIOUS
  <2> QED BY <2>1, <2>2
<1>3. \A q \in B : q \in 1..n /\ q # n + 1 /\ u[q] = t[q]
  BY <1>1, <1>2
<1>4. O = {q \in B : t[q] = "*"} /\ C = {q \in B : t[q] = "/"}
  BY DEF Opening, Closing
<1>5. Opening(u) = {q \in Brackets(u) : u[q] = "*"} /\ Closing(u) = {q \in Brackets(u) : u[q] = "/"}
  BY DEF Opening, Closing
<1>6. Unclosed(t) = NeverBalanced(O, C, n) /\ Unclosed(u) = NeverBalanced(Opening(u), Closing(u), n + 1)
  BY <1>1 DEF Unclosed, Opening, Closing
<1> HIDE DEF O, C, B
<1>7. O \in SUBSET (1..n) /\ C \in SUBSET (1..n)
  BY <1>3, <1>4
<1>a. /\ NeverBalanced(O, C, n) \subseteq O
      /\ NeverBalanced(O, C, n + 1) = NeverBalanced(O, C, n)
      /\ NeverBalanced(O \union {n + 1}, C, n + 1) = NeverBalanced(O, C, n) \union {n + 1}
      /\ NeverBalanced(O, C \union {n + 1}, n + 1)
           = {p \in NeverBalanced(O, C, n) : Count(O, p, n) > Count(C, p, n) + 1}
  <2>1. BalanceAfter(O, C, n)
    BY <1>1, <1>7, BalanceGrows
  <2> QED BY <2>1 DEF BalanceAfter
<1>8. Unclosed(t) \in SUBSET (1..n)
  BY <1>6, <1>7, <1>a
<1>9. CASE n + 1 \notin Brackets(u)
  <2>1. Brackets(u) = B
    BY <1>2, <1>9
  <2>2. Opening(u) = O /\ Closing(u) = C
    BY <1>3, <1>4, <1>5, <2>1
  <2>3. Unclosed(u) = Unclosed(t)
    BY <1>6, <1>a, <2>2
  <2> QED BY <1>1, <1>7, <1>8, <1>9, <2>2, <2>3 DEF O, C, Grown
<1>10. CASE n + 1 \in Brackets(u) /\ c = "*"
  <2>1. Brackets(u) = B \union {n + 1}
    BY <1>2, <1>3, <1>10
  <2>2. Opening(u) = O \union {n + 1} /\ Closing(u) = C
    BY <1>1, <1>3, <1>4, <1>5, <1>10, <2>1
  <2>3. Unclosed(u) = Unclosed(t) \union {n + 1}
    BY <1>6, <1>a, <2>2
  <2> QED BY <1>1, <1>7, <1>8, <1>10, <2>2, <2>3 DEF O, C, Grown
<1>11. CASE n + 1 \in Brackets(u) /\ c = "/"
  <2>1. Brackets(u) = B \union {n + 1}
    BY <1>2, <1>3, <1>11
  <2>2. Opening(u) = O /\ Closing(u) = C \union {n + 1}
    BY <1>1, <1>3, <1>4, <1>5, <1>11, <2>1
  <2>3. Unclosed(u) = {p \in Unclosed(t) : Count(O, p, n) > Count(C, p, n) + 1}
    BY <1>6, <1>a, <2>2
  <2> QED BY <1>1, <1>7, <1>8, <1>11, <2>2, <2>3 DEF O, C, Grown, NotClosed
<1>12. CASE n + 1 \in Brackets(u) /\ c \notin {"*", "/"}
  BY <1>1, <1>7, <1>8, <1>12 DEF O, C, Grown
<1> QED BY <1>9, <1>10, <1>11, <1>12

\* Every place of U has as many of U from it on as there are more of O than of
\* C.
Balanced(U, O, C, n) == \A p \in U : Count(U, p, n) = Count(O, p, n) - Count(C, p, n)

\* One more place, of no bracket
LEMMA BalancedOn ==
  ASSUME NEW n \in Nat, NEW U \in SUBSET (1..n), NEW O \in SUBSET (1..n),
         NEW C \in SUBSET (1..n), Balanced(U, O, C, n)
  PROVE  Balanced(U, O, C, n + 1) /\ Count(U, 1, n + 1) = Count(U, 1, n)
<1>1. ASSUME NEW p \in 1..(n + 1)
      PROVE  /\ Count(U, p, n + 1) = Count(U, p, n) /\ Count(O, p, n + 1) = Count(O, p, n)
             /\ Count(C, p, n + 1) = Count(C, p, n)
  BY <1>1, Counted
<1>2. \A p \in U : p \in 1..(n + 1)
  OBVIOUS
<1>3. Balanced(U, O, C, n + 1)
  BY <1>1, <1>2 DEF Balanced
<1>4. 1 \in 1..(n + 1)
  OBVIOUS
<1> QED BY <1>1, <1>3, <1>4

\* A place of U is one of its first.
LEMMA CountedFirst ==
  ASSUME NEW n \in Nat, NEW U \in SUBSET (1..n)
  PROVE  /\ IsFiniteSet(U) /\ Count(U, 1, n) = Cardinality(U) /\ Count(U, 1, n) \in Nat
         /\ \A p \in U : Count(U, 1, p) \in 1..Count(U, 1, n)
<1>1. IsFiniteSet(1..n)
  BY FS_Interval
<1>2. IsFiniteSet(U)
  BY <1>1, FS_Subset
<1>3. Count(U, 1, n) = Cardinality(U) /\ Count(U, 1, n) \in Nat
  <2>1. U \cap 1..n = U
    OBVIOUS
  <2> QED BY <1>2, <2>1, FS_CardinalityType DEF Count
<1>4. ASSUME NEW p \in U PROVE Count(U, 1, p) \in 1..Count(U, 1, n)
  <2>1. p \in 1..n
    OBVIOUS
  <2>2. p \in U \cap 1..p /\ U \cap 1..p \subseteq U
    BY <2>1
  <2>3. IsFiniteSet(U \cap 1..p) /\ Cardinality(U \cap 1..p) <= Cardinality(U)
    BY <1>2, <2>2, FS_Subset
  <2>4. Cardinality(U \cap 1..p) \in Nat /\ Cardinality(U \cap 1..p) # 0
    BY <2>2, <2>3, FS_EmptySet, FS_CardinalityType
  <2>5. Count(U, 1, p) = Cardinality(U \cap 1..p)
    BY DEF Count
  <2> QED BY <1>3, <2>3, <2>4, <2>5
<1> QED BY <1>2, <1>3, <1>4

\* One more place, of an opening bracket
OpenedOne(U, n, k) ==
  /\ Count(U \union {k}, 1, k) = Count(U, 1, n) + 1
  /\ \A p \in U : Count(U \union {k}, 1, p) = Count(U, 1, p)

\* The place opened is the last of those open.
LEMMA BalancedOpened ==
  ASSUME NEW n \in Nat, NEW U \in SUBSET (1..n), NEW O \in SUBSET (1..n),
         NEW C \in SUBSET (1..n), Balanced(U, O, C, n), NEW k, k = n + 1
  PROVE  Balanced(U \union {k}, O \union {k}, C, k) /\ OpenedOne(U, n, k)
<1>1. ASSUME NEW A \in SUBSET (1..n), NEW p \in 1..(n + 1)
      PROVE  /\ Count(A, p, n) \in Nat
             /\ \A q \in Nat : q <= n => Count(A \union {k}, p, q) = Count(A, p, q)
             /\ Count(A, p, k) = Count(A, p, n) /\ Count(A \union {k}, p, k) = Count(A, p, n) + 1
             /\ p = k => Count(A, p, n) = 0
  BY <1>1, Counted
<1>2. \A p \in U : p \in 1..(n + 1) /\ p \in Nat /\ p <= n
  OBVIOUS
<1>3. ASSUME NEW p \in U
      PROVE  Count(U \union {k}, p, k) = Count(O \union {k}, p, k) - Count(C, p, k)
  <2>1. /\ Count(U, p, n) = Count(O, p, n) - Count(C, p, n)
        /\ Count(O, p, n) \in Nat /\ Count(C, p, n) \in Nat
    BY <1>1, <1>2 DEF Balanced
  <2>2. /\ Count(U \union {k}, p, k) = Count(U, p, n) + 1
        /\ Count(O \union {k}, p, k) = Count(O, p, n) + 1
        /\ Count(C, p, k) = Count(C, p, n)
    BY <1>1, <1>2
  <2> QED BY <2>1, <2>2
<1>4. Count(U \union {k}, k, k) = Count(O \union {k}, k, k) - Count(C, k, k)
  <2>1. k \in 1..(n + 1)
    OBVIOUS
  <2>2. /\ Count(U \union {k}, k, k) = Count(U, k, n) + 1 /\ Count(U, k, n) = 0
        /\ Count(O \union {k}, k, k) = Count(O, k, n) + 1 /\ Count(O, k, n) = 0
        /\ Count(C, k, k) = Count(C, k, n) /\ Count(C, k, n) = 0
    BY <1>1, <2>1
  <2> QED BY <2>2
<1>5. 1 \in 1..(n + 1)
  OBVIOUS
<1>6. Count(U \union {k}, 1, k) = Count(U, 1, n) + 1
  BY <1>1, <1>5
<1>7. \A p \in U : Count(U \union {k}, 1, p) = Count(U, 1, p)
  BY <1>1, <1>2, <1>5
<1>8. Balanced(U \union {k}, O \union {k}, C, k)
  BY <1>3, <1>4 DEF Balanced
<1> QED BY <1>6, <1>7, <1>8 DEF OpenedOne

\* One more place, of a closing bracket, which closes the last of U
ClosedLast(U, V, n, k) ==
  /\ Count(V, 1, k) = IF U = {} THEN 0 ELSE Count(U, 1, n) - 1
  /\ \A p \in V : /\ Count(V, 1, p) = Count(U, 1, p)
                  /\ Count(U, 1, p) \in 1..(Count(U, 1, n) - 1)

\* What is closed is the last place of those open.
LEMMA BalancedClosed ==
  ASSUME NEW n \in Nat, NEW U \in SUBSET (1..n), NEW O \in SUBSET (1..n),
         NEW C \in SUBSET (1..n), Balanced(U, O, C, n), NEW k, k = n + 1,
         NEW V, V = NotClosed(U, O, C, n)
  PROVE  Balanced(V, O, C \union {k}, k) /\ ClosedLast(U, V, n, k)
<1>1. ASSUME NEW A \in SUBSET (1..n), NEW p \in 1..(n + 1)
      PROVE  /\ Count(A, p, n) \in Nat
             /\ Count(A, p, k) = Count(A, p, n) /\ Count(A \union {k}, p, k) = Count(A, p, n) + 1
  BY <1>1, Counted
<1>2. (\A p \in U : p \in 1..(n + 1)) /\ V \in SUBSET (1..n) /\ V \subseteq U
  <2>1. V \subseteq U
    BY DEF NotClosed
  <2>2. \A p \in U : p \in 1..n /\ p \in 1..(n + 1)
    OBVIOUS
  <2> QED BY <2>1, <2>2
<1>3. CASE U = {}
  <2>1. V = {} /\ V \cap 1..k = {}
    BY <1>2, <1>3
  <2> QED BY <1>3, <2>1, FS_EmptySet DEF Balanced, Count, ClosedLast
<1>4. CASE U # {}
  <2>1. PICK m \in U : \A p \in U : p <= m
    BY <1>4, LastPlace
  <2>2. ASSUME NEW p \in U
        PROVE  /\ Count(U, m, n) = 1
               /\ p # m => /\ Count(U \ {m}, p, n) = Count(U, p, n) - 1
                           /\ Count(U, p, n) > 1
                           /\ Count(U \ {m}, 1, p) = Count(U, 1, p)
                           /\ Count(U, 1, p) < Count(U, 1, n)
    BY <2>1, <2>2, CountedWithoutLast
  <2>3. V = U \ {m}
    <3>1. ASSUME NEW p \in U
          PROVE  Count(O, p, n) > Count(C, p, n) + 1 <=> Count(U, p, n) > 1
      <4>1. Count(O, p, n) \in Nat /\ Count(C, p, n) \in Nat
        BY <1>1, <1>2
      <4>2. Count(U, p, n) = Count(O, p, n) - Count(C, p, n)
        BY DEF Balanced
      <4> QED BY <4>1, <4>2
    <3>2. \A p \in U : Count(U, p, n) > 1 <=> p # m
      BY <2>2
    <3> QED BY <3>1, <3>2 DEF NotClosed
  <2>4. ASSUME NEW p \in V
        PROVE  Count(V, p, k) = Count(O, p, k) - Count(C \union {k}, p, k)
    <3>1. p \in U /\ p # m /\ p \in 1..(n + 1)
      BY <1>2, <2>3
    <3>2. /\ Count(U, p, n) = Count(O, p, n) - Count(C, p, n)
          /\ Count(O, p, n) \in Nat /\ Count(C, p, n) \in Nat
      BY <1>1, <3>1 DEF Balanced
    <3>3. Count(V, p, n) = Count(U, p, n) - 1
      BY <2>2, <2>3, <3>1
    <3>4. /\ Count(V, p, k) = Count(V, p, n) /\ Count(O, p, k) = Count(O, p, n)
          /\ Count(C \union {k}, p, k) = Count(C, p, n) + 1
      BY <1>1, <1>2, <3>1
    <3> QED BY <3>2, <3>3, <3>4
  <2>5. Count(V, 1, k) = Count(U, 1, n) - 1
    <3>1. Count(V, 1, k) = Cardinality(V)
      <4>1. V \cap 1..k = V
        BY <1>2
      <4> QED BY <4>1 DEF Count
    <3>2. Cardinality(V) = Cardinality(U) - 1
      BY <2>1, <2>3, CountedFirst, FS_RemoveElement
    <3> QED BY <3>1, <3>2, CountedFirst
  <2>6. ASSUME NEW p \in V
        PROVE  Count(V, 1, p) = Count(U, 1, p) /\ Count(U, 1, p) \in 1..(Count(U, 1, n) - 1)
    <3>1. p \in U /\ p # m
      BY <2>3
    <3>2. Count(V, 1, p) = Count(U, 1, p) /\ Count(U, 1, p) < Count(U, 1, n)
      BY <2>2, <2>3, <3>1
    <3>3. Count(U, 1, p) \in 1..Count(U, 1, n) /\ Count(U, 1, n) \in Nat
      BY <3>1, CountedFirst
    <3> QED BY <3>2, <3>3
  <2> QED BY <1>4, <2>4, <2>5, <2>6 DEF Balanced, ClosedLast
<1> QED BY <1>3, <1>4

\* The stack s holds the lines of what t leaves open.
Placed(t, s) ==
  /\ s \in Seq(Nat) /\ Len(s) = Count(Unclosed(t), 1, Len(t))
  /\ Balanced(Unclosed(t), Opening(t), Closing(t), Len(t))
  /\ \A p \in Unclosed(t) : s[Count(Unclosed(t), 1, p)] = LineAt(t, p)

\* A character that completes no bracket
LEMMA PlacedOn ==
  ASSUME NEW S, NEW t \in Seq(S), NEW c \in S, HaveFirst(Pairs(t)), NEW s, Placed(t, s),
         NEW u, u = Append(t, c), NEW n, n = Len(t), n + 1 \notin Brackets(u)
  PROVE  Placed(u, s)
<1>1. /\ n \in Nat /\ Len(u) = n + 1
      /\ Opening(t) \in SUBSET (1..n) /\ Closing(t) \in SUBSET (1..n)
      /\ Unclosed(t) \in SUBSET (1..n)
      /\ Opening(u) = Opening(t) /\ Closing(u) = Closing(t) /\ Unclosed(u) = Unclosed(t)
  <2>1. Grown(t, u, n, c)
    BY UnclosedGrows
  <2> QED BY <2>1 DEF Grown
<1>2. \A p \in Unclosed(t) : LineAt(u, p) = LineAt(t, p)
  <2>1. \A p \in Unclosed(t) : p \in 0..Len(t)
    BY <1>1
  <2> QED BY <2>1, LinesGrow
<1>3. /\ Balanced(Unclosed(t), Opening(t), Closing(t), n + 1)
      /\ Count(Unclosed(t), 1, n + 1) = Count(Unclosed(t), 1, n)
  BY <1>1, BalancedOn DEF Placed
<1> QED BY <1>1, <1>2, <1>3 DEF Placed

\* A character that completes an opening bracket, whose line is stacked
LEMMA PlacedOpened ==
  ASSUME NEW S, NEW t \in Seq(S), NEW c \in S, HaveFirst(Pairs(t)), NEW s, Placed(t, s),
         NEW u, u = Append(t, c), NEW n, n = Len(t), n + 1 \in Brackets(u), c = "*",
         NEW l, l = LineAt(t, n)
  PROVE  Placed(u, Append(s, l))
<1>1. PICK U, O, C, k, r : /\ U = Unclosed(t) /\ O = Opening(t) /\ C = Closing(t)
                           /\ k = n + 1 /\ r = Append(s, l)
  OBVIOUS
<1>2. /\ n \in Nat /\ Len(u) = k
      /\ O \in SUBSET (1..n) /\ C \in SUBSET (1..n) /\ U \in SUBSET (1..n)
      /\ Opening(u) = O \union {k} /\ Closing(u) = C /\ Unclosed(u) = U \union {k}
  <2>1. Grown(t, u, n, c)
    BY UnclosedGrows
  <2> QED BY <1>1, <2>1 DEF Grown
<1>3. /\ \A p \in U : LineAt(u, p) = LineAt(t, p)
      /\ LineAt(u, k) = l /\ l \in Nat
  <2>1. (\A p \in U : p \in 0..Len(t)) /\ n \in 0..Len(t)
    BY <1>2
  <2>2. c # "\n" /\ LineAt(t, n) + 0 = LineAt(t, n)
    BY <2>1, LinesGrow
  <2> QED BY <1>1, <2>1, <2>2, LinesGrow
<1>4. /\ s \in Seq(Nat) /\ Len(s) = Count(U, 1, n) /\ Balanced(U, O, C, n)
      /\ \A p \in U : s[Count(U, 1, p)] = LineAt(t, p)
  BY <1>1 DEF Placed
<1>5. /\ r \in Seq(Nat) /\ Len(r) = Len(s) + 1 /\ r[Len(s) + 1] = l
      /\ \A i \in 1..Len(s) : r[i] = s[i]
  BY <1>1, <1>3, <1>4
<1>6. /\ Balanced(U \union {k}, O \union {k}, C, k)
      /\ Count(U \union {k}, 1, k) = Len(s) + 1
      /\ \A p \in U : Count(U \union {k}, 1, p) = Count(U, 1, p)
      /\ \A p \in U : Count(U, 1, p) \in 1..Len(s)
  <2>1. Balanced(U \union {k}, O \union {k}, C, k) /\ OpenedOne(U, n, k)
    BY <1>1, <1>2, <1>4, BalancedOpened
  <2>2. \A p \in U : Count(U, 1, p) \in 1..Count(U, 1, n)
    BY <1>2, CountedFirst
  <2> QED BY <1>4, <2>1, <2>2 DEF OpenedOne
<1>7. \A p \in U \union {k} : r[Count(U \union {k}, 1, p)] = LineAt(u, p)
  BY <1>3, <1>4, <1>5, <1>6
<1> QED BY <1>1, <1>2, <1>5, <1>6, <1>7 DEF Placed

\* A character that completes a closing bracket, which takes the last line
LEMMA PlacedClosed ==
  ASSUME NEW S, NEW t \in Seq(S), NEW c \in S, HaveFirst(Pairs(t)), NEW s, Placed(t, s),
         NEW u, u = Append(t, c), NEW n, n = Len(t), n + 1 \in Brackets(u), c = "/"
  PROVE  /\ s = <<>> => Placed(u, s)
         /\ s # <<>> => Placed(u, Front(s))
<1>1. PICK U, O, C, k, V : /\ U = Unclosed(t) /\ O = Opening(t) /\ C = Closing(t)
                           /\ k = n + 1 /\ V = NotClosed(U, O, C, n)
  OBVIOUS
<1>2. /\ n \in Nat /\ Len(u) = k
      /\ O \in SUBSET (1..n) /\ C \in SUBSET (1..n) /\ U \in SUBSET (1..n)
      /\ Opening(u) = O /\ Closing(u) = C \union {k} /\ Unclosed(u) = V
  <2>1. Grown(t, u, n, c)
    BY UnclosedGrows
  <2> QED BY <1>1, <2>1 DEF Grown
<1>a. V \subseteq U
  BY <1>1 DEF NotClosed
<1>3. \A p \in V : LineAt(u, p) = LineAt(t, p)
  <2>1. \A p \in V : p \in 0..Len(t)
    BY <1>2, <1>a
  <2> QED BY <2>1, LinesGrow
<1>4. /\ s \in Seq(Nat) /\ Len(s) = Count(U, 1, n) /\ Balanced(U, O, C, n)
      /\ \A p \in U : s[Count(U, 1, p)] = LineAt(t, p)
  BY <1>1 DEF Placed
<1>5. /\ Balanced(V, O, C \union {k}, k)
      /\ Count(V, 1, k) = IF U = {} THEN 0 ELSE Count(U, 1, n) - 1
      /\ \A p \in V : /\ Count(V, 1, p) = Count(U, 1, p)
                      /\ Count(U, 1, p) \in 1..(Count(U, 1, n) - 1)
  <2>1. Balanced(V, O, C \union {k}, k) /\ ClosedLast(U, V, n, k)
    BY <1>1, <1>2, <1>4, BalancedClosed
  <2> QED BY <2>1 DEF ClosedLast
<1>6. s = <<>> <=> U = {}
  <2>1. IsFiniteSet(U) /\ Len(s) = Cardinality(U)
    BY <1>2, <1>4, CountedFirst
  <2>2. Len(s) = 0 <=> s = <<>>
    BY <1>4, EmptySeq
  <2> QED BY <2>1, <2>2, FS_EmptySet
<1>7. CASE s = <<>>
  <2>1. Len(s) = 0 /\ V = {}
    BY <1>4, <1>6, <1>7, <1>a, EmptySeq
  <2> QED BY <1>2, <1>4, <1>5, <1>6, <1>7, <2>1 DEF Placed
<1>8. CASE s # <<>>
  <2>1. /\ Front(s) \in Seq(Nat) /\ Len(Front(s)) = Len(s) - 1
        /\ \A i \in 1..(Len(s) - 1) : Front(s)[i] = s[i]
    BY <1>4, <1>8 DEF Front
  <2>2. Len(Front(s)) = Count(V, 1, k)
    BY <1>4, <1>5, <1>6, <1>8, <2>1
  <2>3. \A p \in V : Front(s)[Count(V, 1, p)] = LineAt(u, p)
    BY <1>3, <1>4, <1>5, <1>a, <2>1
  <2> QED BY <1>2, <1>5, <1>8, <2>1, <2>2, <2>3 DEF Placed
<1> QED BY <1>7, <1>8

-----------------------------------------------------------------------------
(* Brackets in the text and on the stack. *)

\* The last character of the text t is c and may begin a bracket.
Begun(t, c) == Len(t) > 0 /\ t[Len(t)] = c /\ Len(t) \notin Brackets(t)

\* How the scanner stands to a text that hides no bracket: it waits for the
\* second character of a bracket just when the text has begun one, in its state
\* or with the first character still to be read again, and it has stacked the
\* lines of the brackets that are open.
Following ==
  /\ current_state \notin {4, 16}
  /\ current_state = 15 => Begun(text, "/")
  /\ current_state = 14 => Begun(text, "*")
  /\ look_ahead \notin {NoCharacter, EOF} => Len(text) > 0 /\ text[Len(text)] = look_ahead
  /\ look_ahead \in {"/", "*"} => Begun(text, look_ahead)
  /\ ~eof /\ Begun(text, "/") => current_state = 15 \/ look_ahead = "/"
  /\ ~eof /\ Begun(text, "*") => current_state = 14 \/ look_ahead = "*"
  /\ line_number + (IF look_ahead = "\n" THEN 1 ELSE 0) = LineAt(text, Len(text))
  /\ Placed(text, stack)

\* What the theorem on nesting adds to the invariant
Matched == HaveFirst(Pairs(text)) /\ (Running /\ Plain(text) => Following)

\* What the type of the variables says of the text and of its lines.
LEMMA TextTyped ==
  ASSUME Inv
  PROVE  /\ text \in Seq(input.chars) /\ Len(text) \in Nat
         /\ line_number \in Nat /\ eof \in BOOLEAN
         /\ input.chars \cap {NoCharacter, EOF} = {}
<1>1. /\ input \in Inputs /\ text \in Seq(input.chars) /\ eof \in BOOLEAN
      /\ line_number \in 1..(Len(text) + 2)
  BY Zenon DEF Inv, TypeOK
<1>2. input.chars \cap {NoCharacter, EOF} = {}
  BY Zenon, <1>1, InputsAssumption DEF NoCharacter
<1>3. Len(text) \in Nat
  BY <1>1
<1>4. line_number \in Nat
  BY <1>1, <1>3
<1> QED BY <1>1, <1>2, <1>3, <1>4

\* What a round leaves unless it ends the scan.
LEMMA RoundEffect ==
  ASSUME Inv, Running, Running', current_state \notin {4, 16}, NEW c, gettoken2(c),
         NEW step, step = state_functions(current_state, c)
  PROVE  /\ Sound(step, current_state, c) /\ Marking(step, current_state, c)
         /\ look_ahead' = (IF step.retract THEN c ELSE NoCharacter)
         /\ current_state' = step.state
         /\ line_number' = LineOf(c)
         /\ step.token = "BLOCK_COMMENT_OPEN" => stack' = Append(stack, LineOf(c))
         /\ step.token = "BLOCK_COMMENT_CLOSE" /\ stack = <<>> => stack' = stack
         /\ step.token = "BLOCK_COMMENT_CLOSE" /\ stack # <<>> => stack' = Front(stack)
         /\ step.token \notin Marks => stack' = stack
<1>1. /\ current_state \in States \ {4, 16} /\ comment_block = (stack # <<>>)
      /\ comment_block \in BOOLEAN
  <2>1. current_state \in 0..16 /\ current_state # 5
    BY DEF Inv, TypeOK, Reading
  <2>2. comment_block = (stack # <<>>) /\ comment_block \in BOOLEAN
    BY Zenon DEF Inv, Tokenized
  <2> QED BY <2>1, <2>2 DEF States
<1>2. Sound(step, current_state, c) /\ Marking(step, current_state, c)
  BY <1>1, StatesSound, StatesMarking
<1>3. PICK longer : longer = IF step.extend THEN Append(lexeme, c) ELSE lexeme
  OBVIOUS
<1>4. /\ look_ahead' = look_ahead_after(step, c)
      /\ current_state' = step.state
      /\ IF Len(longer) > MAX_LEXEME THEN Fail /\ UNCHANGED <<lexeme, line_number>>
         ELSE IF step.token = "" THEN lexeme' = longer /\ line_number' = LineOf(c) /\ Nothing
         ELSE /\ lexeme' = <<>>
              /\ line_number' = line_after_comment(step.token, LineOf(c))
              /\ IF comment_block THEN in_comment(step.token, LineOf(c))
                 ELSE outside_comments(step.token, LineOf(c), longer)
  BY Zenon, <1>3 DEF gettoken2, LineOf
<1>5. ~Fail
  BY DEF Fail, Running
<1>6. step.token # "LINE_COMMENT"
  BY <1>1, <1>2 DEF Sound
<1>7. CASE step.token = ""
  <2>1. line_number' = LineOf(c) /\ Nothing
    BY Zenon, <1>4, <1>5, <1>7
  <2>2. step.token # "BLOCK_COMMENT_OPEN" /\ step.token # "BLOCK_COMMENT_CLOSE"
    BY <1>7
  <2> QED BY Zenon, <1>2, <1>4, <2>1, <2>2 DEF Nothing, look_ahead_after, NoCharacter
<1>8. CASE step.token # ""
  <2>1. /\ line_number' = line_after_comment(step.token, LineOf(c))
        /\ IF comment_block THEN in_comment(step.token, LineOf(c))
           ELSE outside_comments(step.token, LineOf(c), longer)
    BY Zenon, <1>4, <1>5, <1>8
  <2>2. /\ step.token = "BLOCK_COMMENT_OPEN" => stack' = Append(stack, LineOf(c))
        /\ step.token = "BLOCK_COMMENT_CLOSE" =>
             stack' = IF comment_block THEN Front(stack) ELSE stack
        /\ step.token \notin Marks => stack' = stack
    BY Zenon, <1>1, <2>1, StackMoves
  <2>3. line_number' = LineOf(c)
    BY Zenon, <1>6, <2>1 DEF line_after_comment
  <2> QED BY Zenon, <1>1, <1>2, <1>4, <2>2, <2>3 DEF look_ahead_after, NoCharacter
<1> QED BY <1>7, <1>8

\* A round with a character that is read again, or with the end of the file
LEMMA SameTextMatched ==
  ASSUME Inv, Running, Running', Following, Plain(text), NEW c \in input.chars \union {EOF},
         gettoken2(c), text' = text,
         \/ look_ahead # NoCharacter /\ c = look_ahead /\ eof' = eof
         \/ look_ahead = NoCharacter /\ c = EOF /\ eof' = TRUE
  PROVE  Following'
<1>1. PICK step : step = state_functions(current_state, c)
  OBVIOUS
<1>2. /\ Sound(step, current_state, c) /\ Marking(step, current_state, c)
      /\ look_ahead' = (IF step.retract THEN c ELSE NoCharacter)
      /\ current_state' = step.state
      /\ line_number' = LineOf(c)
      /\ step.token \notin Marks => stack' = stack
  BY <1>1, RoundEffect DEF Following
<1>3. /\ look_ahead # NoCharacter => current_state = 0
      /\ look_ahead = EOF => eof
      /\ eof \in BOOLEAN /\ line_number \in Nat
  <2>1. eof \in BOOLEAN /\ line_number \in Nat
    BY TextTyped
  <2> QED BY <2>1 DEF Inv, Reading
<1>4. EOF # "\n" /\ EOF # NoCharacter /\ NoCharacter # "\n" /\ EOF \notin {"/", "*", "\""}
      /\ NoCharacter \notin {"/", "*"}
  BY DEF EOF, NoCharacter
<1>5. /\ step.retract => current_state # 0
      /\ c = EOF => step.state = 0
  BY <1>2 DEF Sound
<1>6. /\ step.token \notin Marks
      /\ step.state = 15 => current_state = 0 /\ c = "/"
      /\ step.state = 14 => current_state = 0 /\ c = "*"
      /\ current_state = 0 /\ c = "/" => step.state = 15
      /\ current_state = 0 /\ c = "*" => step.state = 14
      /\ step.state = 4 => c = "\""
      /\ step.state = 16 => current_state = 15 /\ c = "/"
  <2>1. /\ step.token = "BLOCK_COMMENT_OPEN" => current_state = 15 /\ c = "*"
        /\ step.token = "BLOCK_COMMENT_CLOSE" => current_state = 14 /\ c = "/"
        /\ step.state = 15 <=> current_state = 0 /\ c = "/"
        /\ step.state = 14 <=> current_state = 0 /\ c = "*"
        /\ step.state = 4 => c = "\""
        /\ step.state = 16 => current_state = 15 /\ c = "/"
    BY <1>2 DEF Marking
  <2>2. current_state = 0 \/ c \notin {"*", "/"}
    BY <1>3, <1>4
  <2>3. step.token \notin Marks
    <3>1. ~(current_state = 15 /\ c = "*") /\ ~(current_state = 14 /\ c = "/")
      BY <2>2
    <3> QED BY Zenon, <2>1, <3>1 DEF Marks
  <2> QED BY <2>1, <2>3
<1>7. stack' = stack
  BY <1>2, <1>6
<1>8. look_ahead' \in {NoCharacter, EOF}
  BY <1>2, <1>3, <1>5
<1>9. step.state \notin {4, 16}
  <2>1. step.state # 16
    BY <1>3, <1>4, <1>6
  <2>2. ASSUME c = "\"" PROVE FALSE
    <3>1. c = look_ahead /\ look_ahead \notin {NoCharacter, EOF}
      BY <1>4, <2>2
    <3>2. Len(text) > 0 /\ text[Len(text)] = "\""
      BY <2>2, <3>1 DEF Following
    <3>3. Len(text) \in Nat
      BY TextTyped
    <3>4. PICK n : n = Len(text)
      OBVIOUS
    <3>5. n \in Nat /\ n > 0
      BY <3>2, <3>3, <3>4
    <3>6. n \in 1..n
      BY <3>5
    <3>7. text[n] # "\""
      BY Zenon, <3>4, <3>6 DEF Plain
    <3> QED BY <3>2, <3>4, <3>7
  <2> QED BY <1>6, <2>1, <2>2
<1>10. /\ step.state = 15 => Begun(text, "/")
       /\ step.state = 14 => Begun(text, "*")
  BY <1>4, <1>6 DEF Following
<1>11. /\ ~eof' /\ Begun(text, "/") => step.state = 15
       /\ ~eof' /\ Begun(text, "*") => step.state = 14
  <2>1. ASSUME ~eof' PROVE look_ahead # NoCharacter /\ c = look_ahead /\ ~eof
    BY <2>1
  <2>2. ASSUME ~eof', Begun(text, "/") PROVE step.state = 15
    <3>1. current_state = 15 \/ look_ahead = "/"
      BY <2>1, <2>2 DEF Following
    <3> QED BY <1>3, <1>6, <2>1, <2>2, <3>1
  <2>3. ASSUME ~eof', Begun(text, "*") PROVE step.state = 14
    <3>1. current_state = 14 \/ look_ahead = "*"
      BY <2>1, <2>3 DEF Following
    <3> QED BY <1>3, <1>6, <2>1, <2>3, <3>1
  <2> QED BY <2>2, <2>3
<1>12. LineOf(c) = LineAt(text, Len(text))
  <2>1. line_number + (IF look_ahead = "\n" THEN 1 ELSE 0) = LineAt(text, Len(text))
    BY DEF Following
  <2>2. CASE look_ahead = "\n"
    <3>1. c = "\n" /\ current_state = 0
      BY <1>3, <1>4, <2>2
    <3> QED BY <2>1, <2>2, <3>1 DEF LineOf
  <2>3. CASE look_ahead # "\n"
    <3>1. c # "\n"
      BY <1>4, <2>3
    <3> QED BY <1>3, <2>1, <2>3, <3>1 DEF LineOf
  <2> QED BY <2>2, <2>3
<1>13. line_number' + (IF look_ahead' = "\n" THEN 1 ELSE 0) = LineAt(text, Len(text))
  <2>1. look_ahead' # "\n"
    BY <1>4, <1>8
  <2>2. LineOf(c) \in Nat
    BY <1>3 DEF LineOf
  <2> QED BY <1>2, <1>12, <2>1, <2>2
<1>14. Placed(text, stack')
  BY <1>7 DEF Following
<1>15. look_ahead' \notin {"/", "*"}
  BY <1>4, <1>8
<1> QED BY Zenon, <1>2, <1>8, <1>9, <1>10, <1>11, <1>13, <1>14, <1>15 DEF Following, Begun

\* A round with a new character
LEMMA LongerTextMatched ==
  ASSUME Inv, Running, Running', Following, HaveFirst(Pairs(text)),
         NEW c \in input.chars, gettoken2(c), look_ahead = NoCharacter, ~eof,
         text' = Append(text, c), eof' = eof, Plain(text')
  PROVE  Following'
<1>1. PICK step, n, u : step = state_functions(current_state, c) /\ n = Len(text) /\ u = text'
  OBVIOUS
<1>2. /\ Sound(step, current_state, c) /\ Marking(step, current_state, c)
      /\ look_ahead' = (IF step.retract THEN c ELSE NoCharacter)
      /\ current_state' = step.state
      /\ line_number' = LineOf(c)
      /\ step.token = "BLOCK_COMMENT_OPEN" => stack' = Append(stack, LineOf(c))
      /\ step.token = "BLOCK_COMMENT_CLOSE" /\ stack = <<>> => stack' = stack
      /\ step.token = "BLOCK_COMMENT_CLOSE" /\ stack # <<>> => stack' = Front(stack)
      /\ step.token \notin Marks => stack' = stack
  BY <1>1, RoundEffect DEF Following
<1>3. /\ text \in Seq(input.chars) /\ n \in Nat /\ u = Append(text, c) /\ Len(u) = n + 1
      /\ u[n + 1] = c /\ \A i \in 1..n : u[i] = text[i]
      /\ line_number \in Nat /\ c # EOF /\ c # NoCharacter
  <2>1. text \in Seq(input.chars) /\ line_number \in Nat
    BY TextTyped
  <2>2. c # EOF /\ c # NoCharacter
    BY TextTyped
  <2> QED BY <1>1, <2>1, <2>2
<1>4. /\ c # "\"" /\ ~(Begun(text, "/") /\ c = "/")
  <2>1. \A q \in 1..Len(u) : u[q] # "\"" /\ (q > 1 => <<u[q - 1], u[q]>> # <<"/", "/">>)
    BY <1>1 DEF Plain
  <2>2. c # "\""
    <3>1. n + 1 \in 1..Len(u)
      BY <1>3
    <3>2. u[n + 1] # "\""
      BY Zenon, <2>1, <3>1
    <3> QED BY <1>3, <3>2
  <2>3. ASSUME Begun(text, "/"), c = "/" PROVE FALSE
    <3>1. n > 0 /\ u[n] = "/" /\ u[n + 1] = "/"
      BY <1>1, <1>3, <2>3 DEF Begun
    <3>2. n + 1 \in 1..Len(u) /\ n + 1 > 1 /\ (n + 1) - 1 = n
      BY <1>3, <3>1
    <3>3. <<u[(n + 1) - 1], u[n + 1]>> # <<"/", "/">>
      BY Zenon, <2>1, <3>2
    <3> QED BY <3>1, <3>2, <3>3
  <2> QED BY <2>2, <2>3
<1>5. /\ current_state \notin {4, 16}
      /\ current_state = 15 <=> Begun(text, "/")
      /\ current_state = 14 <=> Begun(text, "*")
      /\ line_number = LineAt(text, n)
      /\ Placed(text, stack)
  <2>1. look_ahead # "/" /\ look_ahead # "*" /\ look_ahead # "\n"
    BY DEF NoCharacter
  <2>2. line_number = LineAt(text, n)
    BY <1>1, <1>3, <2>1 DEF Following
  <2> QED BY <2>1, <2>2 DEF Following
<1>6. n + 1 \in Brackets(u) <=> (current_state = 15 /\ c = "*") \/ (current_state = 14 /\ c = "/")
  <2>1. /\ Brackets(text) \subseteq 2..n
        /\ Brackets(u) = Brackets(text) \union
             (IF n > 0 /\ Pair(text[n], c) /\ n \notin Brackets(text) THEN {n + 1} ELSE {})
    BY <1>1, <1>3, BracketsGrow
  <2>2. n + 1 \notin Brackets(text)
    BY <1>3, <2>1
  <2>3. n + 1 \in Brackets(u) <=> n > 0 /\ Pair(text[n], c) /\ n \notin Brackets(text)
    BY <2>1, <2>2
  <2>4. Pair(text[n], c) <=> (text[n] = "/" /\ c = "*") \/ (text[n] = "*" /\ c = "/")
    BY DEF Pair
  <2>5. n + 1 \in Brackets(u) <=> (Begun(text, "/") /\ c = "*") \/ (Begun(text, "*") /\ c = "/")
    BY Zenon, <1>1, <2>3, <2>4 DEF Begun
  <2> QED BY Zenon, <1>5, <2>5
<1>7. /\ step.token = "BLOCK_COMMENT_OPEN" <=> current_state = 15 /\ c = "*"
      /\ step.token = "BLOCK_COMMENT_CLOSE" <=> current_state = 14 /\ c = "/"
      /\ step.token \in Marks => ~step.retract /\ n + 1 \in Brackets(u)
      /\ step.token \notin Marks => n + 1 \notin Brackets(u)
      /\ step.state = 15 <=> current_state = 0 /\ c = "/"
      /\ step.state = 14 <=> current_state = 0 /\ c = "*"
      /\ step.state \notin {4, 16}
      /\ current_state # 0 /\ c \in {"/", "*", "\n"} => step.retract \/ step.token \in Marks
      /\ step.retract => current_state # 0
  <2>1. /\ step.token = "BLOCK_COMMENT_OPEN" <=> current_state = 15 /\ c = "*"
        /\ step.token = "BLOCK_COMMENT_CLOSE" <=> current_state = 14 /\ c = "/"
        /\ step.token \in Marks => ~step.retract
        /\ step.state = 15 <=> current_state = 0 /\ c = "/"
        /\ step.state = 14 <=> current_state = 0 /\ c = "*"
        /\ step.state = 4 => c = "\""
        /\ step.state = 16 => current_state = 15 /\ c = "/"
        /\ current_state # 0 /\ c \in {"/", "*", "\n"} =>
             step.retract \/ step.state = 16 \/ step.token \in Marks
    BY <1>2 DEF Marking
  <2>2. step.token \in Marks <=> n + 1 \in Brackets(u)
    BY <1>6, <2>1 DEF Marks
  <2>3. step.state \notin {4, 16}
    BY <1>4, <1>5, <2>1
  <2>4. step.retract => current_state # 0
    BY <1>2 DEF Sound
  <2> QED BY <2>1, <2>2, <2>3, <2>4
<1>8. \A x : Begun(u, x) <=> c = x /\ n + 1 \notin Brackets(u)
  BY <1>3 DEF Begun
<1>9. /\ step.state = 15 => Begun(u, "/")
      /\ step.state = 14 => Begun(u, "*")
      /\ Begun(u, "/") => step.state = 15 \/ look_ahead' = "/"
      /\ Begun(u, "*") => step.state = 14 \/ look_ahead' = "*"
      /\ look_ahead' \in {"/", "*"} => Begun(u, look_ahead')
      /\ look_ahead' \notin {NoCharacter, EOF} => Len(u) > 0 /\ u[Len(u)] = look_ahead'
  <2>1. step.state = 15 => Begun(u, "/")
    BY <1>6, <1>7, <1>8
  <2>2. step.state = 14 => Begun(u, "*")
    BY <1>6, <1>7, <1>8
  <2>3. Begun(u, "/") => step.state = 15 \/ look_ahead' = "/"
    BY <1>2, <1>7, <1>8
  <2>4. Begun(u, "*") => step.state = 14 \/ look_ahead' = "*"
    BY <1>2, <1>7, <1>8
  <2>5. look_ahead' \in {"/", "*"} => Begun(u, look_ahead')
    <3>1. NoCharacter \notin {"/", "*"}
      BY DEF NoCharacter
    <3> QED BY <1>2, <1>7, <1>8, <3>1
  <2>6. look_ahead' \notin {NoCharacter, EOF} => Len(u) > 0 /\ u[Len(u)] = look_ahead'
    BY <1>2, <1>3
  <2> QED BY <2>1, <2>2, <2>3, <2>4, <2>5, <2>6
<1>10. line_number' + (IF look_ahead' = "\n" THEN 1 ELSE 0) = LineAt(u, Len(u))
  <2>1. LineAt(u, n + 1) = LineAt(text, n) + IF c = "\n" THEN 1 ELSE 0
    BY <1>1, <1>3, LinesGrow
  <2>2. CASE c = "\n"
    <3>1. current_state # 0 => step.retract
      <4>1. c # "/" /\ c # "*"
        BY <2>2
      <4> QED BY <1>7, <2>2, <4>1 DEF Marks
    <3>2. look_ahead' = "\n" <=> current_state # 0
      BY <1>2, <1>7, <2>2, <3>1 DEF NoCharacter
    <3> QED BY <1>2, <1>3, <1>5, <2>1, <2>2, <3>2 DEF LineOf
  <2>3. CASE c # "\n"
    <3>1. look_ahead' # "\n"
      BY <1>2, <2>3 DEF NoCharacter
    <3> QED BY <1>2, <1>3, <1>5, <2>1, <2>3, <3>1 DEF LineOf
  <2> QED BY <2>2, <2>3
<1>11. Placed(u, stack')
  <2>1. CASE step.token \notin Marks
    <3>1. stack' = stack /\ n + 1 \notin Brackets(u)
      BY <1>2, <1>7, <2>1
    <3> QED BY <1>1, <1>3, <1>5, <3>1, PlacedOn
  <2>2. CASE step.token = "BLOCK_COMMENT_OPEN"
    <3>1. c = "*" /\ current_state = 15 /\ n + 1 \in Brackets(u) /\ stack' = Append(stack, LineOf(c))
      BY <1>2, <1>6, <1>7, <2>2
    <3>2. LineOf(c) = LineAt(text, n)
      BY <1>5, <3>1 DEF LineOf
    <3>3. PICK l : l = LineAt(text, n)
      OBVIOUS
    <3>4. stack' = Append(stack, l)
      BY <3>1, <3>2, <3>3
    <3>5. Placed(u, Append(stack, l))
      BY Zenon, <1>1, <1>3, <1>5, <3>1, <3>3, PlacedOpened
    <3> QED BY <3>4, <3>5
  <2>3. CASE step.token = "BLOCK_COMMENT_CLOSE"
    <3>1. c = "/" /\ n + 1 \in Brackets(u)
      BY <1>6, <1>7, <2>3
    <3>2. /\ stack = <<>> => Placed(u, stack)
          /\ stack # <<>> => Placed(u, Front(stack))
      BY <1>1, <1>3, <1>5, <3>1, PlacedClosed
    <3> QED BY <1>2, <2>3, <3>2
  <2> QED BY <2>1, <2>2, <2>3 DEF Marks
<1> QED BY Zenon, <1>1, <1>2, <1>7, <1>9, <1>10, <1>11 DEF Following

\* What a text that hides no bracket begins with hides none either.
LEMMA PlainBefore ==
  ASSUME NEW S, NEW t \in Seq(S), NEW c \in S, Plain(Append(t, c))
  PROVE  Plain(t)
<1> DEFINE u == Append(t, c)
<1>1. Len(u) = Len(t) + 1 /\ Len(t) \in Nat /\ \A i \in 1..Len(t) : u[i] = t[i]
  OBVIOUS
<1>2. \A q \in 1..Len(u) : u[q] # "\"" /\ (q > 1 => <<u[q - 1], u[q]>> # <<"/", "/">>)
  BY DEF Plain
<1> HIDE DEF u
<1>3. \A q \in 1..Len(t) : q \in 1..Len(u) /\ (q > 1 => q - 1 \in 1..Len(t))
  BY <1>1
<1>4. ASSUME NEW q \in 1..Len(t)
      PROVE  t[q] # "\"" /\ (q > 1 => <<t[q - 1], t[q]>> # <<"/", "/">>)
  BY <1>1, <1>2, <1>3
<1> QED BY <1>4 DEF Plain

\* A round keeps what is said of brackets.
LEMMA ReadMatched ==
  ASSUME Inv, Matched, Running, input' = input,
         NEW c \in input.chars \union {EOF}, get_next_char(c), gettoken2(c)
  PROVE  Matched'
<1>1. CASE /\ text' = text
           /\ \/ look_ahead # NoCharacter /\ c = look_ahead /\ eof' = eof
              \/ look_ahead = NoCharacter /\ c = EOF /\ eof' = TRUE
  <2>1. HaveFirst(Pairs(text'))
    BY <1>1 DEF Matched
  <2>2. ASSUME Running', Plain(text') PROVE Following'
    <3>1. Plain(text) /\ Following
      BY <1>1, <2>2 DEF Matched
    <3> QED BY <1>1, <2>2, <3>1, SameTextMatched
  <2> QED BY <2>1, <2>2 DEF Matched
<1>2. CASE /\ look_ahead = NoCharacter /\ ~eof /\ c \in input.chars
           /\ text' = Append(text, c) /\ eof' = eof
  <2>1. text \in Seq(input.chars)
    BY DEF Inv, TypeOK
  <2>2. HaveFirst(Pairs(text'))
    BY <1>2, <2>1, BracketsGrow DEF Matched
  <2>3. ASSUME Running', Plain(text') PROVE Following'
    <3>1. Plain(text)
      BY <1>2, <2>1, <2>3, PlainBefore
    <3>2. Following /\ HaveFirst(Pairs(text))
      BY <3>1 DEF Matched
    <3> QED BY <1>2, <2>3, <3>2, LongerTextMatched
  <2> QED BY <2>2, <2>3 DEF Matched
<1> QED BY Zenon, <1>1, <1>2 DEF get_next_char, fgetc, NoCharacter

-----------------------------------------------------------------------------
(* The theorems. *)

\* The invariant holds from the start on.
LEMMA InvHolds == Spec => []Inv
<1>1. Init => Inv
  <2> SUFFICES ASSUME Init PROVE Inv
    OBVIOUS
  <2>1. input \in Inputs /\ input.size \in Nat
    BY Zenon, InputsAssumption DEF Init
  <2>2. /\ <<>> \in Seq(input.chars) /\ Len(<<>>) = 0 /\ <<>> \in Seq(Nat)
        /\ <<>> \in Seq(ToSet(<<>>)) /\ DOMAIN <<>> = {} /\ <<>> \in Seq(1..1)
    BY EmptySeq
  <2>3. Tokenized(line_number)
    BY <2>2 DEF Init, Tokenized, Listed, Bracketed
  <2>4. TypeOK
    <3>1. 0 <= input.size /\ 0 <= MAX_LEXEME /\ 0 \in 0..16 /\ 1 \in 1..(0 + 2)
      BY <2>1, LexemeAssumption
    <3> QED BY Zenon, <2>1, <2>2, <3>1 DEF Init, TypeOK
  <2>5. Reading
    <3>1. /\ look_ahead = NoCharacter /\ eof = FALSE /\ current_state = 0
          /\ line_number = 1 /\ Len(text) = 0
      BY Zenon, <2>2 DEF Init, NoCharacter
    <3>2. NoCharacter # EOF /\ NoCharacter # "\n"
      BY Zenon DEF NoCharacter, EOF
    <3>3. 1 + 0 <= 0 + 1 + 0 /\ 0 # 5
      OBVIOUS
    <3> QED BY <3>1, <3>2, <3>3 DEF Reading
  <2> QED BY <2>3, <2>4, <2>5 DEF Inv
<1>2. Inv /\ [Next]_vars => Inv'
  <2> SUFFICES ASSUME Inv, [Next]_vars PROVE Inv'
    OBVIOUS
  <2>1. CASE Read
    <3>1. Running /\ input' = input
      BY Zenon, <2>1 DEF Read, Running
    <3>2. PICK c \in input.chars \union {EOF} : get_next_char(c) /\ gettoken2(c)
      BY Zenon, <2>1 DEF Read
    <3> QED BY <3>1, <3>2, ReadKeeps
  <2>2. CASE UNCHANGED vars
    BY Zenon, <2>2 DEF vars, file, Inv, TypeOK, Reading, Tokenized, Listed, Bracketed, Running
  <2> QED BY Zenon, <2>1, <2>2 DEF Next, Returned
<1> QED BY <1>1, <1>2, PTL DEF Spec

\* What the scanner reads and keeps is what TypeOK says, every line number
\* among it is one of the lines read so far, and a lexeme never outgrows its
\* buffer's limit (gettoken2, extend_lexeme).
THEOREM ScannerTyped == Spec => []TypeOK
<1>1. Inv => TypeOK
  BY DEF Inv
<1> QED BY <1>1, InvHolds, PTL

\* Brackets are matched from the start on.
LEMMA MatchedHolds == Spec => []Matched
<1>1. Init => Matched
  <2> SUFFICES ASSUME Init PROVE Matched
    OBVIOUS
  <2>1. /\ text = <<>> /\ Len(text) = 0 /\ stack = <<>> /\ <<>> \in Seq(Nat)
        /\ current_state = 0 /\ look_ahead = NoCharacter /\ line_number = 1
    BY EmptySeq DEF Init, NoCharacter
  <2>2. Pairs(text) = {} /\ Brackets(text) = {} /\ 1..0 = {}
    BY <2>1 DEF Pairs, Brackets, EveryOther
  <2>3. Unclosed(text) = {} /\ HaveFirst(Pairs(text))
    BY <2>2 DEF Unclosed, NeverBalanced, HaveFirst
  <2>4. Count(Unclosed(text), 1, 0) = 0 /\ Placed(text, stack)
    <3>1. Count(Unclosed(text), 1, 0) = 0
      BY <2>3, FS_EmptySet DEF Count
    <3> QED BY <2>1, <2>3, <3>1 DEF Placed, Balanced
  <2>5. LineAt(text, 0) = 1
    <3>1. {q \in 1..0 : text[q] = "\n"} = {}
      BY <2>2
    <3> QED BY <3>1, FS_EmptySet DEF LineAt
  <2>6. \A x : ~Begun(text, x)
    BY <2>1 DEF Begun
  <2>7. NoCharacter \notin {"/", "*", "\n"}
    BY DEF NoCharacter
  <2> QED BY <2>1, <2>3, <2>4, <2>5, <2>6, <2>7 DEF Matched, Following
<1>2. Inv /\ Matched /\ [Next]_vars => Matched'
  <2> SUFFICES ASSUME Inv, Matched, [Next]_vars PROVE Matched'
    OBVIOUS
  <2>1. CASE Read
    <3>1. Running /\ input' = input
      BY Zenon, <2>1 DEF Read, Running
    <3>2. PICK c \in input.chars \union {EOF} : get_next_char(c) /\ gettoken2(c)
      BY Zenon, <2>1 DEF Read
    <3> QED BY <3>1, <3>2, ReadMatched
  <2>2. CASE UNCHANGED vars
    BY Zenon, <2>2 DEF vars, file, Matched, Following, Running, Begun
  <2> QED BY Zenon, <2>1, <2>2 DEF Next, Returned
<1> QED BY <1>1, <1>2, InvHolds, PTL DEF Spec

\* In whatever order comments are opened and closed, lines end and characters
\* are put back: the flag says that a bracket is open, and the lines of the
\* open brackets ascend.  In a text whose brackets no string and no line comment
\* hides, those on the stack are those the text leaves open, each with the line
\* it stands on (tokenize, gettoken2).
THEOREM CommentsNested == Spec => []CommentsNest
<1>1. Inv /\ Matched => CommentsNest
  <2> SUFFICES ASSUME Inv, Matched, Running PROVE CommentsNest
    BY DEF CommentsNest, Running
  <2>1. comment_block = (stack # <<>>)
    BY Zenon DEF Inv, Tokenized, Running
  <2>2. \A i \in DOMAIN stack : \A j \in 1..i : stack[j] <= stack[i]
    BY Zenon DEF Inv, Tokenized, Bracketed
  <2>3. stack \in Seq(Nat) /\ text \in Seq(input.chars)
    BY Zenon DEF Inv, TypeOK
  <2>4. \A i \in 2..Len(stack) : i \in DOMAIN stack /\ i - 1 \in 1..i
    BY <2>3
  <2>5. \A i \in 2..Len(stack) : stack[i - 1] <= stack[i]
    BY Zenon, <2>2, <2>4
  <2>6. ASSUME Plain(text)
        PROVE  /\ Len(stack) = Cardinality(Unclosed(text))
               /\ \A p \in Unclosed(text) :
                    stack[Cardinality(Unclosed(text) \cap 1..p)] = LineAt(text, p)
    <3>1. Placed(text, stack)
      BY Zenon, <2>6 DEF Matched, Following
    <3>2. Unclosed(text) \subseteq 1..Len(text)
      BY DEF Unclosed, NeverBalanced, Brackets, EveryOther, Pairs
    <3>3. Unclosed(text) \cap 1..Len(text) = Unclosed(text)
      BY <3>2
    <3> QED BY Zenon, <3>1, <3>3 DEF Placed, Count
  <2> QED BY Zenon, <2>1, <2>5, <2>6 DEF CommentsNest
<1> QED BY <1>1, InvHolds, MatchedHolds, PTL
=============================================================================
