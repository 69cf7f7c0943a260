---------------------------- MODULE CShellParser -----------------------------
(***************************************************************************)
(* The lexer and the grammar check of the shell (c-shell/src/parser.c),    *)
(* and what its specification (problem_statement.html, section A3) says:   *)
(* tokens by maximal munch, and a right-linear grammar over them.  A       *)
(* character stands for its class; "o" is an ordinary one, "_" a blank.    *)
(***************************************************************************)
EXTENDS Naturals, Sequences

Operators == {"|", "&", ";", "<", ">"}
Quotes == {"'", "\""}
Escape == "\\"
LineChars == Operators \cup Quotes \cup {Escape, "_", "o"}
TokenTypes == {"WORD", "|", "&", ";", "<", ">", ">>"}

VARIABLES
    typed,       \* a line, as characters
    tokens       \* a line, as types of tokens

TokenOf(type, text) == [type |-> type, tkn |-> text]
Rejected == [ok |-> FALSE, toks |-> <<>>]
-----------------------------------------------------------------------------
(* lexer()                                                                  *)

\* The loop over one word: where it ends and what it says without quotes.
LexWord(s, from) ==
    LET n == Len(s)
        word[i \in 1 .. n + 1, q \in Quotes \cup {"none"}, text \in Seq(LineChars)] ==
            IF i > n THEN [ok |-> q = "none", at |-> i, text |-> text]
            ELSE CASE q = "none" /\ s[i] \in Operators \cup {"_"} ->
                        [ok |-> TRUE, at |-> i, text |-> text]
                   [] s[i] = Escape /\ q = "'" -> word[i + 1, q, Append(text, Escape)]
                   [] s[i] = Escape /\ q # "'" /\ i = n -> [ok |-> FALSE, at |-> i, text |-> text]
                   [] s[i] = Escape /\ q # "'" /\ i < n ->
                        word[i + 2, q, text \o
                               IF q = "\"" /\ s[i + 1] \notin {"\"", Escape}
                               THEN <<Escape, s[i + 1]>> ELSE <<s[i + 1]>>]
                   [] s[i] \in Quotes /\ q = "none" -> word[i + 1, s[i], text]
                   [] s[i] \in Quotes /\ q = s[i] -> word[i + 1, "none", text]
                   [] OTHER -> word[i + 1, q, Append(text, s[i])]
    IN  word[from, "none", <<>>]

Lexer(s) ==
    LET n == Len(s)
        scan[i \in 1 .. n + 1] ==
            IF i > n THEN [ok |-> TRUE, toks |-> <<>>]
            ELSE LET then(token, next) ==
                         IF scan[next].ok
                         THEN [ok |-> TRUE, toks |-> <<token>> \o scan[next].toks]
                         ELSE Rejected
                     w == LexWord(s, i)
                 IN  CASE s[i] = "_" -> scan[i + 1]
                       [] s[i] = ">" /\ i < n /\ s[i + 1] = ">" -> then(TokenOf(">>", <<>>), i + 2)
                       [] s[i] \in Operators /\ ~(s[i] = ">" /\ i < n /\ s[i + 1] = ">") ->
                            then(TokenOf(s[i], <<>>), i + 1)
                       [] OTHER -> IF w.ok THEN then(TokenOf("WORD", w.text), w.at) ELSE Rejected
    IN  scan[1]

\* Mutant of NextState: "&" needs no word before it.
NextStateNoWord(state, type) ==
    IF state = 0 /\ type = "&" THEN 0
    ELSE CASE state \in {0, 2} -> IF type = "WORD" THEN 1 ELSE 3
           [] state = 1 -> CASE type = "WORD" -> 1
                             [] type = "&" -> 0
                             [] OTHER -> 2
           [] OTHER -> 3

(* valid_grmr(): state 0 may begin a line or end it, state 1 is within a    *)
(* command, state 2 needs a word.                                           *)
NextState(state, type) ==
    CASE state \in {0, 2} -> IF type = "WORD" THEN 1 ELSE 3
      [] state = 1 -> CASE type = "WORD" -> 1
                        [] type = "&" -> 0
                        [] OTHER -> 2
      [] OTHER -> 3      \* return false

ValidGrmr(toks) ==
    LET state[k \in 0 .. Len(toks)] ==
            IF k = 0 THEN 0 ELSE NextState(state[k - 1], toks[k])
    IN  state[Len(toks)] \in {0, 1}
-----------------------------------------------------------------------------
(* What the specification says.  Spans are half open: from i up to j.       *)

Fragment(s, i, j) ==
    LET dqBody[k \in 1 .. Len(s) + 1] ==
            \/ k = j - 1
            \/ s[k] = Escape /\ k + 2 <= j - 1 /\ dqBody[k + 2]
            \/ s[k] \notin {"\"", Escape} /\ k + 1 <= j - 1 /\ dqBody[k + 1]
    IN  \/ j = i + 1 /\ s[i] = "o"
        \/ j = i + 2 /\ s[i] = Escape
        \/ j >= i + 2 /\ s[i] = "\"" /\ s[j - 1] = "\"" /\ dqBody[i + 1]
        \/ /\ j >= i + 2 /\ s[i] = "'" /\ s[j - 1] = "'"
           /\ \A k \in i + 1 .. j - 2 : s[k] # "'"

\* The unquoted value of a fragment
ValueOf(s, i, j) ==
    LET body[k \in 1 .. Len(s) + 1] ==
            CASE k = j - 1 -> <<>>
              [] k < j - 1 /\ s[k] = Escape ->
                   (IF s[k + 1] \in {"\"", Escape} THEN <<s[k + 1]>> ELSE <<Escape, s[k + 1]>>)
                     \o body[k + 2]
              [] OTHER -> <<s[k]>> \o body[k + 1]
    IN  CASE s[i] = "o" -> <<"o">>
          [] s[i] = Escape -> <<s[i + 1]>>
          [] s[i] = "\"" -> body[i + 1]
          [] s[i] = "'" -> SubSeq(s, i + 1, j - 2)

\* The words that begin at i: for each k, the value of the one up to k, if any
WordsFrom(s, i) ==
    LET word[k \in i .. Len(s) + 1] ==
            IF k = i THEN {<<>>}
            ELSE UNION {{v \o ValueOf(s, h, k) : v \in word[h]} :
                          h \in {x \in i .. k - 1 : Fragment(s, x, k)}}
    IN  word

\* Maximal munch: the longest token at each position, and no other text.
Munch(s) ==
    LET n == Len(s)
        from[i \in 1 .. n + 1] ==
            IF i > n THEN [ok |-> TRUE, toks |-> <<>>]
            ELSE LET then(token, next) ==
                         IF from[next].ok
                         THEN [ok |-> TRUE, toks |-> <<token>> \o from[next].toks]
                         ELSE Rejected
                     words == WordsFrom(s, i)
                     ends == {k \in i + 1 .. n + 1 : words[k] # {}}
                     longest == CHOOSE k \in ends : \A h \in ends : h <= k
                 IN  IF s[i] = "_" THEN from[i + 1]
                     ELSE IF s[i] \in Operators
                     THEN IF i < n /\ SubSeq(s, i, i + 1) = <<">", ">">>
                          THEN then(TokenOf(">>", <<>>), i + 2)
                          ELSE then(TokenOf(s[i], <<>>), i + 1)
                     ELSE IF ends = {} THEN Rejected
                     ELSE then(TokenOf("WORD", CHOOSE v \in words[longest] : TRUE), longest)
    IN  from[1]

\* The productions: after a token of this type, this nonterminal
Productions ==
    [LINE |-> {<<"WORD", "ARG">>},
     ARG |-> {<<"WORD", "ARG">>, <<"<", "TGT">>, <<">", "TGT">>, <<">>", "TGT">>,
              <<"|", "CMD">>, <<";", "CMD">>, <<"&", "BG">>},
     CMD |-> {<<"WORD", "ARG">>}, TGT |-> {<<"WORD", "ARG">>}, BG |-> {<<"WORD", "ARG">>}]

Derives(toks) ==
    LET reach[k \in 0 .. Len(toks)] ==
            IF k = 0 THEN {"LINE"}
            ELSE {p[2] : p \in {q \in UNION {Productions[x] : x \in reach[k - 1]} : q[1] = toks[k]}}
    IN  reach[Len(toks)] \cap {"LINE", "ARG", "BG"} # {}
-----------------------------------------------------------------------------
(* The lexer finds the tokens of the specification, with their unquoted     *)
(* values, and rejects what it rejects; valid_grmr() accepts exactly what   *)
(* the grammar derives.                                                     *)
LinesAreRead ==
    /\ Lexer(typed) = Munch(typed)
    /\ ValidGrmr(tokens) <=> Derives(tokens)
=============================================================================
