-------------------------------- MODULE Quote --------------------------------
(***************************************************************************)
(* Quoted strings in header fields (src/httpx/quote.go, media.go,          *)
(* httplex.go).  A text is a sequence of characters, one of each kind that *)
(* the code tells apart; "lf" stands for the seven characters that are     *)
(* written as a backslash and a letter, "n" for those letters, "byte" for  *)
(* a byte that is not UTF-8 and "fffd" for the character that Go reads in  *)
(* its place.                                                              *)
(***************************************************************************)
EXTENDS Integers, Sequences, SequencesExt

Chars == {"a", "n", "space", "backslash", "quote", "lf", "comma", "semicolon", "byte", "fffd"}

isToken(s) == s # <<>> /\ Range(s) \subseteq {"a", "n"}

(* A parser's answer: a text, or an error. *)
Error    == [ok |-> FALSE, value |-> <<>>]
Value(s) == [ok |-> TRUE, value |-> s]

(* Mutant: the backslash itself is not escaped. *)
EscapeQuoteOnly(c) ==
  IF c = "quote" THEN <<"backslash", c>>
  ELSE IF c = "lf" THEN <<"backslash", "n">> ELSE <<c>>

Escape(c) ==
  IF c \in {"backslash", "quote"} THEN <<"backslash", c>>
  ELSE IF c = "lf" THEN <<"backslash", "n">> ELSE <<c>>

(* What a loop over the characters of s has in the end: a turn of it makes *)
(* of what it had, and of a character, what it has next.                   *)
Loop(turn, start, s) ==
  LET had[i \in 0..Len(s)] == IF i = 0 THEN start ELSE turn[<<had[i - 1], s[i]>>]
  IN  had[Len(s)]

writeQuoted(s) ==
  LET turn == [x \in Seq(Chars) \X Chars |-> x[1] \o Escape(x[2])]
  IN  <<"quote">> \o Loop(turn, <<>>, s) \o <<"quote">>

(* quoted.Format. *)
Format(s) == IF isToken(s) THEN s ELSE writeQuoted(s)

(* parseQuoted ranges over characters and writes them with WriteRune,      *)
(* where writeQuoted copies bytes.                                         *)
Rune(c) == IF c = "byte" THEN "fffd" ELSE c

(* One turn of the loop of parseQuoted: e is true after a backslash. *)
Parsing == [e : BOOLEAN, err : BOOLEAN, text : Seq(Chars)]
Unescape(st, c) ==
  IF st.e
  THEN [st EXCEPT !.e = FALSE, !.text = Append(@, IF c = "n" THEN "lf" ELSE Rune(c))]
  ELSE IF c = "backslash" THEN [st EXCEPT !.e = TRUE]
  ELSE IF c = "quote" THEN [st EXCEPT !.err = TRUE]
  ELSE [st EXCEPT !.text = Append(@, Rune(c))]

parseQuoted(s) ==
  IF isToken(s) THEN Value(s)
  ELSE IF Len(s) < 2 \/ s[1] # "quote" \/ Last(s) # "quote" THEN Error
  ELSE LET turn == [x \in Parsing \X Chars |-> Unescape(x[1], x[2])]
           st == Loop(turn, [e |-> FALSE, err |-> FALSE, text |-> <<>>],
                      SubSeq(s, 2, Len(s) - 1))
       IN  IF st.e \/ st.err THEN Error ELSE Value(st.text)

(* One turn of the loop of split. *)
Splitting == [q : BOOLEAN, e : BOOLEAN]
Scan(st, c) ==
  IF st.q /\ st.e THEN [st EXCEPT !.e = FALSE]
  ELSE IF st.q /\ c = "backslash" THEN [st EXCEPT !.e = TRUE]
  ELSE IF c = "quote" THEN [st EXCEPT !.q = ~@]
  ELSE st

(* Whether the text s ends inside a quoted string, as split sees it. *)
Inside(s) ==
  LET turn == [x \in Splitting \X Chars |-> Scan(x[1], x[2])]
  IN  Loop(turn, [q |-> FALSE, e |-> FALSE], s).q

(* Where split cuts s at b: 0 if nowhere. *)
Cut(s, b) ==
  LET at == {i \in 1..Len(s) : s[i] = b /\ ~Inside(SubSeq(s, 1, i - 1))}
  IN  IF at = {} THEN 0 ELSE Min(at)

trimOWS(s) ==
  LET ink == {i \in 1..Len(s) : s[i] # "space"}
  IN  IF ink = {} THEN <<>> ELSE SubSeq(s, Min(ink), Max(ink))

splitTrimOWS(s, b) ==
  LET i == Cut(s, b)
  IN  IF i = 0 THEN <<trimOWS(s), <<>>>>
      ELSE <<trimOWS(SubSeq(s, 1, i - 1)), trimOWS(SubSeq(s, i + 1, Len(s)))>>

(* ParseMediaRange cuts at every semicolon, quoted or not, and             *)
(* ParseMediaParam reads the value of every part.  The text is that of the *)
(* values, without the names of the parameters.                            *)
ParseParams(s) ==
  LET cuts == {0, Len(s) + 1} \cup {i \in 1..Len(s) : s[i] = "semicolon"}
      next(i) == Min({j \in cuts : j > i})
      values == {parseQuoted(trimOWS(SubSeq(s, i + 1, next(i) - 1))) :
                   i \in cuts \ {Len(s) + 1}}
  IN  IF Error \in values THEN Error ELSE CHOOSE v \in values : TRUE
=============================================================================
