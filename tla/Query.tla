------------------------------- MODULE Query -------------------------------
(***************************************************************************)
(* sanitiseQuery (web/src/search/fts.ts): what a person typed, turned into *)
(* an FTS5 MATCH expression.                                               *)
(*                                                                         *)
(* A character is its class: what the two regular expressions and FTS5's   *)
(* lexer tell apart.  "letter" is anything FTS5 takes for part of a word,  *)
(* "syntax" everything the sanitiser drops outside quotes.  The text grows *)
(* by one character at a time, so that every text up to MaxLength is a     *)
(* state.                                                                  *)
(***************************************************************************)
EXTENDS Integers, Sequences, FiniteSets

CONSTANT MaxLength  \* bound: characters typed

ASSUME LengthAssumption == MaxLength \in Nat

VARIABLE raw  \* the text as it was typed

Class == {"quote", "space", "letter", "star", "syntax"}

----------------------------------------------------------------------------
(* sanitiseQuery *)

\* The next quote of `text` after position i (0: none).
NextQuote(text, i) ==
    LET later == {j \in i + 1 .. Len(text) : text[j] = "quote"}
    IN IF later = {} THEN 0 ELSE CHOOSE j \in later : \A k \in later : j <= k

\* raw.replace(/"([^"]+)"/g, ...), a character at a time: where a quote, one or more
\* others and a quote match, the phrase is pulled out and the scan goes on behind it.
ScanStep(text, i, scan) ==
    LET close == NextQuote(text, i)
    IN IF i < scan.next THEN scan
       ELSE IF text[i] = "quote" /\ close > i + 1
       THEN [phrases |-> Append(scan.phrases, SubSeq(text, i + 1, close - 1)),
             rest |-> Append(scan.rest, "space"),
             next |-> close + 1]
       ELSE [phrases |-> scan.phrases, rest |-> Append(scan.rest, text[i]), next |-> i + 1]

Scan(text) ==
    LET after[i \in 0 .. Len(text)] ==
            IF i = 0 THEN [phrases |-> <<>>, rest |-> <<>>, next |-> 1]
            ELSE ScanStep(text, i, after[i - 1])
    IN after

Pull(text) == Scan(text)[Len(text)]

\* Mutant of Kept: quotes outside a phrase are let through.
KeptWithQuotes(c) == c \in {"letter", "star", "quote"}

\* /[^\p{L}\p{N}_*]/ is removed from a token.
Kept(c) == c \in {"letter", "star"}

\* rest.split(/\s+/), each token without what is not kept.
TokenStep(tokens, c) ==
    IF c = "space" THEN Append(tokens, <<>>)
    ELSE IF Kept(c) THEN [tokens EXCEPT ![Len(tokens)] = Append(@, c)] ELSE tokens

Split(rest) ==
    LET after[i \in 0 .. Len(rest)] ==
            IF i = 0 THEN <<<<>>>> ELSE TokenStep(after[i - 1], rest[i])
    IN after

Tokens(rest) == Split(rest)[Len(rest)]

Quoted(text) == <<"quote">> \o text \o <<"quote">>

EndsWithStar(t) == t # <<>> /\ t[Len(t)] = "star"

\* Mutant of WithoutStars: the text ends at its first star.
BeforeStar(t) ==
    LET stars == {i \in 1 .. Len(t) : t[i] = "star"}
    IN SubSeq(t, 1, (CHOOSE i \in stars : \A j \in stars : i <= j) - 1)

\* t.replace(/\*+$/, '')
WithoutStars(t) ==
    LET last == {i \in 1 .. Len(t) : t[i] # "star"}
    IN SubSeq(t, 1, IF last = {} THEN 0 ELSE CHOOSE i \in last : \A j \in last : j <= i)

Term(t) == IF EndsWithStar(t) THEN Quoted(WithoutStars(t)) \o <<"star">> ELSE Quoted(t)

\* .filter and .map: a token that is empty or a lone star is dropped, the others are terms.
TermStep(terms, token) ==
    IF token \in {<<>>, <<"star">>} THEN terms ELSE Append(terms, Term(token))

Terms(tokens) ==
    LET after[i \in 0 .. Len(tokens)] ==
            IF i = 0 THEN <<>> ELSE TermStep(after[i - 1], tokens[i])
    IN after

\* Mutant of Phrases: the text between two phrases is taken for one, too.
PhrasesOverlapping(text) ==
    LET after[i \in 0 .. Len(text)] ==
            IF i = 0 THEN <<>>
            ELSE IF text[i] = "quote" /\ NextQuote(text, i) > i + 1
            THEN Append(after[i - 1], SubSeq(text, i + 1, NextQuote(text, i) - 1))
            ELSE after[i - 1]
    IN after[Len(text)]

Phrases(text) == Pull(text).phrases

\* [...phrases, ...tokens]
All(text) ==
    LET tokens == Tokens(Pull(text).rest)
    IN [i \in DOMAIN Phrases(text) |-> Quoted(Phrases(text)[i])] \o Terms(tokens)[Len(tokens)]

\* all.join(' ')
JoinStep(text, i, piece) == IF i = 1 THEN piece ELSE text \o <<"space">> \o piece

Join(pieces) ==
    LET after[i \in 0 .. Len(pieces)] ==
            IF i = 0 THEN <<>> ELSE JoinStep(after[i - 1], i, pieces[i])
    IN after

Sanitised(text) ==
    IF All(text) = <<>> THEN Quoted(<<>>) ELSE Join(All(text))[Len(All(text))]

----------------------------------------------------------------------------
(* FTS5's lexer, as far as a list of quoted strings goes.  Anything else     *)
(* outside a string is a word that could be an operator, or an error.        *)

\* The lexer is outside a string.
Between(state) == state \notin {"inside", "error"}

LexStep(state, c) ==
    CASE state = "inside" -> IF c = "quote" THEN "closed" ELSE "inside"
      [] Between(state) /\ c = "quote" -> "inside"  \* after "closed": doubled, still the string
      [] Between(state) /\ c = "space" -> IF state = "closed" THEN "string" ELSE state
      [] state \in {"closed", "string"} /\ c = "star" -> "starred"
      [] OTHER -> "error"

Lex(text) ==
    LET after[i \in 0 .. Len(text)] == IF i = 0 THEN "start" ELSE LexStep(after[i - 1], text[i])
    IN after

\* Whether an expression is a list of one or more strings, each with at most one star.
ValidMatch(text) == Lex(text)[Len(text)] \in {"closed", "string", "starred"}

----------------------------------------------------------------------------

QueryInit == raw = <<>>

Type(c) ==
    /\ Len(raw) < MaxLength
    /\ raw' = Append(raw, c)

QueryNext == \E c \in Class : Type(c)

QuerySpec == QueryInit /\ [][QueryNext]_raw

----------------------------------------------------------------------------
(* Properties *)

\* Whatever is typed becomes a valid MATCH expression, in which nothing of the
\* user's stands outside a quoted string (fts.ts:43-50, fts.ts:75-77).
QueryValid == ValidMatch(Sanitised(raw))

Count(text, c) == Cardinality({i \in DOMAIN text : text[i] = c})

\* Every letter typed stands in the expression, in a phrase or in a term, and none is
\* invented: no scan or split drops a token or takes one twice (fts.ts:52-77).  It says
\* nothing of which letters stand together: that is WordsKept.
LettersKept == Count(Sanitised(raw), "letter") = Count(raw, "letter")

\* The words of a text: its runs of letters.
Words(text) ==
    Cardinality({i \in DOMAIN text :
                    text[i] = "letter" /\ (i = Len(text) \/ text[i + 1] # "letter")})

\* fts.ts:52-53: besides phrases and prefixes, "everything else is escaped to a literal
\* term", so that "someone with no internet who typed a stray apostrophe must still get
\* results" (fts.ts:46-47).  So what is searched for has as many words as what was typed.
WordsKept == Words(Sanitised(raw)) = Words(raw)

\* What a reader calls balanced: a quote opens, the next one closes.
BalanceStep(text, i, seen) ==
    IF text[i] # "quote" THEN seen
    ELSE IF seen.open = 0 THEN [seen EXCEPT !.open = i]
    ELSE [phrases |-> Append(seen.phrases, SubSeq(text, seen.open + 1, i - 1)), open |-> 0]

Balance(text) ==
    LET after[i \in 0 .. Len(text)] ==
            IF i = 0 THEN [phrases |-> <<>>, open |-> 0] ELSE BalanceStep(text, i, after[i - 1])
    IN after

Balanced(text) == Balance(text)[Len(text)].phrases

\* "Balanced "quoted phrases" survive as phrases" (fts.ts:53): they are the phrases
\* of the expression, in their order, with all they contain.  An empty pair of quotes
\* is where the code departs from it: its second quote opens the next phrase.
PhrasesSurvive ==
    (\A n \in DOMAIN Balanced(raw) : Balanced(raw)[n] # <<>>) => Phrases(raw) = Balanced(raw)
=============================================================================
