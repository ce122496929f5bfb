---------------------------- MODULE QueryProofs ----------------------------
(***************************************************************************)
(* Proofs about Query for texts of every length: the expression is valid,  *)
(* no letter is lost, and balanced phrases survive.                        *)
(*                                                                         *)
(* sanitiseQuery walks over the text, then over the rest, the tokens and   *)
(* the pieces; each walk is a recursive function whose value at i is the   *)
(* state after i steps.  FoldExists says that such a function exists, so   *)
(* that it is what its definition says; Upto is the induction along a walk *)
(* (over the set of positions where a statement holds).  What is proved of *)
(* a walk is then a fact about one step:                                   *)
(*   - every piece is a quoted string without a quote inside (Piece), so   *)
(*     the lexer, read as a relation (Leads), goes from one to the next;   *)
(*   - a step loses no letter (Passed, Holds);                             *)
(*   - a step keeps the scan and a reader of the text together (Agree).    *)
(***************************************************************************)
EXTENDS Query, NaturalsInduction, SequenceTheorems, FiniteSetTheorems, TLAPS

\* Counting up: a set that holds 0 and, below n, the successor of each of its
\* members holds all of 0 .. n.
LEMMA Upto ==
    ASSUME NEW n \in Nat, NEW S, 0 \in S,
           \A i \in 0 .. n : i \in S /\ i < n => i + 1 \in S
    PROVE  \A i \in 0 .. n : i \in S
  <1> DEFINE missing == {i \in Nat : i <= n /\ i \notin S}
  <1>1. SUFFICES ASSUME missing # {} PROVE FALSE
    BY SMT
  <1>2. PICK m \in missing : \A j \in missing : m <= j
    <2>1. missing \subseteq Nat
      OBVIOUS
    <2>2. PICK x \in missing : TRUE
      BY <1>1
    <2>3. IsWellFoundedOn(OpToRel(<, Nat), Nat)
      BY NatLessThanWellFounded
    <2>4. PICK z \in missing : \A y \in missing : <<y, z>> \notin OpToRel(<, Nat)
      <3> HIDE DEF missing
      <3> QED
        BY <2>1, <2>2, <2>3, WFMin
    <2>5. \A y \in missing : ~(y < z)
      BY <2>4, <2>1 DEF OpToRel
    <2> QED
      BY <2>1, <2>5
  <1>3. m \in Nat /\ m <= n /\ m \notin S /\ m # 0
    BY <1>2
  <1>4. m - 1 \in S
    BY <1>2, <1>3
  <1> QED
    BY <1>3, <1>4

\* h holds the states of a fold over n positions: it starts at a, and g makes a step.
Folded(h, n, a, g) == h[0] = a /\ \A i \in 1 .. n : h[i] = g[<<i, h[i - 1]>>]

\* A fold over n positions, with states in Q, exists: it grows by a position at a time.
LEMMA FoldExists ==
    ASSUME NEW n \in Nat, NEW Q, NEW a \in Q, NEW g \in [(1 .. n) \X Q -> Q]
    PROVE  \E h \in [0 .. n -> Q] : Folded(h, n, a, g)
<1> DEFINE Fold(k, h) == h[0] = a /\ \A i \in 1 .. k : h[i] = g[<<i, h[i - 1]>>]
<1> DEFINE S == {k \in Nat : \E h \in [0 .. k -> Q] : Fold(k, h)}
<1>1. 0 \in S
  <2>1. [i \in 0 .. 0 |-> a] \in [0 .. 0 -> Q]
    OBVIOUS
  <2>2. Fold(0, [i \in 0 .. 0 |-> a])
    OBVIOUS
  <2> QED
    BY <2>1, <2>2
<1>2. ASSUME NEW k \in 0 .. n, k \in S, k < n PROVE k + 1 \in S
  <2>1. PICK h \in [0 .. k -> Q] : Fold(k, h)
    BY <1>2
  <2>2. g[<<k + 1, h[k]>>] \in Q
    BY <1>2
  <2> DEFINE f == [i \in 0 .. k + 1 |-> IF i = k + 1 THEN g[<<k + 1, h[k]>>] ELSE h[i]]
  <2>3. f \in [0 .. k + 1 -> Q]
    BY <2>2
  <2>4. Fold(k + 1, f)
    <3>1. f[0] = a
      BY <2>1
    <3>2. \A i \in 1 .. k : f[i] = g[<<i, f[i - 1]>>]
      BY <2>1
    <3>3. f[k + 1] = g[<<k + 1, f[k]>>]
      <4>1. f[k + 1] = g[<<k + 1, h[k]>>]
        OBVIOUS
      <4>2. f[k] = h[k]
        OBVIOUS
      <4> HIDE DEF f
      <4> QED
        BY <4>1, <4>2
    <3>4. \A i \in 1 .. k + 1 : i \in 1 .. k \/ i = k + 1
      OBVIOUS
    <3> HIDE DEF f
    <3>5. (k + 1) - 1 = k
      OBVIOUS
    <3> QED
      BY <3>1, <3>2, <3>3, <3>4, <3>5
  <2> HIDE DEF f, Fold
  <2>5. k + 1 \in Nat
    OBVIOUS
  <2> QED
    BY <2>3, <2>4, <2>5
<1>3. n \in S
  <2> HIDE DEF S
  <2> QED
    BY <1>1, <1>2, Upto, n \in 0 .. n
<1> QED
  BY <1>3 DEF Folded

\* What each step keeps, every state has.
LEMMA FoldTyped ==
    ASSUME NEW n \in Nat, NEW Q, NEW f, f[0] \in Q, \A i \in 1 .. n : f[i - 1] \in Q => f[i] \in Q
    PROVE  \A i \in 0 .. n : f[i] \in Q
<1> DEFINE S == {i \in 0 .. n : f[i] \in Q}
<1>1. 0 \in S
  OBVIOUS
<1>2. ASSUME NEW i \in 0 .. n, i \in S, i < n PROVE i + 1 \in S
  <2>1. i + 1 \in 1 .. n /\ (i + 1) - 1 = i
    BY <1>2
  <2>2. f[i + 1] \in Q
    BY <1>2, <2>1
  <2> QED
    BY <2>1, <2>2
<1>3. \A i \in 0 .. n : i \in S
  <2> HIDE DEF S
  <2> QED
    BY <1>1, <1>2, Upto
<1> QED
  BY <1>3

----------------------------------------------------------------------------
(* What the operators of the sanitiser work on *)

NoQuote == Seq(Class \ {"quote"})

Word == Seq({"letter", "star"})

\* A quoted string, with or without a star.
Piece == {p \in Seq(Class) : \E t \in NoQuote : p = Quoted(t) \/ p = Quoted(t) \o <<"star">>}

\* The greatest element of a set of positions.
LEMMA Greatest ==
    ASSUME NEW n \in Nat, NEW T, T \subseteq 1 .. n, T # {}
    PROVE  \E k \in T : \A j \in T : j <= k
<1>1. SUFFICES ASSUME \A k \in T : \E j \in T : k < j PROVE FALSE
  BY SMT
<1> DEFINE A == {i \in 0 .. n : \E k \in T : i <= k}
<1>2. 0 \in A
  <2>1. PICK k \in T : TRUE
    OBVIOUS
  <2>2. k \in Nat
    OBVIOUS
  <2> QED
    BY <2>1, <2>2
<1>3. ASSUME NEW i \in 0 .. n, i \in A, i < n PROVE i + 1 \in A
  <2>1. PICK k \in T : i <= k
    BY <1>3
  <2>2. PICK j \in T : k < j
    BY <1>1
  <2> QED
    BY <2>1, <2>2
<1>4. n \in A
  <2> HIDE DEF A
  <2> QED
    BY <1>2, <1>3, Upto, n \in 0 .. n
<1>5. PICK k \in T : n <= k
  BY <1>4
<1>6. PICK j \in T : k < j
  BY <1>1
<1> QED
  BY <1>5, <1>6

\* The least element of a set of positions.
LEMMA Least ==
    ASSUME NEW n \in Nat, NEW T, T \subseteq 1 .. n, T # {}
    PROVE  \E k \in T : \A j \in T : k <= j
<1> DEFINE U == {n + 1 - i : i \in T}
<1>1. PICK u \in U : \A v \in U : v <= u
  <2>1. U \subseteq 1 .. n /\ U # {}
    <3>1. PICK i \in T : TRUE
      OBVIOUS
    <3>2. n + 1 - i \in U
      OBVIOUS
    <3>3. \A j \in 1 .. n : n + 1 - j \in 1 .. n
      OBVIOUS
    <3> QED
      BY <3>2, <3>3
  <2> HIDE DEF U
  <2> QED
    BY <2>1, Greatest
<1>2. PICK k \in T : u = n + 1 - k
  OBVIOUS
<1>3. ASSUME NEW j \in T PROVE k <= j
  <2>1. n + 1 - j \in U
    OBVIOUS
  <2>2. n + 1 - j <= n + 1 - k
    BY <2>1, <1>1, <1>2
  <2> QED
    BY <2>2
<1> QED
  BY <1>3

\* The next quote is a quote, and there is none before it.
LEMMA NextQuoteFinds ==
    ASSUME NEW text \in Seq(Class), NEW i \in Nat, NEW close, close = NextQuote(text, i)
    PROVE  /\ close \in Nat
           /\ close = 0 => \A j \in i + 1 .. Len(text) : text[j] # "quote"
           /\ close # 0 => /\ close \in i + 1 .. Len(text)
                           /\ text[close] = "quote"
                           /\ \A j \in i + 1 .. close - 1 : text[j] # "quote"
<1> DEFINE later == {j \in i + 1 .. Len(text) : text[j] = "quote"}
<1>1. CASE later = {}
  BY <1>1 DEF NextQuote
<1>2. CASE later # {}
  <2>1. close = CHOOSE j \in later : \A k \in later : j <= k
    BY <1>2 DEF NextQuote
  <2>2. \E j \in later : \A k \in later : j <= k
    <3>1. later \subseteq 1 .. Len(text) /\ Len(text) \in Nat
      OBVIOUS
    <3> HIDE DEF later
    <3> QED
      BY <1>2, <3>1, Least
  <2>3. close \in later /\ \A k \in later : close <= k
    <3> HIDE DEF later
    <3> QED
      BY <2>1, <2>2
  <2> QED
    BY <2>3
<1> QED
  BY <1>1, <1>2

\* The text up to its trailing stars.
LEMMA WithoutStarsCuts ==
    ASSUME NEW t \in Seq(Class)
    PROVE  \E n \in 0 .. Len(t) : /\ WithoutStars(t) = SubSeq(t, 1, n)
                                  /\ \A j \in n + 1 .. Len(t) : t[j] = "star"
<1> DEFINE last == {i \in 1 .. Len(t) : t[i] # "star"}
<1>1. CASE last = {}
  <2>1. WithoutStars(t) = SubSeq(t, 1, 0)
    BY <1>1 DEF WithoutStars
  <2> QED
    BY <1>1, <2>1
<1>2. CASE last # {}
  <2> DEFINE n == CHOOSE j \in last : \A k \in last : k <= j
  <2>1. WithoutStars(t) = SubSeq(t, 1, n)
    BY <1>2 DEF WithoutStars
  <2>2. \E j \in last : \A k \in last : k <= j
    <3>1. last \subseteq 1 .. Len(t) /\ Len(t) \in Nat
      OBVIOUS
    <3> HIDE DEF last
    <3> QED
      BY <1>2, <3>1, Greatest
  <2>3. n \in last /\ \A k \in last : k <= n
    <3> HIDE DEF last
    <3> QED
      BY <2>2
  <2> HIDE DEF n
  <2> QED
    BY <2>1, <2>3
<1> QED
  BY <1>1, <1>2

----------------------------------------------------------------------------
(* Each fold of the sanitiser: what it starts with, what a step makes of it, *)
(* and what its states are.                                                  *)

\* The tokens: one at least, the last of them still growing.
Sentence == Seq(Word) \ {<<>>}

Marked == [phrases: Seq(Seq(Class)), open: Nat]

Scanned == [phrases: Seq(NoQuote), rest: Seq(Class), next: Nat]

\* What is pulled out has no quotes in it.
LEMMA ScanStepType ==
    ASSUME NEW text \in Seq(Class), NEW i \in 1 .. Len(text), NEW scan \in Scanned
    PROVE  ScanStep(text, i, scan) \in Scanned
<1> DEFINE close == NextQuote(text, i)
<1>1. /\ close \in Nat
      /\ close # 0 => /\ close \in i + 1 .. Len(text)
                      /\ text[close] = "quote"
                      /\ \A j \in i + 1 .. close - 1 : text[j] # "quote"
  <2>1. i \in Nat
    OBVIOUS
  <2> QED
    BY <2>1, NextQuoteFinds
<1>2. CASE i < scan.next
  BY <1>2 DEF ScanStep
<1>3. CASE ~(i < scan.next) /\ text[i] = "quote" /\ close > i + 1
  <2>1. SubSeq(text, i + 1, close - 1) \in NoQuote
    BY <1>1, <1>3 DEF NoQuote
  <2>2. ScanStep(text, i, scan) = [phrases |-> Append(scan.phrases, SubSeq(text, i + 1, close - 1)),
                                   rest |-> Append(scan.rest, "space"), next |-> close + 1]
    BY <1>3 DEF ScanStep
  <2> HIDE DEF close
  <2> QED
    BY <1>1, <2>1, <2>2 DEF Scanned, Class
<1>4. CASE ~(i < scan.next) /\ ~(text[i] = "quote" /\ close > i + 1)
  <2>1. ScanStep(text, i, scan) =
          [phrases |-> scan.phrases, rest |-> Append(scan.rest, text[i]), next |-> i + 1]
    BY <1>4 DEF ScanStep
  <2> QED
    BY <2>1 DEF Scanned
<1> QED
  BY <1>2, <1>3, <1>4

\* Tokens hold letters and stars only.
LEMMA TokenStepType ==
    ASSUME NEW tokens \in Sentence, NEW c \in Class
    PROVE  TokenStep(tokens, c) \in Sentence
<1> USE DEF Sentence
<1>1. CASE c = "space"
  <2>1. <<>> \in Word
    BY DEF Word
  <2> QED
    BY <1>1, <2>1 DEF TokenStep
<1>2. CASE c # "space" /\ Kept(c)
  <2>1. Append(tokens[Len(tokens)], c) \in Word
    BY <1>2 DEF Word, Kept
  <2> QED
    BY <1>2, <2>1 DEF TokenStep
<1>3. CASE c # "space" /\ ~Kept(c)
  BY <1>3 DEF TokenStep
<1> QED
  BY <1>1, <1>2, <1>3

\* A term is a quoted string, with or without a star.
LEMMA TermType ==
    ASSUME NEW t \in Word
    PROVE  Term(t) \in Piece
<1>1. \A w \in Word : Quoted(w) \in Piece /\ Quoted(w) \o <<"star">> \in Piece
  <2>1. SUFFICES ASSUME NEW w \in Word
                 PROVE  Quoted(w) \in Piece /\ Quoted(w) \o <<"star">> \in Piece
    OBVIOUS
  <2>2. w \in NoQuote
    BY DEF NoQuote, Word, Class
  <2>3. Quoted(w) \in Seq(Class) /\ Quoted(w) \o <<"star">> \in Seq(Class)
    BY DEF Quoted, Word, Class
  <2> QED
    BY <2>2, <2>3 DEF Piece
<1>2. WithoutStars(t) \in Word
  <2>1. t \in Seq(Class)
    BY DEF Word, Class
  <2>2. PICK n \in 0 .. Len(t) : WithoutStars(t) = SubSeq(t, 1, n)
    BY <2>1, WithoutStarsCuts
  <2> QED
    BY <2>2 DEF Word
<1> QED
  BY <1>1, <1>2 DEF Term

\* Terms are quoted strings, with or without a star,
LEMMA TermStepType ==
    ASSUME NEW terms \in Seq(Piece), NEW t \in Word
    PROVE  TermStep(terms, t) \in Seq(Piece)
  BY TermType DEF TermStep

\* what joins them is text again.
LEMMA JoinStepType ==
    ASSUME NEW text \in Seq(Class), NEW i \in Nat, NEW piece \in Seq(Class)
    PROVE  JoinStep(text, i, piece) \in Seq(Class)
<1>1. <<"space">> \in Seq(Class)
  BY DEF Class
<1> QED
  BY <1>1 DEF JoinStep

\* What a reader marks is text.
LEMMA BalanceStepType ==
    ASSUME NEW text \in Seq(Class), NEW i \in 1 .. Len(text),
           NEW seen \in Marked
    PROVE  BalanceStep(text, i, seen) \in Marked
<1> USE DEF Marked
<1>1. SubSeq(text, seen.open + 1, i - 1) \in Seq(Class)
  <2>1. \A k \in seen.open + 1 .. i - 1 : k \in 1 .. Len(text)
    OBVIOUS
  <2> QED
    BY <2>1
<1> QED
  BY <1>1 DEF BalanceStep, Marked

\* Scan, a character at a time.
LEMMA ScanFold ==
    ASSUME NEW text \in Seq(Class)
    PROVE  /\ Scan(text) \in [0 .. Len(text) -> Scanned]
           /\ Scan(text)[0] = [phrases |-> <<>>, rest |-> <<>>, next |-> 1]
           /\ \A i \in 1 .. Len(text) : Scan(text)[i] = ScanStep(text, i, Scan(text)[i - 1])
<1> DEFINE n == Len(text)
<1> DEFINE F(h) == [i \in 0 .. n |-> IF i = 0 THEN [phrases |-> <<>>, rest |-> <<>>, next |-> 1] ELSE ScanStep(text, i, h[i - 1])]
<1> DEFINE g == [x \in (1 .. n) \X Scanned |-> ScanStep(text, x[1], x[2])]
<1>1. n \in Nat /\ [phrases |-> <<>>, rest |-> <<>>, next |-> 1] \in Scanned
  BY DEF Scanned
<1>2. \A i \in 1 .. n : \A s \in Scanned : ScanStep(text, i, s) \in Scanned
  BY ScanStepType
<1>3. g \in [(1 .. n) \X Scanned -> Scanned]
  BY <1>2
<1>4. PICK h \in [0 .. n -> Scanned] : Folded(h, n, [phrases |-> <<>>, rest |-> <<>>, next |-> 1], g)
  <2> HIDE DEF g, n
  <2> QED
    BY <1>1, <1>3, FoldExists, Zenon
<1>5. h = F(h)
  <2>1. ASSUME NEW i \in 1 .. n PROVE h[i] = ScanStep(text, i, h[i - 1])
    <3>1. h[i - 1] \in Scanned /\ <<i, h[i - 1]>> \in (1 .. n) \X Scanned
      OBVIOUS
    <3>2. h[i] = g[<<i, h[i - 1]>>]
      <4> HIDE DEF g, n
      <4> QED
        BY <1>4 DEF Folded
    <3> QED
      BY <3>1, <3>2
  <2>2. h[0] = [phrases |-> <<>>, rest |-> <<>>, next |-> 1]
    BY <1>4 DEF Folded
  <2>3. h = [i \in 0 .. n |-> h[i]]
    OBVIOUS
  <2>4. \A i \in 0 .. n : i = 0 \/ i \in 1 .. n
    OBVIOUS
  <2> HIDE DEF n
  <2> QED
    BY <2>1, <2>2, <2>3, <2>4
<1>6. Scan(text) = F(Scan(text))
  <2>1. Scan(text) = CHOOSE f : f = F(f)
    BY DEF Scan
  <2> HIDE DEF F
  <2> QED
    BY <1>5, <2>1, Zenon
<1>7. Scan(text)[0] = [phrases |-> <<>>, rest |-> <<>>, next |-> 1]
  BY <1>1, <1>6
<1>8. \A i \in 1 .. n : Scan(text)[i] = ScanStep(text, i, Scan(text)[i - 1])
  <2>1. \A i \in 1 .. n : i \in 0 .. n /\ i # 0
    OBVIOUS
  <2> HIDE DEF n
  <2> QED
    BY <1>6, <2>1
<1>9. \A i \in 0 .. n : Scan(text)[i] \in Scanned
  <2> HIDE DEF n
  <2> QED
    BY <1>1, <1>2, <1>7, <1>8, FoldTyped
<1>10. Scan(text) = [i \in 0 .. n |-> Scan(text)[i]]
  BY <1>6
<1> QED
  BY <1>7, <1>8, <1>9, <1>10

\* Split, a character at a time.
LEMMA SplitFold ==
    ASSUME NEW text \in Seq(Class)
    PROVE  /\ Split(text) \in [0 .. Len(text) -> Sentence]
           /\ Split(text)[0] = <<<<>>>>
           /\ \A i \in 1 .. Len(text) : Split(text)[i] = TokenStep(Split(text)[i - 1], text[i])
<1> DEFINE n == Len(text)
<1> DEFINE F(h) == [i \in 0 .. n |-> IF i = 0 THEN <<<<>>>> ELSE TokenStep(h[i - 1], text[i])]
<1> DEFINE g == [x \in (1 .. n) \X Sentence |-> TokenStep(x[2], text[x[1]])]
<1>1. n \in Nat /\ <<<<>>>> \in Sentence
  BY DEF Sentence, Word
<1>2. \A i \in 1 .. n : \A s \in Sentence : TokenStep(s, text[i]) \in Sentence
  BY TokenStepType
<1>3. g \in [(1 .. n) \X Sentence -> Sentence]
  BY <1>2
<1>4. PICK h \in [0 .. n -> Sentence] : Folded(h, n, <<<<>>>>, g)
  <2> HIDE DEF g, n
  <2> QED
    BY <1>1, <1>3, FoldExists, Zenon
<1>5. h = F(h)
  <2>1. ASSUME NEW i \in 1 .. n PROVE h[i] = TokenStep(h[i - 1], text[i])
    <3>1. h[i - 1] \in Sentence /\ <<i, h[i - 1]>> \in (1 .. n) \X Sentence
      OBVIOUS
    <3>2. h[i] = g[<<i, h[i - 1]>>]
      <4> HIDE DEF g, n
      <4> QED
        BY <1>4 DEF Folded
    <3> QED
      BY <3>1, <3>2
  <2>2. h[0] = <<<<>>>>
    BY <1>4 DEF Folded
  <2>3. h = [i \in 0 .. n |-> h[i]]
    OBVIOUS
  <2>4. \A i \in 0 .. n : i = 0 \/ i \in 1 .. n
    OBVIOUS
  <2> HIDE DEF n
  <2> QED
    BY <2>1, <2>2, <2>3, <2>4
<1>6. Split(text) = F(Split(text))
  <2>1. Split(text) = CHOOSE f : f = F(f)
    BY DEF Split
  <2> HIDE DEF F
  <2> QED
    BY <1>5, <2>1, Zenon
<1>7. Split(text)[0] = <<<<>>>>
  BY <1>1, <1>6
<1>8. \A i \in 1 .. n : Split(text)[i] = TokenStep(Split(text)[i - 1], text[i])
  <2>1. \A i \in 1 .. n : i \in 0 .. n /\ i # 0
    OBVIOUS
  <2> HIDE DEF n
  <2> QED
    BY <1>6, <2>1
<1>9. \A i \in 0 .. n : Split(text)[i] \in Sentence
  <2> HIDE DEF n
  <2> QED
    BY <1>1, <1>2, <1>7, <1>8, FoldTyped
<1>10. Split(text) = [i \in 0 .. n |-> Split(text)[i]]
  BY <1>6
<1> QED
  BY <1>7, <1>8, <1>9, <1>10

\* Terms, a token at a time.
LEMMA TermsFold ==
    ASSUME NEW text \in Seq(Word)
    PROVE  /\ Terms(text) \in [0 .. Len(text) -> Seq(Piece)]
           /\ Terms(text)[0] = <<>>
           /\ \A i \in 1 .. Len(text) : Terms(text)[i] = TermStep(Terms(text)[i - 1], text[i])
<1> DEFINE n == Len(text)
<1> DEFINE F(h) == [i \in 0 .. n |-> IF i = 0 THEN <<>> ELSE TermStep(h[i - 1], text[i])]
<1> DEFINE g == [x \in (1 .. n) \X Seq(Piece) |-> TermStep(x[2], text[x[1]])]
<1>1. n \in Nat /\ <<>> \in Seq(Piece)
  OBVIOUS
<1>2. \A i \in 1 .. n : \A s \in Seq(Piece) : TermStep(s, text[i]) \in Seq(Piece)
  BY TermStepType
<1>3. g \in [(1 .. n) \X Seq(Piece) -> Seq(Piece)]
  BY <1>2
<1>4. PICK h \in [0 .. n -> Seq(Piece)] : Folded(h, n, <<>>, g)
  <2> HIDE DEF g, n
  <2> QED
    BY <1>1, <1>3, FoldExists, Zenon
<1>5. h = F(h)
  <2>1. ASSUME NEW i \in 1 .. n PROVE h[i] = TermStep(h[i - 1], text[i])
    <3>1. h[i - 1] \in Seq(Piece) /\ <<i, h[i - 1]>> \in (1 .. n) \X Seq(Piece)
      OBVIOUS
    <3>2. h[i] = g[<<i, h[i - 1]>>]
      <4> HIDE DEF g, n
      <4> QED
        BY <1>4 DEF Folded
    <3> QED
      BY <3>1, <3>2
  <2>2. h[0] = <<>>
    BY <1>4 DEF Folded
  <2>3. h = [i \in 0 .. n |-> h[i]]
    OBVIOUS
  <2>4. \A i \in 0 .. n : i = 0 \/ i \in 1 .. n
    OBVIOUS
  <2> HIDE DEF n
  <2> QED
    BY <2>1, <2>2, <2>3, <2>4
<1>6. Terms(text) = F(Terms(text))
  <2>1. Terms(text) = CHOOSE f : f = F(f)
    BY DEF Terms
  <2> HIDE DEF F
  <2> QED
    BY <1>5, <2>1, Zenon
<1>7. Terms(text)[0] = <<>>
  BY <1>1, <1>6
<1>8. \A i \in 1 .. n : Terms(text)[i] = TermStep(Terms(text)[i - 1], text[i])
  <2>1. \A i \in 1 .. n : i \in 0 .. n /\ i # 0
    OBVIOUS
  <2> HIDE DEF n
  <2> QED
    BY <1>6, <2>1
<1>9. \A i \in 0 .. n : Terms(text)[i] \in Seq(Piece)
  <2> HIDE DEF n
  <2> QED
    BY <1>1, <1>2, <1>7, <1>8, FoldTyped
<1>10. Terms(text) = [i \in 0 .. n |-> Terms(text)[i]]
  BY <1>6
<1> QED
  BY <1>7, <1>8, <1>9, <1>10

\* Join, a piece at a time.
LEMMA JoinFold ==
    ASSUME NEW text \in Seq(Piece)
    PROVE  /\ Join(text) \in [0 .. Len(text) -> Seq(Class)]
           /\ Join(text)[0] = <<>>
           /\ \A i \in 1 .. Len(text) : Join(text)[i] = JoinStep(Join(text)[i - 1], i, text[i])
<1> DEFINE n == Len(text)
<1> DEFINE F(h) == [i \in 0 .. n |-> IF i = 0 THEN <<>> ELSE JoinStep(h[i - 1], i, text[i])]
<1> DEFINE g == [x \in (1 .. n) \X Seq(Class) |-> JoinStep(x[2], x[1], text[x[1]])]
<1>1. n \in Nat /\ <<>> \in Seq(Class)
  OBVIOUS
<1>2. \A i \in 1 .. n : \A s \in Seq(Class) : JoinStep(s, i, text[i]) \in Seq(Class)
  BY JoinStepType DEF Piece
<1>3. g \in [(1 .. n) \X Seq(Class) -> Seq(Class)]
  BY <1>2
<1>4. PICK h \in [0 .. n -> Seq(Class)] : Folded(h, n, <<>>, g)
  <2> HIDE DEF g, n
  <2> QED
    BY <1>1, <1>3, FoldExists, Zenon
<1>5. h = F(h)
  <2>1. ASSUME NEW i \in 1 .. n PROVE h[i] = JoinStep(h[i - 1], i, text[i])
    <3>1. h[i - 1] \in Seq(Class) /\ <<i, h[i - 1]>> \in (1 .. n) \X Seq(Class)
      OBVIOUS
    <3>2. h[i] = g[<<i, h[i - 1]>>]
      <4> HIDE DEF g, n
      <4> QED
        BY <1>4 DEF Folded
    <3> QED
      BY <3>1, <3>2
  <2>2. h[0] = <<>>
    BY <1>4 DEF Folded
  <2>3. h = [i \in 0 .. n |-> h[i]]
    OBVIOUS
  <2>4. \A i \in 0 .. n : i = 0 \/ i \in 1 .. n
    OBVIOUS
  <2> HIDE DEF n
  <2> QED
    BY <2>1, <2>2, <2>3, <2>4
<1>6. Join(text) = F(Join(text))
  <2>1. Join(text) = CHOOSE f : f = F(f)
    BY DEF Join
  <2> HIDE DEF F
  <2> QED
    BY <1>5, <2>1, Zenon
<1>7. Join(text)[0] = <<>>
  BY <1>1, <1>6
<1>8. \A i \in 1 .. n : Join(text)[i] = JoinStep(Join(text)[i - 1], i, text[i])
  <2>1. \A i \in 1 .. n : i \in 0 .. n /\ i # 0
    OBVIOUS
  <2> HIDE DEF n
  <2> QED
    BY <1>6, <2>1
<1>9. \A i \in 0 .. n : Join(text)[i] \in Seq(Class)
  <2> HIDE DEF n
  <2> QED
    BY <1>1, <1>2, <1>7, <1>8, FoldTyped
<1>10. Join(text) = [i \in 0 .. n |-> Join(text)[i]]
  BY <1>6
<1> QED
  BY <1>7, <1>8, <1>9, <1>10

\* Balance, a character at a time.
LEMMA BalanceFold ==
    ASSUME NEW text \in Seq(Class)
    PROVE  /\ Balance(text) \in [0 .. Len(text) -> Marked]
           /\ Balance(text)[0] = [phrases |-> <<>>, open |-> 0]
           /\ \A i \in 1 .. Len(text) : Balance(text)[i] = BalanceStep(text, i, Balance(text)[i - 1])
<1> DEFINE n == Len(text)
<1> DEFINE F(h) == [i \in 0 .. n |-> IF i = 0 THEN [phrases |-> <<>>, open |-> 0] ELSE BalanceStep(text, i, h[i - 1])]
<1> DEFINE g == [x \in (1 .. n) \X Marked |-> BalanceStep(text, x[1], x[2])]
<1>1. n \in Nat /\ [phrases |-> <<>>, open |-> 0] \in Marked
  BY DEF Marked
<1>2. \A i \in 1 .. n : \A s \in Marked : BalanceStep(text, i, s) \in Marked
  BY BalanceStepType
<1>3. g \in [(1 .. n) \X Marked -> Marked]
  BY <1>2
<1>4. PICK h \in [0 .. n -> Marked] : Folded(h, n, [phrases |-> <<>>, open |-> 0], g)
  <2> HIDE DEF g, n
  <2> QED
    BY <1>1, <1>3, FoldExists, Zenon
<1>5. h = F(h)
  <2>1. ASSUME NEW i \in 1 .. n PROVE h[i] = BalanceStep(text, i, h[i - 1])
    <3>1. h[i - 1] \in Marked /\ <<i, h[i - 1]>> \in (1 .. n) \X Marked
      OBVIOUS
    <3>2. h[i] = g[<<i, h[i - 1]>>]
      <4> HIDE DEF g, n
      <4> QED
        BY <1>4 DEF Folded
    <3> QED
      BY <3>1, <3>2
  <2>2. h[0] = [phrases |-> <<>>, open |-> 0]
    BY <1>4 DEF Folded
  <2>3. h = [i \in 0 .. n |-> h[i]]
    OBVIOUS
  <2>4. \A i \in 0 .. n : i = 0 \/ i \in 1 .. n
    OBVIOUS
  <2> HIDE DEF n
  <2> QED
    BY <2>1, <2>2, <2>3, <2>4
<1>6. Balance(text) = F(Balance(text))
  <2>1. Balance(text) = CHOOSE f : f = F(f)
    BY DEF Balance
  <2> HIDE DEF F
  <2> QED
    BY <1>5, <2>1, Zenon
<1>7. Balance(text)[0] = [phrases |-> <<>>, open |-> 0]
  BY <1>1, <1>6
<1>8. \A i \in 1 .. n : Balance(text)[i] = BalanceStep(text, i, Balance(text)[i - 1])
  <2>1. \A i \in 1 .. n : i \in 0 .. n /\ i # 0
    OBVIOUS
  <2> HIDE DEF n
  <2> QED
    BY <1>6, <2>1
<1>9. \A i \in 0 .. n : Balance(text)[i] \in Marked
  <2> HIDE DEF n
  <2> QED
    BY <1>1, <1>2, <1>7, <1>8, FoldTyped
<1>10. Balance(text) = [i \in 0 .. n |-> Balance(text)[i]]
  BY <1>6
<1> QED
  BY <1>7, <1>8, <1>9, <1>10

----------------------------------------------------------------------------
(* FTS5's lexer over what the sanitiser puts together *)

LexStates == {"start", "string", "inside", "closed", "starred", "error"}

\* From state s the lexer is in state t when it has read the text.
Leads(s, text, t) ==
    \E h \in [0 .. Len(text) -> LexStates] :
        /\ h[0] = s
        /\ \A i \in 1 .. Len(text) : h[i] = LexStep(h[i - 1], text[i])
        /\ h[Len(text)] = t

\* What is read in two parts is read.
LEMMA LeadsOn ==
    ASSUME NEW a \in Seq(Class), NEW b \in Seq(Class), NEW s, NEW t, NEW u,
           Leads(s, a, t), Leads(t, b, u)
    PROVE  Leads(s, a \o b, u)
<1>1. PICK f \in [0 .. Len(a) -> LexStates] :
        /\ f[0] = s
        /\ \A i \in 1 .. Len(a) : f[i] = LexStep(f[i - 1], a[i])
        /\ f[Len(a)] = t
  BY DEF Leads
<1>2. PICK g \in [0 .. Len(b) -> LexStates] :
        /\ g[0] = t
        /\ \A i \in 1 .. Len(b) : g[i] = LexStep(g[i - 1], b[i])
        /\ g[Len(b)] = u
  BY DEF Leads
<1> DEFINE ab == a \o b
<1> DEFINE h == [i \in 0 .. Len(ab) |-> IF i <= Len(a) THEN f[i] ELSE g[i - Len(a)]]
<1>3. /\ Len(a) \in Nat /\ Len(b) \in Nat
      /\ ab \in Seq(Class) /\ Len(ab) = Len(a) + Len(b)
      /\ \A i \in 1 .. Len(a) : ab[i] = a[i]
      /\ \A i \in 1 .. Len(b) : ab[Len(a) + i] = b[i]
  OBVIOUS
<1> HIDE DEF ab
<1>4. h \in [0 .. Len(ab) -> LexStates]
  BY <1>3
<1>5. h[0] = s
  BY <1>1, <1>3
<1>6. \A i \in 0 .. Len(a) : h[i] = f[i]
  BY <1>3
<1>7. \A i \in 0 .. Len(b) : h[Len(a) + i] = g[i]
  <2>1. ASSUME NEW i \in 1 .. Len(b) PROVE h[Len(a) + i] = g[i]
    <3>1. Len(a) + i \in 0 .. Len(ab) /\ ~(Len(a) + i <= Len(a)) /\ (Len(a) + i) - Len(a) = i
      BY <1>3
    <3> QED
      BY <3>1
  <2>2. h[Len(a) + 0] = g[0]
    BY <1>1, <1>2, <1>3
  <2>3. \A i \in 0 .. Len(b) : i = 0 \/ i \in 1 .. Len(b)
    BY <1>3
  <2> HIDE DEF h
  <2> QED
    BY <2>1, <2>2, <2>3
<1> HIDE DEF h
<1>8. ASSUME NEW i \in 1 .. Len(ab) PROVE h[i] = LexStep(h[i - 1], ab[i])
  <2>1. CASE i \in 1 .. Len(a)
    <3>1. i \in 0 .. Len(a) /\ i - 1 \in 0 .. Len(a)
      BY <2>1, <1>3
    <3> QED
      BY <1>1, <1>3, <1>6, <2>1, <3>1
  <2>2. CASE i > Len(a)
    <3> DEFINE k == i - Len(a)
    <3>1. k \in 1 .. Len(b) /\ k \in 0 .. Len(b) /\ k - 1 \in 0 .. Len(b)
      BY <2>2, <1>3
    <3>2. i = Len(a) + k /\ i - 1 = Len(a) + (k - 1)
      BY <2>2, <1>3
    <3> HIDE DEF k
    <3> QED
      BY <1>2, <1>3, <1>7, <3>1, <3>2
  <2> QED
    BY <1>3, <2>1, <2>2
<1>9. h[Len(ab)] = u
  <2>1. Len(b) \in 0 .. Len(b)
    BY <1>3
  <2> QED
    BY <1>2, <1>3, <1>7, <2>1
<1>10. Leads(s, ab, u)
  BY <1>4, <1>5, <1>8, <1>9 DEF Leads
<1> QED
  BY <1>10 DEF ab

\* The lexer is where the text leads.
LEMMA LexLeads ==
    ASSUME NEW text \in Seq(Class), NEW t, Leads("start", text, t)
    PROVE  Lex(text)[Len(text)] = t
<1> DEFINE n == Len(text)
<1> DEFINE F(h) == [i \in 0 .. n |-> IF i = 0 THEN "start" ELSE LexStep(h[i - 1], text[i])]
<1>1. n \in Nat
  OBVIOUS
<1>2. PICK h \in [0 .. n -> LexStates] :
        /\ h[0] = "start"
        /\ \A i \in 1 .. n : h[i] = LexStep(h[i - 1], text[i])
        /\ h[n] = t
  BY DEF Leads
<1>3. h = F(h)
  <2>1. h = [i \in 0 .. n |-> h[i]]
    OBVIOUS
  <2>2. \A i \in 0 .. n : i = 0 \/ i \in 1 .. n
    OBVIOUS
  <2> HIDE DEF n
  <2> QED
    BY <1>2, <2>1, <2>2
<1>4. Lex(text) = F(Lex(text))
  <2>1. Lex(text) = CHOOSE f : f = F(f)
    BY DEF Lex
  <2> HIDE DEF F
  <2> QED
    BY <1>3, <2>1, Zenon
<1>5. Lex(text)[0] = "start"
  BY <1>1, <1>4
<1>6. \A i \in 1 .. n : Lex(text)[i] = LexStep(Lex(text)[i - 1], text[i])
  <2>1. \A i \in 1 .. n : i \in 0 .. n /\ i # 0
    OBVIOUS
  <2> HIDE DEF n
  <2> QED
    BY <1>4, <2>1
<1> DEFINE S == {i \in 0 .. n : Lex(text)[i] = h[i]}
<1>7. 0 \in S
  BY <1>1, <1>2, <1>5
<1>8. ASSUME NEW i \in 0 .. n, i \in S, i < n PROVE i + 1 \in S
  <2>1. i + 1 \in 1 .. n /\ i + 1 \in 0 .. n /\ (i + 1) - 1 = i
    BY <1>1, <1>8
  <2> HIDE DEF n
  <2> QED
    BY <1>2, <1>6, <1>8, <2>1
<1>9. n \in S
  <2>1. n \in 0 .. n
    BY <1>1
  <2> HIDE DEF S, n
  <2> QED
    BY <1>1, <1>7, <1>8, <2>1, Upto
<1> QED
  BY <1>2, <1>9

\* How the lexer takes a quote that opens or closes a string, and what is inside one.
LEMMA StringSteps ==
    /\ LexStep("inside", "quote") = "closed"
    /\ \A c \in Class \ {"quote"} : LexStep("inside", c) = "inside"
    /\ \A s \in {"start", "string", "starred"} : LexStep(s, "quote") = "inside"
  BY DEF LexStep, Between

\* A quoted string without a quote in it is read as a string.
LEMMA QuotedLeads ==
    ASSUME NEW t \in NoQuote, NEW s \in {"start", "string", "starred"}
    PROVE  Quoted(t) \in Seq(Class) /\ Leads(s, Quoted(t), "closed")
<1> DEFINE q == Quoted(t)
<1> DEFINE h == [i \in 0 .. Len(q) |-> IF i = 0 THEN s
                                       ELSE IF i <= Len(t) + 1 THEN "inside" ELSE "closed"]
<1>1. /\ t \in Seq(Class) /\ Len(t) \in Nat
      /\ \A i \in 1 .. Len(t) : t[i] # "quote"
  BY DEF NoQuote
<1>2. /\ q \in Seq(Class)
      /\ Len(q) = Len(t) + 2
      /\ q[1] = "quote"
      /\ \A i \in 2 .. Len(t) + 1 : q[i] = t[i - 1]
      /\ q[Len(t) + 2] = "quote"
  <2>1. <<"quote">> \in Seq(Class)
    BY DEF Class
  <2> QED
    BY <1>1, <2>1 DEF Quoted
<1> HIDE DEF q
<1>3. h \in [0 .. Len(q) -> LexStates]
  BY DEF LexStates
<1>4. ASSUME NEW i \in 1 .. Len(q) PROVE h[i] = LexStep(h[i - 1], q[i])
  <2>1. CASE i = 1
    <3>1. h[i] = "inside" /\ h[i - 1] = s
      BY <1>1, <1>2, <2>1
    <3> HIDE DEF h
    <3> QED
      BY <1>2, <2>1, <3>1, StringSteps
  <2>2. CASE i \in 2 .. Len(t) + 1
    <3>1. q[i] \in Class \ {"quote"}
      BY <1>1, <1>2, <2>2
    <3>2. h[i] = "inside" /\ h[i - 1] = "inside"
      BY <1>1, <1>2, <2>2
    <3> HIDE DEF h
    <3> QED
      BY <3>1, <3>2, StringSteps
  <2>3. CASE i = Len(t) + 2
    <3>1. h[i] = "closed" /\ h[i - 1] = "inside"
      BY <1>1, <1>2, <2>3
    <3> HIDE DEF h
    <3> QED
      BY <1>2, <2>3, <3>1, StringSteps
  <2> QED
    <3> HIDE DEF h
    <3> QED
      BY <1>1, <1>2, <2>1, <2>2, <2>3
<1>5. h[0] = s /\ h[Len(q)] = "closed"
  BY <1>1, <1>2
<1>6. Leads(s, q, "closed")
  <2> HIDE DEF h
  <2> QED
    BY <1>3, <1>4, <1>5 DEF Leads
<1> QED
  BY <1>2, <1>6 DEF q

\* One character.
LEMMA OneLeads ==
    ASSUME NEW c \in Class, NEW s \in LexStates
    PROVE  <<c>> \in Seq(Class) /\ Leads(s, <<c>>, LexStep(s, c))
<1> DEFINE h == [i \in 0 .. 1 |-> IF i = 0 THEN s ELSE LexStep(s, c)]
<1>1. LexStep(s, c) \in LexStates
  BY DEF LexStep, LexStates, Between
<1>2. h \in [0 .. 1 -> LexStates] /\ h[0] = s /\ h[1] = LexStep(s, c)
  BY <1>1
<1>3. <<c>> \in Seq(Class) /\ Len(<<c>>) = 1 /\ <<c>>[1] = c
  OBVIOUS
<1>4. \A i \in 1 .. 1 : i = 1 /\ i - 1 = 0
  OBVIOUS
<1> HIDE DEF h
<1> QED
  BY <1>2, <1>3, <1>4 DEF Leads

\* A piece, where the lexer expects one, is read as a string with at most one star.
LEMMA PieceLeads ==
    ASSUME NEW p \in Piece, NEW s \in {"start", "string", "starred"}
    PROVE  \E u \in {"closed", "starred"} : Leads(s, p, u)
<1>1. PICK t \in NoQuote : p = Quoted(t) \/ p = Quoted(t) \o <<"star">>
  BY DEF Piece
<1>2. CASE p = Quoted(t)
  BY <1>2, QuotedLeads
<1>3. CASE p = Quoted(t) \o <<"star">>
  <2>1. Quoted(t) \in Seq(Class) /\ Leads(s, Quoted(t), "closed")
    BY QuotedLeads
  <2>2. LexStep("closed", "star") = "starred"
    BY DEF LexStep, Between
  <2>3. <<"star">> \in Seq(Class) /\ Leads("closed", <<"star">>, "starred")
    <3>1. "star" \in Class /\ "closed" \in LexStates
      BY DEF Class, LexStates
    <3> QED
      BY <2>2, <3>1, OneLeads
  <2>4. Leads(s, p, "starred")
    BY <1>3, <2>1, <2>3, LeadsOn
  <2> QED
    BY <2>4
<1> QED
  BY <1>1, <1>2, <1>3

----------------------------------------------------------------------------
(* Every text becomes a valid expression *)

\* What the sanitiser works with on the way, and what it joins.
LEMMA PiecesOnly ==
    ASSUME NEW text \in Seq(Class)
    PROVE  /\ Phrases(text) \in Seq(NoQuote)
           /\ Pull(text).rest \in Seq(Class)
           /\ Tokens(Pull(text).rest) \in Seq(Word)
           /\ [i \in DOMAIN Phrases(text) |-> Quoted(Phrases(text)[i])] \in Seq(Piece)
           /\ All(text) \in Seq(Piece)
<1> DEFINE rest == Pull(text).rest
<1> DEFINE tokens == Tokens(rest)
<1> DEFINE phrases == Phrases(text)
<1> DEFINE quoted == [i \in DOMAIN phrases |-> Quoted(phrases[i])]
<1>1. \A t \in Seq(Class) : Len(t) \in 0 .. Len(t)
  OBVIOUS
<1>2. Pull(text) \in Scanned
  BY <1>1, ScanFold DEF Pull
<1>3. phrases \in Seq(NoQuote) /\ rest \in Seq(Class)
  BY <1>2 DEF Scanned, Phrases
<1>4. tokens \in Seq(Word)
  <2>1. Split(rest) \in [0 .. Len(rest) -> Sentence]
    BY <1>3, SplitFold
  <2>2. Split(rest)[Len(rest)] \in Sentence
    BY <1>1, <1>3, <2>1
  <2> QED
    BY <2>2 DEF Tokens, Sentence
<1>5. Terms(tokens)[Len(tokens)] \in Seq(Piece)
  <2>1. Terms(tokens) \in [0 .. Len(tokens) -> Seq(Piece)]
    BY <1>4, TermsFold
  <2>2. Len(tokens) \in 0 .. Len(tokens)
    BY <1>4
  <2> QED
    BY <2>1, <2>2
<1>6. quoted \in Seq(Piece)
  <2>1. ASSUME NEW t \in NoQuote PROVE Quoted(t) \in Piece
    BY QuotedLeads DEF Piece
  <2>2. DOMAIN phrases = 1 .. Len(phrases) /\ Len(phrases) \in Nat
    BY <1>3
  <2>3. \A i \in 1 .. Len(phrases) : quoted[i] \in Piece
    BY <1>3, <2>1, <2>2
  <2>4. quoted \in [1 .. Len(phrases) -> Piece]
    BY <2>2, <2>3
  <2> HIDE DEF quoted
  <2> QED
    BY <2>2, <2>4
<1>7. All(text) = quoted \o Terms(tokens)[Len(tokens)]
  BY DEF All
<1> HIDE DEF quoted, tokens, rest, phrases
<1>8. All(text) \in Seq(Piece)
  BY <1>5, <1>6, <1>7
<1> QED
  BY <1>3, <1>4, <1>6, <1>8 DEF quoted, tokens, rest, phrases

\* Pieces with spaces between them are read as a list of strings.
LEMMA JoinLeads ==
    ASSUME NEW pieces \in Seq(Piece)
    PROVE  \A i \in 1 .. Len(pieces) :
               \E u \in {"closed", "starred"} : Leads("start", Join(pieces)[i], u)
<1> DEFINE n == Len(pieces)
<1> DEFINE Good(i) == \E u \in {"closed", "starred"} : Leads("start", Join(pieces)[i], u)
<1> DEFINE S == {i \in 0 .. n : i = 0 \/ Good(i)}
<1>1. n \in Nat /\ Join(pieces) \in [0 .. n -> Seq(Class)]
  BY JoinFold
<1>2. \A i \in 1 .. n : pieces[i] \in Piece /\ pieces[i] \in Seq(Class)
  <2>1. \A i \in 1 .. n : pieces[i] \in Piece
    OBVIOUS
  <2>2. Piece \subseteq Seq(Class)
    BY DEF Piece
  <2> QED
    BY <2>1, <2>2
<1>3. \A i \in 1 .. n : Join(pieces)[i] = JoinStep(Join(pieces)[i - 1], i, pieces[i])
  BY JoinFold
<1>4. 0 \in S
  BY <1>1
<1>5. ASSUME NEW i \in 0 .. n, i \in S, i < n PROVE i + 1 \in S
  <2>1. i + 1 \in 1 .. n /\ i + 1 \in 0 .. n /\ (i + 1) - 1 = i
    BY <1>1, <1>5
  <2>2. CASE i = 0
    <3>1. Join(pieces)[1] = pieces[1]
      BY <1>3, <2>1, <2>2 DEF JoinStep
    <3>2. Good(1)
      BY <1>2, <2>1, <2>2, <3>1, PieceLeads
    <3> QED
      BY <2>1, <2>2, <3>2
  <2>3. CASE i # 0
    <3> DEFINE before == Join(pieces)[i]
    <3>1. before \in Seq(Class) /\ pieces[i + 1] \in Piece /\ pieces[i + 1] \in Seq(Class)
      BY <1>1, <1>2, <2>1
    <3>2. Join(pieces)[i + 1] = before \o <<"space">> \o pieces[i + 1]
      <4>1. i + 1 # 1
        BY <2>3
      <4> HIDE DEF n
      <4> QED
        BY <1>3, <2>1, <4>1 DEF JoinStep
    <3>3. PICK u \in {"closed", "starred"} : Leads("start", before, u)
      BY <1>5, <2>3
    <3> HIDE DEF before
    <3>4. <<"space">> \in Seq(Class) /\ Leads(u, <<"space">>, LexStep(u, "space"))
      <4>1. "space" \in Class /\ u \in LexStates
        BY DEF Class, LexStates
      <4> QED
        BY <4>1, OneLeads
    <3>5. LexStep(u, "space") \in {"string", "starred"}
      BY DEF LexStep, Between
    <3>6. PICK v \in {"closed", "starred"} : Leads(LexStep(u, "space"), pieces[i + 1], v)
      BY <3>1, <3>5, PieceLeads
    <3>7. Leads("start", before \o <<"space">>, LexStep(u, "space"))
      BY <3>1, <3>3, <3>4, LeadsOn
    <3>8. before \o <<"space">> \in Seq(Class)
      BY <3>1, <3>4
    <3>9. Leads("start", before \o <<"space">> \o pieces[i + 1], v)
      BY <3>1, <3>6, <3>7, <3>8, LeadsOn
    <3>10. Good(i + 1)
      BY <3>2, <3>9
    <3> HIDE DEF Good
    <3> QED
      BY <2>1, <3>10
  <2> QED
    BY <2>2, <2>3
<1>6. \A i \in 0 .. n : i \in S
  <2> HIDE DEF S, n
  <2> QED
    BY <1>1, <1>4, <1>5, Upto
<1>7. \A i \in 1 .. n : i \in 0 .. n /\ i # 0
  BY <1>1
<1>8. \A i \in 1 .. n : Good(i)
  <2> HIDE DEF n, Good
  <2> QED
    BY <1>6, <1>7
<1> QED
  BY <1>8

\* Every text of characters, of whatever length, is made a valid expression.
LEMMA SanitisedValid ==
    ASSUME NEW text \in Seq(Class)
    PROVE  ValidMatch(Sanitised(text))
<1> DEFINE all == All(text)
<1>1. all \in Seq(Piece)
  BY PiecesOnly
<1>2. SUFFICES Sanitised(text) \in Seq(Class)
               /\ \E u \in {"closed", "starred"} : Leads("start", Sanitised(text), u)
  BY LexLeads DEF ValidMatch
<1>3. CASE all = <<>>
  <2>1. Sanitised(text) = Quoted(<<>>)
    BY <1>3 DEF Sanitised
  <2>2. <<>> \in NoQuote
    BY DEF NoQuote
  <2> QED
    BY <2>1, <2>2, QuotedLeads
<1>4. CASE all # <<>>
  <2>1. Sanitised(text) = Join(all)[Len(all)]
    BY <1>4 DEF Sanitised
  <2> HIDE DEF all
  <2>2. Len(all) \in 1 .. Len(all) /\ Len(all) \in 0 .. Len(all)
    BY <1>1, <1>4
  <2>3. Join(all)[Len(all)] \in Seq(Class)
    BY <1>1, <2>2, JoinFold
  <2> QED
    BY <1>1, <2>1, <2>2, <2>3, JoinLeads
<1> QED
  BY <1>3, <1>4

\* What is typed is a text of characters.
THEOREM TextTyped == QuerySpec => [](raw \in Seq(Class))
<1>1. QueryInit => raw \in Seq(Class)
  BY DEF QueryInit
<1>2. raw \in Seq(Class) /\ [QueryNext]_raw => (raw \in Seq(Class))'
  BY DEF QueryNext, Type
<1> QED
  BY <1>1, <1>2, PTL DEF QuerySpec

\* Whatever is typed, however long, the expression the engine is given is a list of
\* quoted strings: sanitiseQuery leaves no operator, no stray quote and no error
\* (fts.ts:43-50, fts.ts:75-77).
THEOREM AlwaysValid == QuerySpec => []QueryValid
<1>1. raw \in Seq(Class) => QueryValid
  BY SanitisedValid DEF QueryValid
<1> QED
  BY <1>1, TextTyped, PTL

----------------------------------------------------------------------------
(* Balanced phrases survive *)

\* A quote opens a phrase for a reader,
LEMMA ReaderOpens ==
    ASSUME NEW text \in Seq(Class), NEW i \in Nat, NEW seen \in Marked,
           text[i] = "quote", seen.open = 0
    PROVE  /\ BalanceStep(text, i, seen).open = i
           /\ BalanceStep(text, i, seen).phrases = seen.phrases
<1>1. BalanceStep(text, i, seen) = [seen EXCEPT !.open = i]
  BY DEF BalanceStep
<1> QED
  BY <1>1 DEF Marked

\* the next one closes it.
LEMMA ReaderCloses ==
    ASSUME NEW text \in Seq(Class), NEW i \in Nat, NEW seen \in Marked,
           text[i] = "quote", seen.open # 0
    PROVE  /\ BalanceStep(text, i, seen).open = 0
           /\ BalanceStep(text, i, seen).phrases =
                  Append(seen.phrases, SubSeq(text, seen.open + 1, i - 1))
<1> DEFINE new == Append(seen.phrases, SubSeq(text, seen.open + 1, i - 1))
<1>1. BalanceStep(text, i, seen) = [phrases |-> new, open |-> 0]
  BY DEF BalanceStep
<1> HIDE DEF new
<1>2. BalanceStep(text, i, seen).open = 0 /\ BalanceStep(text, i, seen).phrases = new
  BY <1>1
<1> QED
  BY <1>2 DEF new

\* What the scan makes of a character.
LEMMA ScanSteps ==
    ASSUME NEW text, NEW i \in Nat, NEW scan \in Scanned, scan.next <= i
    PROVE  /\ text[i] = "quote" /\ NextQuote(text, i) > i + 1 =>
                  /\ ScanStep(text, i, scan).phrases =
                         Append(scan.phrases, SubSeq(text, i + 1, NextQuote(text, i) - 1))
                  /\ ScanStep(text, i, scan).rest = Append(scan.rest, "space")
                  /\ ScanStep(text, i, scan).next = NextQuote(text, i) + 1
           /\ ~(text[i] = "quote" /\ NextQuote(text, i) > i + 1) =>
                  /\ ScanStep(text, i, scan).phrases = scan.phrases
                  /\ ScanStep(text, i, scan).rest = Append(scan.rest, text[i])
                  /\ ScanStep(text, i, scan).next = i + 1
<1> DEFINE close == NextQuote(text, i)
<1> DEFINE found == Append(scan.phrases, SubSeq(text, i + 1, close - 1))
<1> DEFINE spaced == Append(scan.rest, "space")
<1> DEFINE kept == Append(scan.rest, text[i])
<1>1. ~(i < scan.next)
  BY DEF Scanned
<1>2. text[i] = "quote" /\ close > i + 1 =>
          ScanStep(text, i, scan) = [phrases |-> found, rest |-> spaced, next |-> close + 1]
  BY <1>1 DEF ScanStep
<1>3. ~(text[i] = "quote" /\ close > i + 1) =>
          ScanStep(text, i, scan) = [phrases |-> scan.phrases, rest |-> kept, next |-> i + 1]
  BY <1>1 DEF ScanStep
<1> HIDE DEF found, spaced, kept, close
<1>4. text[i] = "quote" /\ close > i + 1 =>
          /\ ScanStep(text, i, scan).phrases = found
          /\ ScanStep(text, i, scan).rest = spaced
          /\ ScanStep(text, i, scan).next = close + 1
  BY <1>2
<1>5. ~(text[i] = "quote" /\ close > i + 1) =>
          /\ ScanStep(text, i, scan).phrases = scan.phrases
          /\ ScanStep(text, i, scan).rest = kept
          /\ ScanStep(text, i, scan).next = i + 1
  BY <1>3
<1> QED
  BY <1>4, <1>5 DEF found, spaced, kept, close

\* A reader never takes a phrase back: none was empty if none is in the end.
LEMMA NeverEmpty ==
    ASSUME NEW text \in Seq(Class),
           \A k \in DOMAIN Balanced(text) : Balanced(text)[k] # <<>>
    PROVE  \A i \in 0 .. Len(text) :
               \A k \in DOMAIN Balance(text)[i].phrases : Balance(text)[i].phrases[k] # <<>>
<1> DEFINE n == Len(text)
<1> DEFINE b == Balance(text)
<1> DEFINE Full(i) == \A k \in DOMAIN b[i].phrases : b[i].phrases[k] # <<>>
<1> DEFINE S == {i \in 0 .. n : Full(n - i)}
<1>1. /\ n \in Nat
      /\ b \in [0 .. n -> Marked]
      /\ \A i \in 1 .. n : b[i] = BalanceStep(text, i, b[i - 1])
  BY BalanceFold
<1>2. 0 \in S
  <2>1. Full(n)
    BY DEF Balanced
  <2>2. n - 0 = n
    BY <1>1
  <2> HIDE DEF Full, n
  <2> QED
    BY <1>1, <2>1, <2>2
<1> HIDE DEF b, n
<1>3. ASSUME NEW i \in 0 .. n, i \in S, i < n PROVE i + 1 \in S
  <2> DEFINE j == n - i
  <2>1. /\ j \in 1 .. n /\ j - 1 \in 0 .. n /\ j - 1 = n - (i + 1)
        /\ i + 1 \in 0 .. n
    BY <1>1, <1>3
  <2>2. Full(j)
    BY <1>3
  <2> HIDE DEF j
  <2>3. b[j] = BalanceStep(text, j, b[j - 1]) /\ b[j - 1].phrases \in Seq(Seq(Class))
    BY <1>1, <2>1 DEF Marked
  <2>4. \/ b[j].phrases = b[j - 1].phrases
        \/ \E p : b[j].phrases = Append(b[j - 1].phrases, p)
    <3> b[j - 1] \in Marked
      BY <1>1, <2>1
    <3> QED
      <4>1. CASE text[j] = "quote"
        <5>1. j \in Nat
          BY <1>1, <2>1
        <5>2. CASE b[j - 1].open = 0
          <6>1. BalanceStep(text, j, b[j - 1]).phrases = b[j - 1].phrases
            BY <4>1, <5>1, <5>2, ReaderOpens
          <6> QED
            BY <2>3, <6>1, Zenon
        <5>3. CASE b[j - 1].open # 0
          BY <2>3, <4>1, <5>1, <5>3, ReaderCloses, Zenon
        <5> QED
          BY <5>2, <5>3
      <4>2. CASE text[j] # "quote"
        BY <2>3, <4>2 DEF BalanceStep
      <4> QED
        BY <4>1, <4>2
  <2>5. Full(j - 1)
    <3>1. ASSUME NEW p, b[j].phrases = Append(b[j - 1].phrases, p),
                 NEW k \in DOMAIN b[j - 1].phrases
          PROVE  b[j - 1].phrases[k] # <<>>
      <4>1. k \in DOMAIN b[j].phrases /\ b[j].phrases[k] = b[j - 1].phrases[k]
        BY <2>3, <3>1
      <4> QED
        BY <2>2, <4>1
    <3> QED
      BY <2>2, <2>4, <3>1
  <2> HIDE DEF Full
  <2> QED
    BY <2>1, <2>5
<1>4. \A i \in 0 .. n : i \in S
  <2> HIDE DEF S
  <2> QED
    BY <1>1, <1>2, <1>3, Upto
<1>5. ASSUME NEW i \in 0 .. n PROVE Full(i)
  <2>1. n - i \in 0 .. n /\ n - (n - i) = i
    BY <1>1
  <2>2. Full(n - (n - i))
    BY <1>4, <2>1
  <2> HIDE DEF Full
  <2> QED
    BY <2>1, <2>2
<1> QED
  BY <1>5 DEF b, n

\* Where the scan and the reader, each in its state after the same character, agree:
\* outside a phrase, in one (the scan has pulled it out already, and goes on behind its
\* closing quote), or behind a quote that is never closed.
Agree(text, i, s, b) ==
    \/ s.next = i + 1 /\ b.open = 0 /\ s.phrases = b.phrases
    \/ \E c \in i + 1 .. Len(text) :
           /\ b.open \in 1 .. i
           /\ text[c] = "quote"
           /\ \A k \in i + 1 .. c - 1 : text[k] # "quote"
           /\ s.next = c + 1
           /\ s.phrases = Append(b.phrases, SubSeq(text, b.open + 1, c - 1))
    \/ /\ b.open \in 1 .. i
       /\ \A k \in i + 1 .. Len(text) : text[k] # "quote"
       /\ s.next = i + 1
       /\ s.phrases = b.phrases

\* A character on, they still do, unless it is the second of two quotes in a row.
LEMMA AgreeOn ==
    ASSUME NEW text \in Seq(Class), NEW i \in 1 .. Len(text),
           NEW s \in Scanned, NEW b \in Marked, Agree(text, i - 1, s, b),
           b.open = 0 /\ text[i] = "quote" => NextQuote(text, i) # i + 1
    PROVE  Agree(text, i, ScanStep(text, i, s), BalanceStep(text, i, b))
<1> DEFINE u == ScanStep(text, i, s)
<1> DEFINE v == BalanceStep(text, i, b)
<1>1. i \in Nat /\ i >= 1 /\ i <= Len(text) /\ Len(text) \in Nat /\ (i - 1) + 1 = i
  OBVIOUS
<1>2. CASE s.next = i /\ b.open = 0 /\ s.phrases = b.phrases
  <2>1. CASE text[i] # "quote"
    <3>1. u.next = i + 1 /\ u.phrases = s.phrases
      BY <1>1, <1>2, <2>1 DEF ScanStep
    <3>2. v = b
      BY <2>1 DEF BalanceStep
    <3> HIDE DEF u, v
    <3> QED
      BY <1>2, <3>1, <3>2 DEF Agree, u, v
  <2>2. CASE text[i] = "quote"
    <3> DEFINE c == NextQuote(text, i)
    <3>1. /\ c \in Nat /\ c # i + 1
          /\ c = 0 => \A k \in i + 1 .. Len(text) : text[k] # "quote"
          /\ c # 0 => /\ c \in i + 1 .. Len(text)
                      /\ text[c] = "quote"
                      /\ \A k \in i + 1 .. c - 1 : text[k] # "quote"
      BY <1>1, <1>2, <2>2, NextQuoteFinds
    <3>2. v = [phrases |-> b.phrases, open |-> i]
      BY <1>2, <2>2 DEF BalanceStep, Marked
    <3>3. v.open \in 1 .. i /\ v.open = i /\ v.phrases = b.phrases
      BY <1>1, <3>2
    <3>4. CASE c = 0
      <4>1. u.next = i + 1 /\ u.phrases = s.phrases
        BY <1>1, <1>2, <3>4 DEF ScanStep
      <4> HIDE DEF u, v, c
      <4> QED
        BY <1>2, <3>1, <3>3, <3>4, <4>1 DEF Agree, u, v
    <3>5. CASE c # 0
      <4>1. c > i + 1
        BY <1>1, <3>1, <3>5
      <4>2. u.next = c + 1 /\ u.phrases = Append(s.phrases, SubSeq(text, i + 1, c - 1))
        <5>1. /\ i \in Nat /\ s.next <= i
              /\ text[i] = "quote" /\ NextQuote(text, i) > i + 1
          BY <1>1, <1>2, <2>2, <4>1
        <5>2. s.phrases = b.phrases
          BY <1>2
        <5> QED
          BY <5>1, <5>2, ScanSteps, Zenon
      <4> HIDE DEF u, v, c
      <4> QED
        BY <1>2, <3>1, <3>3, <3>5, <4>2 DEF Agree, u, v
    <3> QED
      BY <3>4, <3>5
  <2> QED
    BY <2>1, <2>2
<1>3. ASSUME NEW c \in i .. Len(text),
             b.open \in 1 .. i - 1, text[c] = "quote",
             \A k \in i .. c - 1 : text[k] # "quote",
             s.next = c + 1,
             s.phrases = Append(b.phrases, SubSeq(text, b.open + 1, c - 1))
      PROVE  Agree(text, i, u, v)
  <2>1. u = s
    BY <1>1, <1>3 DEF ScanStep
  <2>2. CASE c = i
    <3>1. v.open = 0 /\ v.phrases = Append(b.phrases, SubSeq(text, b.open + 1, i - 1))
      <4>1. b.open # 0
        BY <1>3
      <4>2. text[i] = "quote"
        BY <1>3, <2>2
      <4> QED
        BY <1>1, <4>1, <4>2, ReaderCloses, Zenon
    <3> HIDE DEF u, v
    <3>2. v.phrases = s.phrases /\ v.open = 0 /\ u.next = i + 1
      BY <1>3, <2>1, <2>2, <3>1
    <3> HIDE DEF u, v
    <3> QED
      BY <2>1, <3>2 DEF Agree, u, v
  <2>3. CASE c > i
    <3>1. text[i] # "quote"
      BY <1>1, <1>3, <2>3
    <3>2. v = b
      BY <3>1 DEF BalanceStep
    <3>3. /\ c \in i + 1 .. Len(text) /\ b.open \in 1 .. i
          /\ \A k \in i + 1 .. c - 1 : text[k] # "quote"
      BY <1>1, <1>3, <2>3
    <3> HIDE DEF u, v
    <3> QED
      BY <1>3, <2>1, <3>2, <3>3 DEF Agree, u, v
  <2> QED
    BY <1>1, <2>2, <2>3
<1>4. CASE /\ b.open \in 1 .. i - 1
           /\ \A k \in i .. Len(text) : text[k] # "quote"
           /\ s.next = i
           /\ s.phrases = b.phrases
  <2>1. text[i] # "quote"
    BY <1>1, <1>4
  <2>2. u.next = i + 1 /\ u.phrases = s.phrases
    BY <1>1, <1>4, <2>1 DEF ScanStep
  <2>3. v = b
    BY <2>1 DEF BalanceStep
  <2>4. b.open \in 1 .. i /\ \A k \in i + 1 .. Len(text) : text[k] # "quote"
    BY <1>1, <1>4
  <2> HIDE DEF u, v
  <2> QED
    BY <1>4, <2>2, <2>3, <2>4 DEF Agree, u, v
<1> HIDE DEF u, v
<1> QED
  BY <1>1, <1>2, <1>3, <1>4 DEF Agree, u, v

\* Where no two quotes in a row open and close a phrase, the scan finds what a reader does.
LEMMA PhrasesFound ==
    ASSUME NEW text \in Seq(Class),
           \A k \in DOMAIN Balanced(text) : Balanced(text)[k] # <<>>
    PROVE  Phrases(text) = Balanced(text)
<1> DEFINE n == Len(text)
<1> DEFINE s == Scan(text)
<1> DEFINE b == Balance(text)
<1> DEFINE S == {i \in 0 .. n : Agree(text, i, s[i], b[i])}
<1>1. /\ n \in Nat
      /\ s \in [0 .. n -> Scanned]
      /\ s[0] = [phrases |-> <<>>, rest |-> <<>>, next |-> 1]
      /\ \A i \in 1 .. n : s[i] = ScanStep(text, i, s[i - 1])
  BY ScanFold
<1>2. /\ b \in [0 .. n -> Marked]
      /\ b[0] = [phrases |-> <<>>, open |-> 0]
      /\ \A i \in 1 .. n : b[i] = BalanceStep(text, i, b[i - 1])
  BY BalanceFold
<1>3. 0 \in S
  BY <1>1, <1>2 DEF Agree
<1> HIDE DEF s, b
<1>4. ASSUME NEW i \in 0 .. n, i \in S, i < n PROVE i + 1 \in S
  <2> DEFINE j == i + 1
  <2>1. j \in 1 .. n /\ j \in 0 .. n /\ j - 1 = i /\ j \in Nat
    BY <1>1, <1>4
  <2>2. /\ s[i] \in Scanned /\ b[i] \in Marked
        /\ s[j] = ScanStep(text, j, s[i]) /\ b[j] = BalanceStep(text, j, b[i])
    <3> HIDE DEF n, j
    <3> QED
      BY <1>1, <1>2, <1>4, <2>1
  <2>3. ASSUME b[i].open = 0, text[j] = "quote" PROVE NextQuote(text, j) # j + 1
    <3>1. SUFFICES ASSUME NextQuote(text, j) = j + 1 PROVE FALSE
      OBVIOUS
    <3> HIDE DEF j
    <3>2. j + 1 \in 1 .. n /\ j + 1 \in 0 .. n /\ text[j + 1] = "quote" /\ (j + 1) - 1 = j
      BY <1>1, <2>1, <3>1, NextQuoteFinds
    <3>3. b[j].open = j /\ b[j].phrases = b[i].phrases /\ b[j].phrases \in Seq(Seq(Class))
      BY <2>2, <2>3 DEF BalanceStep, Marked
    <3>4. b[j + 1] = BalanceStep(text, j + 1, b[j])
      <4> HIDE DEF n
      <4> QED
        BY <1>2, <3>2
    <3>5. b[j + 1].phrases = Append(b[j].phrases, SubSeq(text, j + 1, j))
      <4>1. b[j].open # 0 /\ b[j] \in Marked
        <5> HIDE DEF n
        <5> QED
          BY <1>2, <2>1, <3>3
      <4>2. b[j + 1].phrases = Append(b[j].phrases, SubSeq(text, b[j].open + 1, (j + 1) - 1))
        <5>1. j + 1 \in Nat
          BY <2>1
        <5> QED
          BY <3>2, <3>4, <4>1, <5>1, ReaderCloses, Zenon
      <4> QED
        BY <3>2, <3>3, <4>2
    <3>6. SubSeq(text, j + 1, j) = <<>>
      BY <2>1
    <3>7. /\ Len(b[j].phrases) + 1 \in DOMAIN b[j + 1].phrases
          /\ b[j + 1].phrases[Len(b[j].phrases) + 1] = <<>>
      BY <3>3, <3>5, <3>6
    <3> QED
      BY <3>2, <3>7, NeverEmpty DEF b
  <2>4. Agree(text, j - 1, s[i], b[i])
    BY <1>4, <2>1
  <2>5. Agree(text, j, s[j], b[j])
    <3> HIDE DEF j
    <3> QED
      BY <2>1, <2>2, <2>3, <2>4, AgreeOn
  <2> QED
    BY <2>1, <2>5
<1>5. n \in S
  <2>1. n \in 0 .. n
    BY <1>1
  <2> HIDE DEF S, n
  <2> QED
    BY <1>1, <1>3, <1>4, <2>1, Upto
<1>6. s[n].phrases = b[n].phrases
  BY <1>1, <1>5 DEF Agree
<1> QED
  BY <1>6 DEF Phrases, Pull, Balanced, s, b

\* Balanced quoted phrases survive as phrases, in texts of every length: what
\* sanitiseQuery pulls out is what a reader takes for phrases, wherever a reader
\* finds no empty one (fts.ts:53).
THEOREM AlwaysSurvive == QuerySpec => []PhrasesSurvive
<1>1. raw \in Seq(Class) => PhrasesSurvive
  BY PhrasesFound DEF PhrasesSurvive
<1> QED
  BY <1>1, TextTyped, PTL

----------------------------------------------------------------------------
(* Counting letters *)

Letters(text) == Count(text, "letter")

LettersOf(text) == {i \in 1 .. Len(text) : text[i] = "letter"}

\* Where they are in a sequence of texts.
Spots(texts) == {x \in (1 .. Len(texts)) \X Nat : x[2] \in LettersOf(texts[x[1]])}

\* There are m letters in a sequence of texts, all together.
Holds(texts, m) == IsFiniteSet(Spots(texts)) /\ Cardinality(Spots(texts)) = m

\* Two sets of which one is a copy of the other have the same size.
LEMMA SameSize ==
    ASSUME NEW S, NEW T, NEW f \in [S -> T], IsFiniteSet(S),
           \A x, y \in S : f[x] = f[y] => x = y,
           \A y \in T : \E x \in S : f[x] = y
    PROVE  IsFiniteSet(T) /\ Cardinality(T) = Cardinality(S)
<1>1. ExistsBijection(S, T)
  BY DEF ExistsBijection, Bijection, Injection, Surjection, IsInjective
<1> QED
  BY <1>1, FS_Bijection

\* Two sets that have nothing in common.
LEMMA SizesAdd ==
    ASSUME NEW S, NEW T, IsFiniteSet(S), IsFiniteSet(T), S \cap T = {}
    PROVE  /\ IsFiniteSet(S \cup T)
           /\ Cardinality(S \cup T) = Cardinality(S) + Cardinality(T)
<1>1. Cardinality(S \cap T) = 0
  BY FS_EmptySet
<1>2. Cardinality(S) \in Nat /\ Cardinality(T) \in Nat
  BY FS_CardinalityType
<1>3. /\ IsFiniteSet(S \cup T)
      /\ Cardinality(S \cup T) = Cardinality(S) + Cardinality(T) - Cardinality(S \cap T)
  BY FS_Union
<1> QED
  BY <1>1, <1>2, <1>3

\* Letters are countable.
LEMMA LettersFinite ==
    ASSUME NEW text \in Seq(Class)
    PROVE  /\ IsFiniteSet(LettersOf(text))
           /\ Letters(text) = Cardinality(LettersOf(text))
           /\ Letters(text) \in Nat
<1>1. LettersOf(text) \in SUBSET (1 .. Len(text)) /\ 1 \in Int /\ Len(text) \in Int
  BY DEF LettersOf
<1>2. IsFiniteSet(1 .. Len(text))
  BY <1>1, FS_Interval
<1>3. IsFiniteSet(LettersOf(text))
  BY <1>1, <1>2, FS_Subset
<1>4. Letters(text) = Cardinality(LettersOf(text))
  <2>1. DOMAIN text = 1 .. Len(text)
    OBVIOUS
  <2> QED
    BY <2>1 DEF Letters, Count, LettersOf
<1> QED
  BY <1>3, <1>4, FS_CardinalityType

\* The letters of two texts, one behind the other.
LEMMA LettersAdd ==
    ASSUME NEW a \in Seq(Class), NEW b \in Seq(Class)
    PROVE  Letters(a \o b) = Letters(a) + Letters(b)
<1> DEFINE T == {i \in 1 .. Len(a \o b) : i > Len(a) /\ b[i - Len(a)] = "letter"}
<1> DEFINE f == [i \in LettersOf(b) |-> Len(a) + i]
<1>1. a \o b \in Seq(Class) /\ Len(a) \in Nat /\ Len(b) \in Nat /\ Len(a \o b) = Len(a) + Len(b)
  OBVIOUS
<1>2. LettersOf(a \o b) = LettersOf(a) \cup T
  <2>1. /\ \A i \in 1 .. Len(a) : (a \o b)[i] = a[i]
        /\ \A i \in 1 .. Len(a) + Len(b) : i > Len(a) => (a \o b)[i] = b[i - Len(a)]
    OBVIOUS
  <2> DEFINE ab == a \o b
  <2> HIDE DEF ab
  <2>2. LettersOf(ab) = LettersOf(a) \cup {i \in 1 .. Len(ab) : i > Len(a) /\ b[i - Len(a)] = "letter"}
    BY <1>1, <2>1 DEF LettersOf, ab
  <2> QED
    BY <2>2 DEF ab
<1>3. LettersOf(a) \cap T = {}
  BY <1>1 DEF LettersOf
<1>4. f \in [LettersOf(b) -> T]
  BY <1>1 DEF LettersOf
<1>5. \A x, y \in LettersOf(b) : f[x] = f[y] => x = y
  BY <1>1 DEF LettersOf
<1>6. \A y \in T : \E x \in LettersOf(b) : f[x] = y
  <2>1. ASSUME NEW y \in T PROVE \E x \in LettersOf(b) : f[x] = y
    <3>1. y - Len(a) \in LettersOf(b) /\ Len(a) + (y - Len(a)) = y
      BY <1>1 DEF LettersOf
    <3> QED
      BY <3>1
  <2> QED
    BY <2>1
<1> HIDE DEF f, T
<1>7. IsFiniteSet(T) /\ Cardinality(T) = Letters(b)
  BY <1>4, <1>5, <1>6, LettersFinite, SameSize
<1>8. Cardinality(LettersOf(a) \cup T) = Letters(a) + Letters(b)
  BY <1>3, <1>7, LettersFinite, SizesAdd
<1> QED
  BY <1>1, <1>2, <1>8, LettersFinite

\* The letters of one character.
LEMMA LettersOne ==
    ASSUME NEW c \in Class
    PROVE  <<c>> \in Seq(Class) /\ Letters(<<c>>) = IF c = "letter" THEN 1 ELSE 0
<1>1. <<c>> \in Seq(Class) /\ Len(<<c>>) = 1 /\ <<c>>[1] = c
  OBVIOUS
<1>2. LettersOf(<<c>>) = IF c = "letter" THEN {1} ELSE {}
  BY <1>1 DEF LettersOf
<1> QED
  BY <1>1, <1>2, LettersFinite, FS_EmptySet, FS_Singleton

\* A text of other characters has none.
LEMMA LettersNone ==
    ASSUME NEW t \in Seq(Class), \A i \in 1 .. Len(t) : t[i] # "letter"
    PROVE  Letters(t) = 0
<1>1. LettersOf(t) = {}
  BY DEF LettersOf
<1> QED
  BY <1>1, LettersFinite, FS_EmptySet

\* A character more.
LEMMA LettersAppend ==
    ASSUME NEW t \in Seq(Class), NEW c \in Class
    PROVE  Letters(Append(t, c)) = Letters(t) + (IF c = "letter" THEN 1 ELSE 0)
<1>1. Append(t, c) = t \o <<c>>
  OBVIOUS
<1> QED
  BY <1>1, LettersOne, LettersAdd

\* Quotes are no letters.
LEMMA LettersQuoted ==
    ASSUME NEW t \in Seq(Class)
    PROVE  Letters(Quoted(t)) = Letters(t)
<1> DEFINE q == <<"quote">>
<1>1. q \in Seq(Class) /\ Letters(q) = 0
  <2>1. "quote" \in Class
    BY DEF Class
  <2> QED
    BY <2>1, LettersOne
<1> HIDE DEF q
<1>2. q \o t \in Seq(Class)
  BY <1>1
<1>3. Letters(q \o t) = Letters(q) + Letters(t)
  BY <1>1, LettersAdd
<1>4. Letters(q \o t \o q) = Letters(q \o t) + Letters(q)
  BY <1>1, <1>2, LettersAdd
<1>5. Letters(t) \in Nat
  BY LettersFinite
<1> QED
  BY <1>1, <1>3, <1>4, <1>5 DEF Quoted, q

\* A term has the letters of its token, which loses stars only.
LEMMA LettersTerm ==
    ASSUME NEW t \in Word
    PROVE  Letters(Term(t)) = Letters(t)
<1>1. t \in Seq(Class)
  BY DEF Word, Class
<1>2. PICK n \in 0 .. Len(t) : /\ WithoutStars(t) = SubSeq(t, 1, n)
                               /\ \A j \in n + 1 .. Len(t) : t[j] = "star"
  BY <1>1, WithoutStarsCuts
<1> DEFINE start == SubSeq(t, 1, n)
<1> DEFINE end == SubSeq(t, n + 1, Len(t))
<1>3. start \in Seq(Class) /\ end \in Seq(Class) /\ t = start \o end
  <2>1. 1 \in 1 .. Len(t) + 1 /\ n \in 1 - 1 .. Len(t) /\ Len(t) \in n .. Len(t)
    BY <1>1
  <2>2. SubSeq(t, 1, n) \o SubSeq(t, n + 1, Len(t)) = SubSeq(t, 1, Len(t))
    BY <1>1, <2>1, ConcatAdjacentSubSeq
  <2>3. SubSeq(t, 1, Len(t)) = t
    BY <1>1, SubSeqFull
  <2>4. start \in Seq(Class) /\ end \in Seq(Class)
    BY <1>1
  <2> QED
    BY <2>2, <2>3, <2>4
<1>4. Letters(end) = 0
  <2>1. \A i \in 1 .. Len(end) : end[i] = "star"
    BY <1>1, <1>2
  <2> HIDE DEF end
  <2> QED
    BY <1>3, <2>1, LettersNone
<1> HIDE DEF start, end
<1>5. Letters(start) = Letters(t)
  BY <1>3, <1>4, LettersAdd, LettersFinite
<1>6. Letters(Quoted(start)) = Letters(t) /\ Quoted(start) \in Seq(Class)
  <2>1. <<"quote">> \in Seq(Class)
    BY DEF Class
  <2> QED
    BY <1>3, <1>5, <2>1, LettersQuoted DEF Quoted
<1>7. Letters(Quoted(start) \o <<"star">>) = Letters(t)
  <2> DEFINE star == <<"star">>
  <2>1. star \in Seq(Class) /\ Letters(star) = 0
    <3>1. "star" \in Class
      BY DEF Class
    <3> QED
      BY <3>1, LettersOne
  <2> HIDE DEF star
  <2>2. Letters(Quoted(start) \o star) = Letters(Quoted(start)) + Letters(star)
    BY <1>6, <2>1, LettersAdd
  <2>3. Letters(t) \in Nat
    BY <1>1, LettersFinite
  <2> QED
    BY <1>6, <2>1, <2>2, <2>3 DEF star
<1>8. Letters(Quoted(t)) = Letters(t)
  BY <1>1, LettersQuoted
<1>9. WithoutStars(t) = start
  BY <1>2 DEF start
<1> QED
  BY <1>7, <1>8, <1>9, Zenon DEF Term

\* No text at all.
LEMMA HoldsNone == Holds(<<>>, 0)
<1>1. Spots(<<>>) = {}
  BY DEF Spots
<1> QED
  BY <1>1, FS_EmptySet DEF Holds

\* A single text.
LEMMA HoldsOne ==
    ASSUME NEW t \in Seq(Class)
    PROVE  Holds(<<t>>, Letters(t))
<1> DEFINE f == [i \in LettersOf(t) |-> <<1, i>>]
<1>1. Len(<<t>>) = 1 /\ <<t>>[1] = t
  OBVIOUS
<1>2. Spots(<<t>>) = {x \in {1} \X Nat : x[2] \in LettersOf(t)}
  BY <1>1 DEF Spots
<1>3. LettersOf(t) \subseteq Nat
  BY DEF LettersOf
<1>4. f \in [LettersOf(t) -> Spots(<<t>>)]
  BY <1>2, <1>3
<1>5. \A x, y \in LettersOf(t) : f[x] = f[y] => x = y
  OBVIOUS
<1>6. \A y \in Spots(<<t>>) : \E x \in LettersOf(t) : f[x] = y
  <2>1. ASSUME NEW y \in Spots(<<t>>) PROVE \E x \in LettersOf(t) : f[x] = y
    <3>1. y = <<1, y[2]>> /\ y[2] \in LettersOf(t)
      BY <1>2
    <3>2. f[y[2]] = y
      BY <3>1
    <3> QED
      BY <3>1, <3>2
  <2> QED
    BY <2>1
<1> HIDE DEF f
<1>7. IsFiniteSet(Spots(<<t>>)) /\ Cardinality(Spots(<<t>>)) = Letters(t)
  BY <1>4, <1>5, <1>6, LettersFinite, SameSize
<1> QED
  BY <1>7 DEF Holds

\* Two sequences of texts, one behind the other.
LEMMA HoldsAdd ==
    ASSUME NEW a \in Seq(Seq(Class)), NEW b \in Seq(Seq(Class)), NEW m, NEW n,
           Holds(a, m), Holds(b, n)
    PROVE  Holds(a \o b, m + n)
<1> DEFINE T == {x \in (1 .. Len(a \o b)) \X Nat :
                     x[1] > Len(a) /\ x[2] \in LettersOf(b[x[1] - Len(a)])}
<1> DEFINE f == [x \in Spots(b) |-> <<x[1] + Len(a), x[2]>>]
<1>1. /\ Len(a) \in Nat /\ Len(b) \in Nat /\ Len(a \o b) = Len(a) + Len(b)
      /\ \A i \in 1 .. Len(a) : (a \o b)[i] = a[i]
      /\ \A i \in 1 .. Len(a) + Len(b) : i > Len(a) => (a \o b)[i] = b[i - Len(a)]
  OBVIOUS
<1>2. Spots(a \o b) = Spots(a) \cup T
  <2> DEFINE ab == a \o b
  <2> HIDE DEF ab
  <2>1. ASSUME NEW k \in 1 .. Len(a) + Len(b), NEW i \in Nat
        PROVE  <<k, i>> \in Spots(ab) <=> <<k, i>> \in Spots(a) \cup T
    <3>1. CASE k <= Len(a)
      <4>1. k \in 1 .. Len(a) /\ ab[k] = a[k] /\ k \in 1 .. Len(ab)
        BY <1>1, <3>1 DEF ab
      <4> QED
        BY <1>1, <3>1, <4>1 DEF Spots
    <3>2. CASE k > Len(a)
      <4>1. ab[k] = b[k - Len(a)] /\ k \in 1 .. Len(ab) /\ k \notin 1 .. Len(a)
        BY <1>1, <3>2 DEF ab
      <4> QED
        BY <1>1, <3>2, <4>1 DEF Spots, ab
    <3> QED
      BY <1>1, <3>1, <3>2
  <2>2. /\ Spots(ab) \subseteq (1 .. Len(a) + Len(b)) \X Nat
        /\ Spots(a) \subseteq (1 .. Len(a) + Len(b)) \X Nat
        /\ T \subseteq (1 .. Len(a) + Len(b)) \X Nat
    BY <1>1 DEF Spots, ab
  <2> HIDE DEF T
  <2>3. Spots(ab) = Spots(a) \cup T
    BY <2>1, <2>2
  <2> QED
    BY <2>3 DEF ab
<1>3. Spots(a) \cap T = {}
  BY <1>1 DEF Spots
<1>4. ASSUME NEW k \in 1 .. Len(b), NEW i \in Nat, <<k, i>> \in Spots(b)
      PROVE  <<k + Len(a), i>> \in T
  <2>1. i \in LettersOf(b[k])
    BY <1>4 DEF Spots
  <2>2. k + Len(a) \in 1 .. Len(a \o b) /\ k + Len(a) > Len(a) /\ (k + Len(a)) - Len(a) = k
    BY <1>1
  <2> QED
    BY <2>1, <2>2
<1>5. \A x \in Spots(b) : \E k \in 1 .. Len(b), i \in Nat : x = <<k, i>>
  BY DEF Spots
<1>6. f \in [Spots(b) -> T]
  <2>1. ASSUME NEW x \in Spots(b) PROVE f[x] \in T
    <3>1. PICK k \in 1 .. Len(b), i \in Nat : x = <<k, i>>
      BY <1>5
    <3>2. f[x] = <<k + Len(a), i>>
      BY <3>1
    <3> HIDE DEF T, f
    <3> QED
      BY <1>4, <3>1, <3>2
  <2> HIDE DEF T
  <2> QED
    BY <2>1
<1>7. \A x, y \in Spots(b) : f[x] = f[y] => x = y
  <2>1. ASSUME NEW x \in Spots(b), NEW y \in Spots(b), f[x] = f[y] PROVE x = y
    <3>1. PICK k \in 1 .. Len(b), i \in Nat : x = <<k, i>>
      BY <1>5
    <3>2. PICK l \in 1 .. Len(b), j \in Nat : y = <<l, j>>
      BY <1>5
    <3>3. <<k + Len(a), i>> = <<l + Len(a), j>>
      BY <2>1, <3>1, <3>2
    <3>4. k = l /\ i = j
      BY <1>1, <3>3
    <3> QED
      BY <3>1, <3>2, <3>4
  <2> QED
    BY <2>1
<1>8. \A y \in T : \E x \in Spots(b) : f[x] = y
  <2>1. ASSUME NEW y \in T PROVE \E x \in Spots(b) : f[x] = y
    <3>1. PICK l \in 1 .. Len(a \o b), i \in Nat : y = <<l, i>>
      OBVIOUS
    <3>2. l > Len(a) /\ i \in LettersOf(b[l - Len(a)])
      BY <3>1
    <3>3. l - Len(a) \in 1 .. Len(b) /\ (l - Len(a)) + Len(a) = l
      BY <1>1, <3>2
    <3>4. <<l - Len(a), i>> \in Spots(b)
      BY <3>2, <3>3 DEF Spots
    <3>5. f[<<l - Len(a), i>>] = y
      BY <3>1, <3>3, <3>4
    <3> QED
      BY <3>4, <3>5
  <2> HIDE DEF T, f
  <2> QED
    BY <2>1
<1> HIDE DEF f, T
<1>9. /\ IsFiniteSet(Spots(a)) /\ Cardinality(Spots(a)) = m
      /\ IsFiniteSet(Spots(b)) /\ Cardinality(Spots(b)) = n
  BY DEF Holds
<1>10. IsFiniteSet(T) /\ Cardinality(T) = n
  BY <1>6, <1>7, <1>8, <1>9, SameSize
<1>11. IsFiniteSet(Spots(a \o b)) /\ Cardinality(Spots(a \o b)) = m + n
  BY <1>2, <1>3, <1>9, <1>10, SizesAdd
<1> QED
  BY <1>11 DEF Holds

\* A text more.
LEMMA HoldsAppend ==
    ASSUME NEW texts \in Seq(Seq(Class)), NEW t \in Seq(Class), NEW m, Holds(texts, m)
    PROVE  Holds(Append(texts, t), m + Letters(t))
<1>1. Append(texts, t) = texts \o <<t>> /\ <<t>> \in Seq(Seq(Class))
  OBVIOUS
<1> QED
  BY <1>1, HoldsOne, HoldsAdd

\* A text further in a sequence of them.
LEMMA HoldsFurther ==
    ASSUME NEW texts \in Seq(Seq(Class)), NEW i \in 1 .. Len(texts), NEW m,
           Holds(SubSeq(texts, 1, i - 1), m)
    PROVE  Holds(SubSeq(texts, 1, i), m + Letters(texts[i]))
<1>1. 1 \in 1 .. Len(texts) /\ i \in 1 .. Len(texts)
  OBVIOUS
<1>2. SubSeq(texts, 1, i) = SubSeq(texts, 1, i - 1) \o <<texts[i]>>
  BY <1>1, SubSeqRecursiveSecond
<1>3. /\ SubSeq(texts, 1, i - 1) \in Seq(Seq(Class))
      /\ texts[i] \in Seq(Class)
      /\ <<texts[i]>> \in Seq(Seq(Class))
  OBVIOUS
<1> QED
  BY <1>2, <1>3, HoldsOne, HoldsAdd

\* A character further in a text.
LEMMA LettersFurther ==
    ASSUME NEW text \in Seq(Class), NEW i \in 1 .. Len(text)
    PROVE  Letters(SubSeq(text, 1, i)) =
               Letters(SubSeq(text, 1, i - 1)) + (IF text[i] = "letter" THEN 1 ELSE 0)
<1>1. 1 \in 1 .. Len(text) /\ i \in 1 .. Len(text)
  OBVIOUS
<1>2. SubSeq(text, 1, i) = SubSeq(text, 1, i - 1) \o <<text[i]>>
  BY <1>1, SubSeqRecursiveSecond
<1>3. SubSeq(text, 1, i - 1) \in Seq(Class) /\ text[i] \in Class /\ <<text[i]>> \in Seq(Class)
  OBVIOUS
<1> QED
  BY <1>2, <1>3, LettersOne, LettersAdd

\* Where there is no text there are no letters.
LEMMA NothingHeld == Letters(<<>>) = 0
<1>1. <<>> \in Seq(Class) /\ \A i \in 1 .. Len(<<>>) : <<>>[i] # "letter"
  OBVIOUS
<1> QED
  BY <1>1, LettersNone

\* Phrases, tokens and pieces are texts.
LEMMA PhrasesAreTexts ==
    /\ Seq(NoQuote) \subseteq Seq(Seq(Class))
    /\ Seq(Word) \subseteq Seq(Seq(Class))
    /\ Seq(Piece) \subseteq Seq(Seq(Class))
<1>1. NoQuote \subseteq Seq(Class) /\ Word \subseteq Seq(Class) /\ Piece \subseteq Seq(Class)
  BY DEF NoQuote, Word, Piece, Class
<1> QED
  BY <1>1

\* The scan, before it looks at character i: it stands there or behind, and what it has
\* passed is in the phrases and in the rest.
Passed(text, i, s, m) ==
    /\ Holds(s.phrases, m)
    /\ s.next \in i .. Len(text) + 1
    /\ m + Letters(s.rest) = Letters(SubSeq(text, 1, s.next - 1))

\* A step of the scan loses none: what it passes is in the phrases or in the rest.
LEMMA ScanLoses ==
    ASSUME NEW text \in Seq(Class), NEW i \in 1 .. Len(text), NEW s \in Scanned, NEW m \in Nat,
           Passed(text, i, s, m)
    PROVE  \E k \in Nat : Passed(text, i + 1, ScanStep(text, i, s), k)
<1> DEFINE c == NextQuote(text, i)
<1>1. /\ i \in Nat /\ i >= 1 /\ i <= Len(text) /\ Len(text) \in Nat
      /\ s.next \in Nat /\ s.next >= i /\ s.next <= Len(text) + 1
      /\ s.phrases \in Seq(Seq(Class)) /\ s.rest \in Seq(Class)
  BY PhrasesAreTexts DEF Passed, Scanned
<1>2. Letters(s.rest) \in Nat
  BY <1>1, LettersFinite
<1>3. CASE i < s.next
  <2>1. ScanStep(text, i, s) = s
    BY <1>3 DEF ScanStep
  <2>2. s.next \in i + 1 .. Len(text) + 1
    BY <1>1, <1>3
  <2> QED
    BY <2>1, <2>2 DEF Passed
<1>4. CASE s.next = i /\ text[i] = "quote" /\ c > i + 1
  <2> DEFINE p == SubSeq(text, i + 1, c - 1)
  <2> DEFINE u == ScanStep(text, i, s)
  <2>1. c \in i + 1 .. Len(text) /\ text[c] = "quote"
    <3>1. c \in Nat /\ (c # 0 => c \in i + 1 .. Len(text) /\ text[c] = "quote")
      BY <1>1, NextQuoteFinds
    <3> HIDE DEF c
    <3> QED
      BY <1>1, <1>4, <3>1
  <2>2. u.phrases = Append(s.phrases, p) /\ u.rest = Append(s.rest, "space") /\ u.next = c + 1
    BY <1>1, <1>4, ScanSteps
  <2>3. p \in Seq(Class)
    BY <1>1, <2>1
  <2>4. Letters(SubSeq(text, 1, c)) = Letters(SubSeq(text, 1, c - 1))
    <3>1. c \in 1 .. Len(text) /\ SubSeq(text, 1, c - 1) \in Seq(Class)
      BY <1>1, <2>1
    <3> HIDE DEF c
    <3>2. Letters(SubSeq(text, 1, c - 1)) \in Nat
      BY <3>1, LettersFinite
    <3>3. Letters(SubSeq(text, 1, c)) = Letters(SubSeq(text, 1, c - 1)) + 0
      BY <2>1, <3>1, LettersFurther
    <3> QED
      BY <3>2, <3>3
  <2>5. Letters(SubSeq(text, 1, i)) = Letters(SubSeq(text, 1, i - 1))
    <3>1. SubSeq(text, 1, i - 1) \in Seq(Class)
      BY <1>1
    <3>2. Letters(SubSeq(text, 1, i - 1)) \in Nat
      BY <3>1, LettersFinite
    <3>3. Letters(SubSeq(text, 1, i)) = Letters(SubSeq(text, 1, i - 1)) + 0
      BY <1>4, LettersFurther
    <3> QED
      BY <3>2, <3>3
  <2>6. Letters(SubSeq(text, 1, c - 1)) = Letters(SubSeq(text, 1, i)) + Letters(p)
    <3>1. 1 \in 1 .. Len(text) + 1 /\ i \in 1 - 1 .. Len(text) /\ c - 1 \in i .. Len(text)
      BY <1>1, <2>1
    <3>2. SubSeq(text, 1, i) \o p = SubSeq(text, 1, c - 1)
      <4> HIDE DEF c
      <4> QED
        BY <3>1, ConcatAdjacentSubSeq
    <3>3. SubSeq(text, 1, i) \in Seq(Class)
      BY <1>1
    <3> HIDE DEF p, c
    <3> QED
      BY <2>3, <3>2, <3>3, LettersAdd
  <2>7. Letters(u.rest) = Letters(s.rest)
    <3>1. "space" \in Class
      BY DEF Class
    <3> HIDE DEF u
    <3> QED
      BY <1>1, <1>2, <2>2, <3>1, LettersAppend
  <2>8. Holds(u.phrases, m + Letters(p))
    <3> HIDE DEF u, p
    <3> QED
      BY <1>1, <2>2, <2>3, HoldsAppend DEF Passed
  <2>9. u.next \in i + 1 .. Len(text) + 1 /\ u.next - 1 = c
    <3> HIDE DEF u, c
    <3> QED
      BY <1>1, <2>1, <2>2
  <2>10. m + Letters(p) \in Nat /\ Letters(p) \in Nat
    <3> HIDE DEF p
    <3>1. Letters(p) \in Nat
      BY <2>3, LettersFinite
    <3> QED
      BY <3>1
  <2>11. m + Letters(s.rest) = Letters(SubSeq(text, 1, i - 1))
    BY <1>4 DEF Passed
  <2> HIDE DEF u, p, c
  <2>12. (m + Letters(p)) + Letters(u.rest) = Letters(SubSeq(text, 1, u.next - 1))
    BY <1>2, <2>4, <2>5, <2>6, <2>7, <2>9, <2>10, <2>11
  <2>13. Passed(text, i + 1, u, m + Letters(p))
    BY <2>8, <2>9, <2>12 DEF Passed
  <2> QED
    BY <2>10, <2>13 DEF u
<1>5. CASE s.next = i /\ ~(text[i] = "quote" /\ c > i + 1)
  <2> DEFINE u == ScanStep(text, i, s)
  <2>1. u.phrases = s.phrases /\ u.rest = Append(s.rest, text[i]) /\ u.next = i + 1
    BY <1>1, <1>5, ScanSteps
  <2> HIDE DEF u, c
  <2>2. Letters(u.rest) = Letters(s.rest) + (IF text[i] = "letter" THEN 1 ELSE 0)
    BY <1>1, <2>1, LettersAppend
  <2>3. Letters(SubSeq(text, 1, i)) =
            Letters(SubSeq(text, 1, i - 1)) + (IF text[i] = "letter" THEN 1 ELSE 0)
    BY LettersFurther
  <2>4. u.next \in i + 1 .. Len(text) + 1 /\ u.next - 1 = i
    BY <1>1, <2>1
  <2>5. m + Letters(s.rest) = Letters(SubSeq(text, 1, i - 1))
    BY <1>5 DEF Passed
  <2>6. m + Letters(u.rest) = Letters(SubSeq(text, 1, u.next - 1))
    BY <1>2, <2>2, <2>3, <2>4, <2>5
  <2>7. Passed(text, i + 1, u, m)
    BY <2>1, <2>4, <2>6 DEF Passed
  <2> QED
    BY <2>7 DEF u
<1> QED
  BY <1>1, <1>3, <1>4, <1>5

\* Scanning loses no letter.
LEMMA ScanLosesNone ==
    ASSUME NEW text \in Seq(Class)
    PROVE  \E m \in Nat : /\ Holds(Phrases(text), m)
                          /\ m + Letters(Pull(text).rest) = Letters(text)
<1> DEFINE n == Len(text)
<1> DEFINE s == Scan(text)
<1> DEFINE S == {i \in 0 .. n : \E m \in Nat : Passed(text, i + 1, s[i], m)}
<1>1. /\ n \in Nat
      /\ s \in [0 .. n -> Scanned]
      /\ s[0] = [phrases |-> <<>>, rest |-> <<>>, next |-> 1]
      /\ \A i \in 1 .. n : s[i] = ScanStep(text, i, s[i - 1])
  BY ScanFold
<1>2. 0 \in S
  <2>1. s[0].phrases = <<>> /\ s[0].rest = <<>> /\ s[0].next = 1
    BY <1>1
  <2>2. SubSeq(text, 1, 1 - 1) = <<>>
    OBVIOUS
  <2>3. 1 \in 0 + 1 .. n + 1
    BY <1>1
  <2> HIDE DEF s
  <2>4. Passed(text, 0 + 1, s[0], 0)
    <3>1. Holds(s[0].phrases, 0)
      BY <2>1, HoldsNone
    <3>2. Letters(s[0].rest) = 0
      BY <2>1, NothingHeld
    <3>3. Letters(SubSeq(text, 1, s[0].next - 1)) = 0
      BY <2>1, <2>2, NothingHeld
    <3>4. s[0].next \in 0 + 1 .. Len(text) + 1
      BY <2>1, <2>3
    <3>5. 0 + 0 = 0
      OBVIOUS
    <3> QED
      BY <3>1, <3>2, <3>3, <3>4, <3>5 DEF Passed
  <2> QED
    BY <1>1, <2>4
<1> HIDE DEF s, n
<1>3. ASSUME NEW i \in 0 .. n, i \in S, i < n PROVE i + 1 \in S
  <2>1. i + 1 \in 1 .. n /\ i + 1 \in 0 .. n /\ (i + 1) - 1 = i
    BY <1>1, <1>3
  <2>2. s[i] \in Scanned /\ s[i + 1] = ScanStep(text, i + 1, s[i])
    BY <1>1, <2>1
  <2>3. PICK m \in Nat : Passed(text, i + 1, s[i], m)
    BY <1>3
  <2>4. \E k \in Nat : Passed(text, (i + 1) + 1, s[i + 1], k)
    BY <2>1, <2>2, <2>3, ScanLoses DEF n
  <2> QED
    BY <2>1, <2>4
<1>4. n \in S
  <2>1. n \in 0 .. n
    BY <1>1
  <2> HIDE DEF S
  <2> QED
    BY <1>1, <1>2, <1>3, <2>1, Upto
<1>5. PICK m \in Nat : Passed(text, n + 1, s[n], m)
  BY <1>4
<1>6. s[n].next - 1 = n
  BY <1>1, <1>5 DEF Passed, n
<1>7. SubSeq(text, 1, n) = text
  BY DEF n
<1>8. Holds(s[n].phrases, m) /\ m + Letters(s[n].rest) = Letters(text)
  BY <1>5, <1>6, <1>7 DEF Passed
<1> QED
  BY <1>8 DEF Phrases, Pull, s, n

\* A character of the rest goes to the last token, if it is a letter.
LEMMA TokenLoses ==
    ASSUME NEW tokens \in Sentence, NEW c \in Class, NEW m \in Nat, Holds(tokens, m)
    PROVE  Holds(TokenStep(tokens, c), m + (IF c = "letter" THEN 1 ELSE 0))
<1> DEFINE l == Len(tokens)
<1>1. /\ tokens \in Seq(Seq(Class)) /\ l \in Nat /\ l >= 1
      /\ \A k \in 1 .. l : tokens[k] \in Seq(Class)
  BY PhrasesAreTexts DEF Sentence
<1>2. CASE c = "space"
  <2>1. TokenStep(tokens, c) = Append(tokens, <<>>)
    BY <1>2 DEF TokenStep
  <2>2. <<>> \in Seq(Class)
    OBVIOUS
  <2>3. Holds(Append(tokens, <<>>), m + Letters(<<>>))
    BY <1>1, <2>2, HoldsAppend
  <2> QED
    BY <1>2, <2>1, <2>3, NothingHeld
<1>3. CASE c # "space" /\ ~Kept(c)
  <2>1. TokenStep(tokens, c) = tokens /\ c # "letter"
    BY <1>3 DEF TokenStep, Kept
  <2> QED
    BY <2>1
<1>4. CASE c # "space" /\ Kept(c)
  <2> DEFINE last == tokens[l]
  <2> DEFINE new == [tokens EXCEPT ![l] = Append(@, c)]
  <2> DEFINE spot == <<l, Len(last) + 1>>
  <2>1. TokenStep(tokens, c) = new
    BY <1>4 DEF TokenStep
  <2>2. last \in Seq(Class) /\ Len(last) \in Nat
    BY <1>1
  <2>3. /\ Len(new) = l
        /\ \A k \in 1 .. l : k # l => new[k] = tokens[k]
        /\ new[l] = Append(last, c)
    BY <1>1
  <2>4. LettersOf(new[l]) = LettersOf(last) \cup (IF c = "letter" THEN {Len(last) + 1} ELSE {})
    <3>1. /\ Len(Append(last, c)) = Len(last) + 1
          /\ \A i \in 1 .. Len(last) : Append(last, c)[i] = last[i]
          /\ Append(last, c)[Len(last) + 1] = c
      BY <2>2
    <3> DEFINE a == Append(last, c)
    <3> HIDE DEF a, new, last
    <3>2. LettersOf(a) = LettersOf(last) \cup (IF c = "letter" THEN {Len(last) + 1} ELSE {})
      BY <2>2, <3>1 DEF LettersOf, a
    <3> QED
      BY <2>3, <3>2 DEF a
  <2> HIDE DEF new
  <2>5. Spots(new) = Spots(tokens) \cup (IF c = "letter" THEN {spot} ELSE {})
    <3>1. ASSUME NEW k \in 1 .. l, NEW i \in Nat
          PROVE  <<k, i>> \in Spots(new)
                     <=> <<k, i>> \in Spots(tokens) \cup (IF c = "letter" THEN {spot} ELSE {})
      <4>1. CASE k # l
        <5>1. <<k, i>> # spot /\ new[k] = tokens[k]
          BY <2>3, <4>1
        <5> HIDE DEF spot, l
        <5> QED
          BY <2>3, <5>1 DEF Spots, l
      <4>2. CASE k = l
        <5>1. <<k, i>> = spot <=> i = Len(last) + 1
          BY <4>2
        <5>2. <<k, i>> \in Spots(new) <=> i \in LettersOf(new[l])
          BY <1>1, <2>3, <4>2 DEF Spots
        <5>3. <<k, i>> \in Spots(tokens) <=> i \in LettersOf(last)
          BY <1>1, <4>2 DEF Spots
        <5> HIDE DEF spot, last, l
        <5> QED
          BY <2>4, <5>1, <5>2, <5>3
      <4> QED
        BY <4>1, <4>2
    <3>2. /\ Spots(new) \subseteq (1 .. l) \X Nat
          /\ Spots(tokens) \subseteq (1 .. l) \X Nat
          /\ spot \in (1 .. l) \X Nat
      BY <1>1, <2>2, <2>3 DEF Spots
    <3> HIDE DEF spot, l
    <3> QED
      BY <3>1, <3>2
  <2>6. spot \notin Spots(tokens)
    <3>1. Len(last) + 1 \notin LettersOf(last)
      BY <2>2 DEF LettersOf
    <3> QED
      BY <3>1 DEF Spots
  <2>7. Kept(c) /\ IsFiniteSet(Spots(tokens)) /\ Cardinality(Spots(tokens)) = m
    BY <1>4 DEF Holds
  <2> HIDE DEF spot, l
  <2>8. CASE c = "letter"
    <3>1. Spots(new) = Spots(tokens) \cup {spot}
      BY <2>5, <2>8
    <3>2. IsFiniteSet(Spots(new)) /\ Cardinality(Spots(new)) = m + 1
      BY <2>6, <2>7, <3>1, FS_AddElement
    <3> QED
      BY <2>1, <2>8, <3>2 DEF Holds
  <2>9. CASE c # "letter"
    <3>1. Spots(new) = Spots(tokens)
      BY <2>5, <2>9
    <3> QED
      BY <2>1, <2>7, <2>9, <3>1 DEF Holds
  <2> QED
    BY <2>8, <2>9
<1> QED
  BY <1>2, <1>3, <1>4

\* Splitting loses none.
LEMMA SplitLosesNone ==
    ASSUME NEW rest \in Seq(Class)
    PROVE  Holds(Tokens(rest), Letters(rest))
<1> DEFINE n == Len(rest)
<1> DEFINE f == Split(rest)
<1> DEFINE S == {i \in 0 .. n : Holds(f[i], Letters(SubSeq(rest, 1, i)))}
<1>1. /\ n \in Nat
      /\ f \in [0 .. n -> Sentence]
      /\ f[0] = <<<<>>>>
      /\ \A i \in 1 .. n : f[i] = TokenStep(f[i - 1], rest[i])
  BY SplitFold
<1>2. 0 \in S
  <2>1. SubSeq(rest, 1, 0) = <<>> /\ <<>> \in Seq(Class)
    OBVIOUS
  <2>2. Holds(<<<<>>>>, Letters(<<>>))
    BY <2>1, HoldsOne
  <2> HIDE DEF f, n
  <2>3. Holds(f[0], Letters(SubSeq(rest, 1, 0)))
    BY <1>1, <2>1, <2>2, Zenon
  <2>4. 0 \in 0 .. n
    BY <1>1
  <2> QED
    BY <2>3, <2>4
<1> HIDE DEF f, n
<1>3. ASSUME NEW i \in 0 .. n, i \in S, i < n PROVE i + 1 \in S
  <2>1. i + 1 \in 1 .. n /\ i + 1 \in 0 .. n /\ (i + 1) - 1 = i
    BY <1>1, <1>3
  <2>2. f[i] \in Sentence /\ f[i + 1] = TokenStep(f[i], rest[i + 1]) /\ rest[i + 1] \in Class
    BY <1>1, <2>1 DEF n
  <2>3. Holds(f[i], Letters(SubSeq(rest, 1, i)))
    BY <1>3
  <2>4. Letters(SubSeq(rest, 1, i)) \in Nat
    <3>1. SubSeq(rest, 1, i) \in Seq(Class)
      BY <1>1, <2>1 DEF n
    <3> QED
      BY <3>1, LettersFinite
  <2>5. Letters(SubSeq(rest, 1, i + 1)) =
            Letters(SubSeq(rest, 1, i)) + (IF rest[i + 1] = "letter" THEN 1 ELSE 0)
    <3>1. i + 1 \in 1 .. Len(rest)
      BY <2>1 DEF n
    <3>2. Letters(SubSeq(rest, 1, i + 1)) =
              Letters(SubSeq(rest, 1, (i + 1) - 1)) + (IF rest[i + 1] = "letter" THEN 1 ELSE 0)
      BY <3>1, LettersFurther
    <3> QED
      BY <2>1, <3>2
  <2>6. Holds(f[i + 1], Letters(SubSeq(rest, 1, i)) + (IF rest[i + 1] = "letter" THEN 1 ELSE 0))
    BY <2>2, <2>3, <2>4, TokenLoses
  <2> QED
    BY <2>1, <2>5, <2>6
<1>4. n \in S
  <2>1. n \in 0 .. n
    BY <1>1
  <2> HIDE DEF S
  <2> QED
    BY <1>1, <1>2, <1>3, <2>1, Upto
<1>5. SubSeq(rest, 1, n) = rest
  BY DEF n
<1> QED
  BY <1>4, <1>5 DEF Tokens, f, n

\* Nor do the filter and the terms: a token that is dropped has no letters.
LEMMA TermsLoseNone ==
    ASSUME NEW tokens \in Seq(Word), NEW m, Holds(tokens, m)
    PROVE  Holds(Terms(tokens)[Len(tokens)], m)
<1> DEFINE n == Len(tokens)
<1> DEFINE f == Terms(tokens)
<1> DEFINE S == {i \in 0 .. n : \E k : Holds(SubSeq(tokens, 1, i), k) /\ Holds(f[i], k)}
<1>1. /\ n \in Nat
      /\ f \in [0 .. n -> Seq(Piece)]
      /\ f[0] = <<>>
      /\ \A i \in 1 .. n : f[i] = TermStep(f[i - 1], tokens[i])
  BY TermsFold
<1>2. tokens \in Seq(Seq(Class)) /\ \A i \in 1 .. n : tokens[i] \in Word
  BY PhrasesAreTexts
<1>3. 0 \in S
  <2>1. SubSeq(tokens, 1, 0) = <<>>
    OBVIOUS
  <2> HIDE DEF f, n
  <2>2. Holds(SubSeq(tokens, 1, 0), 0) /\ Holds(f[0], 0)
    BY <1>1, <2>1, HoldsNone, Zenon
  <2>3. 0 \in 0 .. n
    BY <1>1
  <2> QED
    BY <2>2, <2>3
<1> HIDE DEF f, n
<1>4. ASSUME NEW i \in 0 .. n, i \in S, i < n PROVE i + 1 \in S
  <2> DEFINE t == tokens[i + 1]
  <2>1. i + 1 \in 1 .. n /\ i + 1 \in 0 .. n /\ (i + 1) - 1 = i
    BY <1>1, <1>4
  <2>2. f[i] \in Seq(Piece) /\ f[i + 1] = TermStep(f[i], t) /\ t \in Word
    BY <1>1, <1>2, <2>1
  <2>3. PICK k : Holds(SubSeq(tokens, 1, i), k) /\ Holds(f[i], k)
    BY <1>4
  <2>4. Holds(SubSeq(tokens, 1, i + 1), k + Letters(t))
    <3>1. i + 1 \in 1 .. Len(tokens)
      BY <2>1 DEF n
    <3>2. Holds(SubSeq(tokens, 1, (i + 1) - 1), k)
      BY <2>1, <2>3
    <3> QED
      BY <1>2, <3>1, <3>2, HoldsFurther
  <2> HIDE DEF t
  <2>5. Holds(f[i + 1], k + Letters(t))
    <3>1. CASE t \in {<<>>, <<"star">>}
      <4>1. Letters(t) = 0
        <5>1. "star" \in Class
          BY DEF Class
        <5>2. Letters(<<"star">>) = 0
          BY <5>1, LettersOne
        <5> QED
          BY <3>1, <5>2, NothingHeld
      <4>2. f[i + 1] = f[i]
        BY <2>2, <3>1 DEF TermStep
      <4>3. k \in Nat
        BY <2>3, FS_CardinalityType DEF Holds
      <4> QED
        BY <2>3, <4>1, <4>2, <4>3
    <3>2. CASE t \notin {<<>>, <<"star">>}
      <4>1. f[i + 1] = Append(f[i], Term(t))
        BY <2>2, <3>2 DEF TermStep
      <4>2. Letters(Term(t)) = Letters(t)
        BY <2>2, LettersTerm
      <4>3. f[i] \in Seq(Seq(Class)) /\ Term(t) \in Seq(Class)
        BY <2>2, TermType, PhrasesAreTexts DEF Piece
      <4> QED
        BY <2>3, <4>1, <4>2, <4>3, HoldsAppend
    <3> QED
      BY <3>1, <3>2
  <2> QED
    BY <2>1, <2>4, <2>5
<1>5. n \in S
  <2>1. n \in 0 .. n
    BY <1>1
  <2> HIDE DEF S
  <2> QED
    BY <1>1, <1>3, <1>4, <2>1, Upto
<1>6. PICK k : Holds(SubSeq(tokens, 1, n), k) /\ Holds(f[n], k)
  BY <1>5
<1>7. SubSeq(tokens, 1, n) = tokens
  BY DEF n
<1>8. k = m
  BY <1>6, <1>7 DEF Holds
<1> QED
  BY <1>6, <1>8 DEF f, n

\* Quotes around the phrases change nothing.
LEMMA QuotesLoseNone ==
    ASSUME NEW phrases \in Seq(NoQuote), NEW m, Holds(phrases, m)
    PROVE  Holds([i \in DOMAIN phrases |-> Quoted(phrases[i])], m)
<1> DEFINE quoted == [i \in DOMAIN phrases |-> Quoted(phrases[i])]
<1> DEFINE f == [x \in Spots(phrases) |-> <<x[1], x[2] + 1>>]
<1>1. /\ DOMAIN phrases = 1 .. Len(phrases) /\ Len(phrases) \in Nat
      /\ Len(quoted) = Len(phrases)
      /\ \A k \in 1 .. Len(phrases) : phrases[k] \in NoQuote /\ quoted[k] = Quoted(phrases[k])
  OBVIOUS
<1> HIDE DEF quoted
<1>2. ASSUME NEW t \in NoQuote, NEW i \in Nat
      PROVE  i \in LettersOf(Quoted(t)) <=> i - 1 \in LettersOf(t)
  <2>1. /\ t \in Seq(Class) /\ Len(t) \in Nat
        /\ Len(Quoted(t)) = Len(t) + 2
        /\ Quoted(t)[1] = "quote"
        /\ \A j \in 2 .. Len(t) + 1 : Quoted(t)[j] = t[j - 1]
        /\ Quoted(t)[Len(t) + 2] = "quote"
    BY DEF NoQuote, Quoted
  <2>2. CASE i \in 2 .. Len(t) + 1
    BY <2>1, <2>2 DEF LettersOf
  <2>3. CASE i = 1 \/ i = Len(t) + 2
    BY <2>1, <2>3 DEF LettersOf
  <2>4. CASE i = 0 \/ i > Len(t) + 2
    BY <2>1, <2>4 DEF LettersOf
  <2> QED
    BY <2>1, <2>2, <2>3, <2>4
<1>3. \A x \in Spots(phrases) : \E k \in 1 .. Len(phrases), i \in Nat :
          x = <<k, i>> /\ i \in LettersOf(phrases[k])
  BY DEF Spots
<1>4. f \in [Spots(phrases) -> Spots(quoted)]
  <2>1. ASSUME NEW x \in Spots(phrases) PROVE f[x] \in Spots(quoted)
    <3>1. PICK k \in 1 .. Len(phrases), i \in Nat : x = <<k, i>> /\ i \in LettersOf(phrases[k])
      BY <1>3
    <3>2. f[x] = <<k, i + 1>> /\ (i + 1) - 1 = i /\ i + 1 \in Nat
      BY <3>1
    <3>3. i + 1 \in LettersOf(Quoted(phrases[k]))
      BY <1>1, <1>2, <3>1, <3>2
    <3> HIDE DEF f
    <3> QED
      BY <1>1, <3>2, <3>3 DEF Spots
  <2> QED
    BY <2>1
<1>5. \A x, y \in Spots(phrases) : f[x] = f[y] => x = y
  <2>1. ASSUME NEW x \in Spots(phrases), NEW y \in Spots(phrases), f[x] = f[y] PROVE x = y
    <3>1. PICK k \in 1 .. Len(phrases), i \in Nat : x = <<k, i>> /\ i \in LettersOf(phrases[k])
      BY <1>3
    <3>2. PICK l \in 1 .. Len(phrases), j \in Nat : y = <<l, j>> /\ j \in LettersOf(phrases[l])
      BY <1>3
    <3>3. <<k, i + 1>> = <<l, j + 1>>
      BY <2>1, <3>1, <3>2
    <3>4. k = l /\ i = j
      BY <3>3
    <3> QED
      BY <3>1, <3>2, <3>4
  <2> QED
    BY <2>1
<1>6. \A y \in Spots(quoted) : \E x \in Spots(phrases) : f[x] = y
  <2>1. ASSUME NEW y \in Spots(quoted) PROVE \E x \in Spots(phrases) : f[x] = y
    <3>1. PICK k \in 1 .. Len(phrases), i \in Nat : y = <<k, i>>
      BY <1>1 DEF Spots
    <3>2. i \in LettersOf(Quoted(phrases[k]))
      BY <1>1, <3>1 DEF Spots
    <3>3. i - 1 \in LettersOf(phrases[k])
      BY <1>1, <1>2, <3>2
    <3>4. i - 1 \in Nat /\ (i - 1) + 1 = i
      BY <3>3 DEF LettersOf
    <3>5. <<k, i - 1>> \in Spots(phrases)
      BY <3>3, <3>4 DEF Spots
    <3>6. f[<<k, i - 1>>] = y
      BY <3>1, <3>4, <3>5
    <3> QED
      BY <3>5, <3>6
  <2> QED
    BY <2>1
<1> HIDE DEF f
<1>7. IsFiniteSet(Spots(quoted)) /\ Cardinality(Spots(quoted)) = m
  BY <1>4, <1>5, <1>6, SameSize DEF Holds
<1> QED
  BY <1>7 DEF Holds, quoted

\* Joining them loses none either.
LEMMA JoinLosesNone ==
    ASSUME NEW pieces \in Seq(Piece), NEW m, Holds(pieces, m)
    PROVE  Letters(Join(pieces)[Len(pieces)]) = m
<1> DEFINE n == Len(pieces)
<1> DEFINE f == Join(pieces)
<1> DEFINE S == {i \in 0 .. n : Holds(SubSeq(pieces, 1, i), Letters(f[i]))}
<1>1. /\ n \in Nat
      /\ f \in [0 .. n -> Seq(Class)]
      /\ f[0] = <<>>
      /\ \A i \in 1 .. n : f[i] = JoinStep(f[i - 1], i, pieces[i])
  BY JoinFold
<1>2. pieces \in Seq(Seq(Class)) /\ \A i \in 1 .. n : pieces[i] \in Seq(Class)
  BY PhrasesAreTexts
<1>3. 0 \in S
  <2>1. SubSeq(pieces, 1, 0) = <<>>
    OBVIOUS
  <2> HIDE DEF f, n
  <2>2. Letters(f[0]) = 0
    BY <1>1, NothingHeld
  <2>3. Holds(SubSeq(pieces, 1, 0), Letters(f[0]))
    BY <2>1, <2>2, HoldsNone, Zenon
  <2>4. 0 \in 0 .. n
    BY <1>1
  <2> QED
    BY <2>3, <2>4
<1> HIDE DEF f, n
<1>4. ASSUME NEW i \in 0 .. n, i \in S, i < n PROVE i + 1 \in S
  <2> DEFINE p == pieces[i + 1]
  <2>1. i + 1 \in 1 .. n /\ i + 1 \in 0 .. n /\ (i + 1) - 1 = i
    BY <1>1, <1>4
  <2>2. f[i] \in Seq(Class) /\ f[i + 1] = JoinStep(f[i], i + 1, p) /\ p \in Seq(Class)
    BY <1>1, <1>2, <2>1
  <2>3. Holds(SubSeq(pieces, 1, i + 1), Letters(f[i]) + Letters(p))
    <3>1. i + 1 \in 1 .. Len(pieces)
      BY <2>1 DEF n
    <3>2. Holds(SubSeq(pieces, 1, (i + 1) - 1), Letters(f[i]))
      BY <1>4, <2>1
    <3> QED
      BY <1>2, <3>1, <3>2, HoldsFurther
  <2> HIDE DEF p
  <2>4. Letters(f[i]) \in Nat /\ Letters(p) \in Nat
    BY <2>2, LettersFinite
  <2>5. Letters(f[i + 1]) = Letters(f[i]) + Letters(p)
    <3>1. CASE i = 0
      <4>1. f[i + 1] = p
        BY <2>2, <3>1 DEF JoinStep
      <4>2. Letters(f[i]) = 0
        BY <1>1, <3>1, NothingHeld
      <4> QED
        BY <2>4, <4>1, <4>2
    <3>2. CASE i # 0
      <4> DEFINE gap == <<"space">>
      <4>1. i + 1 # 1
        BY <3>2
      <4>2. f[i + 1] = f[i] \o gap \o p
        BY <2>2, <4>1 DEF JoinStep
      <4>3. gap \in Seq(Class) /\ Letters(gap) = 0
        <5>1. "space" \in Class
          BY DEF Class
        <5> QED
          BY <5>1, LettersOne
      <4> HIDE DEF gap
      <4>4. f[i] \o gap \in Seq(Class)
        BY <2>2, <4>3
      <4>5. Letters(f[i] \o gap) = Letters(f[i]) + Letters(gap)
        BY <2>2, <4>3, LettersAdd
      <4>6. Letters(f[i] \o gap \o p) = Letters(f[i] \o gap) + Letters(p)
        BY <2>2, <4>4, LettersAdd
      <4> QED
        BY <2>4, <4>2, <4>3, <4>5, <4>6
    <3> QED
      BY <3>1, <3>2
  <2> QED
    BY <2>1, <2>3, <2>5
<1>5. n \in S
  <2>1. n \in 0 .. n
    BY <1>1
  <2> HIDE DEF S
  <2> QED
    BY <1>1, <1>3, <1>4, <2>1, Upto
<1>6. Holds(SubSeq(pieces, 1, n), Letters(f[n]))
  BY <1>5
<1>7. SubSeq(pieces, 1, n) = pieces
  BY DEF n
<1> QED
  BY <1>6, <1>7 DEF Holds, f, n

\* Every letter of every text is in its expression, and no other is.
LEMMA SanitisedLosesNone ==
    ASSUME NEW text \in Seq(Class)
    PROVE  Letters(Sanitised(text)) = Letters(text)
<1> DEFINE rest == Pull(text).rest
<1> DEFINE tokens == Tokens(rest)
<1> DEFINE terms == Terms(tokens)[Len(tokens)]
<1> DEFINE quoted == [i \in DOMAIN Phrases(text) |-> Quoted(Phrases(text)[i])]
<1> DEFINE all == All(text)
<1>1. PICK m \in Nat : Holds(Phrases(text), m) /\ m + Letters(rest) = Letters(text)
  BY ScanLosesNone
<1>2. /\ Phrases(text) \in Seq(NoQuote) /\ rest \in Seq(Class) /\ tokens \in Seq(Word)
      /\ quoted \in Seq(Piece) /\ all \in Seq(Piece)
  BY PiecesOnly
<1>3. Holds(quoted, m)
  BY <1>1, <1>2, QuotesLoseNone
<1>4. Holds(tokens, Letters(rest))
  BY <1>2, SplitLosesNone
<1>5. terms \in Seq(Piece) /\ Holds(terms, Letters(rest))
  <2> HIDE DEF tokens, rest
  <2>1. Terms(tokens) \in [0 .. Len(tokens) -> Seq(Piece)]
    BY <1>2, TermsFold
  <2>2. Len(tokens) \in 0 .. Len(tokens)
    BY <1>2
  <2> QED
    BY <1>2, <1>4, <2>1, <2>2, TermsLoseNone
<1>6. all = quoted \o terms
  BY DEF All
<1> HIDE DEF quoted, terms, tokens, all
<1>7. Holds(all, Letters(text))
  <2>1. quoted \in Seq(Seq(Class)) /\ terms \in Seq(Seq(Class))
    BY <1>2, <1>5, PhrasesAreTexts
  <2> HIDE DEF rest
  <2>2. Holds(quoted \o terms, m + Letters(rest))
    BY <1>3, <1>5, <2>1, HoldsAdd
  <2> QED
    BY <1>1, <1>6, <2>2
<1>8. CASE all = <<>>
  <2>1. Letters(text) = 0
    BY <1>7, <1>8, HoldsNone DEF Holds
  <2>2. Sanitised(text) = Quoted(<<>>)
    BY <1>8 DEF Sanitised, all
  <2>3. <<>> \in Seq(Class)
    OBVIOUS
  <2>4. Letters(Quoted(<<>>)) = 0
    BY <2>3, LettersQuoted, NothingHeld
  <2> QED
    BY <2>1, <2>2, <2>4
<1>9. CASE all # <<>>
  <2>1. Sanitised(text) = Join(all)[Len(all)]
    BY <1>9 DEF Sanitised, all
  <2> QED
    BY <1>2, <1>7, <2>1, JoinLosesNone
<1> QED
  BY <1>8, <1>9

\* No letter is lost, in texts of every length: every letter typed is in the
\* expression, and none is invented (fts.ts:52-54).
THEOREM NeverLost == QuerySpec => []LettersKept
<1>1. raw \in Seq(Class) => LettersKept
  BY SanitisedLosesNone DEF LettersKept, Letters
<1> QED
  BY <1>1, TextTyped, PTL

=============================================================================
