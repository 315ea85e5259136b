-------------------------- MODULE CommandLineProofs --------------------------
(***************************************************************************)
(* Proofs about CommandLine for any registry, any words and lines of any   *)
(* length, any places, texts and limits.  First the report (what scrubbing *)
(* shows, what trimming keeps), then what clap makes of the words: Reads   *)
(* says how one more word moves it, and each of the *Moves lemmas that     *)
(* such a word keeps clap and another reader of the words in step, so that *)
(* HistoryHolds follows along the line and LineIsUnderstood at its end.    *)
(* The process comes last: its invariant ties what became of a line to the *)
(* words, which stay as they were typed.                                   *)
(***************************************************************************)
EXTENDS CommandLine, FiniteSetTheorems, SequenceTheorems, TLAPS

-----------------------------------------------------------------------------
(* Issue reports *)

Chars == [c : DOMAIN Weight, secret : BOOLEAN]

\* The characters that may be shown.
Public == {char \in Chars : ~char.secret}

\* The characters of a text, none of which is a box, and those of them that may be shown.
Typable == [c : DOMAIN Weight \ Boxes, secret : BOOLEAN]
Shown == {char \in Typable : ~char.secret}

LEMMA SeqGrows == ASSUME NEW S, NEW T, S \subseteq T PROVE \A s \in Seq(S) : s \in Seq(T)
<1>1. SUFFICES ASSUME NEW s \in Seq(S) PROVE s \in Seq(T)
  OBVIOUS
<1>2. Len(s) \in Nat /\ s = [i \in 1 .. Len(s) |-> s[i]] /\ \A i \in 1 .. Len(s) : s[i] \in T
  OBVIOUS
<1> QED
  BY <1>2

LEMMA ShownIsPublic ==
    /\ Shown \subseteq Public /\ Shown \subseteq Typable /\ Typable \subseteq Chars
    /\ \A text \in Seq(Shown) : text \in Seq(Public) /\ text \in Seq(Typable)
    /\ \A text \in Seq(Typable) : text \in Seq(Chars)
<1>1. Shown \subseteq Public /\ Shown \subseteq Typable /\ Typable \subseteq Chars
  BY DEF Shown, Public, Typable, Chars
<1> QED
  BY <1>1, SeqGrows

\* What the characters of a text weigh in a link.
Weighed(n, char) == n + Weight[char.c]
Weighing == INSTANCE Folding WITH Op <- Weighed
Weigh(text) == Weighing!Fold(0, text)

LEMMA UrlWeighs == \A title, body : Url(title, body) = Weigh(title \o body)
BY DEF Url, Weigh, Weighed, Weighing!Fold, Weighing!MapThenFoldSet, Weighing!Max, FoldLeft, MapThenFoldSet, Max

\* The weight of a text is what its parts weigh, and at most that of as many of the heaviest character.
LEMMA WeightAdds ==
    /\ Weigh(<<>>) = 0
    /\ \A s \in Seq(Chars) : Weigh(s) \in Nat
    /\ \A s \in Seq(Chars), char \in Chars : Weigh(Append(s, char)) = Weigh(s) + Weight[char.c]
    /\ \A s, t \in Seq(Chars) : Weigh(s \o t) = Weigh(s) + Weigh(t)
<1>1. Weigh(<<>>) = 0
  BY Weighing!FoldEmpty DEF Weigh
<1>2. \A s \in Seq(Chars), char \in Chars : Weigh(Append(s, char)) = Weigh(s) + Weight[char.c]
  BY Weighing!FoldAppend DEF Weigh, Weighed
<1>3. \A char \in Chars : Weight[char.c] \in Nat
  BY TitleAndChecksFit DEF Chars
<1>4. \A s \in Seq(Chars) : Weigh(s) \in Nat
  <2>1. \A n \in Nat, char \in Chars : Weighed(n, char) \in Nat
    BY <1>3 DEF Weighed
  <2> QED
    BY <2>1, Weighing!FoldKeeps DEF Weigh
<1>5. ASSUME NEW s \in Seq(Chars) PROVE \A t \in Seq(Chars) : Weigh(s \o t) = Weigh(s) + Weigh(t)
  <2> DEFINE S == {t \in Seq(Chars) : Weigh(s \o t) = Weigh(s) + Weigh(t)}
  <2>1. <<>> \in S
    <3>1. s \o <<>> = s /\ <<>> \in Seq(Chars)
      OBVIOUS
    <3> QED
      BY <3>1, <1>1, <1>4
  <2>2. ASSUME NEW t \in Seq(Chars), NEW e \in Chars, t \in S PROVE Append(t, e) \in S
    <3>1. s \o Append(t, e) = Append(s \o t, e) /\ s \o t \in Seq(Chars) /\ Append(t, e) \in Seq(Chars)
      OBVIOUS
    <3>2. Weigh(Append(s \o t, e)) = Weigh(s \o t) + Weight[e.c] /\ Weigh(Append(t, e)) = Weigh(t) + Weight[e.c]
      BY <3>1, <1>2
    <3>3. Weigh(s \o t) = Weigh(s) + Weigh(t)
      BY <2>2
    <3>4. Weigh(s) \in Nat /\ Weigh(t) \in Nat /\ Weight[e.c] \in Nat
      BY <1>3, <1>4
    <3>5. Weigh(s \o Append(t, e)) = Weigh(s) + Weigh(Append(t, e))
      BY <3>1, <3>2, <3>3, <3>4
    <3> QED
      BY <3>1, <3>5
  <2> HIDE DEF S
  <2>3. \A t \in Seq(Chars) : t \in S
    BY <2>1, <2>2, Weighing!SequencesInductive
  <2> QED
    BY <2>3 DEF S
<1> QED
  BY <1>1, <1>2, <1>4, <1>5

LEMMA WeightOfOne == \A char \in Chars : Weigh(<<char>>) = Weight[char.c]
<1>1. SUFFICES ASSUME NEW char \in Chars PROVE Weigh(<<char>>) = Weight[char.c]
  OBVIOUS
<1>2. <<char>> = Append(<<>>, char) /\ <<>> \in Seq(Chars)
  OBVIOUS
<1>3. Weigh(<<char>>) = Weigh(<<>>) + Weight[char.c]
  BY <1>2, WeightAdds
<1>4. Weight[char.c] \in Nat
  BY TitleAndChecksFit DEF Chars
<1> QED
  BY <1>3, <1>4, WeightAdds

LEMMA WeightIsBounded ==
    ASSUME NEW w \in Nat, \A c \in DOMAIN Weight \ Boxes : Weight[c] <= w
    PROVE  \A s \in Seq(Typable) : Weigh(s) <= Len(s) * w
<1> DEFINE S == {s \in Seq(Typable) : Weigh(s) <= Len(s) * w}
<1>1. <<>> \in S
  <2>1. Len(<<>>) * w = 0 /\ <<>> \in Seq(Typable)
    <3>1. Len(<<>>) = 0 /\ 0 * w = 0 /\ <<>> \in Seq(Typable)
      OBVIOUS
    <3> QED
      BY <3>1
  <2> QED
    BY <2>1, WeightAdds
<1>2. ASSUME NEW s \in Seq(Typable), NEW e \in Typable, s \in S PROVE Append(s, e) \in S
  <2>1. Append(s, e) \in Seq(Typable) /\ Len(Append(s, e)) = Len(s) + 1 /\ Len(s) \in Nat
    OBVIOUS
  <2>2. Weigh(Append(s, e)) = Weigh(s) + Weight[e.c] /\ Weigh(s) \in Nat
    BY WeightAdds, ShownIsPublic
  <2>3. Weight[e.c] \in Nat /\ Weight[e.c] <= w
    BY TitleAndChecksFit DEF Typable
  <2>4. Weigh(s) <= Len(s) * w
    BY <1>2
  <2>5. \A n \in Nat : (n + 1) * w = n * w + w /\ n * w \in Nat
    OBVIOUS
  <2>6. (Len(s) + 1) * w = Len(s) * w + w /\ Len(s) * w \in Nat
    BY <2>1, <2>5
  <2>7. Weigh(s) + Weight[e.c] <= (Len(s) + 1) * w
    BY <2>2, <2>3, <2>4, <2>6
  <2> QED
    BY <2>1, <2>2, <2>7
<1> HIDE DEF S
<1>3. \A s \in Seq(Typable) : s \in S
  BY <1>1, <1>2, Weighing!SequencesInductive
<1> QED
  BY <1>3 DEF S

-----------------------------------------------------------------------------

\* A text on one line is a text.
LEMMA OneLineIsText ==
    ASSUME NEW text, IsText(text)
    PROVE  IsText(OneLine(text))
<1> DEFINE line_ == OneLine(text)
<1>1. text \in Seq(Typable) /\ Len(line_) = Len(text) /\ DOMAIN line_ = DOMAIN text /\ Character("space") \in Typable
  BY TitleAndChecksFit DEF IsText, OneLine, Typable, Character, Boxes
<1>2. line_ \in Seq(Typable)
  BY <1>1 DEF OneLine
<1>3. \A i \in DOMAIN text : line_[i] = text[i] \/ (~InWord(text[i]) /\ ~InWord(line_[i]) /\ ~line_[i].secret)
  BY DEF OneLine, InWord, WordClasses, Character
<1> HIDE DEF line_
<1>4. \A i \in DOMAIN line_ : line_[i].secret => InWord(line_[i])
  BY <1>1, <1>3 DEF IsText
<1>5. ASSUME NEW i \in DOMAIN line_, NEW j \in DOMAIN line_, i <= j, \A k \in i .. j : InWord(line_[k]),
             i > 1 => ~InWord(line_[i - 1]), j < Len(line_) => ~InWord(line_[j + 1]),
             \E k \in i .. j : line_[k].secret
      PROVE  IsSecret(SubSeq(line_, i, j))
  <2>1. i \in 1..Len(text) /\ j \in 1..Len(text) /\ Len(text) \in Nat /\ DOMAIN text = 1..Len(text)
    BY <1>1
  <2>2. \A k \in i .. j : k \in DOMAIN text /\ line_[k] = text[k]
    BY <1>3, <1>5, <2>1
  <2>3. \A k \in i .. j : InWord(text[k])
    BY <1>5, <2>2
  <2>4. (i > 1 => i - 1 \in DOMAIN text) /\ (j < Len(text) => j + 1 \in DOMAIN text)
    BY <2>1
  <2>5. (i > 1 => ~InWord(text[i - 1])) /\ (j < Len(text) => ~InWord(text[j + 1]))
    BY <1>1, <1>3, <1>5, <2>4
  <2>6. \E k \in i .. j : text[k].secret
    BY <1>5, <2>2
  <2>7. IsSecret(SubSeq(text, i, j))
    BY <1>5, <2>1, <2>3, <2>5, <2>6 DEF IsText
  <2>8. SubSeq(line_, i, j) = SubSeq(text, i, j)
    <3>1. i \in Int /\ j \in Int /\ \A k \in 1 .. j - i + 1 : i + k - 1 \in i .. j
      BY <2>1
    <3>2. PICK a \in Seq(Typable) : /\ a = SubSeq(line_, i, j) /\ Len(a) = j - i + 1
                                    /\ \A k \in 1 .. j - i + 1 : a[k] = line_[i + k - 1]
      <4>1. \A k \in i .. j : line_[k] \in Typable
        BY <1>1, <1>2, <2>2
      <4>2. /\ SubSeq(line_, i, j) \in Seq(Typable)
            /\ Len(SubSeq(line_, i, j)) = IF i <= j THEN j - i + 1 ELSE 0
            /\ \A k \in 1 .. j - i + 1 : SubSeq(line_, i, j)[k] = line_[i + k - 1]
        BY <3>1, <4>1, SubSeqProperties
      <4> QED
        BY <1>5, <4>2
    <3>3. PICK b \in Seq(Typable) : /\ b = SubSeq(text, i, j) /\ Len(b) = j - i + 1
                                    /\ \A k \in 1 .. j - i + 1 : b[k] = text[i + k - 1]
      <4>1. \A k \in i .. j : text[k] \in Typable
        BY <1>1, <2>2
      <4>2. /\ SubSeq(text, i, j) \in Seq(Typable)
            /\ Len(SubSeq(text, i, j)) = IF i <= j THEN j - i + 1 ELSE 0
            /\ \A k \in 1 .. j - i + 1 : SubSeq(text, i, j)[k] = text[i + k - 1]
        BY <3>1, <4>1, SubSeqProperties
      <4> QED
        BY <1>5, <4>2
    <3>4. \A k \in 1 .. j - i + 1 : a[k] = b[k]
      BY <2>2, <3>1, <3>2, <3>3
    <3>5. a = b
      BY <3>1, <3>2, <3>3, <3>4, SeqEqual
    <3> QED
      BY <3>2, <3>3, <3>5
  <2> QED
    BY <2>7, <2>8
<1>6. IsText(line_)
  BY <1>2, <1>4, <1>5 DEF IsText, Typable
<1> QED
  BY <1>6 DEF line_

\* The reading of a text, a character at a time: Push of Scrubbed.
PushedChar(s, char) ==
    IF InWord(char) THEN [s EXCEPT !.word = Append(@, char)] ELSE [text |-> Append(Pushed(s).text, char), word |-> <<>>]
Scrubbing == INSTANCE Folding WITH Op <- PushedChar
Start_ == [text |-> <<>>, word |-> <<>>]

LEMMA ScrubbedIs == \A text : Scrubbed(text) = Pushed(Scrubbing!Fold(Start_, OneLine(text))).text
BY DEF Scrubbed, PushedChar, Start_, Scrubbing!Fold, Scrubbing!MapThenFoldSet, Scrubbing!Max, FoldLeft,
       MapThenFoldSet, Max

\* What is shown of the first k characters, and the word that they end in.
ScrubbedTo(text, k, s) ==
    /\ s = [text |-> s.text, word |-> s.word]
    /\ s.text \in Seq(Shown)
    /\ \E i \in 1 .. k + 1 :
         /\ s.word = SubSeq(text, i, k)
         /\ \A m \in i .. k : InWord(text[m])
         /\ i > 1 => ~InWord(text[i - 1])

LEMMA RedactedIsShown == Redacted \in Seq(Shown)
<1>1. Redacted \in Seq(Typable)
  BY TitleAndChecksFit DEF Redacted, Written, Character, Typable, Boxes
<1>2. \A i \in DOMAIN Redacted : ~Redacted[i].secret
  BY DEF Redacted, Written, Character
<1> QED
  BY <1>1, <1>2 DEF Shown

\* At the end of a word nothing that is secret is shown.
LEMMA PushedIsShown ==
    ASSUME NEW text, IsText(text), NEW k \in 0 .. Len(text), NEW s, ScrubbedTo(text, k, s),
           k < Len(text) => ~InWord(text[k + 1])
    PROVE  Pushed(s) = [text |-> Pushed(s).text, word |-> <<>>] /\ Pushed(s).text \in Seq(Shown)
<1>1. text \in Seq(Typable) /\ Len(text) \in Nat /\ DOMAIN text = 1 .. Len(text) /\ k \in Nat
  BY DEF IsText, Typable
<1>2. PICK i \in 1 .. k + 1 : /\ s.word = SubSeq(text, i, k)
                              /\ \A m \in i .. k : InWord(text[m])
                              /\ i > 1 => ~InWord(text[i - 1])
  BY DEF ScrubbedTo
<1>3. s.text \in Seq(Shown)
  BY DEF ScrubbedTo
<1>4. CASE IsSecret(s.word)
  <2>1. s.text \o Redacted \in Seq(Shown)
    BY <1>3, RedactedIsShown
  <2> QED
    BY <1>4, <2>1 DEF Pushed
<1>5. CASE ~IsSecret(s.word)
  <2>1. s.word \in Seq(Shown)
    <3>1. CASE i = k + 1
      <4>1. s.word = <<>>
        BY <1>1, <1>2, <3>1
      <4> QED
        BY <4>1
    <3>2. CASE i # k + 1
      <4>1. i \in DOMAIN text /\ k \in DOMAIN text /\ i <= k
        BY <1>1, <3>2
      <4>2. \A m \in i .. k : m \in DOMAIN text /\ ~text[m].secret
        <5>1. SUFFICES ASSUME NEW m \in i .. k, text[m].secret PROVE FALSE
          BY <1>1, <4>1
        <5>2. \E n \in i .. k : text[n].secret
          BY <5>1
        <5>3. IsSecret(SubSeq(text, i, k))
          BY <1>2, <4>1, <5>2 DEF IsText
        <5> QED
          BY <1>2, <1>5, <5>3
      <4>3. \A m \in i .. k : text[m] \in Shown
        BY <1>1, <4>2 DEF Shown
      <4>4. \A m \in 1 .. (k - i + 1) : i + m - 1 \in i .. k
        BY <1>1, <4>1
      <4>5. SubSeq(text, i, k) \in Seq(Shown)
        BY <1>1, <4>1, <4>3, <4>4
      <4> QED
        BY <1>2, <4>5
    <3> QED
      BY <3>1, <3>2
  <2>2. s.text \o s.word \in Seq(Shown)
    BY <1>3, <2>1
  <2> QED
    BY <1>5, <2>2 DEF Pushed
<1> QED
  BY <1>4, <1>5

\* A further character.
LEMMA PushedCharKeeps ==
    ASSUME NEW text, IsText(text), NEW k \in Nat, k < Len(text), NEW s, ScrubbedTo(text, k, s)
    PROVE  ScrubbedTo(text, k + 1, PushedChar(s, text[k + 1]))
<1> DEFINE char == text[k + 1]
<1>1. text \in Seq(Typable) /\ Len(text) \in Nat /\ DOMAIN text = 1 .. Len(text) /\ k + 1 \in DOMAIN text
      /\ k \in 0 .. Len(text) /\ char \in Typable
  <2>1. text \in Seq(Typable)
    BY DEF IsText, Typable
  <2>2. Len(text) \in Nat /\ DOMAIN text = 1 .. Len(text)
    BY <2>1
  <2>3. k + 1 \in 1 .. Len(text) /\ k \in 0 .. Len(text)
    BY <2>2
  <2> QED
    BY <2>1, <2>2, <2>3
<1>2. CASE InWord(char)
  <2>1. PICK i \in 1 .. k + 1 : /\ s.word = SubSeq(text, i, k)
                                /\ \A m \in i .. k : InWord(text[m])
                                /\ i > 1 => ~InWord(text[i - 1])
    BY DEF ScrubbedTo
  <2>2. Append(SubSeq(text, i, k), char) = SubSeq(text, i, k + 1)
    BY <1>1
  <2>3. \A m \in i .. k + 1 : InWord(text[m])
    BY <1>1, <1>2, <2>1
  <2>4. PushedChar(s, char) = [text |-> s.text, word |-> SubSeq(text, i, k + 1)]
    BY <1>2, <2>1, <2>2 DEF PushedChar, ScrubbedTo
  <2>5. i \in 1 .. (k + 1) + 1
    OBVIOUS
  <2>6. s.text \in Seq(Shown)
    BY DEF ScrubbedTo
  <2> DEFINE r == PushedChar(s, char)
  <2>7. r = [text |-> r.text, word |-> r.word] /\ r.text = s.text /\ r.word = SubSeq(text, i, k + 1)
    BY <2>4
  <2> HIDE DEF r
  <2>8. ScrubbedTo(text, k + 1, r)
    BY <2>1, <2>3, <2>5, <2>6, <2>7 DEF ScrubbedTo
  <2> QED
    BY <2>8 DEF r
<1>3. CASE ~InWord(char)
  <2>1. Pushed(s) = [text |-> Pushed(s).text, word |-> <<>>] /\ Pushed(s).text \in Seq(Shown)
    BY <1>1, <1>3, PushedIsShown
  <2>2. char \in Shown
    BY <1>1, <1>3 DEF IsText, Shown
  <2>3. Append(Pushed(s).text, char) \in Seq(Shown)
    BY <2>1, <2>2
  <2> DEFINE r == PushedChar(s, char)
  <2>4. r = [text |-> r.text, word |-> r.word] /\ r.text = Append(Pushed(s).text, char) /\ r.word = <<>>
    BY <1>3 DEF PushedChar
  <2>5. k + 2 \in 1 .. (k + 1) + 1 /\ SubSeq(text, k + 2, k + 1) = <<>> /\ (k + 2) .. (k + 1) = {} /\ (k + 2) - 1 = k + 1
    BY <1>1
  <2> HIDE DEF r
  <2>6. r.word = SubSeq(text, k + 2, k + 1) /\ ((k + 2) - 1 = k + 1 => ~InWord(text[(k + 2) - 1]))
    BY <1>3, <2>4, <2>5
  <2>7. ScrubbedTo(text, k + 1, r)
    BY <2>3, <2>4, <2>5, <2>6 DEF ScrubbedTo
  <2> QED
    BY <2>7 DEF r
<1> QED
  BY <1>2, <1>3

\* Nothing secret is left of a text.
LEMMA ScrubbedIsShown == ASSUME NEW text, IsText(text) PROVE Scrubbed(text) \in Seq(Shown)
<1>1. PICK t : t = OneLine(text) /\ IsText(t)
  BY OneLineIsText
<1>2. t \in Seq(Typable) /\ Len(t) \in Nat /\ DOMAIN t = 1 .. Len(t)
  BY <1>1 DEF IsText, Typable
<1> DEFINE St(k) == Scrubbing!Fold(Start_, SubSeq(t, 1, k))
           S == {k \in Nat : k <= Len(t) => ScrubbedTo(t, k, St(k))}
<1>3. 0 \in S
  <2>1. SubSeq(t, 1, 0) = <<>>
    BY <1>2
  <2>2. St(0) = Start_
    BY <2>1, Scrubbing!FoldEmpty
  <2>3. ScrubbedTo(t, 0, Start_)
    <3>1. <<>> \in Seq(Shown) /\ 1 \in 1 .. 0 + 1 /\ 1 .. 0 = {}
      OBVIOUS
    <3> QED
      BY <2>1, <3>1 DEF ScrubbedTo, Start_
  <2> QED
    BY <2>2, <2>3
<1>4. ASSUME NEW k \in Nat, k \in S PROVE k + 1 \in S
  <2>1. SUFFICES ASSUME k + 1 <= Len(t) PROVE ScrubbedTo(t, k + 1, St(k + 1))
    OBVIOUS
  <2>2. SubSeq(t, 1, k + 1) = Append(SubSeq(t, 1, k), t[k + 1]) /\ SubSeq(t, 1, k) \in Seq(Typable) /\ t[k + 1] \in Typable
    BY <1>2, <2>1
  <2>3. St(k + 1) = PushedChar(St(k), t[k + 1])
    BY <2>2, Scrubbing!FoldAppend
  <2>4. ScrubbedTo(t, k, St(k)) /\ k < Len(t)
    BY <1>2, <1>4, <2>1
  <2> HIDE DEF St
  <2> QED
    BY <1>1, <2>3, <2>4, PushedCharKeeps
<1> HIDE DEF S
<1>5. \A k \in Nat : k \in S
  BY <1>3, <1>4, Scrubbing!Inductive
<1>6. ScrubbedTo(t, Len(t), St(Len(t)))
  BY <1>2, <1>5 DEF S
<1>7. SubSeq(t, 1, Len(t)) = t
  BY <1>2
<1>8. Pushed(St(Len(t))).text \in Seq(Shown)
  BY <1>1, <1>2, <1>6, PushedIsShown
<1> QED
  BY <1>1, <1>7, <1>8, ScrubbedIs

LEMMA ScrubIsShown ==
    ASSUME NEW text, IsText(text), NEW limit \in Nat
    PROVE  Scrub(text, limit) \in Seq(Shown) /\ Len(Scrub(text, limit)) <= limit + 1
<1>1. Scrubbed(text) \in Seq(Shown)
  BY ScrubbedIsShown
<1>2. Character("ellipsis") \in Shown
  BY TitleAndChecksFit DEF Character, Shown, Typable, Boxes
<1> QED
  BY <1>1, <1>2 DEF Scrub, Shortened

-----------------------------------------------------------------------------

\* A draft, and what its report begins and ends with.
Draft(draft) ==
    /\ IsText(draft.title) /\ IsText(draft.panic) /\ IsText(draft.command)
    /\ draft.agent \in BOOLEAN

Ending(draft) == <<Character("checks"), Box(draft)>>

LEMMA LimitsType == {MaxTitle, MaxProblem, MaxCommand, MaxUrl} \subseteq Nat /\ MaxTitle >= 1
BY LimitsAreNatural

LEMMA WrittenIsPublic ==
    /\ Written(<<"letter", "letter">>) \in Seq(Shown) /\ Len(Written(<<"letter", "letter">>)) = 2
    /\ Written(<<"letter">>) \in Seq(Shown)
    /\ Written(<<"space">>) \in Seq(Shown)
    /\ Written(<<"letter", "space">>) \in Seq(Shown)
    /\ Character("ellipsis") \in Public
    /\ \A draft : Ending(draft) \in Seq(Public) /\ Len(Ending(draft)) = 2
    /\ \A draft : Character("checks") \in Public /\ Box(draft) \in Public
<1>1. /\ Character("letter") \in Shown /\ Character("space") \in Shown /\ Character("ellipsis") \in Public
      /\ Character("checks") \in Public /\ Character("checked") \in Public /\ Character("empty") \in Public
  BY TitleAndChecksFit DEF Character, Public, Chars, Shown, Typable, Boxes
<1>2. Written(<<"letter", "letter">>) = <<Character("letter"), Character("letter")>>
      /\ Written(<<"letter">>) = <<Character("letter")>>
      /\ Written(<<"space">>) = <<Character("space")>>
      /\ Written(<<"letter", "space">>) = <<Character("letter"), Character("space")>>
  BY DEF Written
<1>3. \A draft : Box(draft) \in Public
  BY <1>1 DEF Box
<1>4. \A S : \A x, y \in S : <<x>> \in Seq(S) /\ <<x, y>> \in Seq(S) /\ Len(<<x, y>>) = 2
  OBVIOUS
<1>5. \A draft : Ending(draft) \in Seq(Public) /\ Len(Ending(draft)) = 2
  BY <1>1, <1>3, <1>4 DEF Ending
<1> QED
  BY <1>1, <1>2, <1>3, <1>4, <1>5

LEMMA TitleIsShown ==
    ASSUME NEW draft, Draft(draft)
    PROVE  Title(draft) \in Seq(Shown) /\ Len(Title(draft)) <= MaxTitle + 1
<1>1. Scrub(draft.title, MaxTitle) \in Seq(Shown) /\ Len(Scrub(draft.title, MaxTitle)) <= MaxTitle + 1
  BY LimitsType, ScrubIsShown DEF Draft
<1>2. 2 <= MaxTitle + 1
  BY LimitsType
<1>3. PICK other : /\ other = Written(<<"letter", "letter">>)
                   /\ other \in Seq(Shown) /\ Len(other) <= MaxTitle + 1
  BY <1>2, WrittenIsPublic
<1>4. Title(draft) \in {Scrub(draft.title, MaxTitle), other}
  BY <1>3 DEF Title
<1> QED
  BY <1>1, <1>3, <1>4

LEMMA OpeningIsShown ==
    ASSUME NEW draft, Draft(draft)
    PROVE  Opening(draft) \in Seq(Shown)
<1>1. Problem(draft) \in Seq(Shown)
  BY LimitsType, ScrubIsShown, WrittenIsPublic DEF Draft, Problem
<1>2. Scrub(draft.command, MaxCommand) \in Seq(Shown)
  BY LimitsType, ScrubIsShown DEF Draft
<1>3. (IF draft.agent THEN Written(<<"letter", "space">>) ELSE <<>>) \in Seq(Shown)
  BY WrittenIsPublic
<1> QED
  BY <1>1, <1>2, <1>3, WrittenIsPublic DEF Opening

\* A text that shows no secret, is short enough beside the title, and ends with the checks and the box.
Fits(draft, text) ==
    /\ text \in Seq(Public)
    /\ Url(Title(draft), text) <= MaxUrl
    /\ Len(text) >= 2 /\ SubSeq(text, Len(text) - 1, Len(text)) = Ending(draft)

\* The end of a sequence that ends with two elements.
LEMMA ConcatEnds ==
    ASSUME NEW D, NEW s \in Seq(D), NEW e \in Seq(D), Len(e) = 2
    PROVE  SubSeq(s \o e, Len(s) + 1, Len(s) + 2) = e
<1>1. PICK t, l : t = s \o e /\ l = Len(s)
  OBVIOUS
<1>2. t \in Seq(D) /\ Len(t) = l + 2 /\ l \in Nat
  <2>1. s \o e \in Seq(D) /\ Len(s \o e) = Len(s) + Len(e)
    BY ConcatProperties
  <2>2. Len(s) \in Nat
    OBVIOUS
  <2> QED
    BY <1>1, <2>1, <2>2
<1>3. \A i \in 1 .. l + 2 : t[i] = IF i <= l THEN s[i] ELSE e[i - l]
  <2>1. \A i \in 1 .. Len(s) + Len(e) : (s \o e)[i] = IF i <= Len(s) THEN s[i] ELSE e[i - Len(s)]
    BY ConcatProperties
  <2> QED
    BY <1>1, <2>1
<1>4. l + 1 \in 1 .. l + 2 /\ ~(l + 1 <= l) /\ (l + 1) - l = 1
      /\ l + 2 \in 1 .. l + 2 /\ ~(l + 2 <= l) /\ (l + 2) - l = 2
  BY <1>2
<1>5. t[l + 1] = e[1] /\ t[l + 2] = e[2]
  BY <1>3, <1>4
<1>6. SubSeq(t, l + 1, l + 2) \in Seq(D) /\ Len(SubSeq(t, l + 1, l + 2)) = 2
      /\ SubSeq(t, l + 1, l + 2)[1] = t[l + 1] /\ SubSeq(t, l + 1, l + 2)[2] = t[l + 2]
  BY <1>2
<1>7. SubSeq(t, l + 1, l + 2) = e
  <2>1. \A u, v \in Seq(D) : Len(u) = 2 /\ Len(v) = 2 /\ u[1] = v[1] /\ u[2] = v[2] => u = v
    <3>1. SUFFICES ASSUME NEW u \in Seq(D), NEW v \in Seq(D), Len(u) = 2, Len(v) = 2, u[1] = v[1], u[2] = v[2]
                   PROVE  u = v
      OBVIOUS
    <3>2. \A i \in 1 .. 2 : u[i] = v[i]
      <4>1. 1 .. 2 = {1, 2}
        OBVIOUS
      <4> QED
        BY <3>1, <4>1
    <3> QED
      BY <3>1, <3>2, SeqEqual
  <2> QED
    BY <1>5, <1>6, <2>1
<1> QED
  BY <1>1, <1>7

\* A body has its checks before the box; cutting keeps both.
LEMMA KeptEnds ==
    ASSUME NEW draft, Draft(draft), NEW n \in 0 .. Len(Opening(draft))
    PROVE  /\ ChecksAt(Body(draft)) = Len(Opening(draft)) + 1
           /\ Len(Body(draft)) = Len(Opening(draft)) + 2
           /\ Kept(Body(draft), n) = SubSeq(Opening(draft), 1, n) \o (<<Character("ellipsis")>> \o Ending(draft))
<1> DEFINE opening == Opening(draft)
           body == Body(draft)
<1>1. opening \in Seq(Public) /\ Ending(draft) \in Seq(Public) /\ Len(Ending(draft)) = 2
  BY OpeningIsShown, ShownIsPublic, WrittenIsPublic
<1>2. body = opening \o Ending(draft)
  BY DEF Body, Ending
<1>3. PICK o, l, e : o = opening /\ l = Len(o) /\ e = Ending(draft)
  OBVIOUS
<1>4. /\ body \in Seq(Public) /\ Len(body) = l + 2 /\ DOMAIN body = 1 .. l + 2 /\ l \in Nat
      /\ \A i \in 1 .. l : body[i] = o[i]
      /\ body[l + 1] = e[1] /\ body[l + 2] = e[2]
  <2> HIDE DEF body, opening
  <2>1. o \in Seq(Public) /\ e \in Seq(Public) /\ Len(e) = 2 /\ l \in Nat /\ DOMAIN o = 1 .. l
    BY <1>1, <1>3
  <2>2. body = o \o e
    BY <1>2, <1>3
  <2>3. body \in Seq(Public) /\ Len(body) = l + 2
    <3>1. Len(o \o e) = Len(o) + Len(e) /\ o \o e \in Seq(Public)
      BY <2>1, ConcatProperties
    <3> QED
      BY <3>1, <2>1, <2>2, <1>3
  <2>4. \A i \in 1 .. l : body[i] = o[i]
    BY <2>1, <2>2, <1>3
  <2>5. body[l + 1] = e[1] /\ body[l + 2] = e[2]
    <3>1. \A i \in 1 .. Len(o) + Len(e) : (o \o e)[i] = IF i <= Len(o) THEN o[i] ELSE e[i - Len(o)]
      BY <2>1, ConcatProperties
    <3>2. l + 1 \in 1 .. l + 2 /\ ~(l + 1 <= l) /\ (l + 1) - l = 1
          /\ l + 2 \in 1 .. l + 2 /\ ~(l + 2 <= l) /\ (l + 2) - l = 2
      BY <2>1
    <3> QED
      BY <3>1, <3>2, <2>1, <2>2, <1>3
  <2> QED
    BY <2>1, <2>3, <2>4, <2>5
<1>5. e[1].c = "checks" /\ e[2].c # "checks"
  BY <1>3 DEF Ending, Character, Box
<1>6. ChecksAt(body) = l + 1
  <2> DEFINE Is(i) == body[i].c = "checks" /\ \A j \in i + 1 .. Len(body) : body[j].c # "checks"
  <2> HIDE DEF body
  <2>1. l + 1 \in DOMAIN body /\ Is(l + 1)
    <3>1. \A j \in (l + 1) + 1 .. Len(body) : j = l + 2
      BY <1>4
    <3> QED
      BY <1>4, <1>5, <3>1
  <2>2. \A i \in DOMAIN body : Is(i) => i = l + 1
    <3>1. SUFFICES ASSUME NEW i \in DOMAIN body, Is(i), i # l + 1 PROVE FALSE
      OBVIOUS
    <3>2. CASE i < l + 1
      <4>1. l + 1 \in i + 1 .. Len(body)
        BY <1>4, <3>1, <3>2
      <4> QED
        BY <1>4, <1>5, <3>1, <4>1
    <3>3. CASE i = l + 2
      BY <1>4, <1>5, <3>1, <3>3
    <3> QED
      BY <1>4, <3>1, <3>2, <3>3
  <2>3. ChecksAt(body) = CHOOSE i \in DOMAIN body : Is(i)
    BY DEF ChecksAt
  <2> HIDE DEF Is
  <2> QED
    BY <2>1, <2>2, <2>3
<1>7. SubSeq(body, l + 1, l + 2) = e
  <2> HIDE DEF body
  <2>1. e \in Seq(Public) /\ Len(e) = 2
    BY <1>1, <1>3
  <2> QED
    BY <2>1, <1>4
<1>8. SubSeq(body, 1, n) = SubSeq(o, 1, n)
  <2> HIDE DEF body, opening
  <2>1. o \in Seq(Public) /\ n \in 0 .. l
    BY <1>1, <1>3 DEF opening
  <2> QED
    BY <2>1, <1>3, <1>4
<1>9. Kept(body, n) = SubSeq(o, 1, n) \o <<Character("ellipsis")>> \o e
  BY <1>4, <1>6, <1>7, <1>8 DEF Kept
<1>10. (SubSeq(o, 1, n) \o <<Character("ellipsis")>>) \o e = SubSeq(o, 1, n) \o (<<Character("ellipsis")>> \o e)
  <2> HIDE DEF opening
  <2>1. o \in Seq(Public) /\ e \in Seq(Public) /\ n \in 0 .. Len(o)
    BY <1>1, <1>3 DEF opening
  <2>2. SubSeq(o, 1, n) \in Seq(Public) /\ <<Character("ellipsis")>> \in Seq(Public)
    BY <2>1, WrittenIsPublic
  <2> QED
    BY <2>1, <2>2
<1> QED
  BY <1>3, <1>4, <1>6, <1>9, <1>10

\* What is cut to nothing but the checks fits; so does whatever is found short enough.
LEMMA CutFits ==
    ASSUME NEW draft, Draft(draft), NEW n \in 0 .. Len(Opening(draft)),
           n = 0 \/ Url(Title(draft), Kept(Body(draft), n)) <= MaxUrl
    PROVE  Fits(draft, Kept(Body(draft), n))
<1>1. PICK o, e, d : o = Opening(draft) /\ e = Ending(draft) /\ d = <<Character("ellipsis")>>
  OBVIOUS
<1>2. o \in Seq(Public) /\ e \in Seq(Public) /\ Len(e) = 2 /\ d \in Seq(Public) /\ Len(d) = 1
  BY <1>1, OpeningIsShown, ShownIsPublic, WrittenIsPublic
<1>3. PICK s : s = SubSeq(o, 1, n) /\ s \in Seq(Public) /\ Len(s) = n
  <2>1. n \in 0 .. Len(o) /\ Len(o) \in Nat
    BY <1>1, <1>2
  <2>2. SubSeq(o, 1, n) \in Seq(Public) /\ Len(SubSeq(o, 1, n)) = n
    BY <1>2, <2>1
  <2> QED
    BY <2>2
<1>4. Kept(Body(draft), n) = s \o (d \o e)
  BY <1>1, <1>3, KeptEnds
<1>5. d \o e \in Seq(Public) /\ Len(d \o e) = 3
  <2>1. d \o e \in Seq(Public) /\ Len(d \o e) = Len(d) + Len(e)
    BY <1>2, ConcatProperties
  <2> QED
    BY <1>2, <2>1
<1>6. s \o (d \o e) \in Seq(Public) /\ Len(s \o (d \o e)) = n + 3
  <2>1. s \o (d \o e) \in Seq(Public) /\ Len(s \o (d \o e)) = Len(s) + Len(d \o e)
    BY <1>3, <1>5, ConcatProperties
  <2> QED
    BY <1>3, <1>5, <2>1
<1>7. SubSeq(s \o (d \o e), n + 2, n + 3) = e
  <2>1. PICK t : t = s \o d /\ t \in Seq(Public) /\ Len(t) = n + 1
    <3>1. s \o d \in Seq(Public) /\ Len(s \o d) = Len(s) + Len(d)
      BY <1>2, <1>3, ConcatProperties
    <3> QED
      BY <1>2, <1>3, <3>1
  <2>2. s \o (d \o e) = t \o e
    <3>1. (s \o d) \o e = s \o (d \o e)
      <4>1. \A x, y, z \in Seq(Public) : (x \o y) \o z = x \o (y \o z)
        BY ConcatAssociative
      <4> QED
        BY <1>2, <1>3, <4>1
    <3> QED
      BY <2>1, <3>1
  <2>3. (n + 1) + 1 = n + 2 /\ (n + 1) + 2 = n + 3
    OBVIOUS
  <2>4. SubSeq(t \o e, Len(t) + 1, Len(t) + 2) = e
    BY <1>2, <2>1, ConcatEnds
  <2> QED
    BY <2>1, <2>2, <2>3, <2>4
<1>8. ASSUME n = 0 PROVE Url(Title(draft), s \o (d \o e)) <= MaxUrl
  <2>1. s = <<>> /\ s \o (d \o e) = d \o e
    BY <1>3, <1>5, <1>8
  <2>2. PICK w \in 0 .. MaxUrl :
          /\ \A c \in DOMAIN Weight \ Boxes : Weight[c] <= w
          /\ \A box \in Boxes : (MaxTitle + 1) * w + Weight["ellipsis"] + Weight["checks"] + Weight[box] <= MaxUrl
    BY TitleAndChecksFit
  <2>3. w \in Nat /\ MaxTitle \in Nat /\ MaxUrl \in Nat
    BY LimitsType
  <2>4. Public \subseteq Chars
    BY DEF Public
  <2>5. PICK title : title = Title(draft) /\ title \in Seq(Chars) /\ title \in Seq(Typable) /\ Len(title) <= MaxTitle + 1
    BY TitleIsShown, ShownIsPublic
  <2>6. Weigh(title) \in Nat /\ Weigh(title) <= (MaxTitle + 1) * w
    <3>1. Weigh(title) \in Nat /\ Weigh(title) <= Len(title) * w
      BY <2>2, <2>3, <2>5, WeightAdds, WeightIsBounded
    <3>2. \A a, b \in Nat : a <= b => a * w <= b * w /\ a * w \in Nat /\ b * w \in Nat
      BY <2>3
    <3>3. Len(title) \in Nat /\ MaxTitle + 1 \in Nat
      BY <2>3, <2>5
    <3>4. Len(title) * w <= (MaxTitle + 1) * w /\ Len(title) * w \in Nat /\ (MaxTitle + 1) * w \in Nat
      BY <2>5, <3>2, <3>3
    <3> QED
      BY <3>1, <3>4
  <2>7. Weigh(d \o e) = Weight["ellipsis"] + Weight["checks"] + Weight[Box(draft).c]
    <3>1. Character("ellipsis") \in Chars /\ Character("checks") \in Chars /\ Box(draft) \in Chars
      BY <2>4, WrittenIsPublic
    <3>2. d \in Seq(Chars) /\ <<Character("checks")>> \in Seq(Chars) /\ <<Box(draft)>> \in Seq(Chars) /\ e \in Seq(Chars)
      BY <1>2, <2>4, <3>1
    <3>3. e = <<Character("checks")>> \o <<Box(draft)>>
      BY <1>1 DEF Ending
    <3>4. Weigh(d) = Weight["ellipsis"] /\ Weigh(<<Character("checks")>>) = Weight["checks"]
          /\ Weigh(<<Box(draft)>>) = Weight[Box(draft).c]
      BY <1>1, <3>1, WeightOfOne DEF Character
    <3>5. Weigh(e) = Weigh(<<Character("checks")>>) + Weigh(<<Box(draft)>>)
      BY <3>2, <3>3, WeightAdds
    <3>6. Weigh(d \o e) = Weigh(d) + Weigh(e)
      BY <3>2, WeightAdds
    <3>7. Weight["ellipsis"] \in Nat /\ Weight["checks"] \in Nat /\ Weight[Box(draft).c] \in Nat
      BY <3>1, TitleAndChecksFit DEF Chars
    <3> QED
      BY <3>4, <3>5, <3>6, <3>7
  <2>8. Weight[Box(draft).c] \in Nat /\ Box(draft).c \in Boxes
        /\ Weight["ellipsis"] \in Nat /\ Weight["checks"] \in Nat
    <3>1. Box(draft) \in Chars
      BY <2>4, WrittenIsPublic
    <3>2. Box(draft).c \in Boxes
      BY DEF Box, Character, Boxes
    <3> QED
      BY <3>1, <3>2, TitleAndChecksFit DEF Chars
  <2>9. Url(title, d \o e) = Weigh(title) + Weigh(d \o e)
    <3>1. d \o e \in Seq(Chars)
      BY <1>5, <2>4
    <3> QED
      BY <2>5, <3>1, UrlWeighs, WeightAdds
  <2>10. PICK m : m = (MaxTitle + 1) * w /\ m \in Nat
    BY <2>3
  <2>11. Weigh(title) + (Weight["ellipsis"] + Weight["checks"] + Weight[Box(draft).c]) <= MaxUrl
    BY <2>2, <2>3, <2>6, <2>8, <2>10
  <2> QED
    BY <2>1, <2>5, <2>7, <2>9, <2>11
<1>9. Url(Title(draft), s \o (d \o e)) <= MaxUrl
  BY <1>4, <1>8
<1>10. PICK t : t = Kept(Body(draft), n) /\ t = s \o (d \o e)
  BY <1>4
<1>11. t \in Seq(Public) /\ Url(Title(draft), t) <= MaxUrl /\ Len(t) = n + 3 /\ SubSeq(t, n + 2, n + 3) = e
  BY <1>6, <1>7, <1>9, <1>10
<1>12. n + 3 >= 2 /\ (n + 3) - 1 = n + 2
  OBVIOUS
<1>13. Fits(draft, t)
  BY <1>1, <1>11, <1>12 DEF Fits
<1> QED
  BY <1>10, <1>13

\* The cuts that are tried, from each length.
Cuts(f, draft, m) ==
    f = [n \in 0 .. m |-> IF n = 0 \/ Url(Title(draft), Kept(Body(draft), n)) <= MaxUrl
                         THEN Kept(Body(draft), n) ELSE f[(n * 9) \div 10]]

LEMMA Tenth == \A n \in Nat : n # 0 => (n * 9) \div 10 \in 0 .. n - 1
OBVIOUS

LEMMA CutsExist == ASSUME NEW draft PROVE \A m \in Nat : \E f : Cuts(f, draft, m)
<1> DEFINE Ends_(n) == n = 0 \/ Url(Title(draft), Kept(Body(draft), n)) <= MaxUrl
           K(n) == Kept(Body(draft), n)
           S == {m \in Nat : \E f : Cuts(f, draft, m)}
<1>1. 0 \in S
  <2> DEFINE f == [n \in {0} |-> K(n)]
  <2>1. 0 .. 0 = {0}
    OBVIOUS
  <2> HIDE DEF K
  <2>2. f = [n \in 0 .. 0 |-> IF Ends_(n) THEN K(n) ELSE f[(n * 9) \div 10]]
    BY <2>1
  <2> HIDE DEF f
  <2>3. Cuts(f, draft, 0)
    BY <2>2 DEF Cuts, K
  <2> QED
    BY <2>3
<1>2. ASSUME NEW m \in Nat, m \in S PROVE m + 1 \in S
  <2>1. PICK g : Cuts(g, draft, m)
    BY <1>2
  <2> DEFINE f == [n \in 0 .. m + 1 |-> IF n = m + 1 THEN (IF Ends_(n) THEN K(n) ELSE g[(n * 9) \div 10]) ELSE g[n]]
  <2> HIDE DEF K, Ends_
  <2>2. g = [n \in 0 .. m |-> IF Ends_(n) THEN K(n) ELSE g[(n * 9) \div 10]]
    BY <2>1 DEF Cuts, K, Ends_
  <2>3. ASSUME NEW n \in 0 .. m + 1 PROVE f[n] = IF Ends_(n) THEN K(n) ELSE f[(n * 9) \div 10]
    <3>1. ASSUME n # 0 PROVE f[(n * 9) \div 10] = g[(n * 9) \div 10]
      <4>1. PICK k : k = (n * 9) \div 10 /\ k \in 0 .. n - 1
        BY <3>1, Tenth
      <4>2. k \in 0 .. m + 1 /\ k # m + 1
        BY <4>1
      <4> QED
        BY <4>1, <4>2
    <3>2. n = 0 => Ends_(n)
      BY DEF Ends_
    <3>3. CASE n = m + 1
      <4>1. f[n] = IF Ends_(n) THEN K(n) ELSE g[(n * 9) \div 10]
        BY <3>3
      <4> QED
        BY <3>1, <3>2, <4>1
    <3>4. CASE n # m + 1
      <4>1. f[n] = g[n] /\ n \in 0 .. m
        BY <3>4
      <4>2. g[n] = IF Ends_(n) THEN K(n) ELSE g[(n * 9) \div 10]
        BY <2>2, <4>1
      <4> QED
        BY <3>1, <3>2, <4>1, <4>2
    <3> QED
      BY <3>3, <3>4
  <2>4. f = [n \in 0 .. m + 1 |-> IF Ends_(n) THEN K(n) ELSE f[(n * 9) \div 10]]
    BY <2>3
  <2> HIDE DEF f
  <2>5. Cuts(f, draft, m + 1)
    BY <2>4 DEF Cuts, K, Ends_
  <2> QED
    BY <2>5
<1> HIDE DEF S
<1>3. \A m \in Nat : m \in S
  BY <1>1, <1>2, Weighing!Inductive
<1> QED
  BY <1>3 DEF S

\* However it is cut, the body fits: the loop ends at the latest with the checks alone.
LEMMA TrimmedFits ==
    ASSUME NEW draft, Draft(draft)
    PROVE  Fits(draft, Trimmed(Title(draft), Body(draft)))
<1>1. PICK o, e : o = Opening(draft) /\ e = Ending(draft)
  OBVIOUS
<1>2. o \in Seq(Public) /\ e \in Seq(Public) /\ Len(e) = 2 /\ Body(draft) = o \o e
  BY <1>1, OpeningIsShown, ShownIsPublic, WrittenIsPublic DEF Body, Ending
<1>3. CASE Url(Title(draft), Body(draft)) <= MaxUrl
  <2>1. o \o e \in Seq(Public) /\ Len(o \o e) = Len(o) + Len(e)
    BY <1>2, ConcatProperties
  <2>2. PICK t, l : t = Body(draft) /\ l = Len(o)
    OBVIOUS
  <2>3. t \in Seq(Public) /\ Len(t) = l + 2 /\ l \in Nat
    BY <1>2, <2>1, <2>2
  <2>6. SubSeq(t, l + 1, l + 2) = e
    BY <1>2, <2>2, ConcatEnds
  <2>7. Len(t) >= 2 /\ Len(t) - 1 = l + 1
    BY <2>3
  <2>8. Fits(draft, t)
    BY <1>1, <1>3, <2>2, <2>3, <2>6, <2>7 DEF Fits
  <2>9. Trimmed(Title(draft), Body(draft)) = t
    BY <1>3, <2>2 DEF Trimmed
  <2> QED
    BY <2>8, <2>9
<1>4. CASE ~ (Url(Title(draft), Body(draft)) <= MaxUrl)
  <2> DEFINE m == Len(Body(draft))
             f == CHOOSE g : Cuts(g, draft, m)
             start == ((ChecksAt(Body(draft)) - 1) * 9) \div 10
  <2>1. m = Len(o) + 2 /\ Len(o) \in Nat /\ ChecksAt(Body(draft)) = Len(o) + 1
    <3>1. 0 \in 0 .. Len(Opening(draft)) /\ Len(o) \in Nat
      BY <1>1, <1>2
    <3>2. ChecksAt(Body(draft)) = Len(Opening(draft)) + 1 /\ Len(Body(draft)) = Len(Opening(draft)) + 2
      BY <3>1, KeptEnds
    <3> QED
      BY <3>1, <3>2, <1>1
  <2>2. Trimmed(Title(draft), Body(draft)) = f[start]
    BY <1>4 DEF Trimmed, Cuts
  <2> HIDE DEF m
  <2>3. Cuts(f, draft, m)
    <3>1. m \in Nat
      BY <2>1
    <3>2. \E g : Cuts(g, draft, m)
      BY <3>1, CutsExist
    <3> QED
      BY <3>2
  <2>4. start \in 0 .. Len(o)
    <3>1. PICK l : l = Len(o) /\ l \in Nat /\ ChecksAt(Body(draft)) - 1 = l
      BY <2>1
    <3>2. start = (l * 9) \div 10
      BY <3>1
    <3> QED
      BY <3>1, <3>2
  <2> HIDE DEF f, start
  <2> DEFINE S == {n \in Nat : \A k \in 0 .. n : k <= Len(o) => Fits(draft, f[k])}
  <2>5. \A n \in 0 .. m : f[n] = IF n = 0 \/ Url(Title(draft), Kept(Body(draft), n)) <= MaxUrl
                                THEN Kept(Body(draft), n) ELSE f[(n * 9) \div 10]
    BY <2>3 DEF Cuts
  <2>6. 0 \in S
    <3>1. f[0] = Kept(Body(draft), 0) /\ 0 \in 0 .. Len(Opening(draft))
      BY <1>1, <2>1, <2>5
    <3>2. Fits(draft, f[0])
      BY <3>1, CutFits
    <3>3. 0 .. 0 = {0}
      OBVIOUS
    <3> QED
      BY <3>2, <3>3
  <2>7. ASSUME NEW n \in Nat, n \in S PROVE n + 1 \in S
    <3>1. SUFFICES ASSUME n + 1 <= Len(o) PROVE Fits(draft, f[n + 1])
      <4>1. \A k \in 0 .. n + 1 : k \in 0 .. n \/ k = n + 1
        OBVIOUS
      <4> QED
        BY <2>7, <4>1
    <3>2. n + 1 \in 0 .. m /\ n + 1 \in 0 .. Len(Opening(draft))
      BY <1>1, <2>1, <3>1
    <3>3. CASE Url(Title(draft), Kept(Body(draft), n + 1)) <= MaxUrl
      <4>1. f[n + 1] = Kept(Body(draft), n + 1)
        BY <2>5, <3>2, <3>3
      <4> QED
        BY <3>2, <3>3, <4>1, CutFits
    <3>4. CASE ~ (Url(Title(draft), Kept(Body(draft), n + 1)) <= MaxUrl)
      <4>1. PICK k : k = ((n + 1) * 9) \div 10 /\ k \in 0 .. n
        <5>1. n + 1 \in Nat /\ n + 1 # 0 /\ (n + 1) - 1 = n
          OBVIOUS
        <5> QED
          BY <5>1, Tenth
      <4>2. f[n + 1] = f[k]
        <5>1. n + 1 # 0
          OBVIOUS
        <5> QED
          BY <2>5, <3>2, <3>4, <4>1, <5>1
      <4>3. k <= Len(o)
        BY <2>1, <3>1, <4>1
      <4> QED
        BY <2>7, <4>1, <4>2, <4>3
    <3> QED
      BY <3>3, <3>4
  <2> HIDE DEF S
  <2>8. \A n \in Nat : n \in S
    BY <2>6, <2>7, Weighing!Inductive
  <2>9. start \in S /\ start \in 0 .. start /\ start <= Len(o)
    BY <2>1, <2>4, <2>8
  <2>10. Fits(draft, f[start])
    BY <2>9 DEF S
  <2> QED
    BY <2>2, <2>10
<1> QED
  BY <1>3, <1>4

\* A report shows nothing secret, its link is short enough, and it ends with the box of its agent.
LEMMA ReportIsFit ==
    ASSUME NEW draft, Draft(draft)
    PROVE  LET report == Report(draft) IN
           /\ report.title \in Seq(Public) /\ report.body \in Seq(Public) /\ report.agent = draft.agent
           /\ Url(report.title, report.body) <= MaxUrl
           /\ SubSeq(report.body, Len(report.body) - 1, Len(report.body)) = Ending(draft)
BY TitleIsShown, ShownIsPublic, TrimmedFits DEF Report, Fits

-----------------------------------------------------------------------------
(* What clap makes of the words *)

\* Folding's lemmas of what clap has matched, and of the search for a colour.
Reading == INSTANCE Folding WITH Op <- Next_
Coloring == INSTANCE Folding WITH Op <- ReadColor

\* What a person types, and what the code has words for.
Text == STRING \cup {None, "true", "usage", "help", "missing", "context"}

\* The words of a keyboard are such, and so is the one the greeting adds.
Keystrokes ==
    {w \in [kind : {"long", "short", "minus", "escape", "bare"}, name : Text, value : Text] :
        /\ w.kind = "escape" <=> w = Escape
        /\ IsOption(w) <=> w.name # None
        /\ w.kind = "short" => w.name \in {"output", "quiet", "help"}}

Gift == [option : Text, depth : Nat, value : Text]

Matching ==
    [path : Seq(Text), given : SUBSET Gift, open : Text, arguments : Seq(Keystrokes), escaped : BOOLEAN, error : Text]

Upto(path, d) == SubSeq(path, 1, d)

\* Every word of the path leads on from those before it.
Led(m) == \A d \in 0 .. Len(m.path) - 1 : m.path[d + 1] \in Subcommands(Upto(m.path, d))

\* What was given is taken where it stands, and once, unless it may be repeated.
Takes(m) ==
    \A g \in m.given :
        /\ g.depth <= Len(m.path)
        /\ g.option \in OptionsAt(Upto(m.path, g.depth))
        /\ g.option \in Switches \/ Accepts(Upto(m.path, g.depth), g.option, g.value)

Once(m) ==
    \A g, h \in m.given :
        g.option = h.option /\ g.depth = h.depth /\ g # h => g.option \in Repeatable(Upto(m.path, g.depth))

Opens(m) == m.open # None => ~m.escaped /\ m.open \in OptionsAt(m.path) /\ m.open \notin Switches

\* Only a command has arguments, and one of the registry only an ID.
Argues(m) ==
    m.arguments # <<>> =>
        /\ m.path \in Commands /\ m.path # <<"context">>
        /\ \/ IsLocal(m.path)
           \/ Len(m.arguments) = 1 /\ m.arguments[1].kind = "bare" /\ m.arguments[1].value \in Accepted["uuid"]

Clap(m) == m \in Matching /\ m.error = None /\ Led(m) /\ Takes(m) /\ Once(m) /\ Opens(m) /\ Argues(m)

\* An option is added with a value.
With(m, option, value) ==
    [m EXCEPT !.given = @ \cup {[option |-> option, depth |-> Len(m.path), value |-> value]}, !.open = None]

MayAdd(m, option, value) ==
    /\ option \in Text /\ value \in Text
    /\ option \in OptionsAt(m.path)
    /\ option \in Repeatable(m.path) \/ GivenAt(m, option, Len(m.path)) = {}
    /\ option \in Switches \/ Accepts(m.path, option, value)

LEMMA WholePath == \A path \in Seq(Text) : Upto(path, Len(path)) = path
BY DEF Upto

LEMMA WithIs ==
    ASSUME NEW m \in Matching, NEW option \in Text, NEW value \in Text, NEW n, n = With(m, option, value)
    PROVE  /\ n \in Matching /\ n.path = m.path /\ n.open = None /\ n.arguments = m.arguments
           /\ n.escaped = m.escaped /\ n.error = m.error
           /\ n.given = m.given \cup {[option |-> option, depth |-> Len(m.path), value |-> value]}
<1>1. Len(m.path) \in Nat
  BY DEF Matching
<1>2. [option |-> option, depth |-> Len(m.path), value |-> value] \in Gift
  BY <1>1 DEF Gift
<1> QED
  BY <1>2 DEF With, Matching, Text

LEMMA FailedIs ==
    ASSUME NEW m \in Matching, NEW kind \in Text
    PROVE  Failed(m, kind).error = kind /\ Failed(m, kind) \in Matching
BY DEF Failed, Matching

\* A value that is put is added, or is not what the option takes.
LEMMA PutIs ==
    ASSUME NEW m \in Matching, NEW option \in Text, NEW value \in Text, option \in OptionsAt(m.path)
    PROVE  /\ Put(m, option, value) \in Matching
           /\ Put(m, option, value).error = None => Put(m, option, value) = With(m, option, value) /\ MayAdd(m, option, value)
<1>1. "usage" \in Text /\ "usage" # None
  BY DEF None, Text
<1>2. With(m, option, value) \in Matching
  BY WithIs
<1> QED
  BY <1>1, <1>2, FailedIs DEF Put, MayAdd, With

LEMMA PutError ==
    ASSUME NEW m \in Matching, NEW option \in Text, NEW value \in Text
    PROVE  Put(m, option, value).error = m.error \/ Put(m, option, value).error = "usage"
<1>1. "usage" \in Text
  BY DEF Text
<1>2. PICK n : n = With(m, option, value)
  OBVIOUS
<1>3. n.error = m.error
  BY <1>2, WithIs
<1>4. Put(m, option, value) = Failed(m, "usage") \/ Put(m, option, value) = n
  BY <1>2 DEF Put, With
<1> QED
  BY <1>1, <1>3, <1>4, FailedIs

LEMMA WithKeeps ==
    ASSUME NEW m, Clap(m), NEW option, NEW value, MayAdd(m, option, value)
    PROVE  Clap(With(m, option, value))
<1> DEFINE new == [option |-> option, depth |-> Len(m.path), value |-> value]
<1>1. m \in Matching /\ m.error = None /\ option \in Text /\ value \in Text
  BY DEF Clap, MayAdd
<1>2. PICK n : n = With(m, option, value)
  OBVIOUS
<1>3. /\ n \in Matching /\ n.path = m.path /\ n.open = None /\ n.arguments = m.arguments
      /\ n.escaped = m.escaped /\ n.error = m.error /\ n.given = m.given \cup {new}
  BY <1>1, <1>2, WithIs
<1>4. Len(m.path) \in Nat /\ Upto(m.path, Len(m.path)) = m.path
  BY <1>1, WholePath DEF Matching
<1>5. new.option = option /\ new.depth = Len(m.path) /\ new.value = value
  OBVIOUS
<1> HIDE DEF new
<1>6. Takes(n)
  BY <1>3, <1>4, <1>5 DEF Takes, Clap, MayAdd
<1>7. Once(n)
  <2>1. SUFFICES ASSUME NEW g \in n.given, NEW h \in n.given, g.option = h.option, g.depth = h.depth, g # h
                 PROVE  g.option \in Repeatable(Upto(n.path, g.depth))
    BY DEF Once
  <2>2. CASE g \in m.given /\ h \in m.given
    BY <1>3, <2>1, <2>2 DEF Once, Clap
  <2>3. CASE g = new \/ h = new
    <3>1. GivenAt(m, option, Len(m.path)) # {}
      BY <1>3, <1>5, <2>1, <2>3 DEF GivenAt
    <3>2. g.option = option /\ Upto(n.path, g.depth) = m.path
      BY <1>3, <1>4, <1>5, <2>1, <2>3
    <3> QED
      BY <3>1, <3>2 DEF MayAdd
  <2> QED
    BY <1>3, <2>2, <2>3
<1>8. Led(n) /\ Opens(n) /\ Argues(n)
  BY <1>3 DEF Clap, Led, Opens, Argues
<1>9. Clap(n)
  BY <1>1, <1>3, <1>6, <1>7, <1>8 DEF Clap
<1> QED
  BY <1>2, <1>9

\* A command leads nowhere.
LEMMA LocalIsCommand == \A path : IsLocal(path) => path \in Commands
BY DEF IsLocal, Commands

LEMMA CommandsEnd == \A path, word : word \in Subcommands(path) => path \notin Commands
BY CommandsAreLeaves

LEMMA ContextIsLocal ==
    /\ IsLocal(<<"context">>)
    /\ LocalAt(<<"context">>) = Local(<<"context">>, {"format"}, 0)
<1>1. Local(<<"context">>, {"format"}, 0) \in LocalCommands
  BY DEF LocalCommands
<1>2. ASSUME NEW c \in LocalCommands, c.path = <<"context">> PROVE c = Local(<<"context">>, {"format"}, 0)
  <2>1. \A x, y : <<x, y>> # <<"context">>
    <3>1. \A x, y : Len(<<x, y>>) = 2 /\ Len(<<"context">>) = 1
      OBVIOUS
    <3> QED
      BY <3>1
  <2>2. \A p, o, a : Local(p, o, a).path = p
    BY DEF Local
  <2>3. "login" # "context" /\ "logout" # "context" /\ "price" # "context" /\ "convert" # "context"
        /\ "feedback" # "context" /\ "completions" # "context"
    OBVIOUS
  <2>4. \A x, y : <<x>> = <<y>> => x = y
    OBVIOUS
  <2> QED
    BY <1>2, <2>1, <2>2, <2>3, <2>4 DEF LocalCommands
<1>3. Local(<<"context">>, {"format"}, 0).path = <<"context">>
  BY DEF Local
<1> QED
  BY <1>1, <1>2, <1>3 DEF IsLocal, LocalAt

LEMMA ArgumentsAreOfCommands ==
    ASSUME NEW path, NEW escaped, NEW n \in Nat, n < ArgumentsAt(path, escaped)
    PROVE  /\ path \in Commands /\ path # <<"context">>
           /\ IsLocal(path) \/ n = 0
<1>1. path = <<"feedback">> => IsLocal(path)
  <2>1. Local(<<"feedback">>, {"title", "no-browser"}, 0) \in LocalCommands
    BY DEF LocalCommands
  <2>2. Local(<<"feedback">>, {"title", "no-browser"}, 0).path = <<"feedback">>
    BY DEF Local
  <2> QED
    BY <2>1, <2>2 DEF IsLocal
<1>2. <<"feedback">> # <<"context">>
  <2>1. <<"feedback">>[1] # <<"context">>[1]
    OBVIOUS
  <2> QED
    BY <2>1
<1>3. path = <<"context">> => ArgumentsAt(path, escaped) = 0
  <2>1. Local(<<"context">>, {"format"}, 0).arguments = 0
    BY DEF Local
  <2> QED
    BY <1>2, <2>1, ContextIsLocal DEF ArgumentsAt
<1>4. ~ (n < 0) /\ (n < 1 => n = 0)
  OBVIOUS
<1>5. path \notin Commands => ArgumentsAt(path, escaped) = 0
  BY <1>1, LocalIsCommand DEF ArgumentsAt
<1>6. ~ IsLocal(path) => ArgumentsAt(path, escaped) \in {0, 1}
  BY <1>1 DEF ArgumentsAt
<1> QED
  BY <1>3, <1>4, <1>5, <1>6

LEMMA KeysAreKeystrokes == \A keys \in Keyboards : keys \subseteq Keystrokes
<1>1. SUFFICES ASSUME NEW keys \in Keyboards, NEW w \in keys PROVE w \in Keystrokes
  OBVIOUS
<1>2. Escape.kind = "escape"
  BY DEF Escape
<1> QED
  BY <1>2, KeysAreWords DEF Word, Text, Keystrokes

LEMMA ContextIsKeystroke == Bare("context") \in Keystrokes
BY DEF Bare, Keystrokes, Text, None, Escape, IsOption

\* An argument is added.
Argued(m, w, n) ==
    /\ n = [m EXCEPT !.arguments = Append(@, w)]
    /\ Len(m.arguments) < ArgumentsAt(m.path, m.escaped)
    /\ IsLocal(m.path) \/ (w.kind = "bare" /\ w.value \in Accepted["uuid"])

LEMMA ArguedKeeps ==
    ASSUME NEW m, Clap(m), NEW w \in Keystrokes, NEW n, Argued(m, w, n)
    PROVE  /\ Clap(n) /\ n.path = m.path /\ n.given = m.given /\ n.open = m.open /\ n.escaped = m.escaped
           /\ n.arguments = Append(m.arguments, w)
           /\ m.path \in Commands /\ m.path # <<"context">>
           /\ IsLocal(m.path) \/ m.arguments = <<>>
<1>1. m \in Matching /\ m.arguments \in Seq(Keystrokes) /\ Len(m.arguments) \in Nat
  BY DEF Clap, Matching
<1>2. /\ n.path = m.path /\ n.given = m.given /\ n.open = m.open /\ n.escaped = m.escaped /\ n.error = m.error
      /\ n.arguments = Append(m.arguments, w) /\ n \in Matching
  <2>1. Append(m.arguments, w) \in Seq(Keystrokes)
    BY <1>1
  <2> QED
    BY <1>1, <2>1 DEF Argued, Matching
<1>3. m.path \in Commands /\ m.path # <<"context">> /\ (IsLocal(m.path) \/ Len(m.arguments) = 0)
  BY <1>1, ArgumentsAreOfCommands DEF Argued
<1>4. Len(m.arguments) = 0 => m.arguments = <<>>
  BY <1>1
<1>5. Argues(n)
  <2>1. CASE IsLocal(m.path)
    BY <1>2, <1>3, <2>1 DEF Argues
  <2>2. CASE ~ IsLocal(m.path)
    <3>0. n.arguments = Append(<<>>, w)
      BY <1>2, <1>3, <1>4, <2>2
    <3>1. n.arguments = <<w>>
      BY <3>0
    <3>2. Len(n.arguments) = 1 /\ n.arguments[1] = w
      BY <3>1
    <3> QED
      BY <1>2, <1>3, <2>2, <3>2 DEF Argues, Argued
  <2> QED
    BY <2>1, <2>2
<1>6. Led(n) /\ Takes(n) /\ Once(n) /\ Opens(n)
  BY <1>2 DEF Clap, Led, Takes, Once, Opens
<1> QED
  BY <1>2, <1>3, <1>4, <1>5, <1>6 DEF Clap

LEMMA LeadKeeps ==
    ASSUME NEW m, Clap(m), m.open = None, NEW word \in Text, word \in Subcommands(m.path),
           NEW n, n = [m EXCEPT !.path = Append(@, word)]
    PROVE  /\ Clap(n) /\ n.path = Append(m.path, word) /\ n.given = m.given /\ n.open = m.open
           /\ n.escaped = m.escaped /\ n.arguments = m.arguments /\ m.arguments = <<>>
<1>1. m \in Matching /\ m.path \in Seq(Text) /\ Len(m.path) \in Nat
  BY DEF Clap, Matching
<1>2. Append(m.path, word) \in Seq(Text)
  BY <1>1
<1>3. /\ n.path = Append(m.path, word) /\ n.given = m.given /\ n.open = m.open /\ n.escaped = m.escaped
      /\ n.error = m.error /\ n.arguments = m.arguments /\ n \in Matching
  BY <1>1, <1>2 DEF Matching
<1>4. m.arguments = <<>>
  BY CommandsEnd DEF Clap, Argues
<1>5. \A d \in 0 .. Len(m.path) : Upto(n.path, d) = Upto(m.path, d)
  BY <1>1, <1>3 DEF Upto
<1>6. Len(n.path) = Len(m.path) + 1 /\ n.path[Len(m.path) + 1] = word /\ \A i \in 1 .. Len(m.path) : n.path[i] = m.path[i]
  BY <1>1, <1>3
<1>7. Led(n)
  <2>1. SUFFICES ASSUME NEW d \in 0 .. Len(n.path) - 1 PROVE n.path[d + 1] \in Subcommands(Upto(n.path, d))
    BY DEF Led
  <2>2. d \in 0 .. Len(m.path)
    BY <1>1, <1>6
  <2>3. CASE d = Len(m.path)
    <3>1. Upto(n.path, d) = m.path
      BY <1>1, <1>5, <2>2, <2>3, WholePath
    <3> QED
      BY <1>6, <2>3, <3>1
  <2>4. CASE d # Len(m.path)
    <3>1. d \in 0 .. Len(m.path) - 1 /\ d + 1 \in 1 .. Len(m.path)
      BY <1>1, <2>2, <2>4
    <3>2. m.path[d + 1] \in Subcommands(Upto(m.path, d))
      BY <3>1 DEF Clap, Led
    <3> QED
      BY <1>5, <1>6, <2>2, <3>1, <3>2
  <2> QED
    BY <2>3, <2>4
<1>8. \A g \in m.given : g.depth \in 0 .. Len(m.path)
  BY <1>1 DEF Clap, Takes, Matching, Gift
<1>9. Takes(n)
  <2>1. SUFFICES ASSUME NEW g \in m.given
                 PROVE  /\ g.depth <= Len(n.path)
                        /\ g.option \in OptionsAt(Upto(n.path, g.depth))
                        /\ g.option \in Switches \/ Accepts(Upto(n.path, g.depth), g.option, g.value)
    BY <1>3 DEF Takes
  <2>2. Upto(n.path, g.depth) = Upto(m.path, g.depth) /\ g.depth <= Len(n.path)
    BY <1>1, <1>5, <1>6, <1>8
  <2> QED
    BY <2>2 DEF Clap, Takes
<1>10. Once(n)
  BY <1>3, <1>5, <1>8 DEF Clap, Once
<1>11. Opens(n) /\ Argues(n)
  BY <1>3, <1>4 DEF Opens, Argues
<1> QED
  BY <1>3, <1>4, <1>7, <1>9, <1>10, <1>11 DEF Clap

LEMMA EscapeKeeps ==
    ASSUME NEW m, Clap(m), m.open = None, NEW n, n = [m EXCEPT !.escaped = TRUE]
    PROVE  /\ Clap(n) /\ n.path = m.path /\ n.given = m.given /\ n.open = m.open
           /\ n.escaped = TRUE /\ n.arguments = m.arguments
<1>1. m \in Matching
  BY DEF Clap
<1>2. /\ n.path = m.path /\ n.given = m.given /\ n.open = m.open /\ n.escaped = TRUE
      /\ n.error = m.error /\ n.arguments = m.arguments /\ n \in Matching
  BY <1>1 DEF Matching
<1> QED
  BY <1>2 DEF Clap, Led, Takes, Once, Opens, Argues

LEMMA OpenKeeps ==
    ASSUME NEW m, Clap(m), ~m.escaped, NEW option \in Text, option \in OptionsAt(m.path), option \notin Switches,
           NEW n, n = [m EXCEPT !.open = option]
    PROVE  /\ Clap(n) /\ n.path = m.path /\ n.given = m.given /\ n.open = option
           /\ n.escaped = m.escaped /\ n.arguments = m.arguments
<1>1. m \in Matching
  BY DEF Clap
<1>2. /\ n.path = m.path /\ n.given = m.given /\ n.open = option /\ n.escaped = m.escaped
      /\ n.error = m.error /\ n.arguments = m.arguments /\ n \in Matching
  BY <1>1 DEF Matching
<1> QED
  BY <1>2 DEF Clap, Led, Takes, Once, Opens, Argues

\* An option without a value is settled, or is an error.
Settles(m, t) ==
    \/ m.open = None /\ t = m
    \/ m.open # None /\ IsBoolean(m.path, m.open) /\ MayAdd(m, m.open, "true") /\ t = With(m, m.open, "true")

LEMMA SettledIs ==
    ASSUME NEW m, Clap(m), Settled(m).error = None
    PROVE  /\ Settles(m, Settled(m)) /\ Clap(Settled(m))
           /\ Settled(m).open = None /\ Settled(m).path = m.path /\ Settled(m).arguments = m.arguments
           /\ Settled(m).escaped = m.escaped
<1>1. m \in Matching /\ m.open \in Text /\ "true" \in Text /\ "usage" \in Text /\ "usage" # None
  BY DEF Clap, Matching, Text, None
<1>2. CASE m.open = None
  <2>1. Settled(m) = m
    BY <1>2 DEF Settled
  <2> QED
    BY <1>2, <2>1 DEF Settles
<1>3. CASE m.open # None
  <2>1. IsBoolean(m.path, m.open)
    BY <1>1, <1>3, FailedIs DEF Settled
  <2>2. Settled(m) = Put(m, m.open, "true")
    BY <1>3, <2>1 DEF Settled
  <2>3. m.open \in OptionsAt(m.path)
    BY <1>3 DEF Clap, Opens
  <2>4. Settled(m) = With(m, m.open, "true") /\ MayAdd(m, m.open, "true")
    BY <1>1, <2>2, <2>3, PutIs
  <2>5. Clap(Settled(m))
    BY <2>4, WithKeeps
  <2>6. Settles(m, Settled(m))
    BY <1>3, <2>1, <2>4 DEF Settles
  <2>7. PICK o : o = m.open /\ o \in Text
    BY <1>1
  <2>8. PICK v : v = "true" /\ v \in Text
    BY <1>1
  <2>9. PICK t : t = With(m, o, v)
    OBVIOUS
  <2>10. t.path = m.path /\ t.open = None /\ t.arguments = m.arguments /\ t.escaped = m.escaped
    <3>1. m \in Matching /\ o \in Text /\ v \in Text
      BY <1>1, <2>7, <2>8
    <3> QED
      BY <3>1, <2>9, WithIs
  <2>11. Settled(m) = t
    BY <2>4, <2>7, <2>8, <2>9
  <2> QED
    BY <2>5, <2>6, <2>10, <2>11
<1> QED
  BY <1>2, <1>3

\* How a word moves what was matched on.
Escapes(m, w, n) ==
    /\ ~m.escaped /\ w = Escape
    /\ \E t \in {Settled(m)} : Clap(t) /\ Settles(m, t) /\ n = [t EXCEPT !.escaped = TRUE]

Switched(m, w, n) ==
    /\ ~m.escaped /\ IsOption(w) /\ w.name # "help" /\ w.name \in Switches /\ w.value = None
    /\ \E t \in {Settled(m)} : Clap(t) /\ Settles(m, t) /\ MayAdd(t, w.name, "true") /\ n = With(t, w.name, "true")

Told(m, w, n) ==
    /\ ~m.escaped /\ IsOption(w) /\ w.name # "help" /\ w.name \notin Switches /\ w.value # None
    /\ \E t \in {Settled(m)} : Clap(t) /\ Settles(m, t) /\ MayAdd(t, w.name, w.value) /\ n = With(t, w.name, w.value)

Opened(m, w, n) ==
    /\ ~m.escaped /\ IsOption(w) /\ w.name # "help" /\ w.name \notin Switches /\ w.value = None
    /\ \E t \in {Settled(m)} :
         Clap(t) /\ Settles(m, t) /\ w.name \in OptionsAt(t.path) /\ n = [t EXCEPT !.open = w.name]

Filled(m, w, n) ==
    ~m.escaped /\ w.kind = "bare" /\ m.open # None /\ MayAdd(m, m.open, w.value) /\ n = With(m, m.open, w.value)

LedOn(m, w, n) ==
    /\ ~m.escaped /\ w.kind = "bare" /\ m.open = None /\ w.value \in Subcommands(m.path)
    /\ n = [m EXCEPT !.path = Append(@, w.value)]

Added(m, w, n) ==
    /\ m.escaped \/ (w.kind = "bare" /\ m.open = None /\ w.value \notin Subcommands(m.path))
    /\ Argued(m, w, n)

Reads(m, w, n) ==
    \/ Escapes(m, w, n) \/ Switched(m, w, n) \/ Told(m, w, n) \/ Opened(m, w, n)
    \/ Filled(m, w, n) \/ LedOn(m, w, n) \/ Added(m, w, n)

\* An error stays.
LEMMA ErrorStays ==
    ASSUME NEW m, m.error # None, NEW w
    PROVE  Next_(m, w) = m
BY DEF Next_

\* What is settled has an error, or is matched.
LEMMA SettledIsMatching ==
    ASSUME NEW m, Clap(m)
    PROVE  Settled(m) \in Matching
<1>1. m \in Matching /\ m.open \in Text /\ "true" \in Text /\ "usage" \in Text
  BY DEF Clap, Matching, Text
<1>2. m.open # None => m.open \in OptionsAt(m.path)
  BY DEF Clap, Opens
<1> QED
  BY <1>1, <1>2, FailedIs, PutIs DEF Settled

LEMMA ArguedIs ==
    ASSUME NEW m, Clap(m), NEW w, NEW n, n = OnArgument(m, w), n.error = None
    PROVE  Argued(m, w, n)
<1>1. m \in Matching /\ "usage" \in Text /\ "usage" # None
  BY DEF Clap, Text, None
<1> QED
  BY <1>1, FailedIs DEF OnArgument, Argued

LEMMA ReadsIs ==
    ASSUME NEW m, Clap(m), NEW w \in Keystrokes, NEW n, n = Next_(m, w), n.error = None
    PROVE  Reads(m, w, n)
<1>1. m \in Matching /\ m.error = None /\ m.open \in Text /\ m.escaped \in BOOLEAN
  BY DEF Clap, Matching
<1>2. w.name \in Text /\ w.value \in Text /\ w.kind \in {"long", "short", "minus", "escape", "bare"}
      /\ (w.kind = "escape" <=> w = Escape)
  BY DEF Keystrokes
<1>3. "true" \in Text /\ "usage" \in Text /\ "help" \in Text /\ "usage" # None /\ "help" # None
  BY DEF Text, None
<1>4. PICK t : t = Settled(m)
  OBVIOUS
<1>5. t \in Matching
  BY <1>4, SettledIsMatching
<1>6. t.error = None => Settles(m, t) /\ Clap(t)
  BY <1>4, SettledIs
<1>7. CASE m.escaped
  <2>1. n = OnArgument(m, w)
    BY <1>1, <1>7 DEF Next_
  <2>2. Argued(m, w, n)
    BY <2>1, ArguedIs
  <2> QED
    BY <1>7, <2>2 DEF Reads, Added
<1>8. CASE ~m.escaped /\ w = Escape
  <2>1. n = [t EXCEPT !.escaped = TRUE]
    BY <1>1, <1>2, <1>4, <1>8 DEF Next_
  <2>2. n.error = t.error
    BY <1>5, <2>1 DEF Matching
  <2>3. Escapes(m, w, n)
    BY <1>4, <1>6, <1>8, <2>1, <2>2 DEF Escapes
  <2> QED
    BY <2>3 DEF Reads
<1>9. CASE ~m.escaped /\ IsOption(w)
  <2>1. w.kind # "escape"
    BY <1>9 DEF IsOption
  <2>2. n = OnOption(t, w)
    BY <1>1, <1>4, <1>9, <2>1 DEF Next_
  <2>3. t.error = None
    BY <2>2 DEF OnOption
  <2>4. w.name # "help" /\ w.name \in OptionsAt(t.path)
    BY <1>3, <1>5, <2>2, <2>3, FailedIs DEF OnOption
  <2>5. CASE w.name \in Switches
    <3>1. w.value = None /\ n = Put(t, w.name, "true")
      BY <1>3, <1>5, <2>2, <2>3, <2>4, <2>5, FailedIs DEF OnOption
    <3>2. n = With(t, w.name, "true") /\ MayAdd(t, w.name, "true")
      BY <1>2, <1>3, <1>5, <2>4, <3>1, PutIs
    <3>3. Switched(m, w, n)
      BY <1>4, <1>6, <1>9, <2>3, <2>4, <2>5, <3>1, <3>2 DEF Switched
    <3> QED
      BY <3>3 DEF Reads
  <2>6. CASE w.name \notin Switches /\ w.value # None
    <3>1. n = Put(t, w.name, w.value)
      BY <2>2, <2>3, <2>4, <2>6 DEF OnOption
    <3>2. n = With(t, w.name, w.value) /\ MayAdd(t, w.name, w.value)
      BY <1>2, <1>5, <2>4, <3>1, PutIs
    <3>3. Told(m, w, n)
      BY <1>4, <1>6, <1>9, <2>3, <2>4, <2>6, <3>2 DEF Told
    <3> QED
      BY <3>3 DEF Reads
  <2>7. CASE w.name \notin Switches /\ w.value = None
    <3>1. n = [t EXCEPT !.open = w.name]
      BY <2>2, <2>3, <2>4, <2>7 DEF OnOption
    <3>2. Opened(m, w, n)
      BY <1>4, <1>6, <1>9, <2>3, <2>4, <2>7, <3>1 DEF Opened
    <3> QED
      BY <3>2 DEF Reads
  <2> QED
    BY <2>5, <2>6, <2>7
<1>10. CASE ~m.escaped /\ ~IsOption(w) /\ w # Escape
  <2>1. w.kind # "minus"
    <3>1. SUFFICES ASSUME w.kind = "minus" PROVE FALSE
      OBVIOUS
    <3>2. n = Failed(m, "usage")
      BY <1>1, <1>2, <1>10, <3>1 DEF Next_
    <3> QED
      BY <1>1, <1>3, <3>2, FailedIs
  <2>2. w.kind = "bare"
    BY <1>2, <1>10, <2>1 DEF IsOption
  <2>3. CASE m.open # None
    <3>1. n = Put(m, m.open, w.value)
      BY <1>1, <1>2, <1>10, <2>1, <2>3 DEF Next_
    <3>2. m.open \in OptionsAt(m.path)
      BY <2>3 DEF Clap, Opens
    <3>3. n = With(m, m.open, w.value) /\ MayAdd(m, m.open, w.value)
      BY <1>1, <1>2, <3>1, <3>2, PutIs
    <3> QED
      BY <1>10, <2>2, <2>3, <3>3 DEF Reads, Filled
  <2>4. CASE m.open = None /\ w.value \in Subcommands(m.path)
    <3>1. n = [m EXCEPT !.path = Append(@, w.value)]
      BY <1>1, <1>2, <1>10, <2>1, <2>4 DEF Next_
    <3> QED
      BY <1>10, <2>2, <2>4, <3>1 DEF Reads, LedOn
  <2>5. CASE m.open = None /\ w.value \notin Subcommands(m.path)
    <3>1. n = OnArgument(m, w)
      BY <1>1, <1>2, <1>10, <2>1, <2>5 DEF Next_
    <3>2. Argued(m, w, n)
      BY <3>1, ArguedIs
    <3> QED
      BY <2>2, <2>5, <3>2 DEF Reads, Added
  <2> QED
    BY <2>3, <2>4, <2>5
<1> QED
  BY <1>7, <1>8, <1>9, <1>10

\* What settling an open option adds: a filter that is then true.
Gave(m, option, value) == [option |-> option, depth |-> Len(m.path), value |-> value]
Rest(m) == IF m.open = None THEN {} ELSE {Gave(m, m.open, "true")}
RestIsFilter(m) == m.open # None => m.open \in FiltersAt(m.path)
Same(m, n) == n.path = m.path /\ n.arguments = m.arguments

\* The same moves, by what they leave.
Moves(m, w, n) ==
    /\ Clap(n)
    /\ \/ /\ ~m.escaped /\ w = Escape /\ RestIsFilter(m)
          /\ Same(m, n) /\ n.escaped /\ n.open = None /\ n.given = m.given \cup Rest(m)
       \/ /\ ~m.escaped /\ IsOption(w) /\ w.name \in Switches /\ w.value = None /\ RestIsFilter(m)
          /\ Same(m, n) /\ ~n.escaped /\ n.open = None
          /\ n.given = m.given \cup Rest(m) \cup {Gave(m, w.name, "true")}
       \/ /\ ~m.escaped /\ IsOption(w) /\ w.name \notin Switches /\ w.value # None /\ RestIsFilter(m)
          /\ Same(m, n) /\ ~n.escaped /\ n.open = None
          /\ n.given = m.given \cup Rest(m) \cup {Gave(m, w.name, w.value)}
       \/ /\ ~m.escaped /\ IsOption(w) /\ w.name \notin Switches /\ w.value = None /\ RestIsFilter(m)
          /\ Same(m, n) /\ ~n.escaped /\ n.open = w.name /\ n.given = m.given \cup Rest(m)
       \/ /\ ~m.escaped /\ w.kind = "bare" /\ m.open # None
          /\ Same(m, n) /\ ~n.escaped /\ n.open = None /\ n.given = m.given \cup {Gave(m, m.open, w.value)}
       \/ /\ ~m.escaped /\ w.kind = "bare" /\ m.open = None /\ w.value \in Subcommands(m.path)
          /\ n.path = Append(m.path, w.value) /\ n.arguments = m.arguments /\ m.arguments = <<>>
          /\ ~n.escaped /\ n.open = None /\ n.given = m.given
       \/ /\ m.escaped \/ (w.kind = "bare" /\ w.value \notin Subcommands(m.path))
          /\ m.open = None /\ n.path = m.path /\ n.arguments = Append(m.arguments, w)
          /\ m.path \in Commands /\ m.path # <<"context">>
          /\ IsLocal(m.path) \/ (m.arguments = <<>> /\ w.kind = "bare" /\ w.value \in Accepted["uuid"])
          /\ n.escaped = m.escaped /\ n.open = None /\ n.given = m.given

LEMMA SettlesIs ==
    ASSUME NEW m, Clap(m), NEW t, Settles(m, t)
    PROVE  /\ RestIsFilter(m) /\ Same(m, t) /\ t.escaped = m.escaped /\ t.open = None
           /\ t.given = m.given \cup Rest(m)
<1>1. m \in Matching /\ m.open \in Text /\ "true" \in Text
  BY DEF Clap, Matching, Text
<1>2. CASE m.open = None /\ t = m
  BY <1>2 DEF RestIsFilter, Same, Rest
<1>3. CASE m.open # None /\ IsBoolean(m.path, m.open) /\ t = With(m, m.open, "true")
  <2>1. PICK o : o = m.open /\ o \in Text
    BY <1>1
  <2>2. PICK v : v = "true" /\ v \in Text
    BY <1>1
  <2>3. m \in Matching /\ o \in Text /\ v \in Text /\ t = With(m, o, v)
    BY <1>1, <1>3, <2>1, <2>2
  <2>4. /\ t.path = m.path /\ t.open = None /\ t.arguments = m.arguments /\ t.escaped = m.escaped
        /\ t.given = m.given \cup {[option |-> o, depth |-> Len(m.path), value |-> v]}
    BY <2>3, WithIs
  <2>5. Rest(m) = {[option |-> o, depth |-> Len(m.path), value |-> v]}
    BY <1>3, <2>1, <2>2 DEF Rest, Gave
  <2> QED
    BY <1>3, <2>4, <2>5 DEF RestIsFilter, Same, IsBoolean
<1> QED
  BY <1>2, <1>3 DEF Settles

LEMMA MovesAre ==
    ASSUME NEW m, Clap(m), NEW w \in Keystrokes, NEW n, Reads(m, w, n)
    PROVE  Moves(m, w, n)
<1>1. m \in Matching /\ m.open \in Text /\ m.escaped \in BOOLEAN /\ "true" \in Text
  BY DEF Clap, Matching, Text
<1>2. w.name \in Text /\ w.value \in Text
  BY DEF Keystrokes
<1>3. ASSUME NEW t, Settles(m, t)
      PROVE  RestIsFilter(m) /\ Same(m, t) /\ t.escaped = m.escaped /\ t.open = None /\ t.given = m.given \cup Rest(m)
  BY <1>3, SettlesIs
<1>4. ASSUME NEW t, Settles(m, t), Clap(t), NEW o, NEW v, MayAdd(t, o, v), n = With(t, o, v)
      PROVE  /\ Clap(n) /\ RestIsFilter(m) /\ Same(m, n) /\ n.escaped = m.escaped /\ n.open = None
             /\ n.given = m.given \cup Rest(m) \cup {Gave(m, o, v)}
  <2>1. t \in Matching /\ o \in Text /\ v \in Text
    BY <1>4 DEF Clap, MayAdd
  <2>2. /\ n.path = t.path /\ n.open = None /\ n.arguments = t.arguments /\ n.escaped = t.escaped
        /\ n.given = t.given \cup {[option |-> o, depth |-> Len(t.path), value |-> v]}
    BY <1>4, <2>1, WithIs
  <2>3. Clap(n)
    BY <1>4, WithKeeps
  <2> QED
    BY <1>3, <1>4, <2>2, <2>3 DEF Same, Gave
<1>5. CASE Escapes(m, w, n)
  <2>1. PICK t : Clap(t) /\ Settles(m, t) /\ n = [t EXCEPT !.escaped = TRUE]
    BY <1>5 DEF Escapes
  <2>2. RestIsFilter(m) /\ Same(m, t) /\ t.open = None /\ t.given = m.given \cup Rest(m)
    BY <1>3, <2>1
  <2>3. Clap(n) /\ n.path = t.path /\ n.given = t.given /\ n.open = t.open /\ n.escaped = TRUE /\ n.arguments = t.arguments
    BY <2>1, <2>2, EscapeKeeps
  <2> QED
    BY <1>5, <2>2, <2>3 DEF Moves, Same, Escapes
<1>6. CASE Switched(m, w, n)
  <2>1. PICK t : Clap(t) /\ Settles(m, t) /\ MayAdd(t, w.name, "true") /\ n = With(t, w.name, "true")
    BY <1>6 DEF Switched
  <2>2. /\ Clap(n) /\ RestIsFilter(m) /\ Same(m, n) /\ n.escaped = m.escaped /\ n.open = None
        /\ n.given = m.given \cup Rest(m) \cup {Gave(m, w.name, "true")}
    BY <1>4, <2>1
  <2> QED
    BY <1>6, <2>2 DEF Moves, Switched
<1>7. CASE Told(m, w, n)
  <2>1. PICK t : Clap(t) /\ Settles(m, t) /\ MayAdd(t, w.name, w.value) /\ n = With(t, w.name, w.value)
    BY <1>7 DEF Told
  <2>2. /\ Clap(n) /\ RestIsFilter(m) /\ Same(m, n) /\ n.escaped = m.escaped /\ n.open = None
        /\ n.given = m.given \cup Rest(m) \cup {Gave(m, w.name, w.value)}
    BY <1>4, <2>1
  <2> QED
    BY <1>7, <2>2 DEF Moves, Told
<1>8. CASE Opened(m, w, n)
  <2>1. PICK t : Clap(t) /\ Settles(m, t) /\ w.name \in OptionsAt(t.path) /\ n = [t EXCEPT !.open = w.name]
    BY <1>8 DEF Opened
  <2>2. RestIsFilter(m) /\ Same(m, t) /\ t.escaped = m.escaped /\ t.given = m.given \cup Rest(m)
    BY <1>3, <2>1
  <2>3. ~t.escaped /\ w.name \notin Switches
    BY <1>8, <2>2 DEF Opened
  <2>4. Clap(n) /\ n.path = t.path /\ n.given = t.given /\ n.open = w.name /\ n.escaped = t.escaped /\ n.arguments = t.arguments
    BY <1>2, <2>1, <2>3, OpenKeeps
  <2> QED
    BY <1>8, <2>2, <2>3, <2>4 DEF Moves, Same, Opened
<1>9. CASE Filled(m, w, n)
  <2>1. MayAdd(m, m.open, w.value) /\ n = With(m, m.open, w.value)
    BY <1>9 DEF Filled
  <2>2. Clap(n)
    BY <2>1, WithKeeps
  <2>3. /\ n.path = m.path /\ n.open = None /\ n.arguments = m.arguments /\ n.escaped = m.escaped
        /\ n.given = m.given \cup {[option |-> m.open, depth |-> Len(m.path), value |-> w.value]}
    <3>1. PICK o : o = m.open /\ o \in Text
      BY <1>1
    <3>2. PICK v : v = w.value /\ v \in Text
      BY <1>2
    <3>3. m \in Matching /\ o \in Text /\ v \in Text /\ n = With(m, o, v)
      BY <1>1, <2>1, <3>1, <3>2
    <3>4. /\ n.path = m.path /\ n.open = None /\ n.arguments = m.arguments /\ n.escaped = m.escaped
          /\ n.given = m.given \cup {[option |-> o, depth |-> Len(m.path), value |-> v]}
      BY <3>3, WithIs
    <3> QED
      BY <3>1, <3>2, <3>4
  <2> QED
    BY <1>9, <2>2, <2>3 DEF Moves, Same, Gave, Filled
<1>10. CASE LedOn(m, w, n)
  <2>1. /\ Clap(n) /\ n.path = Append(m.path, w.value) /\ n.given = m.given /\ n.open = m.open
        /\ n.escaped = m.escaped /\ n.arguments = m.arguments /\ m.arguments = <<>>
    BY <1>2, <1>10, LeadKeeps DEF LedOn
  <2> QED
    BY <1>10, <2>1 DEF Moves, LedOn
<1>11. CASE Added(m, w, n)
  <2>1. Argued(m, w, n)
    BY <1>11 DEF Added
  <2>2. /\ Clap(n) /\ n.path = m.path /\ n.given = m.given /\ n.open = m.open /\ n.escaped = m.escaped
        /\ n.arguments = Append(m.arguments, w)
        /\ m.path \in Commands /\ m.path # <<"context">>
        /\ IsLocal(m.path) \/ m.arguments = <<>>
    BY <2>1, ArguedKeeps
  <2>3. m.open = None
    BY <1>11 DEF Added, Clap, Opens
  <2> QED
    BY <1>11, <2>1, <2>2, <2>3 DEF Moves, Added, Argued
<1> QED
  BY <1>5, <1>6, <1>7, <1>8, <1>9, <1>10, <1>11 DEF Reads

-----------------------------------------------------------------------------
(* What clap has matched, against the words it has read *)

\* A filter has a flag of its own.
LEMMA OperationsAreRegistered == \A path : ResolveOperation(path).operation \in OPERATIONS
<1>1. CreatePayment \in OPERATIONS
  BY RegistryIsUsable DEF CreatePayment
<1> QED
  BY <1>1 DEF ResolveOperation

LEMMA FiltersAreNoOthers == \A path : FiltersAt(path) \cap (GlobalFlags \cup Switches \cup {"id"}) = {}
BY OperationsAreRegistered, FiltersAreTheirOwn DEF FiltersAt

LEMMA FiltersAreText == \A path : FiltersAt(path) \subseteq Text
BY OperationsAreRegistered, FiltersAreTheirOwn DEF FiltersAt, Text

\* The first "--".
Ends(s, i) == i \in DOMAIN s /\ s[i] = Escape /\ \A j \in 1 .. i - 1 : s[j] # Escape

LEMMA EndsExist ==
    ASSUME NEW s \in Seq(Keystrokes), \E i \in DOMAIN s : s[i] = Escape
    PROVE  \E i : Ends(s, i)
<1> DEFINE T == {i \in DOMAIN s : s[i] = Escape}
<1>1. T \in SUBSET Nat /\ T # {}
  OBVIOUS
<1>2. PICK x \in T : \A y \in T : x <= y
  BY <1>1, Coloring!Least
<1>3. \A j \in 1 .. x - 1 : s[j] # Escape
  <2>1. SUFFICES ASSUME NEW j \in 1 .. x - 1, s[j] = Escape PROVE FALSE
    OBVIOUS
  <2>2. j \in T /\ x \in Nat /\ j \in Nat
    BY <2>1
  <2>3. x <= j
    BY <1>2, <2>2
  <2> QED
    BY <2>1, <2>2, <2>3
<1> QED
  BY <1>2, <1>3 DEF Ends

LEMMA BeforeTheEnd ==
    ASSUME NEW s \in Seq(Keystrokes), NEW i, Ends(s, i)
    PROVE  BeforeEscape(s) = SubSeq(s, 1, i - 1)
<1>1. i \in Nat /\ \E k \in DOMAIN s : s[k] = Escape
  BY DEF Ends
<1>2. PICK c : c = CHOOSE k \in DOMAIN s : s[k] = Escape /\ \A j \in 1 .. k - 1 : s[j] # Escape
  OBVIOUS
<1>3. Ends(s, c)
  BY <1>2 DEF Ends
<1>4. c \in Nat
  BY <1>3 DEF Ends
<1>5. ~ (c < i)
  <2>1. c < i => c \in 1 .. i - 1
    BY <1>1, <1>3, <1>4 DEF Ends
  <2> QED
    BY <1>3, <2>1 DEF Ends
<1>6. ~ (i < c)
  <2>1. i < c => i \in 1 .. c - 1
    BY <1>1, <1>4 DEF Ends
  <2> QED
    BY <1>3, <2>1 DEF Ends
<1>7. c = i
  BY <1>1, <1>4, <1>5, <1>6
<1> QED
  BY <1>1, <1>2, <1>7 DEF BeforeEscape

LEMMA NothingEnds ==
    ASSUME NEW s \in Seq(Keystrokes), ~ \E i \in DOMAIN s : s[i] = Escape
    PROVE  BeforeEscape(s) = s
BY DEF BeforeEscape

LEMMA BeforeEscapeGrows ==
    ASSUME NEW s \in Seq(Keystrokes), NEW w \in Keystrokes
    PROVE  /\ (\E i \in DOMAIN s : s[i] = Escape) => BeforeEscape(Append(s, w)) = BeforeEscape(s)
           /\ (~ \E i \in DOMAIN s : s[i] = Escape) /\ w = Escape => BeforeEscape(Append(s, w)) = s
           /\ (~ \E i \in DOMAIN s : s[i] = Escape) /\ w # Escape => BeforeEscape(Append(s, w)) = Append(s, w)
<1> DEFINE t == Append(s, w)
           n == Len(s)
<1>1. /\ n \in Nat /\ DOMAIN s = 1 .. n /\ DOMAIN t = 1 .. n + 1 /\ t[n + 1] = w
      /\ (\A i \in 1 .. n : t[i] = s[i]) /\ t \in Seq(Keystrokes)
  OBVIOUS
<1>2. \A i \in 0 .. n : SubSeq(t, 1, i) = SubSeq(s, 1, i)
  <2>1. SUFFICES ASSUME NEW i \in 0 .. n PROVE SubSeq(t, 1, i) = SubSeq(s, 1, i)
    OBVIOUS
  <2>2. SubSeq(t, 1, i) = [k \in 1 .. i |-> t[k]] /\ SubSeq(s, 1, i) = [k \in 1 .. i |-> s[k]]
    BY <1>1
  <2>3. \A k \in 1 .. i : t[k] = s[k]
    BY <1>1
  <2> QED
    BY <2>2, <2>3
<1>3. SubSeq(s, 1, n) = s
  OBVIOUS
<1> HIDE DEF t, n
<1>4. ASSUME NEW i \in DOMAIN s, s[i] = Escape PROVE BeforeEscape(t) = BeforeEscape(s)
  <2>1. PICK k : Ends(s, k)
    BY <1>4, EndsExist
  <2>2. Ends(t, k) /\ k - 1 \in 0 .. n
    <3>1. k \in 1 .. n /\ s[k] = Escape /\ \A j \in 1 .. k - 1 : s[j] # Escape
      BY <1>1, <2>1 DEF Ends
    <3>2. \A j \in 1 .. k - 1 : j \in 1 .. n
      BY <1>1, <3>1
    <3>3. k \in 1 .. n + 1 /\ k - 1 \in 0 .. n
      BY <1>1, <3>1
    <3> QED
      BY <1>1, <3>1, <3>2, <3>3 DEF Ends
  <2> QED
    BY <1>1, <1>2, <2>1, <2>2, BeforeTheEnd
<1>5. ASSUME ~ \E i \in DOMAIN s : s[i] = Escape, w = Escape PROVE BeforeEscape(t) = s
  <2>1. Ends(t, n + 1)
    <3>1. (n + 1) - 1 = n /\ n + 1 \in 1 .. n + 1
      BY <1>1
    <3>2. \A j \in 1 .. n : t[j] # Escape
      BY <1>1, <1>5
    <3> QED
      BY <1>1, <1>5, <3>1, <3>2 DEF Ends
  <2>2. (n + 1) - 1 = n /\ n \in 0 .. n
    BY <1>1
  <2>3. BeforeEscape(t) = SubSeq(t, 1, n)
    BY <1>1, <2>1, <2>2, BeforeTheEnd
  <2> QED
    BY <1>2, <1>3, <2>2, <2>3
<1>6. ASSUME ~ \E i \in DOMAIN s : s[i] = Escape, w # Escape PROVE BeforeEscape(t) = t
  <2>1. ~ \E i \in DOMAIN t : t[i] = Escape
    <3>1. SUFFICES ASSUME NEW i \in DOMAIN t, t[i] = Escape PROVE FALSE
      OBVIOUS
    <3>2. CASE i = n + 1
      BY <1>1, <1>6, <3>1, <3>2
    <3>3. CASE i # n + 1
      <4>1. i \in DOMAIN s
        BY <1>1, <3>3
      <4> QED
        BY <1>1, <1>6, <3>1, <4>1
    <3> QED
      BY <3>2, <3>3
  <2> QED
    BY <1>1, <2>1, NothingEnds
<1> QED
  BY <1>4, <1>5, <1>6 DEF t

LEMMA OneMore ==
    ASSUME NEW s \in Seq(Keystrokes), NEW w \in Keystrokes
    PROVE  /\ Append(s, w) \in Seq(Keystrokes) /\ ToSet(Append(s, w)) = ToSet(s) \cup {w}
           /\ Len(s) \in Nat /\ Len(Append(s, w)) = Len(s) + 1 /\ DOMAIN s = 1 .. Len(s)
           /\ DOMAIN Append(s, w) = 1 .. Len(s) + 1 /\ Append(s, w)[Len(s) + 1] = w
           /\ \A i \in 1 .. Len(s) : Append(s, w)[i] = s[i]
<1>1. /\ Append(s, w) \in Seq(Keystrokes)
      /\ Len(s) \in Nat /\ Len(Append(s, w)) = Len(s) + 1 /\ DOMAIN s = 1 .. Len(s)
      /\ DOMAIN Append(s, w) = 1 .. Len(s) + 1 /\ Append(s, w)[Len(s) + 1] = w
      /\ \A i \in 1 .. Len(s) : Append(s, w)[i] = s[i]
  OBVIOUS
<1>2. PICK t : t = Append(s, w)
  OBVIOUS
<1>3. ToSet(t) = ToSet(s) \cup {w}
  <2>1. DOMAIN s = 1 .. Len(s) /\ DOMAIN t = 1 .. Len(s) + 1 /\ t[Len(s) + 1] = w
        /\ \A i \in 1 .. Len(s) : t[i] = s[i]
    BY <1>1, <1>2
  <2>2. 1 .. Len(s) + 1 = (1 .. Len(s)) \cup {Len(s) + 1}
    BY <1>1
  <2> QED
    BY <2>1, <2>2 DEF ToSet
<1> QED
  BY <1>1, <1>2, <1>3

\* A sequence in which nothing ends the options.
Stops(s, m) == m.escaped <=> \E i \in DOMAIN s : s[i] = Escape

LEMMA StopsMoves ==
    ASSUME NEW s \in Seq(Keystrokes), NEW m, Clap(m), Stops(s, m), NEW w \in Keystrokes, NEW n, Moves(m, w, n)
    PROVE  Stops(Append(s, w), n)
<1> DEFINE t == Append(s, w)
<1>1. /\ Len(s) \in Nat /\ DOMAIN s = 1 .. Len(s) /\ DOMAIN t = 1 .. Len(s) + 1 /\ t[Len(s) + 1] = w
      /\ \A i \in 1 .. Len(s) : t[i] = s[i]
  BY OneMore
<1> HIDE DEF t
<1>2. (\E i \in DOMAIN t : t[i] = Escape) <=> (\E i \in DOMAIN s : s[i] = Escape) \/ w = Escape
  <2>1. 1 .. Len(s) + 1 = (1 .. Len(s)) \cup {Len(s) + 1}
    BY <1>1
  <2> QED
    BY <1>1, <2>1
<1>3. m.escaped \in BOOLEAN /\ n.escaped \in BOOLEAN
  BY DEF Moves, Clap, Matching
<1>4. IsOption(w) => w # Escape
  BY DEF IsOption, Escape
<1>5. w.kind = "bare" => w # Escape
  BY DEF Escape
<1>6. n.escaped <=> m.escaped \/ w = Escape
  BY <1>3, <1>4, <1>5 DEF Moves
<1>7. Stops(t, n)
  BY <1>2, <1>3, <1>6 DEF Stops
<1> QED
  BY <1>7 DEF t

\* A flag by itself stands for the word that is it.
LEMMA LongIs ==
    ASSUME NEW w \in Keystrokes, NEW name, name \notin {"output", "quiet", "help", None}
    PROVE  w = Option(name) <=> IsOption(w) /\ w.name = name /\ w.value = None
<1>1. w = [kind |-> w.kind, name |-> w.name, value |-> w.value]
  BY DEF Keystrokes
<1>2. IsOption(w) /\ w.name = name => w.kind = "long"
  BY DEF Keystrokes, IsOption
<1> QED
  BY <1>1, <1>2 DEF Option, IsOption

LEMMA RestHasNoFlag ==
    ASSUME NEW m, RestIsFilter(m), NEW g \in Rest(m)
    PROVE  g.option \notin GlobalFlags /\ g.option \notin Switches /\ g.option # "id" /\ g.option \in FiltersAt(m.path)
BY FiltersAreNoOthers DEF Rest, RestIsFilter, Gave

\* The words in front of "--", when one more is read.
LEMMA WordsBefore ==
    ASSUME NEW s \in Seq(Keystrokes), NEW m, Stops(s, m), NEW w \in Keystrokes
    PROVE  /\ m.escaped => BeforeEscape(Append(s, w)) = BeforeEscape(s)
           /\ ~m.escaped => BeforeEscape(s) = s
           /\ ~m.escaped /\ w = Escape => BeforeEscape(Append(s, w)) = s
           /\ ~m.escaped /\ w # Escape => BeforeEscape(Append(s, w)) = Append(s, w)
BY BeforeEscapeGrows, NothingEnds DEF Stops

\* The search for --json finds it when clap does.
GivesOption(m, option) == \E g \in m.given : g.option = option

JsonHeard(s, m) == Option("json") \in ToSet(BeforeEscape(s)) <=> GivesOption(m, "json")

LEMMA JsonMoves ==
    ASSUME NEW s \in Seq(Keystrokes), NEW m, Clap(m), Stops(s, m), JsonHeard(s, m),
           NEW w \in Keystrokes, NEW n, Moves(m, w, n)
    PROVE  JsonHeard(Append(s, w), n)
<1> DEFINE t == Append(s, w)
<1>1. ToSet(t) = ToSet(s) \cup {w}
  BY OneMore
<1>2. /\ m.escaped => BeforeEscape(t) = BeforeEscape(s)
      /\ ~m.escaped => BeforeEscape(s) = s
      /\ ~m.escaped /\ w = Escape => BeforeEscape(t) = s
      /\ ~m.escaped /\ w # Escape => BeforeEscape(t) = t
  BY WordsBefore
<1> HIDE DEF t
<1>3. w = Option("json") <=> IsOption(w) /\ w.name = "json" /\ w.value = None
  BY LongIs DEF None
<1>4. "json" \in Switches /\ "json" \in GlobalFlags
  BY DEF Switches, GlobalFlags
<1>5. RestIsFilter(m) => \A g \in Rest(m) : g.option # "json"
  BY <1>4, RestHasNoFlag
<1>6. \A o, v : Gave(m, o, v).option = o
  BY DEF Gave
<1>7. (IsOption(w) => w # Escape) /\ (w.kind = "bare" => w # Escape /\ ~IsOption(w)) /\ ~IsOption(Escape)
  BY DEF IsOption, Escape
<1>8. CASE m.escaped
  <2>1. n.given = m.given
    BY <1>8 DEF Moves
  <2> QED
    BY <1>2, <1>8, <2>1 DEF JsonHeard, GivesOption, t
<1>9. CASE ~m.escaped /\ w = Escape
  <2>1. n.given = m.given \cup Rest(m) /\ RestIsFilter(m)
    BY <1>7, <1>9 DEF Moves
  <2> QED
    BY <1>2, <1>5, <1>9, <2>1 DEF JsonHeard, GivesOption, t
<1>10. CASE ~m.escaped /\ w # Escape
  <2>1. JsonHeard(t, n) <=> (Option("json") \in ToSet(s) \/ w = Option("json") <=> GivesOption(n, "json"))
    BY <1>1, <1>2, <1>10 DEF JsonHeard
  <2>2. Option("json") \in ToSet(s) <=> GivesOption(m, "json")
    BY <1>2, <1>10 DEF JsonHeard
  <2>3. GivesOption(n, "json") <=> GivesOption(m, "json") \/ w = Option("json")
    <3>1. CASE /\ IsOption(w) /\ w.name \in Switches /\ w.value = None /\ RestIsFilter(m)
               /\ n.given = m.given \cup Rest(m) \cup {Gave(m, w.name, "true")}
      BY <1>3, <1>5, <1>6, <3>1 DEF GivesOption
    <3>2. CASE /\ IsOption(w) /\ w.name \notin Switches /\ w.value # None /\ RestIsFilter(m)
               /\ n.given = m.given \cup Rest(m) \cup {Gave(m, w.name, w.value)}
      BY <1>3, <1>4, <1>5, <1>6, <3>2 DEF GivesOption
    <3>3. CASE /\ IsOption(w) /\ w.name \notin Switches /\ RestIsFilter(m)
               /\ n.given = m.given \cup Rest(m)
      BY <1>3, <1>4, <1>5, <3>3 DEF GivesOption
    <3>4. CASE w.kind = "bare" /\ m.open # None /\ n.given = m.given \cup {Gave(m, m.open, w.value)}
      <4>1. m.open # "json"
        BY <1>4, <3>4 DEF Clap, Opens
      <4> QED
        BY <1>3, <1>6, <1>7, <3>4, <4>1 DEF GivesOption
    <3>5. CASE w.kind = "bare" /\ n.given = m.given
      BY <1>3, <1>7, <3>5 DEF GivesOption
    <3> QED
      BY <1>10, <3>1, <3>2, <3>3, <3>4, <3>5 DEF Moves
  <2>4. JsonHeard(t, n)
    BY <2>1, <2>2, <2>3
  <2> QED
    BY <2>4 DEF t
<1> QED
  BY <1>8, <1>9, <1>10

-----------------------------------------------------------------------------
(* The search for a colour *)

\* What an option that may stand once at a depth is given last is given deepest.
LEMMA LastIsDeepest ==
    ASSUME NEW m, Clap(m), NEW n, Clap(n), n.path = m.path, NEW option, NEW value,
           Gave(m, option, value) \in n.given,
           \A d : option \notin Repeatable(Upto(m.path, d))
    PROVE  \A h \in n.given : h.option = option => h = Gave(m, option, value) \/ h.depth < Gave(m, option, value).depth
<1>1. PICK g : g = Gave(m, option, value)
  OBVIOUS
<1>2. g.option = option /\ g.depth = Len(m.path) /\ g \in n.given
  BY <1>1 DEF Gave
<1>3. Len(m.path) \in Nat
  BY DEF Clap, Matching
<1>4. SUFFICES ASSUME NEW h \in n.given, h.option = option, h # g PROVE h.depth < g.depth
  BY <1>1
<1>5. h.depth <= Len(m.path) /\ h.depth \in Nat
  BY <1>4 DEF Clap, Takes, Matching, Gift
<1>6. h.depth # g.depth
  BY <1>2, <1>4 DEF Clap, Once
<1> QED
  BY <1>2, <1>3, <1>5, <1>6

Colored(m, choice) ==
    /\ ~GivesOption(m, "color") /\ ~GivesOption(m, "no-color") => choice = "auto"
    /\ ~GivesOption(m, "color") /\ GivesOption(m, "no-color") => choice = "never"
    /\ GivesOption(m, "color") /\ ~GivesOption(m, "no-color") =>
         \E g \in m.given : /\ g.option = "color" /\ g.value = choice
                            /\ \A h \in m.given : h.option = "color" => h = g \/ h.depth < g.depth

ColorOf(s) == Coloring!Fold([choice |-> "auto", next |-> FALSE], s)

\* The search knows a colour, and waits for one when clap does.
ColorHeard(s, m) ==
    \E r \in {ColorOf(BeforeEscape(s))} :
        /\ r.choice \in ColorChoices /\ r.next \in BOOLEAN
        /\ r.next <=> m.open = "color"
        /\ Colored(m, r.choice)

LEMMA ColorIsNotRepeated ==
    \A path : "color" \notin Repeatable(path) /\ "color" \notin FiltersAt(path) /\ "no-color" \notin FiltersAt(path)
<1>1. "color" \in GlobalFlags /\ "no-color" \in GlobalFlags
  BY DEF GlobalFlags
<1> QED
  BY <1>1, FiltersAreNoOthers DEF Repeatable

LEMMA ColorsAreChoices ==
    ASSUME NEW n, Clap(n), NEW g \in n.given, g.option = "color"
    PROVE  g.value \in ColorChoices /\ ColorNamed(g.value) = g.value
<1>1. "color" \notin Switches /\ TypeOf("color") = "color"
  BY DEF Switches, TypeOf
<1>2. Accepts(Upto(n.path, g.depth), "color", g.value)
  BY <1>1 DEF Clap, Takes
<1>3. g.value \in Accepted["color"]
  BY <1>1, <1>2, ColorIsNotRepeated, ValuesAreTyped DEF Accepts
<1> QED
  BY <1>3, ValuesAreTyped DEF ColorNamed

LEMMA ColoredKeeps ==
    ASSUME NEW m, NEW n, m.given \subseteq n.given,
           \A g \in n.given : g \in m.given \/ (g.option # "color" /\ g.option # "no-color"),
           NEW choice, Colored(m, choice)
    PROVE  Colored(n, choice)
<1>1. /\ GivesOption(n, "color") <=> GivesOption(m, "color")
      /\ GivesOption(n, "no-color") <=> GivesOption(m, "no-color")
  BY DEF GivesOption
<1>2. \A h \in n.given : h.option = "color" => h \in m.given
  OBVIOUS
<1> QED
  BY <1>1, <1>2 DEF Colored

LEMMA ColoredAnew ==
    ASSUME NEW m, Clap(m), NEW n, Clap(n), n.path = m.path, NEW value, Gave(m, "color", value) \in n.given
    PROVE  Colored(n, value) /\ value \in ColorChoices /\ ColorNamed(value) = value
<1>1. Gave(m, "color", value).option = "color" /\ Gave(m, "color", value).value = value
  BY DEF Gave
<1>2. \A h \in n.given : h.option = "color" => h = Gave(m, "color", value) \/ h.depth < Gave(m, "color", value).depth
  BY ColorIsNotRepeated, LastIsDeepest
<1>3. GivesOption(n, "color")
  BY <1>1 DEF GivesOption
<1> QED
  BY <1>1, <1>2, <1>3, ColorsAreChoices DEF Colored

LEMMA ColorMoves ==
    ASSUME NEW s \in Seq(Keystrokes), NEW m, Clap(m), Stops(s, m), ColorHeard(s, m),
           NEW w \in Keystrokes, NEW n, Moves(m, w, n)
    PROVE  ColorHeard(Append(s, w), n)
<1> DEFINE t == Append(s, w)
<1>1. PICK r : /\ r = ColorOf(BeforeEscape(s)) /\ r.choice \in ColorChoices /\ r.next \in BOOLEAN
               /\ r.next <=> m.open = "color"
               /\ Colored(m, r.choice)
  BY DEF ColorHeard
<1>2. /\ m.escaped => BeforeEscape(t) = BeforeEscape(s)
      /\ ~m.escaped => BeforeEscape(s) = s
      /\ ~m.escaped /\ w = Escape => BeforeEscape(t) = s
      /\ ~m.escaped /\ w # Escape => BeforeEscape(t) = t
  BY WordsBefore
<1>3. ColorOf(t) = ReadColor(ColorOf(s), w)
  BY Coloring!FoldAppend DEF ColorOf
<1> HIDE DEF t
<1>4. SUFFICES ColorHeard(t, n)
  BY DEF t
<1>5. (IsOption(w) => w # Escape) /\ (w.kind = "bare" => w # Escape /\ ~IsOption(w)) /\ ~IsOption(Escape)
  BY DEF IsOption, Escape
<1>6. /\ "color" \in GlobalFlags /\ "no-color" \in GlobalFlags /\ "color" \notin Switches /\ "no-color" \in Switches
      /\ None # "color" /\ "never" \in ColorChoices /\ "auto" \in ColorChoices
  BY PlacesAreKnown DEF GlobalFlags, Switches, None
<1>7. RestIsFilter(m) => ~r.next /\ \A g \in Rest(m) : g.option # "color" /\ g.option # "no-color"
  <2>1. RestIsFilter(m) => m.open # "color"
    BY <1>6, ColorIsNotRepeated DEF RestIsFilter
  <2> QED
    BY <1>1, <1>6, <2>1, RestHasNoFlag
<1>8. \A o, v : Gave(m, o, v).option = o
  BY DEF Gave
<1>9. Clap(n)
  BY DEF Moves
<1>10. CASE m.escaped
  <2>1. n.given = m.given /\ n.open = None /\ m.open = None
    BY <1>10 DEF Moves
  <2>2. Colored(n, r.choice)
    <3>1. n.given = m.given \cup {}
      BY <2>1
    <3> QED
      BY <1>1, <3>1, ColoredKeeps
  <2> QED
    BY <1>1, <1>2, <1>10, <2>1, <2>2 DEF ColorHeard
<1>11. CASE ~m.escaped /\ w = Escape
  <2>1. n.given = m.given \cup Rest(m) /\ RestIsFilter(m) /\ n.open = None
    BY <1>5, <1>11 DEF Moves
  <2>2. Colored(n, r.choice)
    BY <1>1, <1>7, <2>1, ColoredKeeps
  <2> QED
    BY <1>1, <1>2, <1>6, <1>7, <1>11, <2>1, <2>2 DEF ColorHeard
<1>12. CASE ~m.escaped /\ w # Escape
  <2>1. ColorOf(BeforeEscape(t)) = ReadColor(r, w)
    BY <1>1, <1>2, <1>3, <1>12
  <2>2. SUFFICES \E c \in {ReadColor(r, w)} :
                   c.choice \in ColorChoices /\ c.next \in BOOLEAN /\ (c.next <=> n.open = "color") /\ Colored(n, c.choice)
    BY <2>1 DEF ColorHeard
  <2>3. PICK c : c = ReadColor(r, w)
    OBVIOUS
  <2>4. SUFFICES c.choice \in ColorChoices /\ c.next \in BOOLEAN /\ (c.next <=> n.open = "color") /\ Colored(n, c.choice)
    BY <2>3
  <2>5. r = ColorOf(s) /\ r \in [choice : ColorChoices, next : BOOLEAN]
    <3>1. r = ColorOf(s)
      BY <1>1, <1>2, <1>12
    <3>2. ColorNamed("x") \in ColorChoices /\ \A v : ColorNamed(v) \in ColorChoices
      BY <1>6 DEF ColorNamed
    <3>3. \A q \in [choice : ColorChoices, next : BOOLEAN], d \in Keystrokes :
             ReadColor(q, d) \in [choice : ColorChoices, next : BOOLEAN]
      BY <1>6, <3>2 DEF ReadColor
    <3>4. [choice |-> "auto", next |-> FALSE] \in [choice : ColorChoices, next : BOOLEAN]
      BY <1>6
    <3> QED
      BY <3>1, <3>3, <3>4, Coloring!FoldKeeps DEF ColorOf
  <2>6. CASE /\ IsOption(w) /\ w.name \in Switches /\ w.value = None /\ RestIsFilter(m)
             /\ n.open = None /\ n.given = m.given \cup Rest(m) \cup {Gave(m, w.name, "true")}
    <3>1. CASE w.name = "no-color"
      <4>1. w.kind = "long"
        BY <2>6, <3>1 DEF IsOption, Keystrokes
      <4>2. c.choice = "never" /\ c.next = FALSE
        BY <1>7, <2>3, <2>5, <2>6, <3>1, <4>1 DEF ReadColor
      <4>3. GivesOption(n, "no-color")
        BY <1>8, <2>6, <3>1 DEF GivesOption
      <4> QED
        BY <1>6, <2>6, <4>2, <4>3 DEF Colored
    <3>2. CASE w.name # "no-color"
      <4>1. w.name # "color"
        BY <1>6, <2>6
      <4>2. c = r
        BY <1>7, <2>3, <2>6, <3>2, <4>1 DEF ReadColor
      <4>3. n.given = m.given \cup (Rest(m) \cup {Gave(m, w.name, "true")})
        BY <2>6
      <4>4. \A x \in Rest(m) \cup {Gave(m, w.name, "true")} : x.option # "color" /\ x.option # "no-color"
        BY <1>7, <1>8, <2>6, <3>2, <4>1
      <4>5. Colored(n, r.choice)
        BY <1>1, <4>3, <4>4, ColoredKeeps
      <4> QED
        BY <1>1, <1>6, <1>7, <2>6, <4>2, <4>5
    <3> QED
      BY <3>1, <3>2
  <2>7. CASE /\ IsOption(w) /\ w.name \notin Switches /\ w.value # None /\ RestIsFilter(m) /\ n.path = m.path
             /\ n.open = None /\ n.given = m.given \cup Rest(m) \cup {Gave(m, w.name, w.value)}
    <3>1. CASE w.name = "color"
      <4>1. w.kind = "long"
        BY <2>7, <3>1 DEF IsOption, Keystrokes
      <4>2. Gave(m, "color", w.value) \in n.given
        BY <2>7, <3>1
      <4>3. Colored(n, w.value) /\ w.value \in ColorChoices /\ ColorNamed(w.value) = w.value
        BY <1>9, <2>7, <4>2, ColoredAnew
      <4>4. c.choice = w.value /\ c.next = FALSE
        BY <1>7, <2>3, <2>5, <2>7, <3>1, <4>1, <4>3 DEF ReadColor
      <4> QED
        BY <1>6, <2>7, <4>3, <4>4
    <3>2. CASE w.name # "color"
      <4>1. w.name # "no-color"
        BY <1>6, <2>7
      <4>2. c = r
        BY <1>7, <2>3, <2>7, <3>2, <4>1 DEF ReadColor
      <4>3. n.given = m.given \cup (Rest(m) \cup {Gave(m, w.name, w.value)})
        BY <2>7
      <4>4. \A x \in Rest(m) \cup {Gave(m, w.name, w.value)} : x.option # "color" /\ x.option # "no-color"
        BY <1>7, <1>8, <2>7, <3>2, <4>1
      <4>5. Colored(n, r.choice)
        BY <1>1, <4>3, <4>4, ColoredKeeps
      <4> QED
        BY <1>1, <1>6, <1>7, <2>7, <4>2, <4>5
    <3> QED
      BY <3>1, <3>2
  <2>8. CASE /\ IsOption(w) /\ w.name \notin Switches /\ w.value = None /\ RestIsFilter(m)
             /\ n.open = w.name /\ n.given = m.given \cup Rest(m)
    <3>1. Colored(n, r.choice)
      BY <1>1, <1>7, <2>8, ColoredKeeps
    <3>2. CASE w.name = "color"
      <4>1. w.kind = "long"
        BY <2>8, <3>2 DEF IsOption, Keystrokes
      <4>2. c.choice = r.choice /\ c.next = TRUE
        BY <1>7, <2>3, <2>5, <2>8, <3>2, <4>1 DEF ReadColor
      <4> QED
        BY <1>1, <2>8, <3>1, <3>2, <4>2
    <3>3. CASE w.name # "color"
      <4>1. c = r
        BY <1>6, <1>7, <2>3, <2>8, <3>3 DEF ReadColor
      <4> QED
        BY <1>1, <1>7, <2>8, <3>1, <3>3, <4>1
    <3> QED
      BY <3>2, <3>3
  <2>9. CASE /\ w.kind = "bare" /\ m.open # None /\ n.path = m.path
             /\ n.open = None /\ n.given = m.given \cup {Gave(m, m.open, w.value)}
    <3>1. CASE m.open = "color"
      <4>1. Gave(m, "color", w.value) \in n.given
        BY <2>9, <3>1
      <4>2. Colored(n, w.value) /\ w.value \in ColorChoices /\ ColorNamed(w.value) = w.value
        BY <1>9, <2>9, <4>1, ColoredAnew
      <4>3. c.choice = w.value /\ c.next = FALSE
        BY <1>1, <2>3, <2>9, <3>1, <4>2 DEF ReadColor
      <4> QED
        BY <1>6, <2>9, <4>2, <4>3
    <3>2. CASE m.open # "color"
      <4>1. c = r
        BY <1>1, <2>3, <2>9, <3>2 DEF ReadColor
      <4>2. m.open # "no-color"
        BY <1>6, <2>9 DEF Clap, Opens
      <4>3. Colored(n, r.choice)
        BY <1>1, <1>8, <2>9, <3>2, <4>2, ColoredKeeps
      <4> QED
        BY <1>1, <1>6, <2>9, <3>2, <4>1, <4>3
    <3> QED
      BY <3>1, <3>2
  <2>10. CASE w.kind = "bare" /\ m.open = None /\ n.open = None /\ n.given = m.given
    <3>1. c = r
      BY <1>1, <1>6, <2>3, <2>10 DEF ReadColor
    <3>2. n.given = m.given \cup {}
      BY <2>10
    <3>3. Colored(n, r.choice)
      BY <1>1, <3>2, ColoredKeeps
    <3> QED
      BY <1>1, <2>10, <3>1, <3>3
  <2> QED
    BY <1>12, <2>6, <2>7, <2>8, <2>9, <2>10 DEF Moves, Same
<1> QED
  BY <1>10, <1>11, <1>12

-----------------------------------------------------------------------------
(* Every word counts *)

\* An option that waits for its value is the last word.
OpenIsLast(s, m) ==
    m.open # None =>
        /\ s # <<>> /\ IsOption(s[Len(s)]) /\ s[Len(s)].value = None
        /\ s[Len(s)].name = m.open /\ m.open \notin Switches

LEMMA CommandsAreWords == \A c \in Commands : c # <<>> /\ c \in Seq(ToSet(c))
<1>1. ASSUME NEW c, NEW D, c \in Seq(D) PROVE c \in Seq(ToSet(c))
  <2>1. Len(c) \in Nat /\ DOMAIN c = 1 .. Len(c) /\ c = [i \in 1 .. Len(c) |-> c[i]]
    BY <1>1
  <2>2. \A i \in 1 .. Len(c) : c[i] \in ToSet(c)
    BY <2>1 DEF ToSet
  <2> QED
    BY <2>1, <2>2
<1>2. ASSUME NEW c \in LocalCommands PROVE c.path # <<>> /\ \E D : c.path \in Seq(D)
  <2>1. \A p, o, a : Local(p, o, a).path = p
    BY DEF Local
  <2>2. \A x, y : <<x>> \in Seq({x}) /\ <<x, y>> \in Seq({x, y}) /\ <<x>> # <<>> /\ <<x, y>> # <<>>
    OBVIOUS
  <2>3. PICK x, y : c.path = <<x>> \/ c.path = <<x, y>>
    BY <2>1 DEF LocalCommands
  <2>4. CASE c.path = <<x>>
    BY <2>2, <2>4
  <2>5. CASE c.path = <<x, y>>
    <3>1. \E D : x \in D /\ y \in D
      <4>1. x \in {x, y} /\ y \in {x, y}
        OBVIOUS
      <4> QED
        BY <4>1
    <3>2. PICK D : x \in D /\ y \in D
      BY <3>1
    <3>3. <<x, y>> \in Seq(D) /\ Len(<<x, y>>) = 2
      BY <3>2
    <3> QED
      BY <2>5, <3>3
  <2> QED
    BY <2>3, <2>4, <2>5
<1>3. ASSUME NEW a \in PaymentAliases PROVE AliasPath(a) # <<>> /\ \E D : AliasPath(a) \in Seq(D)
  <2>1. CreatePayment \in OPERATIONS
    BY RegistryIsUsable DEF CreatePayment
  <2>2. CreatePayment.command \in Seq(STRING) /\ CreatePayment.command # <<>>
    BY <2>1, CommandsAreLeaves
  <2>3. PaymentAliasParent \in Seq(STRING)
    BY <2>2 DEF PaymentAliasParent, Front
  <2>4. PaymentAliasParent \in Seq(STRING \cup {a})
    BY <2>3
  <2>5. AliasPath(a) \in Seq(STRING \cup {a}) /\ AliasPath(a) # <<>>
    <3>1. PICK D : D = STRING \cup {a} /\ a \in D
      OBVIOUS
    <3>2. PICK front \in Seq(D) : front = PaymentAliasParent
      BY <2>4, <3>1
    <3>3. Append(front, a) \in Seq(D) /\ Len(Append(front, a)) = Len(front) + 1 /\ Len(front) \in Nat
      BY <3>1
    <3>4. Append(front, a) # <<>>
      BY <3>3
    <3> QED
      BY <3>1, <3>2, <3>3, <3>4 DEF AliasPath
  <2> QED
    BY <2>5
<1>4. \A o \in OPERATIONS : o.command # <<>> /\ o.command \in Seq(STRING)
  BY CommandsAreLeaves
<1> QED
  BY <1>1, <1>2, <1>3, <1>4 DEF Commands

LEMMA OpenMoves ==
    ASSUME NEW s \in Seq(Keystrokes), NEW m, NEW w \in Keystrokes, NEW n, Moves(m, w, n)
    PROVE  OpenIsLast(Append(s, w), n)
<1> DEFINE t == Append(s, w)
<1>1. t # <<>> /\ t[Len(t)] = w
  <2>1. Len(s) \in Nat /\ Len(t) = Len(s) + 1 /\ t[Len(s) + 1] = w /\ t \in Seq(Keystrokes)
    BY OneMore
  <2> HIDE DEF t
  <2>2. Len(t) # 0
    BY <2>1
  <2> QED
    BY <2>1, <2>2
<1> HIDE DEF t
<1>2. OpenIsLast(t, n)
  BY <1>1 DEF OpenIsLast, Moves
<1> QED
  BY <1>2 DEF t

\* An option that was read is given, is an argument behind "--", or waits for its value.
Heeded(word, m) ==
    \/ \E g \in m.given : g.option = word.name /\ (word.value # None => g.value = word.value)
    \/ word \in ToSet(m.arguments)
    \/ m.open = word.name /\ word.value = None

OptionsHeard(s, m) == \A i \in DOMAIN s : IsOption(s[i]) => Heeded(s[i], m)

LEMMA StillHeeded ==
    ASSUME NEW m, Clap(m), NEW w \in Keystrokes, NEW n, Moves(m, w, n), NEW word \in Keystrokes, IsOption(word),
           Heeded(word, m)
    PROVE  Heeded(word, n)
<1>1. m.given \subseteq n.given
  BY DEF Moves
<1>2. ToSet(m.arguments) \subseteq ToSet(n.arguments)
  <2>1. m.arguments \in Seq(Keystrokes)
    BY DEF Clap, Matching
  <2>2. ToSet(Append(m.arguments, w)) = ToSet(m.arguments) \cup {w}
    BY <2>1, OneMore
  <2> QED
    BY <2>2 DEF Moves, Same
<1>3. CASE m.open = word.name /\ word.value = None
  <2>1. m.open # None
    BY <1>3 DEF Keystrokes
  <2>2. \E v : Gave(m, m.open, v) \in n.given
    BY <2>1 DEF Moves, Rest, Clap, Opens
  <2>3. \A v : Gave(m, m.open, v).option = m.open
    BY DEF Gave
  <2> QED
    BY <1>3, <2>2, <2>3 DEF Heeded
<1> QED
  BY <1>1, <1>2, <1>3 DEF Heeded

LEMMA NowHeeded ==
    ASSUME NEW m, Clap(m), NEW w \in Keystrokes, IsOption(w), NEW n, Moves(m, w, n)
    PROVE  Heeded(w, n)
<1>1. w # Escape /\ w.kind # "bare"
  BY DEF IsOption, Escape
<1>2. \A o, v : Gave(m, o, v).option = o /\ Gave(m, o, v).value = v
  BY DEF Gave
<1>3. m.arguments \in Seq(Keystrokes)
  BY DEF Clap, Matching
<1>4. w \in ToSet(Append(m.arguments, w))
  BY <1>3, OneMore
<1>5. CASE n.arguments = Append(m.arguments, w)
  BY <1>4, <1>5 DEF Heeded
<1>6. CASE w.name \in Switches /\ w.value = None /\ Gave(m, w.name, "true") \in n.given
  BY <1>2, <1>6 DEF Heeded
<1>7. CASE Gave(m, w.name, w.value) \in n.given
  BY <1>2, <1>7 DEF Heeded
<1>8. CASE n.open = w.name /\ w.value = None
  BY <1>8 DEF Heeded
<1> QED
  BY <1>1, <1>5, <1>6, <1>7, <1>8 DEF Moves

LEMMA OptionsMove ==
    ASSUME NEW s \in Seq(Keystrokes), NEW m, Clap(m), OptionsHeard(s, m),
           NEW w \in Keystrokes, NEW n, Moves(m, w, n)
    PROVE  OptionsHeard(Append(s, w), n)
<1> DEFINE t == Append(s, w)
<1>1. /\ Len(s) \in Nat /\ DOMAIN s = 1 .. Len(s) /\ DOMAIN t = 1 .. Len(s) + 1 /\ t[Len(s) + 1] = w
      /\ \A i \in 1 .. Len(s) : t[i] = s[i]
  BY OneMore
<1>2. \A i \in DOMAIN s : s[i] \in Keystrokes
  OBVIOUS
<1> HIDE DEF t
<1>3. SUFFICES ASSUME NEW i \in DOMAIN t, IsOption(t[i]) PROVE Heeded(t[i], n)
  BY DEF OptionsHeard, t
<1>4. CASE i = Len(s) + 1
  BY <1>1, <1>3, <1>4, NowHeeded
<1>5. CASE i # Len(s) + 1
  <2>1. i \in DOMAIN s /\ t[i] = s[i]
    BY <1>1, <1>5
  <2> QED
    BY <1>2, <1>3, <2>1, StillHeeded DEF OptionsHeard
<1> QED
  BY <1>4, <1>5

\* An ID by itself is the argument, or the value of the option in front.
ValueOf(s, i) == i > 1 /\ IsOption(s[i - 1]) /\ s[i - 1].value = None /\ s[i - 1].name \notin Switches

IdHeard(s, m, i) ==
    \/ s[i] \in ToSet(m.arguments)
    \/ ValueOf(s, i) /\ \E g \in m.given : g.option = s[i - 1].name /\ g.value = s[i].value

IdsHeard(s, m) == \A i \in DOMAIN s : IsId(s[i]) => IdHeard(s, m, i)

LEMMA IdsMove ==
    ASSUME NEW s \in Seq(Keystrokes), NEW m, Clap(m), OpenIsLast(s, m), IdsHeard(s, m),
           NEW w \in Keystrokes, NEW n, Moves(m, w, n)
    PROVE  IdsHeard(Append(s, w), n)
<1> DEFINE t == Append(s, w)
<1>1. /\ Len(s) \in Nat /\ DOMAIN s = 1 .. Len(s) /\ DOMAIN t = 1 .. Len(s) + 1 /\ t[Len(s) + 1] = w
      /\ \A i \in 1 .. Len(s) : t[i] = s[i]
  BY OneMore
<1> HIDE DEF t
<1>2. SUFFICES ASSUME NEW i \in DOMAIN t, IsId(t[i]) PROVE IdHeard(t, n, i)
  BY DEF IdsHeard, t
<1>3. m.given \subseteq n.given
  BY DEF Moves
<1>4. m.arguments \in Seq(Keystrokes)
  BY DEF Clap, Matching
<1>5. ToSet(Append(m.arguments, w)) = ToSet(m.arguments) \cup {w}
  BY <1>4, OneMore
<1>6. ToSet(m.arguments) \subseteq ToSet(n.arguments)
  BY <1>5 DEF Moves, Same
<1>7. CASE i = Len(s) + 1
  <2>1. w.kind = "bare" /\ w.value \in Accepted["uuid"] /\ t[i] = w
    BY <1>1, <1>2, <1>7 DEF IsId
  <2>2. w # Escape /\ ~IsOption(w)
    BY <2>1 DEF Escape, IsOption
  <2>3. w.value \notin Subcommands(m.path)
    <3>1. SUFFICES ASSUME w.value \in Subcommands(m.path) PROVE FALSE
      OBVIOUS
    <3>2. PICK c \in Commands : Len(c) > Len(m.path) /\ w.value = c[Len(m.path) + 1]
      BY <3>1 DEF Subcommands
    <3>3. c \in Seq(ToSet(c))
      BY <3>2, CommandsAreWords
    <3>4. Len(m.path) + 1 \in DOMAIN c
      <4>1. Len(m.path) \in Nat
        BY DEF Clap, Matching
      <4> QED
        BY <3>2, <3>3, <4>1
    <3>5. w.value \in ToSet(c)
      BY <3>2, <3>4 DEF ToSet
    <3> QED
      BY <2>1, <3>5, ValuesAreTyped
  <2>4. CASE m.open # None /\ n.given = m.given \cup {Gave(m, m.open, w.value)}
    <3>1. s # <<>> /\ IsOption(s[Len(s)]) /\ s[Len(s)].value = None /\ s[Len(s)].name = m.open /\ m.open \notin Switches
      BY <2>4 DEF OpenIsLast
    <3>2. Len(s) \in 1 .. Len(s) /\ i - 1 = Len(s) /\ i > 1
      BY <1>1, <1>7, <3>1
    <3>3. t[i - 1] = s[Len(s)]
      BY <1>1, <3>2
    <3>4. Gave(m, m.open, w.value).option = m.open /\ Gave(m, m.open, w.value).value = w.value
      BY DEF Gave
    <3> QED
      BY <2>1, <2>4, <3>1, <3>2, <3>3, <3>4 DEF IdHeard, ValueOf
  <2>5. CASE n.arguments = Append(m.arguments, w)
    BY <1>5, <2>1, <2>5 DEF IdHeard
  <2> QED
    BY <2>1, <2>2, <2>3, <2>4, <2>5 DEF Moves
<1>8. CASE i # Len(s) + 1
  <2>1. i \in DOMAIN s /\ t[i] = s[i] /\ (i > 1 => t[i - 1] = s[i - 1])
    BY <1>1, <1>8
  <2>2. IdHeard(s, m, i)
    BY <1>2, <2>1 DEF IdsHeard
  <2> QED
    BY <1>3, <1>6, <2>1, <2>2 DEF IdHeard, ValueOf
<1> QED
  BY <1>7, <1>8

\* What is given was said, or is the "true" of a flag.
Said(s, m) == \A g \in m.given : g.value = "true" \/ \E word \in ToSet(s) : g.value = word.value

LEMMA SaidMoves ==
    ASSUME NEW s \in Seq(Keystrokes), NEW m, Said(s, m), NEW w \in Keystrokes, NEW n, Moves(m, w, n)
    PROVE  Said(Append(s, w), n)
<1>1. ToSet(Append(s, w)) = ToSet(s) \cup {w}
  BY OneMore
<1>2. \A o, v : Gave(m, o, v).value = v
  BY DEF Gave
<1>3. \A g \in n.given : g \in m.given \/ g.value = "true" \/ g.value = w.value
  BY <1>2 DEF Moves, Rest
<1> QED
  BY <1>1, <1>3 DEF Said

-----------------------------------------------------------------------------
(* A line that was matched *)

\* What clap has matched of the words so far.
Read(s) == Reading!Fold(Fresh, s)

LEMMA ReadIs == \A s : FoldLeft(Next_, Fresh, s) = Read(s)
BY DEF Read, Reading!Fold, Reading!MapThenFoldSet, Reading!Max, FoldLeft, MapThenFoldSet, Max

LEMMA ReadMore == \A s \in Seq(Keystrokes), w \in Keystrokes : Read(Append(s, w)) = Next_(Read(s), w)
BY Reading!FoldAppend DEF Read

LEMMA RequestedIs == \A s : Requested(s) = ColorOf(BeforeEscape(s)).choice
BY DEF Requested, ColorOf, Coloring!Fold, Coloring!MapThenFoldSet, Coloring!Max, FoldLeft, MapThenFoldSet, Max

History(s, m) ==
    /\ Clap(m) /\ Stops(s, m) /\ JsonHeard(s, m) /\ ColorHeard(s, m) /\ OpenIsLast(s, m)
    /\ OptionsHeard(s, m) /\ IdsHeard(s, m) /\ Said(s, m)

LEMMA FreshIsClap ==
    /\ Clap(Fresh) /\ Fresh.open = None /\ Fresh.given = {} /\ Fresh.path = <<>> /\ Fresh.arguments = <<>>
    /\ Fresh.escaped = FALSE /\ Fresh.error = None
<1>1. /\ Fresh.open = None /\ Fresh.given = {} /\ Fresh.path = <<>> /\ Fresh.arguments = <<>>
      /\ Fresh.escaped = FALSE /\ Fresh.error = None
  BY DEF Fresh
<1>2. Fresh \in Matching
  <2>1. None \in Text /\ <<>> \in Seq(Text) /\ <<>> \in Seq(Keystrokes)
    BY DEF Text
  <2> QED
    BY <2>1 DEF Fresh, Matching
<1>3. Led(Fresh)
  <2>1. Len(<<>>) = 0 /\ 0 .. 0 - 1 = {}
    OBVIOUS
  <2> QED
    BY <1>1, <2>1 DEF Led
<1>4. Takes(Fresh) /\ Once(Fresh) /\ Opens(Fresh) /\ Argues(Fresh)
  BY <1>1 DEF Takes, Once, Opens, Argues
<1> QED
  BY <1>1, <1>2, <1>3, <1>4 DEF Clap

LEMMA HistoryStarts == History(<<>>, Read(<<>>))
<1>1. Read(<<>>) = Fresh
  BY Reading!FoldEmpty DEF Read
<1>2. <<>> \in Seq(Keystrokes) /\ DOMAIN <<>> = {} /\ ToSet(<<>>) = {}
  <2>1. <<>> \in Seq(Keystrokes) /\ DOMAIN <<>> = {}
    OBVIOUS
  <2> QED
    BY <2>1 DEF ToSet
<1>3. BeforeEscape(<<>>) = <<>>
  BY <1>2, NothingEnds
<1>4. ColorHeard(<<>>, Fresh)
  <2>1. ColorOf(<<>>) = [choice |-> "auto", next |-> FALSE]
    BY Coloring!FoldEmpty DEF ColorOf
  <2>2. None # "color"
    BY DEF None
  <2>3. ~GivesOption(Fresh, "color") /\ ~GivesOption(Fresh, "no-color")
    BY FreshIsClap DEF GivesOption
  <2>4. Colored(Fresh, "auto")
    BY <2>3 DEF Colored
  <2>5. PICK r : r = ColorOf(BeforeEscape(<<>>))
    OBVIOUS
  <2>6. r.choice = "auto" /\ r.next = FALSE
    BY <1>3, <2>1, <2>5
  <2>7. Fresh.open # "color" /\ "auto" \in ColorChoices
    BY <2>2, FreshIsClap, PlacesAreKnown
  <2>8. r.choice \in ColorChoices /\ r.next \in BOOLEAN /\ (r.next <=> Fresh.open = "color") /\ Colored(Fresh, r.choice)
    BY <2>4, <2>6, <2>7
  <2> QED
    BY <2>5, <2>8 DEF ColorHeard
<1>5. Stops(<<>>, Fresh) /\ OpenIsLast(<<>>, Fresh) /\ OptionsHeard(<<>>, Fresh) /\ IdsHeard(<<>>, Fresh)
      /\ Said(<<>>, Fresh)
  BY <1>2, FreshIsClap DEF Stops, OpenIsLast, OptionsHeard, IdsHeard, Said
<1>6. JsonHeard(<<>>, Fresh)
  BY <1>2, <1>3, FreshIsClap DEF JsonHeard, GivesOption
<1> QED
  BY <1>1, <1>4, <1>5, <1>6, FreshIsClap DEF History

LEMMA HistoryHolds == \A s \in Seq(Keystrokes) : Read(s).error = None => History(s, Read(s))
<1> DEFINE S == {s \in Seq(Keystrokes) : Read(s).error = None => History(s, Read(s))}
<1>1. <<>> \in S
  <2>1. <<>> \in Seq(Keystrokes)
    OBVIOUS
  <2> QED
    BY <2>1, HistoryStarts
<1>2. ASSUME NEW s \in Seq(Keystrokes), NEW w \in Keystrokes, s \in S PROVE Append(s, w) \in S
  <2>1. Append(s, w) \in Seq(Keystrokes)
    OBVIOUS
  <2>2. PICK m : m = Read(s)
    OBVIOUS
  <2>3. PICK n : n = Next_(m, w)
    OBVIOUS
  <2>4. Read(Append(s, w)) = n
    BY <2>2, <2>3, ReadMore
  <2>5. SUFFICES ASSUME n.error = None PROVE History(Append(s, w), n)
    BY <2>1, <2>4
  <2>6. m.error = None
    BY <2>3, <2>5, ErrorStays
  <2>7. History(s, m)
    BY <1>2, <2>2, <2>6
  <2>8. Clap(m) /\ Stops(s, m) /\ JsonHeard(s, m) /\ ColorHeard(s, m) /\ OpenIsLast(s, m)
        /\ OptionsHeard(s, m) /\ IdsHeard(s, m) /\ Said(s, m)
    BY <2>7 DEF History
  <2>9. Moves(m, w, n)
    BY <2>3, <2>5, <2>8, ReadsIs, MovesAre
  <2>10. Clap(n)
    BY <2>9 DEF Moves
  <2>11. Stops(Append(s, w), n) /\ JsonHeard(Append(s, w), n) /\ ColorHeard(Append(s, w), n)
    BY <2>8, <2>9, StopsMoves, JsonMoves, ColorMoves
  <2>12. OpenIsLast(Append(s, w), n) /\ OptionsHeard(Append(s, w), n)
    BY <2>8, <2>9, OpenMoves, OptionsMove
  <2>13. IdsHeard(Append(s, w), n) /\ Said(Append(s, w), n)
    BY <2>8, <2>9, IdsMove, SaidMoves
  <2> QED
    BY <2>10, <2>11, <2>12, <2>13 DEF History
<1> HIDE DEF S
<1>3. \A s \in Seq(Keystrokes) : s \in S
  BY <1>1, <1>2, Reading!SequencesInductive
<1> QED
  BY <1>3 DEF S

\* What a line comes to that has no error.
Understood(s, m) ==
    /\ Clap(m) /\ m.open = None /\ m.path \in Commands /\ ~Misused(m)
    /\ Stops(s, m) /\ JsonHeard(s, m) /\ Colored(m, Requested(s)) /\ Requested(s) \in ColorChoices
    /\ OptionsHeard(s, m) /\ IdsHeard(s, m) /\ Said(s, m)

LEMMA SettledHistory ==
    ASSUME NEW s \in Seq(Keystrokes), NEW m, History(s, m), Settled(m).error = None, NEW t, t = Settled(m)
    PROVE  /\ Clap(t) /\ t.open = None /\ Same(m, t) /\ t.escaped = m.escaped
           /\ Stops(s, t) /\ JsonHeard(s, t) /\ Colored(t, Requested(s)) /\ Requested(s) \in ColorChoices
           /\ OptionsHeard(s, t) /\ IdsHeard(s, t) /\ Said(s, t)
<1>1. Clap(m) /\ Stops(s, m) /\ JsonHeard(s, m) /\ ColorHeard(s, m) /\ OpenIsLast(s, m)
      /\ OptionsHeard(s, m) /\ IdsHeard(s, m) /\ Said(s, m)
  BY DEF History
<1>2. Clap(t) /\ Settles(m, t)
  BY <1>1, SettledIs
<1>3. /\ RestIsFilter(m) /\ Same(m, t) /\ t.escaped = m.escaped /\ t.open = None
      /\ t.given = m.given \cup Rest(m)
  BY <1>1, <1>2, SettlesIs
<1>4. "json" \in GlobalFlags /\ "color" \in GlobalFlags /\ "no-color" \in GlobalFlags
  BY DEF GlobalFlags
<1>5. \A g \in t.given : g \in m.given \/ (g.option # "json" /\ g.option # "color" /\ g.option # "no-color")
  BY <1>3, <1>4, RestHasNoFlag
<1>6. m.given \subseteq t.given
  BY <1>3
<1>7. Stops(s, t)
  BY <1>1, <1>3 DEF Stops
<1>8. JsonHeard(s, t)
  BY <1>1, <1>5, <1>6 DEF JsonHeard, GivesOption
<1>9. Colored(t, Requested(s)) /\ Requested(s) \in ColorChoices
  <2>1. Colored(m, Requested(s)) /\ Requested(s) \in ColorChoices
    BY <1>1, RequestedIs DEF ColorHeard
  <2> QED
    BY <1>5, <1>6, <2>1, ColoredKeeps
<1>10. OptionsHeard(s, t)
  <2>1. SUFFICES ASSUME NEW i \in DOMAIN s, IsOption(s[i]) PROVE Heeded(s[i], t)
    BY DEF OptionsHeard
  <2>2. Heeded(s[i], m) /\ s[i] \in Keystrokes
    BY <1>1, <2>1 DEF OptionsHeard
  <2>3. CASE m.open = s[i].name /\ s[i].value = None
    <3>1. m.open # None
      BY <2>1, <2>2, <2>3 DEF Keystrokes
    <3>2. Gave(m, m.open, "true") \in t.given /\ Gave(m, m.open, "true").option = m.open
      BY <1>3, <3>1 DEF Rest, Gave
    <3> QED
      BY <2>3, <3>2 DEF Heeded
  <2> QED
    BY <1>3, <1>6, <2>2, <2>3 DEF Heeded, Same
<1>11. IdsHeard(s, t)
  BY <1>1, <1>3, <1>6 DEF IdsHeard, IdHeard, Same
<1>12. Said(s, t)
  <2>1. \A g \in Rest(m) : g.value = "true"
    BY DEF Rest, Gave
  <2> QED
    BY <1>1, <1>3, <2>1 DEF Said
<1> QED
  BY <1>2, <1>3, <1>7, <1>8, <1>9, <1>10, <1>11, <1>12

LEMMA LineIsUnderstood ==
    ASSUME NEW s \in Seq(Keystrokes), Matches(s).error = None
    PROVE  Understood(s, Matches(s))
<1>1. PICK m : m = Read(s)
  OBVIOUS
<1>2. PICK t : t = Settled(m)
  OBVIOUS
<1>3. Matches(s) = Validated(t)
  BY <1>1, <1>2, ReadIs DEF Matches
<1>4. t.error = None
  BY <1>3 DEF Validated
<1>5. m.error = None
  BY <1>2, <1>4 DEF Settled
<1>6. History(s, m)
  BY <1>1, <1>5, HistoryHolds
<1>7. /\ Clap(t) /\ t.open = None
      /\ Stops(s, t) /\ JsonHeard(s, t) /\ Colored(t, Requested(s)) /\ Requested(s) \in ColorChoices
      /\ OptionsHeard(s, t) /\ IdsHeard(s, t) /\ Said(s, t)
  BY <1>2, <1>4, <1>6, SettledHistory
<1>8. t \in Matching /\ "missing" \in Text /\ "missing" # None /\ "usage" \in Text /\ "usage" # None
  BY <1>7 DEF Clap, Text, None
<1>9. t.path \in Commands /\ ~Misused(t) /\ Matches(s) = t
  BY <1>3, <1>4, <1>8, FailedIs DEF Validated
<1> QED
  BY <1>7, <1>9 DEF Understood

-----------------------------------------------------------------------------
(* The value of an option *)

LEMMA HasIs == \A m, option : Has(m, option) <=> GivesOption(m, option)
BY DEF Has, Depths, GivesOption

\* An option that is given has a value of one of those given deepest.
LEMMA GivenIs ==
    ASSUME NEW m, Clap(m), NEW option, Has(m, option)
    PROVE  \E g \in m.given : /\ g.option = option /\ Given(m, option) = g.value /\ g.depth = Deepest(m, option)
                              /\ \A h \in m.given : h.option = option => g.depth >= h.depth
<1> DEFINE D == Depths(m, option)
           n == Len(m.path)
           T == {k \in Nat : n - k \in D}
<1>1. n \in Nat /\ \A g \in m.given : g.depth \in 0 .. n
  BY DEF Clap, Matching, Takes, Gift
<1>2. D \subseteq 0 .. n /\ D # {}
  BY <1>1 DEF Depths, Has
<1> HIDE DEF D, n
<1>3. T # {}
  <2>1. PICK d \in D : d \in 0 .. n
    BY <1>2
  <2>2. n - d \in Nat /\ n - (n - d) = d
    BY <1>1, <2>1
  <2> QED
    BY <2>1, <2>2
<1>4. PICK x \in T : \A y \in T : x <= y
  BY <1>3, Reading!Least
<1>5. \A e \in D : n - x >= e
  <2>1. SUFFICES ASSUME NEW e \in D PROVE n - x >= e
    OBVIOUS
  <2>2. n - e \in Nat /\ n - (n - e) = e /\ e \in Nat
    BY <1>1, <1>2
  <2>3. n - e \in T
    BY <2>2
  <2>4. x <= n - e /\ x \in Nat
    BY <1>4, <2>3
  <2> QED
    BY <1>1, <2>2, <2>4
<1>6. \E d \in D : \A e \in D : d >= e
  <2>1. n - x \in D
    BY <1>4
  <2> QED
    BY <1>5, <2>1
<1>7. PICK d : d = Deepest(m, option)
  OBVIOUS
<1>8. d \in D /\ \A e \in D : d >= e
  BY <1>6, <1>7 DEF Deepest, D
<1>9. PICK g \in m.given : g.option = option /\ g.depth = d
  BY <1>8 DEF D, Depths
<1>10. Values(m, option) = {h.value : h \in GivenAt(m, option, d)}
  BY <1>7 DEF Values
<1>11. g.value \in Values(m, option)
  BY <1>9, <1>10 DEF GivenAt
<1>12. Given(m, option) \in Values(m, option)
  BY <1>11 DEF Given
<1>13. PICK h \in m.given : h.option = option /\ h.depth = d /\ h.value = Given(m, option)
  BY <1>10, <1>12 DEF GivenAt
<1>14. \A k \in m.given : k.option = option => k.depth \in D
  BY DEF D, Depths
<1> QED
  BY <1>7, <1>8, <1>13, <1>14

\* Of an option that stands once at each depth, the deepest is the one.
LEMMA DeepestIsGiven ==
    ASSUME NEW m, Clap(m), NEW option, \A path : option \notin Repeatable(path),
           NEW g \in m.given, g.option = option,
           \A h \in m.given : h.option = option => h = g \/ h.depth < g.depth
    PROVE  Has(m, option) /\ Given(m, option) = g.value
<1>1. Has(m, option)
  BY HasIs DEF GivesOption
<1>2. PICK k \in m.given : /\ k.option = option /\ Given(m, option) = k.value
                           /\ \A h \in m.given : h.option = option => k.depth >= h.depth
  BY <1>1, GivenIs
<1>3. k.depth >= g.depth /\ (k = g \/ k.depth < g.depth)
  BY <1>2
<1>4. k.depth \in Nat /\ g.depth \in Nat
  BY DEF Clap, Matching, Gift
<1>5. k = g
  BY <1>3, <1>4
<1> QED
  BY <1>1, <1>2, <1>5

\* Of an option that is given at one depth, and once, each one given is the one.
LEMMA OnlyIsGiven ==
    ASSUME NEW m, Clap(m), NEW option, \A path : option \notin Repeatable(path),
           NEW g \in m.given, g.option = option,
           \A h \in m.given : h.option = option => h.depth = g.depth
    PROVE  Has(m, option) /\ Given(m, option) = g.value
<1>1. \A h \in m.given : h.option = option => h = g
  BY DEF Clap, Once
<1> QED
  BY <1>1, DeepestIsGiven

\* An option that is not global stands behind the command.
LEMMA StandsAtLeaf ==
    ASSUME NEW m, Clap(m), NEW g \in m.given, g.option \notin GlobalFlags
    PROVE  /\ g.depth = Len(m.path) /\ Upto(m.path, g.depth) = m.path /\ g.option \in OptionsAt(m.path)
           /\ g.option \in Switches \/ Accepts(m.path, g.option, g.value)
<1>1. Len(m.path) \in Nat /\ g.depth \in Nat /\ g.depth <= Len(m.path) /\ m.path \in Seq(Text)
  BY DEF Clap, Matching, Gift, Takes
<1>2. g.depth = Len(m.path)
  <2>1. SUFFICES ASSUME g.depth < Len(m.path) PROVE FALSE
    BY <1>1
  <2>2. g.depth \in 0 .. Len(m.path) - 1
    BY <1>1, <2>1
  <2>3. Upto(m.path, g.depth) \notin Commands
    BY <2>2, CommandsEnd DEF Clap, Led
  <2>4. OptionsAt(Upto(m.path, g.depth)) = GlobalFlags
    BY <2>3, LocalIsCommand DEF OptionsAt
  <2> QED
    BY <2>4 DEF Clap, Takes
<1>3. Upto(m.path, g.depth) = m.path
  BY <1>1, <1>2, WholePath
<1> QED
  BY <1>2, <1>3 DEF Clap, Takes

\* What --output is given is a form.
LEMMA FormatIs ==
    ASSUME NEW m, Clap(m), NEW where
    PROVE  FormatOf(m, where) \in {"json", "ndjson", "table"}
<1>1. ASSUME Has(m, "output") PROVE Given(m, "output") \in {"json", "ndjson", "table"}
  <2>1. PICK g \in m.given : g.option = "output" /\ Given(m, "output") = g.value
    BY <1>1, GivenIs
  <2>2. "output" \in GlobalFlags /\ "output" \notin Switches /\ TypeOf("output") = "output"
    BY DEF GlobalFlags, Switches, TypeOf
  <2>3. Accepts(Upto(m.path, g.depth), "output", g.value)
    BY <2>1, <2>2 DEF Clap, Takes
  <2> QED
    BY <2>1, <2>2, <2>3, FiltersAreNoOthers, ValuesAreTyped DEF Accepts
<1>2. ~Has(m, "output") => Given(m, "output") = None
  BY DEF Given
<1> QED
  BY <1>1, <1>2 DEF FormatOf, Format

-----------------------------------------------------------------------------
(* What a line that was understood means *)

LEMMA JsonAlike ==
    ASSUME NEW s \in Seq(Keystrokes), NEW m, Understood(s, m)
    PROVE  JsonErrorsRequested(s) <=> Has(m, "json")
BY HasIs DEF Understood, JsonHeard, JsonErrorsRequested

LEMMA ColorAlike ==
    ASSUME NEW s \in Seq(Keystrokes), NEW m, Understood(s, m), ~(Has(m, "color") /\ Has(m, "no-color")), NEW where
    PROVE  WithEnvironment(Requested(s), where) = Color(m, where)
<1>1. Clap(m) /\ Colored(m, Requested(s))
  BY DEF Understood
<1>2. CASE ~Has(m, "color") /\ ~Has(m, "no-color")
  <2>1. Requested(s) = "auto"
    BY <1>1, <1>2, HasIs DEF Colored
  <2> QED
    BY <1>2, <2>1 DEF Color
<1>3. CASE ~Has(m, "color") /\ Has(m, "no-color")
  <2>1. Requested(s) = "never"
    BY <1>1, <1>3, HasIs DEF Colored
  <2> QED
    BY <1>3, <2>1 DEF Color, WithEnvironment
<1>4. CASE Has(m, "color") /\ ~Has(m, "no-color")
  <2>1. PICK g \in m.given : /\ g.option = "color" /\ g.value = Requested(s)
                             /\ \A h \in m.given : h.option = "color" => h = g \/ h.depth < g.depth
    BY <1>1, <1>4, HasIs DEF Colored
  <2>2. Given(m, "color") = Requested(s)
    BY <1>1, <2>1, ColorIsNotRepeated, DeepestIsGiven
  <2> QED
    BY <1>4, <2>2 DEF Color
<1> QED
  BY <1>2, <1>3, <1>4

\* `context` leads only from the program itself to a command.
LEMMA ContextStandsAlone ==
    ASSUME NEW p \in Seq(Text), Append(p, "context") \in Commands
    PROVE  p = <<>>
<1>1. PICK n \in Nat : n = Len(p)
  OBVIOUS
<1>2. PICK q : q = Append(p, "context") /\ Len(q) = n + 1 /\ q[n + 1] = "context" /\ q \in Commands
  <2>1. Len(Append(p, "context")) = n + 1 /\ Append(p, "context")[n + 1] = "context"
    BY <1>1
  <2> QED
    BY <2>1
<1>3. ASSUME NEW o \in OPERATIONS, q = o.command PROVE FALSE
  BY <1>2, <1>3, CommandsAreLeaves DEF Last
<1>4. ASSUME NEW a \in PaymentAliases, q = AliasPath(a) PROVE FALSE
  <2>1. CreatePayment \in OPERATIONS
    BY RegistryIsUsable DEF CreatePayment
  <2>2. CreatePayment.command \in Seq(STRING) /\ CreatePayment.command # <<>>
    BY <2>1, CommandsAreLeaves
  <2>3. PICK front \in Seq(STRING) : front = PaymentAliasParent
    <3>1. PaymentAliasParent \in Seq(STRING)
      BY <2>2 DEF PaymentAliasParent, Front
    <3> QED
      BY <3>1
  <2>4. q = Append(front, a)
    BY <1>4, <2>3 DEF AliasPath
  <2>5. Len(Append(front, a)) = Len(front) + 1 /\ Append(front, a)[Len(front) + 1] = a /\ Len(front) \in Nat
    OBVIOUS
  <2>6. q[n + 1] = a
    BY <1>1, <1>2, <2>4, <2>5
  <2>7. a # "context"
    BY DEF PaymentAliases
  <2> QED
    BY <1>2, <2>6, <2>7
<1>5. ASSUME NEW c \in LocalCommands, q = c.path PROVE n = 0
  <2>1. \A l, o, a : Local(l, o, a).path = l
    BY DEF Local
  <2>2. PICK x, y : c.path = <<x>> \/ (c.path = <<x, y>> /\ y # "context")
    BY <2>1 DEF LocalCommands
  <2>3. CASE c.path = <<x>>
    <3>1. Len(<<x>>) = 1
      OBVIOUS
    <3> QED
      BY <1>2, <1>5, <2>3, <3>1
  <2>4. CASE c.path = <<x, y>> /\ y # "context"
    <3>1. Len(<<x, y>>) = 2 /\ <<x, y>>[2] = y
      OBVIOUS
    <3>2. n + 1 = 2
      BY <1>2, <1>5, <2>4, <3>1
    <3> QED
      BY <1>2, <1>5, <2>4, <3>1, <3>2
  <2> QED
    BY <2>2, <2>3, <2>4
<1>6. n = 0
  BY <1>2, <1>3, <1>4, <1>5 DEF Commands
<1>7. Len(p) = 0
  BY <1>1, <1>6
<1> QED
  BY <1>7

\* What clap finds wrong while it reads is not what is missing.
LEMMA SettledError ==
    ASSUME NEW m, Clap(m)
    PROVE  Settled(m).error \in {None, "usage"}
<1>1. m \in Matching /\ m.error = None /\ m.open \in Text /\ "true" \in Text /\ "usage" \in Text
  BY DEF Clap, Matching, Text
<1>2. CASE m.open = None
  BY <1>1, <1>2 DEF Settled
<1>3. CASE m.open # None /\ IsBoolean(m.path, m.open)
  <2>1. Settled(m) = Put(m, m.open, "true")
    BY <1>1, <1>3 DEF Settled
  <2> QED
    BY <1>1, <2>1, FailedIs, PutError
<1>4. CASE m.open # None /\ ~IsBoolean(m.path, m.open)
  <2>1. Settled(m) = Failed(m, "usage")
    BY <1>1, <1>4 DEF Settled
  <2> QED
    BY <1>1, <2>1, FailedIs
<1> QED
  BY <1>2, <1>3, <1>4

LEMMA NextError ==
    ASSUME NEW m, Clap(m), NEW w \in Keystrokes
    PROVE  Next_(m, w).error # "missing"
<1>1. m \in Matching /\ m.error = None /\ m.open \in Text /\ m.escaped \in BOOLEAN
  BY DEF Clap, Matching
<1>2. w.name \in Text /\ w.value \in Text /\ w.kind \in {"long", "short", "minus", "escape", "bare"}
  BY DEF Keystrokes
<1>3. /\ "true" \in Text /\ "usage" \in Text /\ "help" \in Text /\ None # "missing" /\ "usage" # "missing"
      /\ "help" # "missing"
  BY DEF Text, None
<1>4. OnArgument(m, w).error # "missing"
  <2>1. [m EXCEPT !.arguments = Append(@, w)].error = m.error
    BY <1>1 DEF Matching
  <2> QED
    BY <1>1, <1>3, <2>1, FailedIs DEF OnArgument
<1>5. Settled(m).error # "missing" /\ Settled(m) \in Matching
  BY <1>3, SettledError, SettledIsMatching
<1>6. ASSUME NEW t \in Matching, t.error # "missing" PROVE OnOption(t, w).error # "missing"
  <2>1. CASE t.error # None
    BY <1>6, <2>1 DEF OnOption
  <2>2. CASE t.error = None
    <3>1. Put(t, w.name, "true").error # "missing" /\ Put(t, w.name, w.value).error # "missing"
      BY <1>2, <1>3, <1>6, PutError
    <3>2. [t EXCEPT !.open = w.name].error = t.error
      BY <1>6 DEF Matching
    <3>3. Failed(t, "help").error = "help" /\ Failed(t, "usage").error = "usage"
      BY <1>3, <1>6, FailedIs
    <3> QED
      BY <1>3, <2>2, <3>1, <3>2, <3>3 DEF OnOption
  <2> QED
    BY <2>1, <2>2
<1>7. [Settled(m) EXCEPT !.escaped = TRUE].error = Settled(m).error
  BY <1>5 DEF Matching
<1>8. OnOption(Settled(m), w).error # "missing"
  BY <1>5, <1>6
<1>9. Failed(m, "usage").error = "usage" /\ Put(m, m.open, w.value).error # "missing"
  BY <1>1, <1>2, <1>3, FailedIs, PutError
<1>10. [m EXCEPT !.path = Append(@, w.value)].error = m.error
  BY <1>1 DEF Matching
<1> QED
  BY <1>1, <1>3, <1>4, <1>5, <1>7, <1>8, <1>9, <1>10 DEF Next_

LEMMA NothingMissing == \A s \in Seq(Keystrokes) : Read(s).error # "missing"
<1> DEFINE S == {s \in Seq(Keystrokes) : Read(s).error # "missing"}
<1>1. <<>> \in S
  <2>1. <<>> \in Seq(Keystrokes) /\ Read(<<>>) = Fresh
    BY Reading!FoldEmpty DEF Read
  <2> QED
    BY <2>1, FreshIsClap DEF None
<1>2. ASSUME NEW s \in Seq(Keystrokes), NEW w \in Keystrokes, s \in S PROVE Append(s, w) \in S
  <2>1. Append(s, w) \in Seq(Keystrokes) /\ Read(Append(s, w)) = Next_(Read(s), w)
    BY ReadMore
  <2>2. CASE Read(s).error # None
    BY <1>2, <2>1, <2>2, ErrorStays
  <2>3. CASE Read(s).error = None
    <3>1. Clap(Read(s))
      BY <2>3, HistoryHolds DEF History
    <3> QED
      BY <2>1, <3>1, NextError
  <2> QED
    BY <2>2, <2>3
<1> HIDE DEF S
<1>3. \A s \in Seq(Keystrokes) : s \in S
  BY <1>1, <1>2, Reading!SequencesInductive
<1> QED
  BY <1>3 DEF S

\* A line that lacks only the command `context` has none.
LEMMA Nameless ==
    ASSUME NEW s \in Seq(Keystrokes), Matches(s).error = "missing",
           Matches(Append(s, Bare("context"))).error = None
    PROVE  Matches(s).path = <<>> /\ ~Matches(s).escaped
<1>1. PICK m : m = Read(s)
  OBVIOUS
<1>2. PICK t : t = Settled(m)
  OBVIOUS
<1>3. Matches(s) = Validated(t) /\ "missing" # None /\ "usage" # "missing" /\ "missing" \in Text
  BY <1>1, <1>2, ReadIs DEF Matches, None, Text
<1>4. m.error = None
  <2>1. SUFFICES ASSUME m.error # None PROVE FALSE
    OBVIOUS
  <2>2. t = m /\ Validated(t) = t
    BY <1>2, <2>1 DEF Settled, Validated
  <2> QED
    BY <1>1, <1>3, <2>2, NothingMissing
<1>5. History(s, m) /\ Clap(m)
  BY <1>1, <1>4, HistoryHolds DEF History
<1>6. t.error = None
  <2>1. t.error \in {None, "usage"}
    BY <1>2, <1>5, SettledError
  <2> QED
    BY <1>3, <2>1 DEF Validated
<1>7. Clap(t) /\ Same(m, t) /\ t.escaped = m.escaped
  BY <1>2, <1>5, <1>6, SettledHistory
<1>8. t.path \notin Commands /\ Matches(s) = Failed(t, "missing")
  <2>1. t \in Matching /\ "usage" \in Text
    BY <1>7 DEF Clap, Text
  <2>2. Failed(t, "usage").error = "usage"
    BY <2>1, FailedIs
  <2> QED
    BY <1>3, <1>6, <2>2 DEF Validated
<1>9. Matches(s).path = m.path /\ Matches(s).escaped = m.escaped
  <2>1. Failed(t, "missing").path = t.path /\ Failed(t, "missing").escaped = t.escaped
    BY <1>7 DEF Clap, Matching, Failed
  <2> QED
    BY <1>7, <1>8, <2>1 DEF Same
<1>10. PICK w \in Keystrokes : w = Bare("context")
  BY ContextIsKeystroke
<1>11. w.kind = "bare" /\ w.value = "context" /\ ~IsOption(w) /\ w # Escape
  BY <1>10 DEF Bare, IsOption, Escape
<1>12. PICK n : n = Read(Append(s, w))
  OBVIOUS
<1>13. n = Next_(m, w) /\ Append(s, w) \in Seq(Keystrokes)
  BY <1>1, <1>12, ReadMore
<1>14. Matches(Append(s, w)) = Validated(Settled(n)) /\ Matches(Append(s, w)).error = None
  BY <1>10, <1>12, ReadIs DEF Matches
<1>15. Settled(n).error = None /\ Settled(n).path \in Commands
  <2>1. PICK x : x = Settled(n)
    OBVIOUS
  <2>2. x.error = None
    BY <1>14, <2>1 DEF Validated
  <2>3. Understood(Append(s, w), Matches(Append(s, w)))
    BY <1>13, <1>14, LineIsUnderstood
  <2>4. n.error = None
    BY <2>1, <2>2 DEF Settled
  <2>5. Clap(n)
    BY <1>12, <1>13, <2>4, HistoryHolds DEF History
  <2>6. Clap(x)
    BY <2>1, <2>2, <2>5, SettledIs
  <2>7. Failed(x, "missing").error = "missing"
    BY <1>3, <2>6, FailedIs DEF Clap
  <2>8. x.path \in Commands
    BY <1>3, <1>14, <2>1, <2>2, <2>7 DEF Validated
  <2> QED
    BY <2>1, <2>2, <2>8
<1>16. n.error = None
  BY <1>15 DEF Settled
<1>17. Moves(m, w, n)
  BY <1>5, <1>13, <1>16, ReadsIs, MovesAre
<1>18. n.path \in Commands
  <2>1. Settled(n).path = n.path
    BY <1>15, <1>17, SettledIs DEF Moves
  <2> QED
    BY <1>15, <2>1
<1>19. m.path \notin Commands /\ m.path \in Seq(Text)
  BY <1>5, <1>7, <1>8 DEF Same, Clap, Matching
<1>20. ~m.escaped /\ n.path = Append(m.path, w.value)
  BY <1>11, <1>17, <1>18, <1>19 DEF Moves, Same
<1> QED
  BY <1>9, <1>11, <1>18, <1>19, <1>20, ContextStandsAlone

\* The name of an operation is the words that were typed.
LEMMA NameIsTyped ==
    ASSUME NEW m, m.path \in Commands, ~IsLocal(m.path)
    PROVE  CommandName(ApiInvocation(m)) = m.path
<1>1. /\ ApiInvocation(m).operation = ResolveOperation(m.path).operation.id
      /\ ApiInvocation(m).alias = ResolveOperation(m.path).alias
  BY DEF ApiInvocation
<1>2. CASE \E o \in OPERATIONS : o.command = m.path
  <2>1. PICK o \in OPERATIONS : o.command = m.path
    BY <1>2
  <2>2. ResolveOperation(m.path).operation = o /\ ResolveOperation(m.path).alias = None
    BY <2>1, RegistryIsUsable DEF ResolveOperation, None
  <2>3. (CHOOSE p \in OPERATIONS : p.id = o.id) = o
    BY <2>1, RegistryIsUsable
  <2> QED
    BY <1>1, <2>1, <2>2, <2>3 DEF CommandName
<1>3. CASE ~ \E o \in OPERATIONS : o.command = m.path
  <2>1. ResolveOperation(m.path).alias = Last(m.path)
    BY <1>3 DEF ResolveOperation
  <2>2. PICK a \in PaymentAliases : m.path = AliasPath(a)
    BY <1>3 DEF Commands, IsLocal
  <2>3. CreatePayment \in OPERATIONS
    BY RegistryIsUsable DEF CreatePayment
  <2>4. CreatePayment.command \in Seq(STRING) /\ CreatePayment.command # <<>>
    BY <2>3, CommandsAreLeaves
  <2>5. PaymentAliasParent \in Seq(STRING)
    BY <2>4 DEF PaymentAliasParent, Front
  <2>6. PICK front \in Seq(STRING) : front = PaymentAliasParent
    BY <2>5
  <2>7. Len(Append(front, a)) = Len(front) + 1 /\ Append(front, a)[Len(front) + 1] = a /\ Len(front) \in Nat
    OBVIOUS
  <2>8. Last(m.path) = a
    BY <2>2, <2>6, <2>7 DEF AliasPath, Last
  <2>9. a # None
    BY DEF PaymentAliases, None
  <2> QED
    BY <1>1, <2>1, <2>2, <2>8, <2>9 DEF CommandName
<1> QED
  BY <1>2, <1>3

\* Lines for another tool stand alone.
LEMMA ContextAlone ==
    ASSUME NEW s \in Seq(Keystrokes), NEW m, Understood(s, m), ~Invalid(m),
           m.path = <<"context">>, Has(m, "format"), NEW w \in ToSet(s), IsOption(w)
    PROVE  w.name \notin {"json", "output", "output-file"}
<1>1. ~ContextError(m)
  BY ContextIsLocal DEF Invalid
<1>2. \A o \in {"json", "output", "output-file"} : ~Has(m, o)
  BY <1>1 DEF ContextError
<1>3. m.arguments = <<>>
  BY DEF Understood, Clap, Argues
<1>4. PICK i \in DOMAIN s : w = s[i]
  BY DEF ToSet
<1>5. Heeded(w, m) /\ w.name # None
  BY <1>4 DEF Understood, OptionsHeard, Keystrokes
<1>6. ToSet(<<>>) = {}
  BY DEF ToSet
<1>7. GivesOption(m, w.name)
  BY <1>3, <1>5, <1>6 DEF Heeded, Understood, GivesOption
<1> QED
  BY <1>2, <1>7, HasIs

\* An option of a command of the registry is given.
LEMMA ApiHeeds ==
    ASSUME NEW s \in Seq(Keystrokes), NEW m, Understood(s, m), ~IsLocal(m.path), NEW w \in ToSet(s), IsOption(w)
    PROVE  \E g \in m.given : g.option = w.name /\ (w.value # None => g.value = w.value)
<1>1. PICK i \in DOMAIN s : w = s[i]
  BY DEF ToSet
<1>2. Heeded(w, m) /\ w.name # None
  BY <1>1 DEF Understood, OptionsHeard, Keystrokes
<1>3. w \notin ToSet(m.arguments)
  <2>1. CASE m.arguments = <<>>
    BY <2>1 DEF ToSet
  <2>2. CASE m.arguments # <<>>
    <3>1. Len(m.arguments) = 1 /\ m.arguments[1].kind = "bare" /\ m.arguments \in Seq(Keystrokes)
      BY <2>2 DEF Understood, Clap, Argues, Matching
    <3>2. ToSet(m.arguments) = {m.arguments[1]}
      BY <3>1 DEF ToSet
    <3> QED
      BY <3>1, <3>2 DEF IsOption
  <2> QED
    BY <2>1, <2>2
<1> QED
  BY <1>2, <1>3 DEF Heeded, Understood

\* A body that is given whole stands without the flags that build one.
LEMMA FriendlyAreLeaves == \A id : FriendlyFlags(id) \cap GlobalFlags = {}
BY DEF FriendlyFlags, GlobalFlags

LEMMA RawStandsAlone ==
    ASSUME NEW s \in Seq(Keystrokes), NEW m, Understood(s, m), ~IsLocal(m.path), Has(m, "data"),
           NEW w \in ToSet(s), IsOption(w)
    PROVE  w.name \notin FriendlyFlags(ResolveOperation(m.path).operation.id)
<1>1. SUFFICES ASSUME w.name \in FriendlyFlags(ResolveOperation(m.path).operation.id) PROVE FALSE
  OBVIOUS
<1>2. Clap(m) /\ m.path \in Commands /\ ~Misused(m)
  BY DEF Understood
<1>3. PICK g \in m.given : g.option = w.name
  BY ApiHeeds
<1>4. PICK h \in m.given : h.option = "data"
  BY HasIs DEF GivesOption
<1>5. "data" \notin GlobalFlags /\ w.name \notin GlobalFlags
  BY <1>1, FriendlyAreLeaves DEF GlobalFlags
<1>6. g.depth = Len(m.path) /\ h.depth = Len(m.path)
  BY <1>2, <1>3, <1>4, <1>5, StandsAtLeaf
<1>7. GivenAt(m, w.name, Len(m.path)) # {} /\ GivenAt(m, "data", Len(m.path)) # {}
  BY <1>3, <1>4, <1>6 DEF GivenAt
<1>8. {"data", w.name} \in Conflicts(m.path)
  BY <1>1, <1>2 DEF Conflicts
<1>9. Len(m.path) \in 0 .. Len(m.path)
  BY <1>2 DEF Clap, Matching
<1>10. Misused(m)
  BY <1>7, <1>8, <1>9 DEF Misused
<1> QED
  BY <1>2, <1>10

\* A filter's values are the contract's.
LEMMA FiltersAreListed ==
    ASSUME NEW m, Clap(m), NEW f \in FiltersAt(m.path), Contract[f] # {}
    PROVE  FilterValues(m, f) \subseteq Contract[f]
<1>1. f \notin GlobalFlags /\ f \notin Switches
  BY FiltersAreNoOthers
<1>2. ASSUME NEW v \in Values(m, f) PROVE Folded[v] \in Contract[f]
  <2>1. Values(m, f) \subseteq {g.value : g \in {h \in m.given : h.option = f}}
    BY DEF Values, GivenAt
  <2>2. PICK g \in m.given : g.option = f /\ g.value = v
    BY <1>2, <2>1
  <2>3. Accepts(m.path, f, v)
    BY <1>1, <2>2, StandsAtLeaf
  <2> QED
    BY <2>3 DEF Accepts
<1> QED
  BY <1>2 DEF FilterValues

\* Of an option that stands once at each depth, what is given is the one, or stands further up.
LEMMA GivenOrAbove ==
    ASSUME NEW m, Clap(m), NEW option, \A path : option \notin Repeatable(path), NEW g \in m.given, g.option = option
    PROVE  Has(m, option) /\ (Given(m, option) = g.value \/ g.depth < Deepest(m, option))
<1>1. Has(m, option)
  BY HasIs DEF GivesOption
<1>2. PICK k \in m.given : /\ k.option = option /\ Given(m, option) = k.value /\ k.depth = Deepest(m, option)
                           /\ \A h \in m.given : h.option = option => k.depth >= h.depth
  BY <1>1, GivenIs
<1>3. k.depth \in Nat /\ g.depth \in Nat /\ k.depth >= g.depth
  BY <1>2 DEF Clap, Matching, Gift
<1>4. CASE g.depth = k.depth
  <2>1. g = k
    BY <1>2, <1>4 DEF Clap, Once
  <2> QED
    BY <1>1, <1>2, <2>1
<1>5. CASE g.depth < k.depth
  BY <1>1, <1>2, <1>5
<1> QED
  BY <1>3, <1>4, <1>5

\* A wallet command acts on each wallet its line names.
LEMMA IdsStandOnce == \A path : "wallet" \notin Repeatable(path) /\ "id" \notin Repeatable(path)
<1>1. "wallet" \in GlobalFlags
  BY DEF GlobalFlags
<1> QED
  BY <1>1, FiltersAreNoOthers DEF Repeatable

LEMMA IdIsGiven ==
    ASSUME NEW m, Clap(m), NEW g \in m.given, g.option = "id"
    PROVE  Has(m, "id") /\ Given(m, "id") = g.value
<1>1. "id" \notin GlobalFlags
  BY DEF GlobalFlags
<1>2. \A h \in m.given : h.option = "id" => h.depth = g.depth
  BY <1>1, StandsAtLeaf
<1> QED
  BY <1>2, IdsStandOnce, OnlyIsGiven

LEMMA IdIsSome ==
    ASSUME NEW m, Clap(m), Has(m, "id")
    PROVE  Given(m, "id") # None
<1>1. PICK g \in m.given : g.option = "id" /\ Given(m, "id") = g.value
  BY GivenIs
<1>2. "id" \notin GlobalFlags /\ "id" \notin Switches /\ TypeOf("id") = "uuid" /\ "id" \notin FiltersAt(m.path)
  BY FiltersAreNoOthers DEF GlobalFlags, Switches, TypeOf
<1>3. Accepts(m.path, "id", g.value)
  BY <1>1, <1>2, StandsAtLeaf
<1> QED
  BY <1>1, <1>2, <1>3, ValuesAreTyped DEF Accepts

LEMMA WalletIsTheOne ==
    ASSUME NEW s \in Seq(Keystrokes), NEW m, Understood(s, m), ~IsLocal(m.path), ~Invalid(m),
           NEW operation, operation = ResolveOperation(m.path).operation, TargetsWallet(operation),
           NEW i \in DOMAIN s
    PROVE  /\ \/ s[i].name = "id" /\ s[i].value # None
              \/ IsId(s[i]) /\ (ValueOf(s, i) => s[i - 1].name = "id")
              => s[i].value = TargetId(operation, m)
           /\ \/ s[i].name = "wallet" /\ s[i].value # None
              \/ IsId(s[i]) /\ ValueOf(s, i) /\ s[i - 1].name = "wallet"
              => \/ s[i].value = TargetId(operation, m)
                 \/ \E g \in m.given : g.option = "wallet" /\ g.value = s[i].value /\ g.depth < Deepest(m, "wallet")
<1> DEFINE id == IF m.arguments # <<>> THEN m.arguments[1].value ELSE Given(m, "id")
           v == s[i].value
<1>1. Clap(m) /\ m.path \in Commands /\ ~Misused(m)
  BY DEF Understood
<1>2. operation.target = "wallet" /\ operation.target # "none"
  BY DEF TargetsWallet
<1>3. TargetId(operation, m) = IF id = None THEN Given(m, "wallet") ELSE id
  BY <1>2 DEF TargetId
<1>4. id # None /\ Has(m, "wallet") => id = Given(m, "wallet")
  BY DEF Invalid, TargetError
<1>5. m.arguments # <<>> => /\ ~Has(m, "id") /\ ToSet(m.arguments) = {m.arguments[1]} /\ id = m.arguments[1].value
                            /\ id \in Accepted["uuid"]
  <2>1. SUFFICES ASSUME m.arguments # <<>> PROVE /\ ~Has(m, "id") /\ ToSet(m.arguments) = {m.arguments[1]}
                                                 /\ id = m.arguments[1].value /\ id \in Accepted["uuid"]
    OBVIOUS
  <2>2. Len(m.arguments) = 1 /\ m.arguments[1].value \in Accepted["uuid"] /\ m.arguments \in Seq(Keystrokes)
    BY <1>1, <2>1 DEF Clap, Argues, Matching
  <2>3. ToSet(m.arguments) = {m.arguments[1]}
    BY <2>2 DEF ToSet
  <2>4. ~Has(m, "id")
    BY <1>1, <1>2, <2>1 DEF Misused
  <2> QED
    BY <2>1, <2>2, <2>3, <2>4
<1>6. m.arguments = <<>> => id = Given(m, "id")
  OBVIOUS
<1> HIDE DEF id
<1>7. \A o \in {"id", "wallet"} : s[i].name = o /\ s[i].value # None => \E g \in m.given : g.option = o /\ g.value = v
  <2>1. SUFFICES ASSUME NEW o \in {"id", "wallet"}, s[i].name = o, s[i].value # None
                 PROVE  \E g \in m.given : g.option = o /\ g.value = v
    OBVIOUS
  <2>2. s[i] \in Keystrokes /\ s[i].name # None /\ s[i] \in ToSet(s)
    BY <2>1 DEF None, ToSet
  <2>3. IsOption(s[i])
    BY <2>2 DEF Keystrokes
  <2> QED
    BY <2>1, <2>2, <2>3, ApiHeeds
<1>8. IsId(s[i]) => id = v \/ (ValueOf(s, i) /\ \E g \in m.given : g.option = s[i - 1].name /\ g.value = v)
  <2>1. SUFFICES ASSUME IsId(s[i])
                 PROVE  id = v \/ (ValueOf(s, i) /\ \E g \in m.given : g.option = s[i - 1].name /\ g.value = v)
    OBVIOUS
  <2>2. IdHeard(s, m, i)
    BY <2>1 DEF Understood, IdsHeard
  <2>3. CASE s[i] \in ToSet(m.arguments)
    <3>1. m.arguments # <<>>
      BY <2>3 DEF ToSet
    <3> QED
      BY <1>5, <2>3, <3>1
  <2> QED
    BY <2>2, <2>3 DEF IdHeard
<1>9. ASSUME NEW g \in m.given, g.option = "id", g.value = v PROVE id = v /\ id # None
  <2>1. Has(m, "id") /\ Given(m, "id") = v
    BY <1>1, <1>9, IdIsGiven
  <2> QED
    BY <1>1, <1>5, <1>6, <2>1, IdIsSome
<1>10. ASSUME NEW g \in m.given, g.option = "wallet", g.value = v
       PROVE  Has(m, "wallet") /\ (Given(m, "wallet") = v \/ g.depth < Deepest(m, "wallet"))
  BY <1>1, <1>10, IdsStandOnce, GivenOrAbove
<1>11. IsId(s[i]) => v # None
  BY ValuesAreTyped DEF IsId
<1>12. ASSUME \/ s[i].name = "id" /\ s[i].value # None
              \/ IsId(s[i]) /\ (ValueOf(s, i) => s[i - 1].name = "id")
       PROVE  v = TargetId(operation, m)
  <2>1. id = v /\ v # None
    BY <1>7, <1>8, <1>9, <1>11, <1>12
  <2> QED
    BY <1>3, <2>1
<1>13. ASSUME \/ s[i].name = "wallet" /\ s[i].value # None
              \/ IsId(s[i]) /\ ValueOf(s, i) /\ s[i - 1].name = "wallet"
       PROVE  \/ v = TargetId(operation, m)
              \/ \E g \in m.given : g.option = "wallet" /\ g.value = v /\ g.depth < Deepest(m, "wallet")
  <2>1. v # None
    BY <1>11, <1>13
  <2>2. CASE id = v
    BY <1>3, <2>1, <2>2
  <2>3. CASE \E g \in m.given : g.option = "wallet" /\ g.value = v
    <3>1. PICK g \in m.given : g.option = "wallet" /\ g.value = v
      BY <2>3
    <3>2. CASE g.depth < Deepest(m, "wallet")
      BY <3>1, <3>2
    <3>3. CASE Has(m, "wallet") /\ Given(m, "wallet") = v
      BY <1>3, <1>4, <3>3
    <3> QED
      BY <1>10, <3>1, <3>2, <3>3
  <2> QED
    BY <1>7, <1>8, <1>13, <2>2, <2>3
<1> QED
  BY <1>12, <1>13

\* A watch runs without the options that page and sort.
LEMMA WatchStandsAlone ==
    ASSUME NEW s \in Seq(Keystrokes), NEW m, Understood(s, m), ~IsLocal(m.path), Has(m, "watch")
    PROVE  OptionNames(s) \cap {"all", "cursor", "sort-key", "sort-order"} = {}
<1> DEFINE Paging == {"all", "cursor", "sort-key", "sort-order"}
<1>1. SUFFICES ASSUME NEW o \in OptionNames(s) \cap Paging PROVE FALSE
  OBVIOUS
<1>2. Clap(m) /\ ~Misused(m)
  BY DEF Understood
<1>3. PICK w \in ToSet(s) : IsOption(w) /\ w.name = o
  BY <1>1 DEF OptionNames
<1>4. PICK g \in m.given : g.option = o
  BY <1>3, ApiHeeds
<1>5. PICK h \in m.given : h.option = "watch"
  BY HasIs DEF GivesOption
<1>6. "watch" \notin GlobalFlags /\ o \notin GlobalFlags
  BY <1>1 DEF GlobalFlags
<1>7. g.depth = Len(m.path) /\ h.depth = Len(m.path)
  BY <1>2, <1>4, <1>5, <1>6, StandsAtLeaf
<1>8. GivenAt(m, o, Len(m.path)) # {} /\ GivenAt(m, "watch", Len(m.path)) # {}
  BY <1>4, <1>5, <1>7 DEF GivenAt
<1>9. {"watch", o} \in Conflicts(m.path)
  BY <1>1 DEF Conflicts
<1>10. Len(m.path) \in 0 .. Len(m.path)
  BY <1>2 DEF Clap, Matching
<1> QED
  BY <1>2, <1>8, <1>9, <1>10 DEF Misused

\* Behind the command, no organization and no environment stands beside --all-orgs.
LEMMA AllOrgsStandsAlone ==
    ASSUME NEW s \in Seq(Keystrokes), NEW m, Understood(s, m), Has(m, "all-orgs"), NEW o \in {"org", "env"}
    PROVE  GivenAt(m, o, Len(m.path)) = {}
<1>1. Clap(m) /\ ~Misused(m)
  BY DEF Understood
<1>2. PICK g \in m.given : g.option = "all-orgs"
  BY HasIs DEF GivesOption
<1>3. g.depth = Len(m.path)
  BY <1>1, <1>2, StandsAtLeaf DEF GlobalFlags
<1>4. GivenAt(m, "all-orgs", Len(m.path)) # {}
  BY <1>2, <1>3 DEF GivenAt
<1>5. {"all-orgs", o} \in Conflicts(m.path)
  BY DEF Conflicts
<1>6. Len(m.path) \in 0 .. Len(m.path)
  BY <1>1 DEF Clap, Matching
<1> QED
  BY <1>1, <1>4, <1>5, <1>6 DEF Misused

-----------------------------------------------------------------------------
(* The outline of a line *)

Outlining == INSTANCE Folding WITH Op <- Outlined
OutlineOf(words) == Outlining!Fold([words |-> <<"voltage">>, path |-> <<>>], words)

LEMMA OutlineIs == \A words : Outline(words) = OutlineOf(BeforeEscape(words)).words
BY DEF Outline, OutlineOf, Outlining!Fold, Outlining!MapThenFoldSet, Outlining!Max, FoldLeft, MapThenFoldSet, Max

\* An outline shows what it may.
LEMMA OptionsAreShowable == \A words, w : w \in ToSet(words) /\ IsOption(w) => w.name \in Showable(words)
<1>1. SUFFICES ASSUME NEW words, NEW w, w \in ToSet(words), IsOption(w) PROVE w.name \in Showable(words)
  OBVIOUS
<1>2. w \in {v \in ToSet(words) : IsOption(v)}
  BY <1>1
<1>3. \A S : w \in S => w.name \in {u.name : u \in S}
  OBVIOUS
<1>4. w.name \in OptionNames(words)
  BY <1>2, <1>3, Zenon DEF OptionNames
<1> QED
  BY <1>4 DEF Showable

LEMMA OutlineShows ==
    ASSUME NEW words \in Seq(Keystrokes)
    PROVE  Outline(words) \in Seq(Showable(words))
<1> DEFINE D == ToSet(words)
           R == [words : Seq(Showable(words)), path : Seq(CommandWords)]
           base == [words |-> <<"voltage">>, path |-> <<>>]
<1>1. base \in R
  <2>1. "voltage" \in Showable(words)
    BY DEF Showable
  <2>2. <<"voltage">> \in Seq(Showable(words)) /\ <<>> \in Seq(CommandWords)
    BY <2>1
  <2> QED
    BY <2>2
<1>2. ASSUME NEW r \in R, NEW w \in D PROVE Outlined(r, w) \in R
  <2>1. CASE IsOption(w)
    <3>1. w.name \in Showable(words)
      BY <2>1, OptionsAreShowable
    <3>2. Append(r.words, w.name) \in Seq(Showable(words))
      BY <3>1
    <3>3. ~(w.kind = "bare")
      BY <2>1 DEF IsOption
    <3>4. Outlined(r, w) = [r EXCEPT !.words = Append(@, w.name)]
      BY <2>1, <3>3 DEF Outlined, FlagWord
    <3> QED
      BY <3>2, <3>4
  <2>2. CASE ~IsOption(w) /\ w.kind = "bare" /\ w.value \in Subcommands(r.path)
    <3>1. PICK c \in Commands : Len(c) > Len(r.path) /\ w.value = c[Len(r.path) + 1]
      BY <2>2 DEF Subcommands
    <3>2. c \in Seq(ToSet(c)) /\ Len(r.path) \in Nat
      BY CommandsAreWords
    <3>3. Len(r.path) + 1 \in DOMAIN c
      BY <3>1, <3>2
    <3>4. w.value \in CommandWords
      BY <3>1, <3>3 DEF ToSet, CommandWords
    <3>5. w.value \in Showable(words)
      BY <3>4 DEF Showable
    <3>6. Append(r.words, w.value) \in Seq(Showable(words))
      BY <3>5
    <3>7. Append(r.path, w.value) \in Seq(CommandWords)
      BY <3>4
    <3>8. Outlined(r, w) = [words |-> Append(r.words, w.value), path |-> Append(r.path, w.value)]
      BY <2>2 DEF Outlined
    <3> QED
      BY <3>6, <3>7, <3>8
  <2>3. CASE ~IsOption(w) /\ ~(w.kind = "bare" /\ w.value \in Subcommands(r.path))
    BY <2>3 DEF Outlined
  <2> QED
    BY <2>1, <2>2, <2>3
<1>3. BeforeEscape(words) \in Seq(D)
  <2>1. words \in Seq(D)
    <3>1. Len(words) \in Nat /\ DOMAIN words = 1 .. Len(words) /\ words = [i \in 1 .. Len(words) |-> words[i]]
      OBVIOUS
    <3>2. \A i \in 1 .. Len(words) : words[i] \in ToSet(words)
      BY <3>1 DEF ToSet
    <3> QED
      BY <3>1, <3>2
  <2>2. CASE ~ \E i \in DOMAIN words : words[i] = Escape
    BY <2>1, <2>2, NothingEnds
  <2>3. CASE \E i \in DOMAIN words : words[i] = Escape
    <3>1. PICK i : Ends(words, i)
      BY <2>3, EndsExist
    <3>2. BeforeEscape(words) = SubSeq(words, 1, i - 1)
      BY <3>1, BeforeTheEnd
    <3>3. i \in 1 .. Len(words)
      BY <3>1 DEF Ends
    <3> HIDE DEF D
    <3>4. SubSeq(words, 1, i - 1) \in Seq(D)
      BY <2>1, <3>3
    <3> QED
      BY <3>2, <3>4
  <2> QED
    BY <2>2, <2>3
<1> HIDE DEF R, D
<1>4. OutlineOf(BeforeEscape(words)) \in R
  BY <1>1, <1>2, <1>3, Outlining!FoldKeeps DEF OutlineOf
<1> QED
  BY <1>4, OutlineIs DEF R

\* The characters of an outline are those of words and spaces.
Spelling == INSTANCE Folding WITH Op <- \o

LEMMA SpellIsShown ==
    ASSUME NEW D, NEW words \in Seq(D)
    PROVE  Spell(words) \in Seq(Shown)
<1> DEFINE piece == Written(<<"letter", "letter", "space">>)
           ss == [i \in DOMAIN words |-> piece]
<1>1. piece \in Seq(Shown)
  <2>1. Character("letter") \in Shown /\ Character("space") \in Shown
    BY TitleAndChecksFit DEF Character, Shown, Typable, Boxes
  <2>2. PICK cs : cs = <<"letter", "letter", "space">>
    OBVIOUS
  <2>3. DOMAIN cs = 1 .. 3 /\ cs[1] = "letter" /\ cs[2] = "letter" /\ cs[3] = "space"
    BY <2>2
  <2>4. \A i \in 1 .. 3 : Character(cs[i]) \in Shown
    <3>1. \A i \in 1 .. 3 : i = 1 \/ i = 2 \/ i = 3
      OBVIOUS
    <3> QED
      BY <2>1, <2>3, <3>1
  <2>5. [i \in 1 .. 3 |-> Character(cs[i])] \in Seq(Shown)
    BY <2>4
  <2> QED
    BY <2>2, <2>3, <2>5 DEF Written
<1> HIDE DEF piece
<1>2. ss \in Seq(Seq(Shown))
  <2>1. DOMAIN words = 1 .. Len(words) /\ Len(words) \in Nat
    OBVIOUS
  <2> QED
    BY <1>1, <2>1
<1> HIDE DEF ss
<1>3. Spell(words) = Spelling!Flattened(ss)
  BY DEF Spell, ss, piece, FlattenSeq, Spelling!Flattened
<1> QED
  BY <1>2, <1>3, Spelling!FlattenPlaces

\* What may be shown is a text.
LEMMA ShownIsText == \A text \in Seq(Shown) : IsText(text)
<1>1. SUFFICES ASSUME NEW text \in Seq(Shown) PROVE IsText(text)
  OBVIOUS
<1>2. \A i \in DOMAIN text : text[i] \in Shown
  OBVIOUS
<1>3. \A i \in DOMAIN text : ~text[i].secret
  BY <1>2 DEF Shown
<1>4. text \in Seq([c : DOMAIN Weight \ Boxes, secret : BOOLEAN])
  BY ShownIsPublic DEF Typable
<1>5. \A i, j \in DOMAIN text : \A k \in i .. j : k \in DOMAIN text
  OBVIOUS
<1> QED
  BY <1>3, <1>4, <1>5 DEF IsText
-----------------------------------------------------------------------------
(* The process *)

\* Every field of what became of a line.
Made(kind, invocation, form, stream, exit, color, report) ==
    [kind |-> kind, invocation |-> invocation, form |-> form, stream |-> stream, exit |-> exit, color |-> color,
     report |-> report]

\* The drafts of a report, and who files it.
Drafted(agent) == \E draft : Draft(draft) /\ draft.agent = agent /\ outcome.report = Report(draft)

\* The words are those of a keyboard.
TypedInv ==
    /\ keyboard \in Keyboards /\ line \in Seq(keyboard) /\ Len(line) <= MaxWords

\* What became of them has all its fields.
FieldsInv ==
    /\ outcome = Made(outcome.kind, outcome.invocation, outcome.form, outcome.stream, outcome.exit, outcome.color,
                      outcome.report)
    /\ outcome.kind \in {"typing", "greeted", "clap", "invalid", "invoked", "filed", "panicked"}
    /\ outcome.stream \in {None, "stdout", "stderr"} /\ outcome.exit \in {0, 2, 101}
    /\ outcome.form \in {None, "text", "json", "ndjson", "table"}

\* A process that started runs somewhere, in the colour its words and that place ask for.
PlaceInv ==
    IF outcome.kind = "typing" THEN place = Nowhere /\ outcome.color = "auto"
    ELSE place \in Places /\ outcome.color = WithEnvironment(Requested(line), place)

\* What became of a line is what its words, as they still are, make of it.
StoryInv ==
    /\ outcome.kind = "greeted" => Wanted(line, place)
    /\ outcome.kind = "clap" => Matched.error # None
    /\ outcome.kind = "invalid" => Matched.error = None
    /\ Ran => /\ Matched.error = None /\ ~Invalid(Matched)
              /\ outcome.invocation = Invocation(Matched) /\ outcome.form = FormatOf(Matched, place)

\* What is reported was drafted, by a person or by an agent.
ReportInv ==
    /\ outcome.kind \notin {"filed", "panicked"} => outcome.report = NoReport
    /\ outcome.kind = "filed" => Drafted(~Person(Matched, place))
    /\ outcome.kind = "panicked" => Drafted(~Interactive)

Inv == TypedInv /\ FieldsInv /\ PlaceInv /\ StoryInv /\ ReportInv /\ ExplainedAsAsked

LEMMA InvStarts == Init => Inv
<1> SUFFICES ASSUME Init PROVE Inv
  OBVIOUS
<1>1. outcome = Made("typing", NoInvocation, None, None, 0, "auto", NoReport)
  BY DEF Init, Pending, Result, Made
<1>2. /\ outcome.kind = "typing" /\ outcome.invocation = NoInvocation /\ outcome.form = None /\ outcome.stream = None
      /\ outcome.exit = 0 /\ outcome.color = "auto" /\ outcome.report = NoReport
  BY <1>1 DEF Made
<1>3. TypedInv
  BY MaxWordsIsNatural DEF Init, TypedInv
<1>4. FieldsInv
  BY <1>1, <1>2 DEF FieldsInv
<1>5. PlaceInv
  BY <1>2 DEF PlaceInv, Init
<1>6. StoryInv /\ ReportInv /\ ExplainedAsAsked
  BY <1>2 DEF StoryInv, ReportInv, ExplainedAsAsked, Ran
<1> QED
  BY <1>3, <1>4, <1>5, <1>6 DEF Inv

\* What is typed are words clap and the other readers can be asked about.
LEMMA LineIsTyped == TypedInv => line \in Seq(Keystrokes)
<1> SUFFICES ASSUME TypedInv PROVE line \in Seq(Keystrokes)
  OBVIOUS
<1>1. keyboard \subseteq Keystrokes
  BY KeysAreKeystrokes DEF TypedInv
<1>2. Len(line) \in Nat /\ line = [i \in 1 .. Len(line) |-> line[i]] /\ \A i \in 1 .. Len(line) : line[i] \in keyboard
  BY DEF TypedInv
<1> QED
  BY <1>1, <1>2

LEMMA RequestedIsAChoice == \A s \in Seq(Keystrokes) : Requested(s) \in ColorChoices
<1> SUFFICES ASSUME NEW s \in Seq(Keystrokes) PROVE Requested(s) \in ColorChoices
  OBVIOUS
<1> DEFINE R == [choice : ColorChoices, next : BOOLEAN]
<1>1. [choice |-> "auto", next |-> FALSE] \in R
  BY PlacesAreKnown
<1>2. ASSUME NEW r \in R, NEW w \in Keystrokes PROVE ReadColor(r, w) \in R
  <2>1. ColorNamed(w.value) \in ColorChoices /\ {"auto", "never"} \subseteq ColorChoices
    BY PlacesAreKnown DEF ColorNamed
  <2>2. CASE r.next
    BY <2>1, <2>2 DEF ReadColor
  <2>3. CASE ~r.next
    BY <2>1, <2>3 DEF ReadColor
  <2> QED
    BY <2>2, <2>3
<1>3. BeforeEscape(s) \in Seq(Keystrokes)
  <2>1. CASE ~ \E i \in DOMAIN s : s[i] = Escape
    BY <2>1, NothingEnds
  <2>2. CASE \E i \in DOMAIN s : s[i] = Escape
    <3>1. PICK i : Ends(s, i)
      BY <2>2, EndsExist
    <3>2. BeforeEscape(s) = SubSeq(s, 1, i - 1)
      BY <3>1, BeforeTheEnd
    <3>3. i \in 1 .. Len(s)
      BY <3>1 DEF Ends
    <3>4. SubSeq(s, 1, i - 1) \in Seq(Keystrokes)
      BY <3>3
    <3> QED
      BY <3>2, <3>4
  <2> QED
    BY <2>1, <2>2
<1> HIDE DEF R
<1>4. ColorOf(BeforeEscape(s)) \in R
  BY <1>1, <1>2, <1>3, Coloring!FoldKeeps DEF ColorOf
<1> QED
  BY <1>4, RequestedIs DEF R

LEMMA EnvironmentChooses == \A choice \in ColorChoices : \A where : WithEnvironment(choice, where) \in ColorChoices
BY PlacesAreKnown DEF WithEnvironment
\* Typing changes nothing but the line.
LEMMA TypeKeeps == ASSUME Inv, NEW word \in keyboard, Type(word) PROVE Inv'
<1>1. outcome' = outcome /\ place' = place /\ keyboard' = keyboard /\ outcome.kind = "typing"
  BY DEF Type
<1>2. TypedInv'
  <2>1. line' = Append(line, word) /\ Len(line) < MaxWords /\ line \in Seq(keyboard) /\ MaxWords \in Nat
    BY MaxWordsIsNatural DEF Type, Inv, TypedInv
  <2>2. line' \in Seq(keyboard) /\ Len(line') = Len(line) + 1 /\ Len(line) \in Nat
    BY <2>1
  <2> QED
    BY <1>1, <2>1, <2>2 DEF Inv, TypedInv
<1>3. FieldsInv'
  BY <1>1 DEF Inv, FieldsInv
<1>4. PlaceInv'
  BY <1>1 DEF Inv, PlaceInv
<1>5. (StoryInv /\ ReportInv /\ ExplainedAsAsked)'
  BY <1>1 DEF Inv, StoryInv, ReportInv, ExplainedAsAsked, Ran
<1> QED
  BY <1>2, <1>3, <1>4, <1>5 DEF Inv

\* A process that starts: what it does with the line is all that is left to say.
LEMMA ResultsAre ==
    \A kind, invocation, form, stream, exit, color :
        [Result(kind, invocation, form, stream, exit) EXCEPT !.color = color]
            = Made(kind, invocation, form, stream, exit, color, NoReport)
BY DEF Result, Made

LEMMA StartKeeps ==
    ASSUME TypedInv, NEW where \in Places,
           NEW kind \in {"greeted", "clap", "invalid", "invoked"}, NEW invocation,
           NEW form \in {None, "text", "json", "ndjson", "table"}, NEW stream \in {None, "stdout", "stderr"},
           NEW exit \in {0, 2},
           Start(where, Result(kind, invocation, form, stream, exit))
    PROVE  /\ TypedInv' /\ FieldsInv' /\ PlaceInv' /\ ReportInv'
           /\ line' = line /\ place' = where /\ Matched' = Matched
           /\ outcome'.kind = kind /\ outcome'.invocation = invocation /\ outcome'.form = form
           /\ outcome'.stream = stream /\ outcome'.exit = exit
<1> DEFINE hue == WithEnvironment(Requested(line), where)
<1>1. outcome' = Made(kind, invocation, form, stream, exit, hue, NoReport)
  BY ResultsAre DEF Start
<1>2. line' = line /\ keyboard' = keyboard /\ place' = where
  BY DEF Start
<1> HIDE DEF hue
<1>3. /\ outcome'.kind = kind /\ outcome'.invocation = invocation /\ outcome'.form = form
      /\ outcome'.stream = stream /\ outcome'.exit = exit /\ outcome'.color = hue /\ outcome'.report = NoReport
  BY <1>1 DEF Made
<1>4. TypedInv'
  BY <1>2 DEF TypedInv
<1>5. FieldsInv'
  BY <1>1, <1>3 DEF FieldsInv
<1>6. PlaceInv'
  BY <1>2, <1>3 DEF PlaceInv, hue
<1>7. ReportInv'
  BY <1>3 DEF ReportInv
<1>8. Matched' = Matched
  BY <1>2 DEF Matched
<1> QED
  BY <1>2, <1>3, <1>4, <1>5, <1>6, <1>7, <1>8

LEMMA GreetKeeps == ASSUME Inv, NEW where \in Places, Greet(where) PROVE Inv'
<1>1. Start(where, Result("greeted", NoInvocation, None, "stderr", 0))
  BY DEF Greet
<1>2. /\ TypedInv' /\ FieldsInv' /\ PlaceInv' /\ ReportInv'
      /\ line' = line /\ place' = where /\ outcome'.kind = "greeted"
  BY <1>1, StartKeeps DEF Inv
<1>3. StoryInv'
  BY <1>2 DEF StoryInv, Ran, Greet
<1>4. ExplainedAsAsked'
  BY <1>2 DEF ExplainedAsAsked
<1> QED
  BY <1>2, <1>3, <1>4 DEF Inv

LEMMA ExplainKeeps == ASSUME Inv, NEW where \in Places, Explain(where) PROVE Inv'
<1> DEFINE json == JsonErrorsRequested(line)
           result == Explained(Matched.error)
<1>1. Start(where, result) /\ Matched.error # None
  BY DEF Explain, Matched
<1>2. CASE Matched.error = "help"
  <2>1. result = Result("clap", NoInvocation, "text", "stdout", 0)
    BY <1>2 DEF Explained
  <2> HIDE DEF result
  <2>2. Start(where, Result("clap", NoInvocation, "text", "stdout", 0))
    BY <1>1, <2>1
  <2>3. /\ TypedInv' /\ FieldsInv' /\ PlaceInv' /\ ReportInv'
        /\ Matched' = Matched /\ outcome'.kind = "clap" /\ outcome'.form = "text" /\ outcome'.stream = "stdout"
        /\ outcome'.exit = 0
    BY <2>2, StartKeeps DEF Inv
  <2>4. StoryInv'
    BY <1>1, <2>3 DEF StoryInv, Ran
  <2>5. ExplainedAsAsked'
    BY <1>2, <2>3 DEF ExplainedAsAsked
  <2> QED
    BY <2>3, <2>4, <2>5 DEF Inv
<1>3. CASE Matched.error # "help"
  <2> DEFINE form == IF json THEN "json" ELSE "text"
  <2>1. result = Result("clap", NoInvocation, form, "stderr", 2)
    BY <1>3 DEF Explained, Failure
  <2>2. form \in {"json", "text"} /\ (Option("json") \in ToSet(BeforeEscape(line)) => form = "json")
    BY DEF JsonErrorsRequested
  <2> HIDE DEF result, form
  <2>3. Start(where, Result("clap", NoInvocation, form, "stderr", 2))
    BY <1>1, <2>1
  <2>4. /\ TypedInv' /\ FieldsInv' /\ PlaceInv' /\ ReportInv'
        /\ Matched' = Matched /\ line' = line /\ outcome'.kind = "clap" /\ outcome'.form = form
        /\ outcome'.stream = "stderr" /\ outcome'.exit = 2
    BY <2>2, <2>3, StartKeeps DEF Inv
  <2>5. StoryInv'
    BY <1>1, <2>4 DEF StoryInv, Ran
  <2>6. ExplainedAsAsked'
    BY <1>3, <2>2, <2>4 DEF ExplainedAsAsked
  <2> QED
    BY <2>4, <2>5, <2>6 DEF Inv
<1> QED
  BY <1>2, <1>3

LEMMA RejectKeeps == ASSUME Inv, NEW where \in Places, Reject(where) PROVE Inv'
<1> DEFINE json == JsonErrorsRequested(line)
           form == Format(json, None, where)
<1>1. Start(where, Result("invalid", NoInvocation, form, "stderr", 2)) /\ Matched.error = None
  BY DEF Reject, Matched, Failure
<1>2. form \in {"json", "table"} /\ (Option("json") \in ToSet(BeforeEscape(line)) => form = "json")
  BY DEF JsonErrorsRequested, Format
<1> HIDE DEF form
<1>3. /\ TypedInv' /\ FieldsInv' /\ PlaceInv' /\ ReportInv'
      /\ Matched' = Matched /\ line' = line /\ outcome'.kind = "invalid" /\ outcome'.form = form
      /\ outcome'.stream = "stderr" /\ outcome'.exit = 2
  BY <1>1, <1>2, StartKeeps DEF Inv
<1>4. StoryInv'
  BY <1>1, <1>3 DEF StoryInv, Ran
<1>5. ExplainedAsAsked'
  BY <1>1, <1>2, <1>3 DEF ExplainedAsAsked, None
<1> QED
  BY <1>3, <1>4, <1>5 DEF Inv

LEMMA InvokeKeeps == ASSUME Inv, NEW where \in Places, Invoke(where) PROVE Inv'
<1> DEFINE form == FormatOf(Matched, where)
           invocation == Invocation(Matched)
<1>1. Start(where, Result("invoked", invocation, form, None, 0)) /\ Matched.error = None /\ ~Invalid(Matched)
  BY DEF Invoke, Matched
<1>2. form \in {"json", "ndjson", "table"}
  <2>1. Clap(Matched)
    BY <1>1, LineIsTyped, LineIsUnderstood DEF Inv, Matched, Understood
  <2> QED
    BY <2>1, FormatIs
<1>3. form = FormatOf(Matched, where) /\ invocation = Invocation(Matched)
  OBVIOUS
<1> HIDE DEF form, invocation
<1>4. /\ TypedInv' /\ FieldsInv' /\ PlaceInv' /\ ReportInv'
      /\ Matched' = Matched /\ place' = where /\ outcome'.kind = "invoked" /\ outcome'.form = form
      /\ outcome'.invocation = invocation
  BY <1>1, <1>2, StartKeeps DEF Inv
<1>5. StoryInv'
  BY <1>1, <1>3, <1>4 DEF StoryInv, Ran
<1>6. ExplainedAsAsked'
  BY <1>4 DEF ExplainedAsAsked
<1> QED
  BY <1>4, <1>5, <1>6 DEF Inv
LEMMA NoTextIsText == IsText(NoText)
<1>1. <<>> \in Seq(Shown)
  OBVIOUS
<1> QED
  BY <1>1, ShownIsText DEF NoText

\* What a command that reports leaves as it was.
LEMMA ReportKeeps ==
    ASSUME Inv, outcome.kind = "invoked", UNCHANGED <<keyboard, line, place>>,
           NEW kind \in {"filed", "panicked"}, NEW exit \in {0, 2, 101}, NEW report,
           outcome' = Made(kind, outcome.invocation, outcome.form, outcome.stream, exit, outcome.color, report)
    PROVE  /\ TypedInv' /\ FieldsInv' /\ PlaceInv' /\ StoryInv' /\ ExplainedAsAsked'
           /\ outcome'.kind = kind /\ outcome'.report = report
<1>1. /\ outcome'.kind = kind /\ outcome'.invocation = outcome.invocation /\ outcome'.form = outcome.form
      /\ outcome'.stream = outcome.stream /\ outcome'.exit = exit /\ outcome'.color = outcome.color
      /\ outcome'.report = report
  BY DEF Made
<1>2. TypedInv'
  BY DEF Inv, TypedInv
<1>3. FieldsInv'
  BY <1>1 DEF Inv, FieldsInv
<1>4. PlaceInv'
  BY <1>1 DEF Inv, PlaceInv
<1>5. StoryInv' /\ ExplainedAsAsked'
  BY <1>1 DEF Inv, StoryInv, Ran, Matched, ExplainedAsAsked
<1> QED
  BY <1>1, <1>2, <1>3, <1>4, <1>5

LEMMA TitleIsText ==
    ASSUME Inv, NEW m, m = Matched, m.error = None, Has(m, "title")
    PROVE  IsText(Texts[Given(m, "title")])
<1>1. Clap(m) /\ Said(line, m)
  BY LineIsTyped, LineIsUnderstood DEF Inv, Matched, Understood
<1>2. PICK g \in m.given : g.option = "title" /\ Given(m, "title") = g.value
  BY <1>1, GivenIs
<1>3. CASE g.value = "true"
  BY <1>2, <1>3, TextsAreText
<1>4. CASE \E word \in ToSet(line) : g.value = word.value
  <2>1. PICK word \in ToSet(line) : g.value = word.value
    BY <1>4
  <2>2. word \in keyboard /\ keyboard \in Keyboards
    BY <2>1 DEF ToSet, Inv, TypedInv
  <2> QED
    BY <1>2, <2>1, <2>2, TextsAreText
<1> QED
  BY <1>1, <1>3, <1>4 DEF Said

LEMMA FileKeeps == ASSUME Inv, File PROVE Inv'
<1> DEFINE m == Matched
           title == IF Has(m, "title") THEN Texts[Given(m, "title")] ELSE NoText
           command == Spell(CommandOutline(m))
           agent == ~Person(m, place)
           draft == [title |-> title, panic |-> NoText, command |-> command, agent |-> agent]
<1>1. /\ outcome.kind = "invoked" /\ UNCHANGED <<keyboard, line, place>>
      /\ outcome' = [outcome EXCEPT !.kind = "filed", !.report = Report(draft)]
  BY DEF File, Matched
<1>2. Clap(m) /\ m.error = None
  BY <1>1, LineIsTyped, LineIsUnderstood DEF Inv, StoryInv, Ran, Matched, Understood
<1>3. IsText(title)
  <2>1. IsText(NoText)
    BY NoTextIsText
  <2> QED
    BY <1>2, <2>1, TitleIsText
<1>4. IsText(command)
  <2>1. CASE m.arguments = <<>>
    <3>1. CommandOutline(m) = <<>> /\ <<>> \in Seq(Nat)
      BY <2>1 DEF CommandOutline
    <3> QED
      BY <3>1, SpellIsShown, ShownIsText
  <2>2. CASE m.arguments # <<>>
    <3>1. m.arguments \in Seq(Keystrokes) /\ CommandOutline(m) = Outline(m.arguments)
      BY <1>2, <2>2 DEF Clap, Matching, CommandOutline
    <3>2. Outline(m.arguments) \in Seq(Showable(m.arguments))
      BY <3>1, OutlineShows
    <3> QED
      BY <3>1, <3>2, SpellIsShown, ShownIsText
  <2> QED
    BY <2>1, <2>2
<1>5. agent \in BOOLEAN /\ agent = ~Person(Matched, place)
  OBVIOUS
<1>6. IsText(NoText)
  BY NoTextIsText
<1> HIDE DEF title, command, agent, m
<1>7. Draft(draft) /\ draft.agent = agent
  BY <1>3, <1>4, <1>5, <1>6 DEF Draft
<1> HIDE DEF draft
<1>8. outcome' = Made("filed", outcome.invocation, outcome.form, outcome.stream, outcome.exit, outcome.color, Report(draft))
  <2>1. PICK report : report = Report(draft)
    OBVIOUS
  <2>2. outcome = Made(outcome.kind, outcome.invocation, outcome.form, outcome.stream, outcome.exit, outcome.color,
                       outcome.report)
    BY DEF Inv, FieldsInv
  <2>3. PICK a : a = [outcome EXCEPT !.kind = "filed"]
    OBVIOUS
  <2>4. a = Made("filed", outcome.invocation, outcome.form, outcome.stream, outcome.exit, outcome.color, outcome.report)
    BY <2>2, <2>3 DEF Made
  <2>5. outcome' = [a EXCEPT !.report = report]
    BY <1>1, <2>1, <2>3
  <2>6. outcome' = Made("filed", outcome.invocation, outcome.form, outcome.stream, outcome.exit, outcome.color, report)
    BY <2>4, <2>5 DEF Made
  <2> QED
    BY <2>1, <2>6
<1>9. /\ TypedInv' /\ FieldsInv' /\ PlaceInv' /\ StoryInv' /\ ExplainedAsAsked'
      /\ outcome'.kind = "filed" /\ outcome'.report = Report(draft)
  BY <1>1, <1>8, ReportKeeps DEF Inv, FieldsInv
<1>10. Matched' = Matched /\ place' = place
  BY <1>1 DEF Matched
<1>11. ReportInv'
  <2>1. Drafted(~Person(Matched, place))'
    BY <1>5, <1>7, <1>9, <1>10 DEF Drafted
  <2> QED
    BY <1>9, <2>1 DEF ReportInv
<1> QED
  BY <1>9, <1>11 DEF Inv

LEMMA PanicKeeps == ASSUME Inv, NEW message \in Messages, Panic(message) PROVE Inv'
<1> DEFINE command == Spell(Outline(line))
           title == Written(<<"letter">>)
           agent == ~Interactive
           draft == [title |-> title, panic |-> message, command |-> command, agent |-> agent]
<1>1. /\ outcome.kind = "invoked" /\ UNCHANGED <<keyboard, line, place>>
      /\ outcome' = [outcome EXCEPT !.kind = "panicked", !.exit = 101, !.report = Report(draft)]
  BY DEF Panic
<1>2. IsText(title)
  BY WrittenIsPublic, ShownIsText
<1>3. IsText(command)
  <2>1. Outline(line) \in Seq(Showable(line))
    BY LineIsTyped, OutlineShows DEF Inv
  <2> QED
    BY <2>1, SpellIsShown, ShownIsText
<1>4. agent \in BOOLEAN /\ agent = ~Interactive
  OBVIOUS
<1>5. IsText(message)
  BY TextsAreText
<1> HIDE DEF title, command, agent
<1>6. Draft(draft) /\ draft.agent = agent
  BY <1>2, <1>3, <1>4, <1>5 DEF Draft
<1> HIDE DEF draft
<1>7. outcome' = Made("panicked", outcome.invocation, outcome.form, outcome.stream, 101, outcome.color, Report(draft))
  <2>1. PICK report : report = Report(draft)
    OBVIOUS
  <2>2. outcome = Made(outcome.kind, outcome.invocation, outcome.form, outcome.stream, outcome.exit, outcome.color,
                       outcome.report)
    BY DEF Inv, FieldsInv
  <2>3. PICK a : a = [outcome EXCEPT !.kind = "panicked"]
    OBVIOUS
  <2>4. a = Made("panicked", outcome.invocation, outcome.form, outcome.stream, outcome.exit, outcome.color, outcome.report)
    BY <2>2, <2>3 DEF Made
  <2>5. PICK b : b = [a EXCEPT !.exit = 101]
    OBVIOUS
  <2>6. b = Made("panicked", outcome.invocation, outcome.form, outcome.stream, 101, outcome.color, outcome.report)
    BY <2>4, <2>5 DEF Made
  <2>7. outcome' = [b EXCEPT !.report = report]
    BY <1>1, <2>1, <2>3, <2>5
  <2>8. outcome' = Made("panicked", outcome.invocation, outcome.form, outcome.stream, 101, outcome.color, report)
    BY <2>6, <2>7 DEF Made
  <2> QED
    BY <2>1, <2>8
<1>8. /\ TypedInv' /\ FieldsInv' /\ PlaceInv' /\ StoryInv' /\ ExplainedAsAsked'
      /\ outcome'.kind = "panicked" /\ outcome'.report = Report(draft)
  BY <1>1, <1>7, ReportKeeps
<1>9. Interactive' = Interactive
  BY <1>1 DEF Interactive
<1>10. ReportInv'
  <2>1. Drafted(~Interactive)'
    BY <1>4, <1>6, <1>8, <1>9 DEF Drafted
  <2> QED
    BY <1>8, <2>1 DEF ReportInv
<1> QED
  BY <1>8, <1>10 DEF Inv

\* Every step keeps what became of a line with what its words make of it.
LEMMA NextKeeps == Inv /\ [Next]_vars => Inv'
<1> SUFFICES ASSUME Inv, [Next]_vars PROVE Inv'
  OBVIOUS
<1>1. CASE \E word \in keyboard : Type(word)
  BY <1>1, TypeKeeps
<1>2. CASE \E where \in Places : Greet(where) \/ Explain(where) \/ Reject(where) \/ Invoke(where)
  BY <1>2, GreetKeeps, ExplainKeeps, RejectKeeps, InvokeKeeps
<1>3. CASE File
  BY <1>3, FileKeeps
<1>4. CASE \E message \in Messages : Panic(message)
  BY <1>4, PanicKeeps
<1>5. CASE UNCHANGED vars
  <2>1. keyboard' = keyboard /\ line' = line /\ place' = place /\ outcome' = outcome
    BY <1>5 DEF vars
  <2> QED
    BY <2>1 DEF Inv, TypedInv, FieldsInv, PlaceInv, StoryInv, ReportInv, ExplainedAsAsked, Ran, Matched, Drafted, Interactive
<1> QED
  BY <1>1, <1>2, <1>3, <1>4, <1>5 DEF Next

\* What the readers make of the words stays what became of them, whatever the process does next.
THEOREM Invariance == Spec => []Inv
<1>1. Init => Inv
  BY InvStarts
<1>2. Inv /\ [Next]_vars => Inv'
  BY NextKeeps
<1> QED
  BY <1>1, <1>2, PTL DEF Spec
-----------------------------------------------------------------------------
(* What holds of every line: the parts of the properties *)

LEMMA Heard == ASSUME Inv, Matched.error = None PROVE Understood(line, Matched) /\ line \in Seq(Keystrokes)
BY LineIsTyped, LineIsUnderstood DEF Inv, Matched

LEMMA HoldsTypeOK == Inv => TypeOK
<1> SUFFICES ASSUME Inv PROVE TypeOK
  OBVIOUS
<1>1. line \in Seq(keyboard) /\ Len(line) <= MaxWords
  BY DEF Inv, TypedInv
<1>2. place \in Places \cup {Nowhere}
  BY DEF Inv, PlaceInv
<1>3. outcome.color \in ColorChoices
  <2>1. CASE outcome.kind = "typing"
    BY <2>1, PlacesAreKnown DEF Inv, PlaceInv
  <2>2. CASE outcome.kind # "typing"
    <3>1. Requested(line) \in ColorChoices
      BY LineIsTyped, RequestedIsAChoice DEF Inv
    <3> QED
      BY <2>2, <3>1, EnvironmentChooses DEF Inv, PlaceInv
  <2> QED
    BY <2>1, <2>2
<1>4. outcome.report.agent \in BOOLEAN
  <2>1. CASE outcome.kind \notin {"filed", "panicked"}
    <3>1. outcome.report = NoReport
      BY <2>1 DEF Inv, ReportInv
    <3>2. NoReport.agent = FALSE
      BY DEF NoReport
    <3> QED
      BY <3>1, <3>2
  <2>2. CASE outcome.kind \in {"filed", "panicked"}
    <3>1. \E agent : Drafted(agent)
      BY <2>2 DEF Inv, ReportInv
    <3>2. PICK draft : Draft(draft) /\ outcome.report = Report(draft)
      BY <3>1 DEF Drafted
    <3> QED
      BY <3>2, ReportIsFit DEF Draft
  <2> QED
    BY <2>1, <2>2
<1> QED
  BY <1>1, <1>2, <1>3, <1>4 DEF Inv, FieldsInv, TypeOK

LEMMA HoldsJsonIsReadAlike == Inv => JsonIsReadAlike
BY Heard, JsonAlike DEF JsonIsReadAlike

LEMMA HoldsColorIsReadAlike == Inv => ColorIsReadAlike
<1> SUFFICES ASSUME Inv, Ran, ~(Has(Matched, "color") /\ Has(Matched, "no-color"))
             PROVE  outcome.color = Color(Matched, place)
  BY DEF ColorIsReadAlike
<1>1. Matched.error = None /\ outcome.color = WithEnvironment(Requested(line), place)
  BY DEF Inv, StoryInv, PlaceInv, Ran
<1> QED
  BY <1>1, Heard, ColorAlike

LEMMA HoldsGreetsOnlyTheNameless == Inv => GreetsOnlyTheNameless
<1> SUFFICES ASSUME Inv, outcome.kind = "greeted" PROVE Matched.path = <<>> /\ ~Matched.escaped
  BY DEF GreetsOnlyTheNameless
<1>1. \E m \in WithoutCommand(line) : TRUE
  BY DEF Inv, StoryInv, Wanted
<1>2. Matches(line).error = "missing" /\ Matches(Append(line, Bare("context"))).error = None
  BY <1>1 DEF WithoutCommand
<1> QED
  BY <1>2, LineIsTyped, Nameless DEF Inv, Matched

LEMMA RanApi ==
    ASSUME Inv, IsApi
    PROVE  /\ Matched.error = None /\ ~IsLocal(Matched.path) /\ ~Invalid(Matched) /\ Matched.path \in Commands
           /\ outcome.invocation = ApiInvocation(Matched)
<1>1. Matched.error = None /\ ~Invalid(Matched) /\ outcome.invocation = Invocation(Matched)
  BY DEF Inv, StoryInv, IsApi
<1>2. ~IsLocal(Matched.path)
  <2>1. SUFFICES ASSUME IsLocal(Matched.path) PROVE FALSE
    OBVIOUS
  <2>2. outcome.invocation.command = "local"
    BY <1>1, <2>1 DEF Invocation
  <2> QED
    BY <2>2 DEF IsApi
<1> QED
  BY <1>1, <1>2, Heard DEF Invocation, Understood

LEMMA HoldsNamedAsTyped == Inv => NamedAsTyped
BY RanApi, NameIsTyped DEF NamedAsTyped

LEMMA ApiIs ==
    ASSUME NEW m, NEW operation, operation = ResolveOperation(m.path).operation
    PROVE  /\ ApiInvocation(m).operation = operation.id
           /\ ApiInvocation(m).resource = TargetId(operation, m)
           /\ ApiInvocation(m).filters = [f \in {g \in operation.filters : Has(m, g)} |-> FilterValues(m, f)]
           /\ ApiInvocation(m).body = BodySource(operation, m)
BY DEF ApiInvocation

LEMMA HoldsActsOnTheWalletNamed == Inv => ActsOnTheWalletNamed
<1> SUFFICES ASSUME Inv, IsApi, \E o \in OPERATIONS : o.id = outcome.invocation.operation /\ TargetsWallet(o),
                    NEW i \in DOMAIN line
             PROVE  /\ NamesTarget(i) => line[i].value = outcome.invocation.resource
                    /\ NamesWallet(i) => line[i].value \in {outcome.invocation.resource} \cup Replaced
  BY DEF ActsOnTheWalletNamed
<1>1. PICK operation : operation = ResolveOperation(Matched.path).operation
  OBVIOUS
<1>2. /\ outcome.invocation.operation = operation.id /\ outcome.invocation.resource = TargetId(operation, Matched)
      /\ operation \in OPERATIONS
  <2>1. PICK m : m = Matched
    OBVIOUS
  <2>2. outcome.invocation = ApiInvocation(m)
    BY <2>1, RanApi
  <2>3. ApiInvocation(m).operation = operation.id /\ ApiInvocation(m).resource = TargetId(operation, m)
    BY <1>1, <2>1, ApiIs
  <2>4. operation \in OPERATIONS
    BY <1>1, OperationsAreRegistered
  <2> QED
    BY <2>1, <2>2, <2>3, <2>4
<1>3. TargetsWallet(operation)
  BY <1>2, RegistryIsUsable
<1>4. PICK m : m = Matched
  OBVIOUS
<1>5. /\ \/ line[i].name = "id" /\ line[i].value # None
         \/ IsId(line[i]) /\ (ValueOf(line, i) => line[i - 1].name = "id")
         => line[i].value = TargetId(operation, m)
      /\ \/ line[i].name = "wallet" /\ line[i].value # None
         \/ IsId(line[i]) /\ ValueOf(line, i) /\ line[i - 1].name = "wallet"
         => \/ line[i].value = TargetId(operation, m)
            \/ \E g \in m.given : g.option = "wallet" /\ g.value = line[i].value /\ g.depth < Deepest(m, "wallet")
  <2>1. Understood(line, m) /\ line \in Seq(Keystrokes) /\ ~IsLocal(m.path) /\ ~Invalid(m)
    BY <1>4, RanApi, Heard
  <2> QED
    BY <1>1, <1>3, <1>4, <2>1, WalletIsTheOne
<1>6. NamesTarget(i) => line[i].value = TargetId(operation, m)
  BY <1>5 DEF NamesTarget, IsValue, ValueOf
<1>7. NamesWallet(i) => \/ line[i].value = TargetId(operation, m)
                        \/ \E g \in m.given : g.option = "wallet" /\ g.value = line[i].value /\ g.depth < Deepest(m, "wallet")
  BY <1>5 DEF NamesWallet, IsValue, ValueOf
<1>8. ASSUME NEW g \in m.given, g.option = "wallet", g.depth < Deepest(m, "wallet") PROVE g.value \in Replaced
  BY <1>4, <1>8 DEF Replaced
<1> QED
  BY <1>2, <1>4, <1>6, <1>7, <1>8

LEMMA HoldsExclusiveFlagsAreRefused == Inv => ExclusiveFlagsAreRefused
<1> SUFFICES ASSUME Inv, IsApi
             PROVE  /\ outcome.invocation.watch # None =>
                          OptionNames(line) \cap {"all", "cursor", "sort-key", "sort-order"} = {}
                    /\ outcome.invocation.allOrgs =>
                          \A option \in {"org", "env"} : GivenAt(Matched, option, Len(Matched.path)) = {}
  BY DEF ExclusiveFlagsAreRefused
<1>1. PICK m : m = Matched
  OBVIOUS
<1>2. outcome.invocation = ApiInvocation(m) /\ ~IsLocal(m.path) /\ Understood(line, m) /\ line \in Seq(Keystrokes)
  BY <1>1, RanApi, Heard
<1>3. /\ outcome.invocation.watch # None => Has(m, "watch")
      /\ outcome.invocation.allOrgs => Has(m, "all-orgs")
  <2>1. /\ ApiInvocation(m).watch # None => Has(m, "watch")
        /\ ApiInvocation(m).allOrgs => Has(m, "all-orgs")
    BY DEF ApiInvocation
  <2> QED
    BY <1>2, <2>1
<1> QED
  BY <1>1, <1>2, <1>3, WatchStandsAlone, AllOrgsStandsAlone

LEMMA HoldsFormatStandsAlone == Inv => FormatStandsAlone
<1> SUFFICES ASSUME Inv, Ran, Matched.path = <<"context">>, Has(Matched, "format"),
                    NEW w \in ToSet(line), IsOption(w)
             PROVE  w.name \notin {"json", "output", "output-file"}
  BY DEF FormatStandsAlone
<1>1. Matched.error = None /\ ~Invalid(Matched)
  BY DEF Inv, StoryInv
<1> QED
  BY <1>1, Heard, ContextAlone

LEMMA HoldsNoFlagIsDropped == Inv => NoFlagIsDropped
<1> SUFFICES ASSUME Inv, IsApi, outcome.invocation.body = "raw", NEW w \in ToSet(line), IsOption(w)
             PROVE  w.name \notin FriendlyFlags(outcome.invocation.operation)
  BY DEF NoFlagIsDropped
<1>1. PICK operation : operation = ResolveOperation(Matched.path).operation
  OBVIOUS
<1>2. outcome.invocation.operation = operation.id /\ BodySource(operation, Matched) = "raw"
  <2>1. PICK m : m = Matched
    OBVIOUS
  <2>2. outcome.invocation = ApiInvocation(m)
    BY <2>1, RanApi
  <2>3. ApiInvocation(m).operation = operation.id /\ ApiInvocation(m).body = BodySource(operation, m)
    BY <1>1, <2>1, ApiIs
  <2> QED
    BY <2>1, <2>2, <2>3
<1>3. Has(Matched, "data")
  BY <1>2 DEF BodySource, None
<1> QED
  BY <1>1, <1>2, <1>3, RanApi, Heard, RawStandsAlone

LEMMA HoldsFiltersAreTheContracts == Inv => FiltersAreTheContracts
<1> SUFFICES ASSUME Inv, IsApi, NEW f \in DOMAIN outcome.invocation.filters, Contract[f] # {}
             PROVE  outcome.invocation.filters[f] \subseteq Contract[f]
  BY DEF FiltersAreTheContracts
<1>1. PICK operation : operation = ResolveOperation(Matched.path).operation
  OBVIOUS
<1>2. outcome.invocation.filters = [g \in {h \in operation.filters : Has(Matched, h)} |-> FilterValues(Matched, g)]
  BY <1>1, RanApi, ApiIs
<1>3. f \in operation.filters /\ outcome.invocation.filters[f] = FilterValues(Matched, f)
  BY <1>2
<1>4. f \in FiltersAt(Matched.path) /\ Clap(Matched)
  BY <1>1, <1>3, RanApi, Heard DEF FiltersAt, Understood
<1> QED
  BY <1>3, <1>4, FiltersAreListed

LEMMA HoldsOutlineHidesValues == Inv => OutlineHidesValues
<1> SUFFICES ASSUME Inv PROVE ToSet(Outline(line)) \subseteq Showable(line)
  BY DEF OutlineHidesValues
<1>1. Outline(line) \in Seq(Showable(line))
  BY LineIsTyped, OutlineShows DEF Inv
<1> QED
  BY <1>1 DEF ToSet

\* A report, when there is one, is one of a draft.
LEMMA ReportIsDrafted ==
    ASSUME Inv, outcome.report # NoReport
    PROVE  \E draft : /\ Draft(draft) /\ outcome.report = Report(draft) /\ Ran
                      /\ outcome.kind = "filed" => draft.agent = ~Person(Matched, place)
                      /\ outcome.kind # "filed" => draft.agent = ~Interactive
<1>1. outcome.kind \in {"filed", "panicked"}
  BY DEF Inv, ReportInv
<1>2. CASE outcome.kind = "filed"
  BY <1>2 DEF Inv, ReportInv, Drafted, Ran
<1>3. CASE outcome.kind = "panicked"
  BY <1>3 DEF Inv, ReportInv, Drafted, Ran
<1> QED
  BY <1>1, <1>2, <1>3

LEMMA HoldsNoPartOfASecretShows == Inv => NoPartOfASecretShows
<1> SUFFICES ASSUME Inv, NEW char \in ToSet(outcome.report.title) \cup ToSet(outcome.report.body)
             PROVE  ~char.secret
  BY DEF NoPartOfASecretShows
<1>1. outcome.report.title \in Seq(Public) /\ outcome.report.body \in Seq(Public)
  <2>1. CASE outcome.report = NoReport
    <3>1. <<>> \in Seq(Public)
      OBVIOUS
    <3> QED
      BY <2>1, <3>1 DEF NoReport
  <2>2. CASE outcome.report # NoReport
    <3>1. PICK draft : Draft(draft) /\ outcome.report = Report(draft)
      BY <2>2, ReportIsDrafted
    <3> QED
      BY <3>1, ReportIsFit
  <2> QED
    BY <2>1, <2>2
<1>2. char \in Public
  BY <1>1 DEF ToSet
<1> QED
  BY <1>2 DEF Public

LEMMA HoldsChecksAreKept == Inv => ChecksAreKept
<1> SUFFICES ASSUME Inv, outcome.report # NoReport PROVE ChecksAreKept
  BY DEF ChecksAreKept
<1>1. PICK draft : Draft(draft) /\ outcome.report = Report(draft)
  BY ReportIsDrafted
<1> QED
  BY <1>1, ReportIsFit DEF ChecksAreKept, Ending, Box

LEMMA HoldsAgentsAreMarked == Inv => AgentsAreMarked
<1> SUFFICES ASSUME Inv, outcome.report # NoReport, ~place.stdin \/ ~place.stdout \/ Has(Matched, "json")
             PROVE  outcome.report.agent
  BY DEF AgentsAreMarked
<1>1. PICK draft : /\ Draft(draft) /\ outcome.report = Report(draft) /\ Ran
                   /\ outcome.kind = "filed" => draft.agent = ~Person(Matched, place)
                   /\ outcome.kind # "filed" => draft.agent = ~Interactive
  BY ReportIsDrafted
<1>2. outcome.report.agent = draft.agent
  BY <1>1, ReportIsFit
<1>3. ~Person(Matched, place)
  BY DEF Person, FormatOf, Format
<1>4. ~Interactive
  <2>1. JsonErrorsRequested(line) <=> Has(Matched, "json")
    BY <1>1, Heard, JsonAlike DEF Inv, StoryInv
  <2> QED
    BY <2>1 DEF Interactive
<1> QED
  BY <1>1, <1>2, <1>3, <1>4

-----------------------------------------------------------------------------
(* The theorems *)

\* However long the line, whatever the registry and wherever it runs: clap, the searches for --json and for
\* a colour, the greeting, the explanation and the name of the operation come to the same (cli.rs, startup.rs).
THEOREM WordsAlwaysReadAlike == Spec => []WordsAreReadAlike
<1>1. Inv => WordsAreReadAlike
  BY HoldsTypeOK, HoldsJsonIsReadAlike, HoldsColorIsReadAlike, HoldsGreetsOnlyTheNameless, HoldsNamedAsTyped
     DEF WordsAreReadAlike, Inv
<1> QED
  BY <1>1, Invariance, PTL

\* However long the line and whatever the registry: words that contradict each other are refused (target_id,
\* ContextFlags::check, filter_values), but for the last of several --wallet, for --color before --no-color,
\* and for --org and --env in front of a command that lists every organization, which clap drops.
THEOREM ContradictionsAlwaysRefused == Spec => []ContradictionsAreRefused
<1>1. Inv => ContradictionsAreRefused
  BY HoldsActsOnTheWalletNamed, HoldsFormatStandsAlone, HoldsNoFlagIsDropped, HoldsFiltersAreTheContracts,
     HoldsExclusiveFlagsAreRefused
     DEF ContradictionsAreRefused
<1> QED
  BY <1>1, Invariance, PTL

\* A report shows no secret and no value of an option, unless it is spelled like a command; its link fits
\* with the checks at its end, and it says that an agent files it when no person does, whatever the texts and the limits (feedback.rs).
THEOREM ReportIsAlwaysSafe == Spec => []ReportIsSafe
<1>1. Inv => ReportIsSafe
  BY HoldsOutlineHidesValues, HoldsNoPartOfASecretShows, HoldsChecksAreKept, HoldsAgentsAreMarked DEF ReportIsSafe
<1> QED
  BY <1>1, Invariance, PTL

=============================================================================
