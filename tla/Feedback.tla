------------------------------ MODULE Feedback ------------------------------
(***************************************************************************)
(* The issue report a person or an agent files (src/feedback.rs): a public  *)
(* text, so each word that could be a secret is taken out of it, and a      *)
(* link, so it may only be so long.  A text is a sequence of characters     *)
(* [c, secret]: its class, and whether it is part of something secret.      *)
(***************************************************************************)
EXTENDS Integers, Sequences, SequencesExt

CONSTANTS
    MinSecretWithDigit, MinSecret,              \* MIN_SECRET_WITH_DIGIT, MIN_SECRET
    MaxTitle, MaxProblem, MaxCommand, MaxUrl,   \* MAX_TITLE, MAX_PROBLEM, MAX_COMMAND, MAX_URL
    Weight                                      \* class |-> the bytes it takes in a link

ASSUME LimitsAreNatural ==
    /\ {MinSecretWithDigit, MinSecret, MaxTitle, MaxProblem, MaxCommand, MaxUrl} \subseteq Nat
    /\ MaxTitle >= 1

\* What stands below the heading "checks": the two boxes, the agent's marked or empty, and the rest of
\* the link that is always there.  It is long, and no text of a report has all of it in one character.
Boxes == {"checked", "empty"}

\* "The capped title and the checks alone always fit, so the loop ends" (into_report).
ASSUME TitleAndChecksFit ==
    /\ {"letter", "space", "[", "]", "ellipsis", "checks"} \union Boxes \subseteq DOMAIN Weight
    /\ \A c \in DOMAIN Weight : Weight[c] \in Nat
    /\ \E w \in 0 .. MaxUrl :
         /\ \A c \in DOMAIN Weight \ Boxes : Weight[c] <= w
         /\ \A box \in Boxes : (MaxTitle + 1) * w + Weight["ellipsis"] + Weight["checks"] + Weight[box] <= MaxUrl

Character(c) == [c |-> c, secret |-> FALSE]

Written(classes) == [i \in DOMAIN classes |-> Character(classes[i])]

WordClasses == {"letter", "digit", "at", "scheme"}

Redacted == Written(<<"[", "letter", "letter", "]">>)

Classes(text) == {text[i].c : i \in DOMAIN text}

\* push_word: a word that looks like an ID, a key, an address or a URL.
IsSecret(word) ==
    \/ Classes(word) \cap {"at", "scheme"} # {}
    \/ Len(word) >= MinSecret
    \/ Len(word) >= MinSecretWithDigit /\ "digit" \in Classes(word)

\* The words of a text; one with anything secret in it can be told by its looks.
InWord(char) == char.c \in WordClasses

IsText(text) ==
    /\ text \in Seq([c : DOMAIN Weight \ Boxes, secret : BOOLEAN])
    /\ \A i \in DOMAIN text : text[i].secret => InWord(text[i])
    /\ \A i, j \in DOMAIN text :
         /\ i <= j /\ \A k \in i .. j : InWord(text[k])
         /\ i > 1 => ~InWord(text[i - 1])
         /\ j < Len(text) => ~InWord(text[j + 1])
         /\ \E k \in i .. j : text[k].secret
         => IsSecret(SubSeq(text, i, j))

Pushed(s) == [text |-> s.text \o (IF IsSecret(s.word) THEN Redacted ELSE s.word), word |-> <<>>]

\* A line break, or another character that is not safe on one line, is a space.
OneLine(text) == [i \in DOMAIN text |-> IF text[i].c = "unsafe" THEN Character("space") ELSE text[i]]

Scrubbed(text) ==
    LET Push(s, char) ==
          IF InWord(char) THEN [s EXCEPT !.word = Append(@, char)]
          ELSE [text |-> Append(Pushed(s).text, char), word |-> <<>>]
    IN Pushed(FoldLeft(Push, [text |-> <<>>, word |-> <<>>], OneLine(text))).text

Shortened(text, limit) ==
    IF Len(text) > limit THEN Append(SubSeq(text, 1, limit), Character("ellipsis")) ELSE text

\* MUTANT of Scrub: the text is shortened first.
ScrubShortened(text, limit) == Scrubbed(Shortened(text, limit))

\* scrub
Scrub(text, limit) == Shortened(Scrubbed(text), limit)

-----------------------------------------------------------------------------
(* The report.  A draft is [title, command, panic, agent], with NoText for  *)
(* what it lacks.                                                           *)

NoText == <<>>

Title(draft) ==
    LET title == Scrub(draft.title, MaxTitle)
    IN IF Classes(title) \subseteq {"space"} THEN Written(<<"letter", "letter">>) ELSE title

Problem(draft) == IF draft.panic = NoText THEN Written(<<"letter">>) ELSE Scrub(draft.panic, MaxProblem)

\* Draft::body: the text, and then the checks with the box that marks an agent.
Opening(draft) ==
    (IF draft.agent THEN Written(<<"letter", "space">>) ELSE <<>>)
        \o Problem(draft) \o Written(<<"space">>) \o Scrub(draft.command, MaxCommand)

Box(draft) == Character(IF draft.agent THEN "checked" ELSE "empty")

Body(draft) == Opening(draft) \o <<Character("checks"), Box(draft)>>

\* new_issue_url: how long the link is.
Url(title, body) == FoldLeft(LAMBDA n, char : n + Weight[char.c], 0, title \o body)

\* The last heading of the checks.
ChecksAt(body) == CHOOSE i \in DOMAIN body : body[i].c = "checks" /\ \A j \in i + 1 .. Len(body) : body[j].c # "checks"

\* A body of which only the first n characters before the checks are kept.
Kept(body, n) ==
    SubSeq(body, 1, n) \o <<Character("ellipsis")>> \o SubSeq(body, ChecksAt(body), Len(body))

\* A tenth is cut until the link is short enough.
Trimmed(title, body) ==
    LET cut[n \in 0 .. Len(body)] ==
          IF n = 0 \/ Url(title, Kept(body, n)) <= MaxUrl THEN Kept(body, n) ELSE cut[(n * 9) \div 10]
    IN IF Url(title, body) <= MaxUrl THEN body ELSE cut[((ChecksAt(body) - 1) * 9) \div 10]

\* into_report
Report(draft) ==
    LET title == Title(draft) IN [title |-> title, body |-> Trimmed(title, Body(draft)), agent |-> draft.agent]

NoReport == [title |-> <<>>, body |-> <<>>, agent |-> FALSE]

=============================================================================
