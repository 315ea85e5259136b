---------------------------- MODULE WaitingProofs ----------------------------
(***************************************************************************)
(* Proofs about the two ways a process waits, both of reads with pauses    *)
(* between them: Polling, for any hints, intervals, lifetimes and limits;  *)
(* and Watch, for any payments, page size, interval and bounds.  Of the    *)
(* properties the runs check, only WaitEnds (liveness) stays with TLC.     *)
(***************************************************************************)
EXTENDS Polling, Watch, FiniteSetTheorems, TLAPS

-----------------------------------------------------------------------------
(* Polling *)

\* Where a wait may stand in time: the head of the loop is reached before the deadline, at the
\* moment of an answer, and a pause begins only if it ends before the deadline.
Timely ==
    /\ pc = "look" => now <= deadline /\ now = answeredAt
    /\ pc = "sleep" => now + pause < deadline
    /\ answeredAt <= now
    /\ result # "none" <=> pc = "ended"
    /\ EndsInTime

\* What the next request owes the last answer. An interval that is shorter than asked has been
\* cut to a length that no login lasts.
Owing ==
    /\ wait # "login" => asked <= pause
    /\ wait = "login" => owed <= interval \/ deadline <= interval
    /\ wait = "login" /\ pc = "sleep" => pause = interval

\* What the CLI knows of the service.
Knowing ==
    /\ wait \notin Payments => {body, truth} \subseteq {"pending", "done", "failed"}
    /\ fresh => truth = body \/ answeredAt <= truthAt
    /\ NothingIsMissed

\* The invoice is drawn when it counts as shown.
Drawing == drawn = IF shown THEN 1 ELSE 0

Inv == TypeOK /\ Timely /\ Owing /\ Knowing /\ Drawing /\ LogIsAlive

LEMMA WaitKinds ==
    ASSUME wait \in Waits
    PROVE  \/ wait \in Payments /\ wait \notin {"projection", "login"} /\ wait \in Backoffs
           \/ wait = "projection" /\ wait \notin Payments /\ wait \in Backoffs
           \/ wait = "login" /\ wait \notin Payments
BY WaitsAreKnown DEF Backoffs, Payments

LEMMA JitterType ==
    ASSUME NEW s \in Nat, NEW p \in Jittered(s)
    PROVE  p \in Nat
<1>1. PICK jitter \in 0..(s \div 2): p = (s \div 2) + jitter
  BY DEF Jittered
<1>2. s \div 2 \in Nat
  OBVIOUS
<1> QED BY <1>1, <1>2

LEMMA DoubledType ==
    ASSUME NEW s \in Nat
    PROVE  Doubled(s) \in 0..Ceiling /\ Lesser(s, Ceiling) \in 0..Ceiling
BY PausesArePositive DEF Doubled, Lesser

LEMMA HintType ==
    ASSUME NEW hint \in Hints
    PROVE  /\ RetryAfter(Greater(hint, 0)) \in Nat
           /\ hint = NoHint => RetryAfter(Greater(hint, 0)) = 0
           /\ hint # NoHint => RetryAfter(Greater(hint, 0)) = RetryAfter(hint)
BY HintsAreTicks, PausesArePositive DEF RetryAfter, Greater, Lesser, NoHint

\* The next pause of a payment's or a session's wait is no shorter than the hint.
LEMMA PacedType ==
    ASSUME TypeOK, NEW hint \in Hints, Paced(hint)
    PROVE  /\ pause' \in Nat /\ step' \in 0..Ceiling /\ own' \in Nat
           /\ RetryAfter(Greater(hint, 0)) <= pause'
<1>1. step \in Nat /\ own \in Nat /\ step \in 0..Ceiling
  BY PausesArePositive DEF TypeOK
<1>2. CASE hint = NoHint
  <2>1. pause' \in Jittered(step) /\ step' = Doubled(step) /\ own' = own + 1
    BY <1>2 DEF Paced, OwnPause
  <2> QED BY <2>1, <1>1, <1>2, JitterType, DoubledType, HintType
<1>3. CASE hint # NoHint
  BY <1>1, <1>3, HintType DEF Paced
<1> QED BY <1>2, <1>3

LEMMA FirstPauseType ==
    ASSUME NEW w \in Backoffs
    PROVE  FirstPause[w] \in Nat /\ Lesser(FirstPause[w], Ceiling) \in Nat
BY PausesArePositive DEF Lesser

LEMMA Initially == Init => Inv
<1> SUFFICES ASSUME Init PROVE Inv
  OBVIOUS
<1>1. /\ now = 0 /\ pc = "look" /\ result = "none" /\ truth = "pending" /\ body = "pending"
      /\ truthAt = 0 /\ told = "none" /\ noticedAt = NoHint /\ shown = FALSE /\ drawn = 0
      /\ answeredAt = 0 /\ fresh = TRUE /\ wait \in Waits /\ presents \in BOOLEAN
      /\ terminal \in BOOLEAN
  BY DEF Init
<1>2. /\ pause \in Nat /\ step \in 0..Ceiling /\ interval \in Nat /\ own \in Nat
      /\ asked \in Nat /\ owed \in Nat /\ deadline \in Nat
      /\ wait # "login" => asked <= pause
      /\ wait = "login" => owed <= interval \/ deadline <= interval
  <2>1. CASE wait \in Payments
    <3>1. InitPayment(wait)
      BY <2>1, <1>1, WaitKinds DEF Init
    <3> QED BY <3>1, <2>1, <1>1, WaitKinds, FirstPauseType, JitterType, DoubledType, TimesAreNatural DEF InitPayment
  <2>2. CASE wait = "projection"
    <3>1. InitProjection
      BY <2>2, <1>1, WaitKinds DEF Init
    <3>2. PICK hint \in Hints:
            IF hint = NoHint
            THEN /\ pause \in Jittered(Lesser(FirstPause["projection"], Ceiling))
                 /\ step = Doubled(Lesser(FirstPause["projection"], Ceiling)) /\ own = 1 /\ asked = 0
            ELSE /\ pause = RetryAfter(hint) /\ asked = RetryAfter(hint)
                 /\ step = Lesser(FirstPause["projection"], Ceiling) /\ own = 0
      BY <3>1 DEF InitProjection
    <3>3. FirstPause["projection"] \in Nat /\ Lesser(FirstPause["projection"], Ceiling) \in Nat
      BY FirstPauseType DEF Backoffs
    <3>4. /\ deadline = Timeout /\ interval = 0 /\ owed = 0
      BY <3>1 DEF InitProjection
    <3>5. hint # NoHint => RetryAfter(hint) \in Nat
      BY HintType
    <3>6. deadline \in Nat
      BY <3>4, TimesAreNatural
    <3>7. CASE hint = NoHint
      BY <3>2, <3>3, <3>4, <3>6, <3>7, <2>2, JitterType, DoubledType
    <3>8. CASE hint # NoHint
      BY <3>2, <3>3, <3>4, <3>5, <3>6, <3>8, <2>2, DoubledType
    <3> QED BY <3>7, <3>8
  <2>3. CASE wait = "login"
    <3>1. InitLogin
      BY <2>3, <1>1, WaitKinds DEF Init
    <3>2. PICK i \in Intervals: LET wanted == IF i = NoHint THEN MinInterval ELSE i
                                IN  interval = Clamped(wanted) /\ owed = wanted
      BY <3>1 DEF InitLogin
    <3>3. PICK l \in Lifetimes: deadline = Lesser(l, MaxLoginWait)
      BY <3>1 DEF InitLogin
    <3>4. pause = 0 /\ step = 0 /\ own = 0 /\ asked = 0
      BY <3>1 DEF InitLogin
    <3>5. deadline \in Nat /\ deadline <= MaxInterval
      BY <3>3, LoginsArePaced DEF Lesser
    <3>6. owed \in Nat /\ interval = Clamped(owed)
      BY <3>2, HintsAreTicks, LoginsArePaced DEF NoHint
    <3>7. interval \in Nat /\ (owed <= interval \/ interval = MaxInterval)
      BY <3>6, LoginsArePaced DEF Clamped, Lesser, Greater
    <3> QED BY <3>4, <3>5, <3>6, <3>7, <2>3, PausesArePositive
  <2> QED BY <2>1, <2>2, <2>3, <1>1, WaitKinds
<1>3. TypeOK
  <2>1. {body, truth} \subseteq States /\ told \in States \cup {"none"} /\ drawn \in 0..2
    BY <1>1 DEF States
  <2>2. noticedAt \in Nat \cup {NoHint} /\ {now, truthAt, answeredAt} \subseteq Nat
    BY <1>1
  <2>3. /\ shown \in BOOLEAN /\ fresh \in BOOLEAN
        /\ pc \in {"look", "sleep", "asked", "ended"}
        /\ result \in {"none", "reached", "unsuccessful", "timeout", "error"}
    BY <1>1
  <2> QED BY <1>1, <1>2, <2>1, <2>2, <2>3 DEF TypeOK
<1>4. Timely
  BY <1>1, <1>2, TimesAreNatural DEF Timely, EndsInTime
<1>5. Owing
  BY <1>1, <1>2 DEF Owing
<1>6. Knowing
  BY <1>1 DEF Knowing, NothingIsMissed, Final
<1>7. Drawing /\ LogIsAlive
  BY <1>1 DEF Drawing, LogIsAlive
<1> QED BY <1>3, <1>4, <1>5, <1>6, <1>7 DEF Inv

-----------------------------------------------------------------------------
(* The steps *)

LEMMA ServiceKeeps == ASSUME Inv, Change PROVE Inv'
<1>1. /\ truth' \in States /\ truthAt' = now /\ pc # "ended" /\ truth' \in Following(truth)
      /\ wait \notin Payments => truth' \in {"pending", "done", "failed"}
  <2>1. truth \in States /\ truth' \in Following(truth)
    BY DEF Change, Inv, TypeOK
  <2>2. CASE truth = "pending"
    BY <2>1, <2>2 DEF Change, Following, States
  <2>3. CASE truth = "ready"
    BY <2>1, <2>3 DEF Change, Following, States, Inv, Knowing
  <2>4. CASE truth \in Final
    BY <2>1, <2>4 DEF Following, Final
  <2> QED BY <2>1, <2>2, <2>3, <2>4 DEF States, Final
<1>2. UNCHANGED <<given, now, pc, pacing, timeline, invoice, result, answers>>
  BY DEF Change
<1>3. TypeOK'
  BY <1>1, <1>2 DEF Inv, TypeOK, given, pacing, timeline, invoice, answers
<1>4. Timely' /\ Owing' /\ Drawing' /\ LogIsAlive'
  BY <1>2 DEF Inv, Timely, EndsInTime, Owing, Drawing, LogIsAlive, given, pacing, timeline, invoice, answers
<1>5. Knowing'
  <2>1. now \in Nat /\ answeredAt <= now /\ result = "none"
    BY <1>1 DEF Inv, TypeOK, Timely
  <2> QED BY <1>1, <1>2, <2>1 DEF Inv, Knowing, NothingIsMissed, given, pacing, answers
<1> QED BY <1>3, <1>4, <1>5 DEF Inv

\* A person is told of every change, and again when a log was silent for long enough.
LEMMA Told ==
    ASSUME Inv, Notice
    PROVE  /\ told' \in States /\ noticedAt' \in Nat \cup {NoHint}
           /\ ~terminal => now - noticedAt' < NoticeInterval
<1>1. /\ body \in States /\ now \in Nat /\ terminal \in BOOLEAN
      /\ noticedAt \in Nat \cup {NoHint} /\ told \in States \cup {"none"}
  BY DEF Inv, TypeOK
<1>2. NoticeInterval \in Nat \ {0}
  BY TimesAreNatural
<1>3. CASE terminal
  BY <1>1, <1>3 DEF Notice
<1>4. CASE ~terminal
  <2>1. noticedAt' = IF \/ body # told \/ noticedAt = NoHint \/ now - noticedAt >= NoticeInterval
                     THEN now ELSE noticedAt
    BY <1>4 DEF Notice
  <2>2. noticedAt' \in Nat \cup {NoHint} /\ now - noticedAt' < NoticeInterval
    BY <1>1, <1>2, <2>1 DEF NoHint
  <2> QED BY <1>1, <2>2 DEF Notice
<1> QED BY <1>3, <1>4 DEF Inv, TypeOK

\* Drawing the invoice takes no longer than its read may, and not past the deadline.
LEMMA ReadTakes ==
    ASSUME Inv, NEW d \in 0..ReadLimit, Present(d)
    PROVE  /\ now + d <= deadline \/ d = 0
           /\ drawn' = Lesser(drawn + 1, 2)
<1>1. {now, deadline} \subseteq Nat /\ terminal \in BOOLEAN /\ ReadLimit \in Nat
  BY TimesAreNatural DEF Inv, TypeOK
<1>2. d \in (IF terminal THEN NetworkReads ELSE {0})
  BY DEF Present
<1>3. d \in 0..Lesser(ReadLimit, Greater(0, deadline - now)) \/ d = 0
  BY <1>1, <1>2 DEF NetworkReads
<1>4. now + d <= deadline \/ d = 0
  BY <1>1, <1>3 DEF Lesser, Greater
<1> QED BY <1>4 DEF Present

\* A wait whose last answer was current misses only what came in its last pause.
LEMMA MissesOnlyThePause ==
    ASSUME Inv, NEW n \in Nat, NEW p \in Nat, n <= now + ReadLimit, body \notin Final, pc = "look",
           n + p >= deadline
    PROVE  (fresh /\ truth \in Final) => truthAt + p + ReadLimit >= deadline
<1>1. now = answeredAt /\ now \in Nat /\ truthAt \in Nat /\ deadline \in Nat /\ ReadLimit \in Nat
  BY TimesAreNatural DEF Inv, TypeOK, Timely
<1>2. ASSUME fresh, truth \in Final
      PROVE  answeredAt <= truthAt
  BY <1>2 DEF Inv, Knowing
<1>3. ASSUME answeredAt <= truthAt
      PROVE  truthAt + p + ReadLimit >= deadline
  BY <1>1, <1>3
<1> QED BY <1>2, <1>3

LEMMA PaymentLookKeeps == ASSUME Inv, LookAtPayment PROVE Inv'
<1>1. PICK d \in 0..ReadLimit:
         /\ now' = now + d
         /\ IF Early THEN Present(d) /\ shown' = TRUE ELSE d = 0 /\ UNCHANGED invoice
         /\ CASE body \in {"failed", "lapsed"} -> Ends("unsuccessful")
              [] Reached -> Ends("reached")
              [] OTHER -> PauseOrTimeout(now')
  BY DEF LookAtPayment
<1>2. /\ wait \in Payments /\ pc = "look" /\ Notice
      /\ UNCHANGED <<given, pacing, service, answers>>
  BY DEF LookAtPayment
<1>3. /\ {now, deadline, pause} \subseteq Nat /\ now <= deadline /\ now = answeredAt
      /\ result = "none" /\ ReadLimit \in Nat
      /\ wait # "login"
  BY <1>2, TimesAreNatural DEF Inv, TypeOK, Timely, Payments
<1>4. now' \in Nat /\ now' <= now + ReadLimit /\ now' <= deadline /\ answeredAt <= now'
  BY <1>1, <1>3, ReadTakes
<1>5. ~terminal => now' = now
  <2>1. CASE Early
    BY <1>1, <1>3, <2>1 DEF Present
  <2>2. CASE ~Early
    BY <1>1, <1>3, <2>2
  <2> QED BY <2>1, <2>2
<1>6. drawn' = (IF shown' THEN 1 ELSE 0) /\ shown' \in BOOLEAN
  <2>1. CASE Early
    <3>1. ~shown /\ drawn = 0 /\ shown' = TRUE /\ drawn' = Lesser(drawn + 1, 2)
      BY <1>1, <2>1, ReadTakes DEF Early, Inv, Drawing
    <3> QED BY <3>1 DEF Lesser
  <2>2. CASE ~Early
    BY <1>1, <2>2 DEF Inv, Drawing, TypeOK, invoice
  <2> QED BY <2>1, <2>2
<1>7. \/ pc' = "ended" /\ result' \in {"unsuccessful", "reached"}
      \/ pc' = "ended" /\ result' = "timeout" /\ now' + pause >= deadline /\ body \notin Final
      \/ pc' = "sleep" /\ result' = "none" /\ now' + pause < deadline
  <2>1. CASE body \in {"failed", "lapsed"} \/ Reached
    BY <1>1, <2>1 DEF Ends
  <2>2. CASE body \notin {"failed", "lapsed"} /\ ~Reached
    <3>1. PauseOrTimeout(now')
      BY <1>1, <2>2
    <3>2. body \notin Final
      BY <2>2 DEF Reached, Final
    <3> QED BY <3>1, <3>2, <1>3, <1>4 DEF PauseOrTimeout, GivesUp, Ends
  <2> QED BY <2>1, <2>2
<1>8. /\ told' \in States /\ noticedAt' \in Nat \cup {NoHint}
      /\ ~terminal => now - noticedAt' < NoticeInterval
  BY <1>2, Told
<1>9. TypeOK'
  <2>1. drawn' \in 0..2 /\ shown' \in BOOLEAN
    BY <1>6
  <2>2. /\ pc' \in {"look", "sleep", "asked", "ended"} /\ told' \in States \cup {"none"}
        /\ result' \in {"none", "reached", "unsuccessful", "timeout", "error"}
    BY <1>7, <1>8
  <2> QED BY <1>2, <1>4, <1>8, <2>1, <2>2 DEF Inv, TypeOK, given, pacing, service, answers
<1>10. Timely' /\ Owing' /\ Drawing'
  <2>1. EndsInTime'
    BY <1>2, <1>3, <1>4, TimesAreNatural DEF EndsInTime, given
  <2>2. Timely'
    BY <1>2, <1>3, <1>4, <1>7, <2>1 DEF Timely, given, pacing, answers
  <2> QED BY <1>2, <1>3, <1>6, <2>2 DEF Inv, Owing, Drawing, given, pacing, answers
<1>11. Knowing'
  <2>1. ASSUME result' = "timeout", fresh, truth \in Final
        PROVE  truthAt + pause + ReadLimit >= deadline
    BY <1>2, <1>3, <1>4, <1>7, <2>1, MissesOnlyThePause DEF pacing
  <2> QED BY <1>2, <2>1 DEF Inv, Knowing, NothingIsMissed, given, pacing, service, answers
<1>12. LogIsAlive'
  BY <1>2, <1>5, <1>8 DEF LogIsAlive, given
<1> QED BY <1>9, <1>10, <1>11, <1>12 DEF Inv

LEMMA LastShowKeeps == ASSUME Inv, ShowAtLast PROVE Inv'
<1>1. PICK d \in 0..ReadLimit: Present(d) /\ now' = now + d
  BY DEF ShowAtLast
<1>2. /\ pc = "ended" /\ result = "reached" /\ ~shown /\ shown' = TRUE
      /\ UNCHANGED <<given, pc, pacing, timeline, result, service, answers>>
  BY DEF ShowAtLast
<1>3. /\ {now, deadline, answeredAt} \subseteq Nat /\ ReadLimit \in Nat /\ Late \in Nat
      /\ now <= deadline + Late /\ answeredAt <= now
  BY TimesAreNatural DEF Inv, TypeOK, Timely, EndsInTime
<1>4. now' \in Nat /\ now' <= deadline + Late /\ answeredAt <= now'
  BY <1>1, <1>3, ReadTakes
<1>5. drawn' = 1
  <2>1. drawn = 0 /\ drawn' = Lesser(drawn + 1, 2)
    BY <1>1, <1>2, ReadTakes DEF Inv, Drawing
  <2> QED BY <2>1 DEF Lesser
<1>6. TypeOK'
  BY <1>2, <1>4, <1>5 DEF Inv, TypeOK, given, pacing, timeline, service, answers
<1>7. Timely' /\ Owing' /\ Drawing' /\ LogIsAlive'
  BY <1>2, <1>4, <1>5 DEF Inv, Timely, EndsInTime, Owing, Drawing, LogIsAlive, given, pacing, timeline, answers
<1>8. Knowing'
  BY <1>2 DEF Inv, Knowing, NothingIsMissed, given, pacing, service, answers
<1> QED BY <1>6, <1>7, <1>8 DEF Inv

LEMMA ProjectionLookKeeps == ASSUME Inv, LookAtProjection PROVE Inv'
<1>1. /\ wait = "projection" /\ pc = "look"
      /\ UNCHANGED <<given, now, pacing, timeline, invoice, service, answers>>
  BY DEF LookAtProjection
<1>2. /\ {now, deadline, pause} \subseteq Nat /\ now <= deadline /\ now = answeredAt
      /\ result = "none" /\ wait \notin Payments /\ ReadLimit \in Nat
      /\ body \in {"pending", "done", "failed"}
  BY <1>1, TimesAreNatural DEF Inv, TypeOK, Timely, Payments, Knowing
<1>3. \/ pc' = "ended" /\ result' \in {"error", "reached"}
      \/ pc' = "ended" /\ result' = "timeout" /\ now + pause >= deadline /\ body \notin Final
      \/ pc' = "sleep" /\ result' = "none" /\ now + pause < deadline
  <2>1. CASE body \in {"failed", "done"}
    BY <2>1 DEF LookAtProjection, Ends
  <2>2. CASE body \notin {"failed", "done"}
    <3>1. PauseOrTimeout(now)
      BY <2>2 DEF LookAtProjection
    <3> QED BY <1>2, <2>2, <3>1 DEF PauseOrTimeout, GivesUp, Ends, Final
  <2> QED BY <2>1, <2>2
<1>4. TypeOK'
  BY <1>1, <1>3 DEF Inv, TypeOK, given, pacing, timeline, invoice, service, answers
<1>5. Timely' /\ Owing' /\ Drawing' /\ LogIsAlive'
  BY <1>1, <1>2, <1>3 DEF Inv, Timely, EndsInTime, Owing, Drawing, LogIsAlive, given, pacing, timeline, invoice, answers
<1>6. Knowing'
  <2>1. ASSUME result' = "timeout", fresh, truth \in Final
        PROVE  truthAt + pause + ReadLimit >= deadline
    BY <1>1, <1>2, <1>3, <2>1, MissesOnlyThePause DEF pacing
  <2> QED BY <1>1, <2>1 DEF Inv, Knowing, NothingIsMissed, given, pacing, service, answers
<1> QED BY <1>4, <1>5, <1>6 DEF Inv

LEMMA GrantLookKeeps == ASSUME Inv, LookAtGrant PROVE Inv'
<1>1. /\ wait = "login" /\ pc = "look"
      /\ UNCHANGED <<given, now, step, interval, own, timeline, invoice, service, answers>>
  BY DEF LookAtGrant
<1>2. /\ {now, deadline, pause, interval} \subseteq Nat /\ now <= deadline /\ now = answeredAt
      /\ result = "none" /\ wait \notin Payments /\ ReadLimit \in Nat
      /\ body \in {"pending", "done", "failed"}
  BY <1>1, TimesAreNatural DEF Inv, TypeOK, Timely, Payments, Knowing
<1>3. \/ pc' = "ended" /\ result' \in {"error", "reached"} /\ pause' = pause
      \/ /\ pc' = "ended" /\ result' = "timeout" /\ now + interval >= deadline /\ body \notin Final
         /\ pause' = interval
      \/ pc' = "sleep" /\ result' = "none" /\ now + interval < deadline /\ pause' = interval
  <2>1. CASE body \in {"failed", "done"}
    BY <2>1 DEF LookAtGrant, Ends
  <2>2. CASE body \notin {"failed", "done"}
    <3>1. /\ pause' = interval
          /\ IF now + interval >= deadline THEN Ends("timeout")
             ELSE pc' = "sleep" /\ UNCHANGED result
      BY <2>2 DEF LookAtGrant
    <3> QED BY <1>2, <2>2, <3>1 DEF Ends, Final
  <2> QED BY <2>1, <2>2
<1>4. pause' \in Nat
  BY <1>2, <1>3
<1>5. TypeOK'
  BY <1>1, <1>3, <1>4 DEF Inv, TypeOK, given, timeline, invoice, service, answers
<1>6. Timely' /\ Owing' /\ Drawing' /\ LogIsAlive'
  BY <1>1, <1>2, <1>3 DEF Inv, Timely, EndsInTime, Owing, Drawing, LogIsAlive, given, timeline, invoice, answers
<1>7. Knowing'
  <2>1. ASSUME result' = "timeout", fresh, truth \in Final
        PROVE  truthAt + pause' + ReadLimit >= deadline
    BY <1>1, <1>2, <1>3, <1>4, <2>1, MissesOnlyThePause
  <2> QED BY <1>1, <2>1 DEF Inv, Knowing, NothingIsMissed, given, service, answers
<1> QED BY <1>5, <1>6, <1>7 DEF Inv

LEMMA WakeKeeps == ASSUME Inv, Wake PROVE Inv'
<1>1. PICK late \in 0..Late: now' = now + pause + late
  BY DEF Wake
<1>2. /\ pc = "sleep" /\ pc' = "asked"
      /\ UNCHANGED <<given, pacing, timeline, invoice, result, service, answers>>
  BY DEF Wake
<1>3. /\ {now, deadline, pause, answeredAt} \subseteq Nat /\ Late \in Nat
      /\ now + pause < deadline /\ answeredAt <= now /\ result = "none"
  BY <1>2, TimesAreNatural DEF Inv, TypeOK, Timely
<1>4. now' \in Nat /\ now' <= deadline + Late /\ answeredAt <= now'
  BY <1>1, <1>3
<1>5. TypeOK'
  BY <1>2, <1>4 DEF Inv, TypeOK, given, pacing, timeline, invoice, service, answers
<1>6. Timely' /\ Owing' /\ Drawing' /\ LogIsAlive'
  BY <1>2, <1>3, <1>4 DEF Inv, Timely, EndsInTime, Owing, Drawing, LogIsAlive, given, pacing, timeline, invoice, answers
<1>7. Knowing'
  BY <1>2 DEF Inv, Knowing, NothingIsMissed, given, pacing, service, answers
<1> QED BY <1>5, <1>6, <1>7 DEF Inv

\* An answer comes in time, at a moment of its own.
LEMMA Arrival ==
    ASSUME Inv, Arrive
    PROVE  /\ now' \in Nat /\ now <= now' /\ now' <= deadline /\ answeredAt' = now'
           /\ pc = "asked" /\ result = "none"
           /\ UNCHANGED <<given, timeline, invoice, service>>
<1>1. PICK d \in 1..Latency: now' = now + d /\ now' <= deadline
  BY DEF Arrive
<1>2. now \in Nat /\ d \in Nat
  BY TimesAreNatural DEF Inv, TypeOK
<1> QED BY <1>1, <1>2 DEF Arrive, Inv, Timely

\* The parts of the invariant that do not depend on how the next pause was chosen.
LEMMA AnswerKeeps ==
    ASSUME Inv, Arrive, pc' = "look", UNCHANGED result,
           pause' \in Nat, step' \in 0..Ceiling, own' \in Nat, interval' \in Nat,
           asked' \in Nat, owed' \in Nat, fresh' \in BOOLEAN,
           body' = truth \/ (body' = body /\ fresh' = FALSE),
           wait # "login" => asked' <= pause',
           wait = "login" => owed' <= interval' \/ deadline <= interval'
    PROVE  Inv'
<1>1. /\ now' \in Nat /\ now <= now' /\ now' <= deadline /\ answeredAt' = now'
      /\ pc = "asked" /\ result = "none"
      /\ UNCHANGED <<given, timeline, invoice, service>>
  BY Arrival
<1>2. deadline \in Nat /\ Late \in Nat
  BY TimesAreNatural DEF Inv, TypeOK
<1>3. TypeOK'
  <2>1. {body, truth}' \subseteq States
    BY <1>1 DEF Inv, TypeOK, service
  <2> QED BY <1>1, <2>1 DEF Inv, TypeOK, given, timeline, invoice, service
<1>4. Timely' /\ Owing' /\ Drawing' /\ LogIsAlive'
  BY <1>1, <1>2 DEF Inv, Timely, EndsInTime, Owing, Drawing, LogIsAlive, given, timeline, invoice
<1>5. Knowing'
  BY <1>1 DEF Inv, Knowing, NothingIsMissed, given, service
<1> QED BY <1>3, <1>4, <1>5 DEF Inv

LEMMA PaymentAnswerKeeps == ASSUME Inv, AnswerPayment PROVE Inv'
<1>1. PICK hint \in Hints: Paced(hint) /\ asked' = RetryAfter(Greater(hint, 0))
  BY DEF AnswerPayment
<1>2. /\ wait \in Payments /\ Arrive /\ body' = truth /\ fresh' = TRUE /\ pc' = "look"
      /\ UNCHANGED <<interval, owed, result>>
  BY DEF AnswerPayment
<1>3. TypeOK /\ wait # "login" /\ {interval, owed} \subseteq Nat
  BY <1>2 DEF Inv, TypeOK, Payments
<1> QED BY <1>1, <1>2, <1>3, PacedType, HintType, AnswerKeeps

LEMMA MissingAnswerKeeps == ASSUME Inv, AnswerMissing PROVE Inv'
<1>1. /\ wait \in Payments /\ Arrive /\ UNCHANGED body /\ fresh' = FALSE /\ pc' = "look"
      /\ OwnPause /\ asked' = 0 /\ UNCHANGED <<interval, owed, result>>
  BY DEF AnswerMissing
<1>2. wait # "login" /\ {interval, owed, own} \subseteq Nat /\ step \in 0..Ceiling /\ step \in Nat
  BY <1>1, PausesArePositive DEF Inv, TypeOK, Payments
<1>3. pause' \in Nat /\ step' \in 0..Ceiling /\ own' \in Nat
  BY <1>1, <1>2, JitterType, DoubledType DEF OwnPause
<1>4. fresh' \in BOOLEAN /\ body' = body /\ interval' \in Nat /\ owed' \in Nat /\ asked' \in Nat
  BY <1>1, <1>2
<1>5. asked' <= pause' /\ Arrive /\ pc' = "look" /\ result' = result /\ fresh' = FALSE
  BY <1>1, <1>3
<1> QED BY <1>2, <1>3, <1>4, <1>5, AnswerKeeps

LEMMA ProjectionAnswerKeeps == ASSUME Inv, AnswerProjection PROVE Inv'
<1>1. /\ wait = "projection" /\ Arrive /\ body' = truth /\ fresh' = TRUE /\ pc' = "look"
      /\ UNCHANGED <<interval, owed, result>>
  BY DEF AnswerProjection
<1>2. TypeOK /\ {interval, owed, pause, own} \subseteq Nat /\ step \in 0..Ceiling
  BY DEF Inv, TypeOK
<1>3. CASE truth = "pending"
  <2>1. PICK hint \in Hints: Paced(hint) /\ asked' = RetryAfter(Greater(hint, 0))
    BY <1>3 DEF AnswerProjection
  <2> QED BY <1>1, <1>2, <2>1, PacedType, HintType, AnswerKeeps
<1>4. CASE truth # "pending"
  <2>1. UNCHANGED <<step, pause, own>> /\ asked' = 0
    BY <1>4 DEF AnswerProjection
  <2> QED BY <1>1, <1>2, <2>1, AnswerKeeps
<1> QED BY <1>3, <1>4

LEMMA GrantAnswerKeeps == ASSUME Inv, AnswerGrant PROVE Inv'
<1>1. PICK slow \in BOOLEAN:
        Slower(slow) /\ owed' = IF slow THEN owed + SlowDownStep ELSE owed
  BY DEF AnswerGrant
<1>2. /\ wait = "login" /\ Arrive /\ body' = truth /\ fresh' = TRUE /\ pc' = "look"
      /\ UNCHANGED <<step, pause, own, asked, result>>
  BY DEF AnswerGrant
<1>3. /\ {interval, owed, asked, pause, own, deadline} \subseteq Nat /\ step \in 0..Ceiling
      /\ SlowDownStep \in Nat /\ (owed <= interval \/ deadline <= interval)
  BY <1>2, LoginsArePaced DEF Inv, TypeOK, Owing
<1>4. /\ interval' \in Nat /\ owed' \in Nat
      /\ (owed' <= interval' \/ deadline <= interval')
  BY <1>1, <1>3 DEF Slower
<1> QED BY <1>2, <1>3, <1>4, AnswerKeeps

LEMMA FailKeeps == ASSUME Inv, Fail PROVE Inv'
<1>1. PICK d \in 0..Latency: now' = now + d /\ now' <= Greater(now, deadline)
  BY DEF Fail
<1>2. /\ pc = "asked" /\ pc' = "ended" /\ result' = "error"
      /\ UNCHANGED <<given, pacing, timeline, invoice, service, answers>>
  BY DEF Fail, Ends
<1>3. /\ {now, deadline, answeredAt} \subseteq Nat /\ {Late, Latency} \subseteq Nat
      /\ now <= deadline + Late /\ answeredAt <= now
  BY TimesAreNatural DEF Inv, TypeOK, Timely, EndsInTime
<1>4. now' \in Nat /\ now' <= deadline + Late /\ answeredAt <= now'
  BY <1>1, <1>3 DEF Greater
<1>5. TypeOK'
  BY <1>2, <1>4 DEF Inv, TypeOK, given, pacing, timeline, invoice, service, answers
<1>6. Timely' /\ Owing' /\ Drawing' /\ LogIsAlive'
  BY <1>2, <1>4 DEF Inv, Timely, EndsInTime, Owing, Drawing, LogIsAlive, given, pacing, timeline, invoice, answers
<1>7. Knowing'
  BY <1>2 DEF Inv, Knowing, NothingIsMissed, given, pacing, service, answers
<1> QED BY <1>5, <1>6, <1>7 DEF Inv

LEMMA ExpireKeeps == ASSUME Inv, Expire PROVE Inv'
<1>1. /\ pc = "asked" /\ pc' = "ended" /\ result' = "timeout" /\ fresh' = FALSE
      /\ now' = Greater(now, deadline)
      /\ UNCHANGED <<given, pacing, timeline, invoice, service, body, asked, owed, answeredAt>>
  BY DEF Expire, Ends
<1>2. /\ {now, deadline, answeredAt} \subseteq Nat /\ Late \in Nat
      /\ now <= deadline + Late /\ answeredAt <= now
  BY TimesAreNatural DEF Inv, TypeOK, Timely, EndsInTime
<1>3. now' \in Nat /\ now' <= deadline + Late /\ answeredAt <= now'
  BY <1>1, <1>2 DEF Greater
<1>4. TypeOK'
  BY <1>1, <1>3 DEF Inv, TypeOK, given, pacing, timeline, invoice, service
<1>5. Timely' /\ Owing' /\ Drawing' /\ LogIsAlive'
  BY <1>1, <1>3 DEF Inv, Timely, EndsInTime, Owing, Drawing, LogIsAlive, given, pacing, timeline, invoice
<1>6. Knowing'
  BY <1>1 DEF Inv, Knowing, NothingIsMissed, given, pacing, service
<1> QED BY <1>4, <1>5, <1>6 DEF Inv

LEMMA StutterKeeps == ASSUME Inv, UNCHANGED vars PROVE Inv'
<1>1. UNCHANGED <<given, now, pc, pacing, timeline, invoice, result, service, answers>>
  BY DEF vars
<1>2. TypeOK'
  BY <1>1 DEF Inv, TypeOK, given, pacing, timeline, invoice, service, answers
<1>3. Timely' /\ Owing' /\ Drawing' /\ LogIsAlive'
  BY <1>1 DEF Inv, Timely, EndsInTime, Owing, Drawing, LogIsAlive, given, pacing, timeline, invoice, answers
<1>4. Knowing'
  BY <1>1 DEF Inv, Knowing, NothingIsMissed, given, pacing, service, answers
<1> QED BY <1>2, <1>3, <1>4 DEF Inv

LEMMA Keeps == Inv /\ [Next]_vars => Inv'
<1> SUFFICES ASSUME Inv, [Next]_vars PROVE Inv'
  OBVIOUS
<1>1. CASE Change
  BY <1>1, ServiceKeeps
<1>2. CASE LookAtPayment \/ ShowAtLast
  BY <1>2, PaymentLookKeeps, LastShowKeeps
<1>3. CASE LookAtProjection \/ LookAtGrant
  BY <1>3, ProjectionLookKeeps, GrantLookKeeps
<1>4. CASE Wake
  BY <1>4, WakeKeeps
<1>5. CASE AnswerPayment \/ AnswerMissing
  BY <1>5, PaymentAnswerKeeps, MissingAnswerKeeps
<1>6. CASE AnswerProjection \/ AnswerGrant
  BY <1>6, ProjectionAnswerKeeps, GrantAnswerKeeps
<1>7. CASE Fail \/ Expire
  BY <1>7, FailKeeps, ExpireKeeps
<1>8. CASE UNCHANGED vars
  BY <1>8, StutterKeeps
<1> QED BY <1>1, <1>2, <1>3, <1>4, <1>5, <1>6, <1>7, <1>8 DEF Next

LEMMA Invariance == Spec => []Inv
<1> QED BY Initially, Keeps, PTL DEF Spec

-----------------------------------------------------------------------------
(* The results *)

\* Every variable of the three loops (wait_for_payment, await_session_projection,
\* poll_device_grant) keeps its type.
THEOREM TypeCorrect == Spec => []TypeOK
<1>1. Inv => TypeOK
  BY DEF Inv
<1> QED BY <1>1, Invariance, PTL

\* wait_for_payment and poll_device_grant: a wait gives up with a current answer only when
\* what it waits for happened too late for another request.
THEOREM NothingMissed == Spec => []NothingIsMissed
<1>1. Inv => NothingIsMissed
  BY DEF Inv, Knowing
<1> QED BY <1>1, Invariance, PTL

\* No wait outlasts its deadline by more than one sleep overruns, whatever the service answers
\* and however long the invoice's network is read for.
THEOREM InTime == Spec => []EndsInTime
<1>1. Inv => EndsInTime
  BY DEF Inv, Timely
<1> QED BY <1>1, Invariance, PTL

\* wait_for_payment presents the invoice at most once, and Timeline::status keeps a log from being
\* silent for longer than its interval when a pause begins.
THEOREM ProgressTold == Spec => []ProgressIsTold
<1>1. Inv => ProgressIsTold
  BY DEF Inv, Drawing, InvoiceShownOnce, ProgressIsTold
<1> QED BY <1>1, Invariance, PTL

\* No request is sent sooner after an answer than that answer asked, the bounds that
\* poll_device_grant puts on an interval included.
THEOREM HintsKept == Spec => HintsAreKept
<1>1. ASSUME Inv, [Next]_vars
      PROVE  [(pc = "sleep" /\ pc' = "asked")
                => now' - answeredAt >= (IF wait = "login" THEN owed ELSE asked)]_vars
  <2>1. SUFFICES ASSUME pc = "sleep", pc' = "asked"
                 PROVE  now' - answeredAt >= (IF wait = "login" THEN owed ELSE asked)
    OBVIOUS
  <2>2. Wake
    BY <1>1, <2>1 DEF Next, Change, LookAtPayment, ShowAtLast, LookAtProjection, LookAtGrant,
          AnswerPayment, AnswerMissing, AnswerProjection, AnswerGrant, Fail, Expire, Arrive, vars
  <2>3. PICK late \in 0..Late: now' = now + pause + late
    BY <2>2 DEF Wake
  <2>4. /\ {now, pause, answeredAt, asked, owed, interval, deadline} \subseteq Nat /\ Late \in Nat
        /\ answeredAt <= now /\ now + pause < deadline
    BY <1>1, <2>1, TimesAreNatural DEF Inv, TypeOK, Timely
  <2>5. CASE wait = "login"
    <3>1. pause = interval /\ (owed <= interval \/ deadline <= interval)
      BY <1>1, <2>1, <2>5 DEF Inv, Owing
    <3>2. owed <= pause
      BY <3>1, <2>4
    <3> QED BY <3>2, <2>3, <2>4, <2>5
  <2>6. CASE wait # "login"
    <3>1. asked <= pause
      BY <1>1, <2>6 DEF Inv, Owing
    <3> QED BY <3>1, <2>3, <2>4, <2>6
  <2> QED BY <2>5, <2>6
<1> QED BY <1>1, Invariance, PTL DEF Spec, HintsAreKept

-----------------------------------------------------------------------------
(* The schedule *)

Doubling(step_, n) == Doubled(step_)

\* Folding's lemma on recursive functions, of the steps.
Schedule == INSTANCE Folding WITH Op <- Doubling

\* The recursive definition of the steps is one: each is the double of the one before.
LEMMA StepsDouble ==
    ASSUME NEW w
    PROVE  /\ StepsOf(w)[0] = Lesser(FirstPause[w], Ceiling)
           /\ \A n \in Nat : StepsOf(w)[n + 1] = Doubled(StepsOf(w)[n])
<1> DEFINE base == Lesser(FirstPause[w], Ceiling)
           f == CHOOSE g : g = [n \in Nat |-> IF n = 0 THEN base ELSE Doubled(g[n - 1])]
<1>1. \E g : g = [n \in Nat |-> IF n = 0 THEN base ELSE Doubled(g[n - 1])]
  <2>1. \E g : Schedule!Recurs(g, Nat, base)
    BY Schedule!RecursOnNat
  <2> QED
    BY <2>1 DEF Schedule!Recurs, Doubling
<1>2. f = [n \in Nat |-> IF n = 0 THEN base ELSE Doubled(f[n - 1])]
  BY <1>1
<1>3. StepsOf(w) = f
  BY DEF StepsOf
<1> HIDE DEF f
<1>4. f[0] = base
  BY <1>2
<1>5. ASSUME NEW n \in Nat PROVE f[n + 1] = Doubled(f[n])
  <2>1. n + 1 \in Nat /\ n + 1 # 0 /\ (n + 1) - 1 = n
    OBVIOUS
  <2> QED
    BY <1>2, <2>1
<1> QED
  BY <1>3, <1>4, <1>5

\* The pause that the next sleep takes is due: not that of a projection that is there.
PauseIsDue == pc \in {"look", "sleep"} /\ (wait = "projection" => body \notin {"done", "failed"})

\* The own pauses so far say what the next step is, and the last of them what was due.
Scheduled ==
    wait \in Backoffs =>
        /\ step = StepsOf(wait)[own]
        /\ (PauseIsDue /\ own > 0 /\ asked = 0) => pause = 0 \/ 2 * pause >= StepsOf(wait)[own - 1] - 1
        /\ pc = "sleep" => PauseIsDue

\* A pause is never under half of its step.
LEMMA JitterIsHalf ==
    ASSUME NEW s \in Nat, NEW p \in Jittered(s)
    PROVE  2 * p >= s - 1
<1>1. PICK jitter \in 0..(s \div 2) : p = (s \div 2) + jitter
  BY DEF Jittered
<1>2. s \div 2 \in Nat /\ 2 * (s \div 2) >= s - 1
  OBVIOUS
<1> QED BY <1>1, <1>2

\* What OwnPause, and Paced with a hint, leave of the schedule.
LEMMA OwnPauseSchedules ==
    ASSUME TypeOK, step = StepsOf(wait)[own], OwnPause, wait' = wait
    PROVE  /\ step' = StepsOf(wait')[own']
           /\ own' > 0 /\ 2 * pause' >= StepsOf(wait')[own' - 1] - 1
<1>1. own \in Nat /\ step \in Nat /\ own' = own + 1 /\ step' = Doubled(step) /\ pause' \in Jittered(step)
  BY PausesArePositive DEF TypeOK, OwnPause
<1>2. own' - 1 = own /\ own' > 0
  BY <1>1
<1>3. 2 * pause' >= step - 1
  BY <1>1, JitterIsHalf
<1>4. StepsOf(wait)[own + 1] = Doubled(StepsOf(wait)[own])
  BY <1>1, StepsDouble
<1> QED
  BY <1>1, <1>2, <1>3, <1>4

LEMMA PacedSchedules ==
    ASSUME TypeOK, step = StepsOf(wait)[own], NEW hint \in Hints, Paced(hint), wait' = wait,
           asked' = RetryAfter(Greater(hint, 0))
    PROVE  /\ step' = StepsOf(wait')[own']
           /\ own' > 0 /\ asked' = 0 => pause' = 0 \/ 2 * pause' >= StepsOf(wait')[own' - 1] - 1
<1>1. CASE hint = NoHint
  BY <1>1, OwnPauseSchedules DEF Paced
<1>2. CASE hint # NoHint
  <2>1. hint \in Nat /\ pause' = RetryAfter(hint) /\ step' = step /\ own' = own
    BY <1>2, HintsAreTicks DEF Paced
  <2>2. Greater(hint, 0) = hint
    BY <2>1 DEF Greater
  <2> QED
    BY <2>1, <2>2
<1> QED BY <1>1, <1>2

LEMMA ScheduledAtFirst == Init => Scheduled
<1> SUFFICES ASSUME Init, wait \in Backoffs PROVE Scheduled
  BY DEF Scheduled
<1> DEFINE first == Lesser(FirstPause[wait], Ceiling)
<1>1. first \in Nat /\ StepsOf(wait)[0] = first /\ StepsOf(wait)[1] = Doubled(first)
  <2>1. 0 \in Nat /\ 0 + 1 = 1
    OBVIOUS
  <2> QED BY <2>1, FirstPauseType, StepsDouble
<1>2. pc = "look" /\ wait \in Waits
  BY DEF Init
<1> HIDE DEF first
<1>3. \/ pause \in Jittered(first) /\ step = Doubled(first) /\ own = 1
      \/ step = first /\ own = 0
  <2>1. CASE wait \in Payments
    <3>1. InitPayment(wait)
      BY <2>1, <1>2, WaitKinds DEF Init
    <3> QED BY <3>1 DEF InitPayment, first
  <2>2. CASE wait = "projection"
    <3>1. InitProjection
      BY <2>2, <1>2, WaitKinds DEF Init
    <3> QED BY <3>1, <2>2 DEF InitProjection, first
  <2> QED BY <2>1, <2>2 DEF Backoffs, Payments
<1>4. CASE pause \in Jittered(first) /\ step = Doubled(first) /\ own = 1
  <2>1. 2 * pause >= first - 1 /\ own - 1 = 0
    BY <1>1, <1>4, JitterIsHalf
  <2> QED BY <1>1, <1>2, <1>4, <2>1 DEF Scheduled
<1>5. CASE step = first /\ own = 0
  BY <1>1, <1>2, <1>5 DEF Scheduled
<1> QED BY <1>3, <1>4, <1>5

\* The steps that take no pause leave what is due as it was, or end the pause.
LEMMA ScheduledStays ==
    ASSUME Scheduled, UNCHANGED <<wait, step, pause, own>>,
           \/ pc' \notin {"look", "sleep"}
           \/ UNCHANGED <<body, asked>> /\ pc \in {"look", "sleep"} /\ (pc' = "sleep" => PauseIsDue)
    PROVE  Scheduled'
BY DEF Scheduled, PauseIsDue

LEMMA ScheduledKeeps == Inv /\ Scheduled /\ [Next]_vars => Scheduled'
<1> SUFFICES ASSUME Inv, Scheduled, [Next]_vars, wait' \in Backoffs PROVE Scheduled'
  BY DEF Scheduled
<1>1. wait' = wait /\ TypeOK
  BY DEF Inv, Next, Change, LookAtPayment, ShowAtLast, LookAtProjection, LookAtGrant, Wake, Arrive,
         AnswerPayment, AnswerMissing, AnswerProjection, AnswerGrant, Fail, Expire, vars, given
<1>2. step = StepsOf(wait)[own] /\ wait # "login"
  BY <1>1 DEF Scheduled, Backoffs
<1>3. CASE Change \/ UNCHANGED vars
  BY <1>3, <1>1 DEF Change, vars, pacing, answers, Scheduled, PauseIsDue
<1>4. CASE LookAtPayment
  <2>1. wait \in Payments /\ pc = "look" /\ UNCHANGED pacing /\ UNCHANGED answers
    BY <1>4 DEF LookAtPayment
  <2>2. wait # "projection"
    BY <2>1 DEF Payments
  <2> QED BY <2>1, <2>2, <1>1, ScheduledStays DEF pacing, answers, PauseIsDue
<1>5. CASE LookAtProjection
  <2>1. wait = "projection" /\ pc = "look" /\ UNCHANGED pacing /\ UNCHANGED answers
    BY <1>5 DEF LookAtProjection
  <2>2. pc' = "sleep" => body \notin {"done", "failed"}
    BY <1>5 DEF LookAtProjection, Ends
  <2> QED BY <2>1, <2>2, <1>1, ScheduledStays DEF pacing, answers, PauseIsDue
<1>6. CASE LookAtGrant \/ AnswerGrant
  BY <1>2, <1>6 DEF LookAtGrant, AnswerGrant
<1>7. CASE ShowAtLast \/ Wake \/ Fail \/ Expire
  <2>1. pc' \notin {"look", "sleep"} /\ UNCHANGED pacing
    BY <1>7 DEF ShowAtLast, Wake, Fail, Expire, Ends
  <2> QED BY <2>1, <1>1, ScheduledStays DEF pacing
<1>8. CASE AnswerPayment
  <2>1. PICK hint \in Hints: Paced(hint) /\ asked' = RetryAfter(Greater(hint, 0))
    BY <1>8 DEF AnswerPayment
  <2>2. /\ step' = StepsOf(wait')[own']
        /\ own' > 0 /\ asked' = 0 => pause' = 0 \/ 2 * pause' >= StepsOf(wait')[own' - 1] - 1
    BY <2>1, <1>1, <1>2, PacedSchedules
  <2>3. pc' = "look"
    BY <1>8 DEF AnswerPayment
  <2> QED BY <2>2, <2>3 DEF Scheduled
<1>9. CASE AnswerMissing
  <2>1. OwnPause /\ pc' = "look"
    BY <1>9 DEF AnswerMissing
  <2>2. /\ step' = StepsOf(wait')[own']
        /\ own' > 0 /\ 2 * pause' >= StepsOf(wait')[own' - 1] - 1
    BY <2>1, <1>1, <1>2, OwnPauseSchedules
  <2> QED BY <2>1, <2>2 DEF Scheduled
<1>10. CASE AnswerProjection
  <2>1. wait = "projection" /\ body' = truth /\ pc' = "look"
    BY <1>10 DEF AnswerProjection
  <2>2. CASE truth = "pending"
    <3>1. PICK hint \in Hints: Paced(hint) /\ asked' = RetryAfter(Greater(hint, 0))
      BY <1>10, <2>2 DEF AnswerProjection
    <3>2. /\ step' = StepsOf(wait')[own']
          /\ own' > 0 /\ asked' = 0 => pause' = 0 \/ 2 * pause' >= StepsOf(wait')[own' - 1] - 1
      BY <3>1, <1>1, <1>2, PacedSchedules
    <3> QED BY <2>1, <3>2 DEF Scheduled
  <2>3. CASE truth # "pending"
    <3>1. UNCHANGED <<step, pause, own>>
      BY <1>10, <2>3 DEF AnswerProjection
    <3>2. truth \in {"done", "failed"}
      BY <2>1, <2>3 DEF Inv, Knowing, Payments
    <3>3. ~PauseIsDue'
      BY <2>1, <1>1, <3>2 DEF PauseIsDue
    <3> QED BY <2>1, <1>1, <1>2, <3>1, <3>3 DEF Scheduled
  <2> QED BY <2>2, <2>3
<1> QED BY <1>3, <1>4, <1>5, <1>6, <1>7, <1>8, <1>9, <1>10 DEF Next

\* Backoff::pause and the hints of the answers: hints replace pauses and never move the
\* schedule, whatever the first pause, the ceiling and the hints, and however many pauses.
THEOREM ScheduleKept == Spec => []ScheduleIsKept
<1>1. Inv /\ Scheduled => ScheduleIsKept
  BY DEF Scheduled, ScheduleIsKept
<1>2. Init => Inv /\ Scheduled
  BY Initially, ScheduledAtFirst
<1>3. Inv /\ Scheduled /\ [Next]_vars => (Inv /\ Scheduled)'
  BY Keeps, ScheduledKeeps
<1> QED BY <1>1, <1>2, <1>3, PTL DEF Spec

-----------------------------------------------------------------------------
(* Watch *)

\* What the service holds, what was seen of it and what was written of that.
Remembered ==
    /\ readAt <= clock
    /\ \A p \in Watched: written[p] <= seen[p] /\ seen[p] <= changed[p] /\ changed[p] <= clock
    /\ stage # "ended" => written = seen
    /\ stage = "start" => \A p \in Watched: seen[p] = 0
    /\ \A p \in DOMAIN page: page[p] = seen[p]

\* How often the token was lost since the last successful read.
Lapses ==
    /\ ~accepted => lapses >= 1
    /\ reauthorized => lapses >= 1
    /\ reauthorized /\ ~accepted => revoked \/ lapses >= 2
    /\ stage = "resolve" => lapses >= 1 /\ ~reauthorized
    /\ ending # "none" => stage = "ended"

WatchInv == WatchTypeOK /\ Remembered /\ Lapses /\ RejectedTwice

LEMMA FirstStepType == FirstStep \in 1..WatchCeiling /\ 0 \in Times
BY PausesAreNatural, BoundsAreNatural DEF FirstStep, Smaller, Times

LEMMA PageType == WatchTypeOK => /\ Listed \subseteq Watched
                            /\ DOMAIN Page = Listed
                            /\ Page \in [Listed -> Times]
                            /\ \A p \in Listed: Page[p] = changed[p] /\ changed[p] > 0
BY DEF Listed, Page, WatchTypeOK

\* A page of payments from the present or from before, and what Report makes of it.
LEMMA WriteType ==
    ASSUME WatchTypeOK, NEW rows, DOMAIN rows \subseteq Watched, rows \in [DOMAIN rows -> Times],
           NEW events \in SUBSET Updates(rows), Write(events)
    PROVE  /\ event' \subseteq [id: Watched, state: Times, change: Changes, since: Times]
           /\ written' \in [Watched -> Times]
           /\ \A e \in events: e.id \in DOMAIN rows /\ e.state = rows[e.id]
                               /\ (stage = "start" \/ seen[e.id] # rows[e.id])
           /\ \A p \in Watched: IF \E e \in events: e.id = p
                                 THEN p \in DOMAIN rows /\ written'[p] = rows[p]
                                 ELSE written'[p] = written[p]
<1>1. ASSUME NEW e \in Updates(rows)
      PROVE  /\ e \in [id: Watched, state: Times, change: Changes, since: Times]
             /\ e.id \in DOMAIN rows /\ e.state = rows[e.id]
             /\ (stage = "start" \/ seen[e.id] # rows[e.id])
  BY <1>1 DEF Updates, WatchTypeOK, Changes
<1>2. ASSUME NEW p \in Watched
      PROVE  IF \E e \in events: e.id = p
             THEN p \in DOMAIN rows /\ written'[p] = rows[p]
             ELSE written'[p] = written[p]
  <2>1. CASE \E e \in events: e.id = p
    <3> DEFINE c == CHOOSE e \in events: e.id = p
    <3>1. c \in events /\ c.id = p
      BY <2>1
    <3>2. written'[p] = c.state
      BY <2>1 DEF Write
    <3> QED BY <2>1, <3>1, <3>2, <1>1
  <2>2. CASE ~\E e \in events: e.id = p
    BY <2>2 DEF Write
  <2> QED BY <2>1, <2>2
<1>3. DOMAIN written' = Watched /\ written' = [p \in Watched |-> written'[p]]
  BY DEF Write
<1>4. written' \in [Watched -> Times]
  BY <1>2, <1>3 DEF WatchTypeOK
<1> QED BY <1>1, <1>2, <1>4 DEF Write

LEMMA UpdatesHere ==
    ASSUME NEW rows, NEW p \in DOMAIN rows, seen[p] # rows[p]
    PROVE  \E e \in Updates(rows): e.id = p
<1> DEFINE label(o) == CASE stage = "start" -> "snapshot"
                         [] stage # "start" /\ seen[o] = 0 -> "new"
                         [] OTHER -> "updated"
           row(o) == [id |-> o, state |-> rows[o], since |-> readAt, change |-> label(o)]
<1>1. Updates(rows) = {row(o) : o \in {q \in DOMAIN rows : stage = "start" \/ seen[q] # rows[q]}}
  BY DEF Updates
<1>2. row(p) \in Updates(rows)
  <2> HIDE DEF row
  <2> QED BY <1>1
<1>3. row(p).id = p
  OBVIOUS
<1> QED BY <1>2, <1>3

\* Any report of a page that is at least as new as what was seen.
LEMMA ReportKeeps ==
    ASSUME WatchInv, NEW rows, DOMAIN rows \subseteq Watched, rows \in [DOMAIN rows -> Times],
           \A p \in DOMAIN rows: seen[p] <= rows[p] /\ rows[p] <= changed[p],
           stage # "start" \/ \A p \in DOMAIN rows: rows[p] > 0,
           Report(rows), UNCHANGED payments, readAt' \in {readAt, clock}, stage # "ended"
    PROVE  /\ seen' \in [Watched -> Times] /\ written' \in [Watched -> Times]
           /\ \E r \in SUBSET Watched: page' \in [r -> Times]
           /\ event' \subseteq [id: Watched, state: Times, change: Changes, since: Times]
           /\ stage' \in {"wait", "ended"}
           /\ ending' \in {"none", "stopped", "output", "error", "credential", "rejected"}
           /\ ending' # "none" => stage' = "ended" /\ ending' # "rejected"
           /\ Remembered'
           /\ \A e \in event': e.state > written[e.id]
<1>1. PICK events \in SUBSET Updates(rows):
        /\ Write(events)
        /\ \/ events = Updates(rows) /\ stage' = "wait" /\ ending' = ending
           \/ stage' = "ended" /\ ending' = "output"
  BY DEF Report, End
<1>2. /\ event' \subseteq [id: Watched, state: Times, change: Changes, since: Times]
      /\ written' \in [Watched -> Times]
      /\ \A e \in events: e.id \in DOMAIN rows /\ e.state = rows[e.id]
                          /\ (stage = "start" \/ seen[e.id] # rows[e.id])
      /\ \A p \in Watched: IF \E e \in events: e.id = p
                            THEN p \in DOMAIN rows /\ written'[p] = rows[p]
                            ELSE written'[p] = written[p]
  BY <1>1, WriteType DEF WatchInv
<1>3. /\ seen \in [Watched -> Times] /\ written \in [Watched -> Times] /\ written = seen
      /\ changed \in [Watched -> Times] /\ clock \in Times /\ readAt \in Times
      /\ \A p \in Watched: written[p] <= seen[p] /\ seen[p] <= changed[p] /\ changed[p] <= clock
      /\ readAt <= clock /\ (stage = "start" => \A p \in Watched: seen[p] = 0)
      /\ Times \subseteq Nat
  BY DEF WatchInv, WatchTypeOK, Remembered, Times
<1>4. /\ page' = rows /\ seen' \in [Watched -> Times]
      /\ \A p \in Watched: seen'[p] = IF p \in DOMAIN rows THEN rows[p] ELSE seen[p]
  BY <1>3 DEF Report, Known
<1>5. \A p \in DOMAIN rows: seen[p] <= rows[p] /\ rows[p] <= changed[p]
  BY <1>3
<1>6. ASSUME NEW e \in event' PROVE e.state > written[e.id]
  <2>1. e \in events
    BY <1>1, <1>6 DEF Write
  <2>2. e.id \in DOMAIN rows /\ e.id \in Watched /\ e.state = rows[e.id]
        /\ (stage = "start" \/ seen[e.id] # rows[e.id])
    BY <1>2, <2>1
  <2>3. CASE stage = "start"
    BY <1>3, <2>2, <2>3
  <2>4. CASE seen[e.id] # rows[e.id]
    <3>1. rows[e.id] \in Nat /\ seen[e.id] \in Nat
      BY <1>3, <2>2
    <3> QED BY <1>3, <1>5, <2>2, <2>4, <3>1
  <2> QED BY <2>2, <2>3, <2>4
<1>7. ASSUME NEW p \in Watched
      PROVE  written'[p] <= seen'[p] /\ seen'[p] <= changed'[p] /\ changed'[p] <= clock'
  <2>1. seen'[p] <= changed[p] /\ seen[p] <= seen'[p]
    BY <1>3, <1>4, <1>5
  <2>2. written'[p] \in {written[p], seen'[p]}
    BY <1>2, <1>4
  <2> QED BY <1>2, <1>3, <1>4, <2>1, <2>2 DEF payments
<1>8. ASSUME stage' # "ended" PROVE written' = seen'
  <2>1. events = Updates(rows)
    BY <1>1, <1>8
  <2>2. ASSUME NEW p \in Watched PROVE written'[p] = seen'[p]
    <3>1. CASE p \in DOMAIN rows /\ seen[p] # rows[p]
      <4>1. \E e \in Updates(rows): e.id = p
        BY <3>1, UpdatesHere
      <4> QED BY <1>2, <1>4, <2>1, <3>1, <4>1
    <3>2. CASE p \in DOMAIN rows /\ seen[p] = rows[p]
      BY <1>2, <1>3, <1>4, <3>2
    <3>3. CASE p \notin DOMAIN rows
      BY <1>2, <1>3, <1>4, <3>3
    <3> QED BY <3>1, <3>2, <3>3
  <2> QED BY <1>2, <1>4, <2>2
<1>9. stage' # "start" /\ readAt' <= clock' /\ \A p \in DOMAIN page': page'[p] = seen'[p]
  BY <1>1, <1>3, <1>4 DEF payments
<1>10. Remembered'
  BY <1>7, <1>8, <1>9 DEF Remembered
<1>11. /\ ending' \in {"none", "stopped", "output", "error", "credential", "rejected"}
       /\ ending' # "none" => stage' = "ended" /\ ending' # "rejected"
  BY <1>1 DEF WatchInv, WatchTypeOK, Lapses
<1> QED BY <1>1, <1>2, <1>4, <1>6, <1>10, <1>11

LEMMA ReadReports ==
    ASSUME WatchInv, Begin \/ Refresh
    PROVE  /\ DOMAIN Page \subseteq Watched /\ Page \in [DOMAIN Page -> Times]
           /\ \A p \in DOMAIN Page: seen[p] <= Page[p] /\ Page[p] <= changed[p] /\ Page[p] > 0
           /\ stage # "ended" /\ Report(Page) /\ UNCHANGED payments /\ readAt' = clock
<1>1. WatchTypeOK /\ (Begin \/ Refresh => /\ stage # "ended" /\ Report(Page) /\ UNCHANGED payments
                                    /\ readAt' = clock)
  BY DEF WatchInv, Begin, Refresh, Read, payments
<1>2. \A p \in Listed: seen[p] <= changed[p] /\ changed[p] <= changed[p]
  BY <1>1, PageType DEF WatchInv, Remembered, WatchTypeOK, Times
<1> QED BY <1>1, <1>2, PageType

LEMMA RereadReports ==
    ASSUME WatchInv, Reauthorize \/ FailRead
    PROVE  /\ DOMAIN page \subseteq Watched /\ page \in [DOMAIN page -> Times]
           /\ \A p \in DOMAIN page: seen[p] <= page[p] /\ page[p] <= changed[p]
           /\ stage \in {"wait", "resolve"} /\ Report(page) /\ UNCHANGED payments /\ readAt' = readAt
<1>1. /\ stage \in {"wait", "resolve"} /\ Report(page) /\ UNCHANGED payments /\ readAt' = readAt
  BY DEF Reauthorize, FailRead
<1>2. PICK r \in SUBSET Watched: page \in [r -> Times]
  BY DEF WatchInv, WatchTypeOK
<1>3. \A p \in r: page[p] = seen[p] /\ seen[p] \in Nat /\ seen[p] <= changed[p]
  BY <1>2 DEF WatchInv, WatchTypeOK, Remembered, Times
<1>4. DOMAIN page = r /\ \A p \in r: page[p] <= changed[p] /\ seen[p] <= page[p]
  BY <1>2, <1>3
<1> QED BY <1>1, <1>2, <1>4

LEMMA InvInit == WatchInit => WatchInv
<1> SUFFICES ASSUME WatchInit PROVE WatchInv
  OBVIOUS
<1>1. WatchTypeOK
  <2>1. \E rows \in SUBSET Watched: page \in [rows -> Times]
    <3>1. page \in [{} -> Times] /\ {} \in SUBSET Watched
      BY DEF WatchInit
    <3> QED BY <3>1
  <2>2. /\ seen \in [Watched -> Times] /\ written \in [Watched -> Times]
        /\ changed \in [Watched -> Times] /\ created \in [Watched -> Times]
    BY FirstStepType DEF WatchInit
  <2>3. 0 \in Times /\ 0 \in 0..MaxFails /\ 0 \in 0..MaxLapses /\ 0 \in Nat
    BY FirstStepType, BoundsAreNatural
  <2> QED BY <2>1, <2>2, <2>3, FirstStepType DEF WatchInit, WatchTypeOK
<1>2. Remembered
  BY DEF WatchInit, Remembered
<1> QED BY <1>1, <1>2 DEF WatchInit, WatchInv, Lapses, RejectedTwice

\* What a step of the watch that reports leaves to show of the counters.
LEMMA ReportStep ==
    ASSUME WatchInv, NEW rows, DOMAIN rows \subseteq Watched, rows \in [DOMAIN rows -> Times],
           \A p \in DOMAIN rows: seen[p] <= rows[p] /\ rows[p] <= changed[p],
           stage # "start" \/ \A p \in DOMAIN rows: rows[p] > 0,
           Report(rows), UNCHANGED payments, readAt' \in {readAt, clock}, stage # "ended",
           delay' \in Nat, backoff' \in 1..WatchCeiling, reauthorized' \in BOOLEAN,
           accepted' \in BOOLEAN, revoked' \in BOOLEAN, fails' \in 0..MaxFails,
           lapses' \in 0..MaxLapses,
           ~accepted' => lapses' >= 1,
           reauthorized' => lapses' >= 1,
           reauthorized' /\ ~accepted' => revoked' \/ lapses' >= 2
    PROVE  WatchInv' /\ \A e \in event': e.state > written[e.id]
<1>1. /\ seen' \in [Watched -> Times] /\ written' \in [Watched -> Times]
      /\ \E r \in SUBSET Watched: page' \in [r -> Times]
      /\ event' \subseteq [id: Watched, state: Times, change: Changes, since: Times]
      /\ stage' \in {"wait", "ended"}
      /\ ending' \in {"none", "stopped", "output", "error", "credential", "rejected"}
      /\ ending' # "none" => stage' = "ended" /\ ending' # "rejected"
      /\ Remembered'
      /\ \A e \in event': e.state > written[e.id]
  BY ReportKeeps
<1>2. WatchTypeOK'
  BY <1>1 DEF WatchInv, WatchTypeOK, payments
<1>3. Lapses' /\ RejectedTwice'
  BY <1>1 DEF Lapses, RejectedTwice
<1> QED BY <1>1, <1>2, <1>3 DEF WatchInv

\* Any other step writes nothing.
LEMMA QuietStep ==
    ASSUME WatchInv, UNCHANGED <<seen, page, delay, backoff, reauthorized, written, readAt, fails>>,
           UNCHANGED <<event>> \/ event' = {},
           clock' \in Times, clock <= clock',
           changed' \in [Watched -> Times], created' \in [Watched -> Times],
           \A p \in Watched: changed[p] <= changed'[p] /\ changed'[p] <= clock',
           accepted' \in BOOLEAN, revoked' \in BOOLEAN, lapses' \in 0..MaxLapses,
           stage' \in {stage, "resolve", "ended"}, stage' = "start" => stage = "start",
           stage = "ended" => stage' = "ended",
           ending' \in {"none", "stopped", "output", "error", "credential", "rejected"},
           Lapses', RejectedTwice'
    PROVE  WatchInv'
<1>1. WatchTypeOK'
  <2>1. stage' \in {"start", "wait", "resolve", "ended"}
    BY DEF WatchInv, WatchTypeOK
  <2>2. event' \subseteq [id: Watched, state: Times, change: Changes, since: Times]
    BY DEF WatchInv, WatchTypeOK
  <2> QED BY <2>1, <2>2 DEF WatchInv, WatchTypeOK
<1>2. ASSUME NEW p \in Watched PROVE written[p] <= seen[p] /\ seen[p] <= changed'[p]
  BY DEF WatchInv, WatchTypeOK, Remembered, Times
<1>3. readAt <= clock'
  BY DEF WatchInv, WatchTypeOK, Remembered, Times
<1>4. Remembered'
  BY <1>2, <1>3 DEF WatchInv, Remembered
<1> QED BY <1>1, <1>4 DEF WatchInv

LEMMA InvStep == WatchInv /\ [WatchNext]_watchVars => WatchInv' /\ (WatchNext => \A e \in event': e.state > written[e.id])
<1> SUFFICES ASSUME WatchInv, [WatchNext]_watchVars
             PROVE  WatchInv' /\ (WatchNext => \A e \in event': e.state > written[e.id])
  OBVIOUS
<1> USE DEF watch, payments, credential, history
<1>0. WatchTypeOK /\ Remembered /\ Lapses /\ RejectedTwice
  BY DEF WatchInv
<1>1. CASE Begin \/ Refresh
  <2>1. delay' \in Nat /\ backoff' \in 1..WatchCeiling /\ fails' = 0 /\ reauthorized' = FALSE
        /\ lapses' = 0 /\ readAt' = clock /\ UNCHANGED <<accepted, revoked>> /\ accepted
    BY <1>1, FirstStepType, PausesAreNatural DEF Begin, Refresh, Read
  <2> HIDE DEF payments
  <2>2. accepted' \in BOOLEAN /\ revoked' \in BOOLEAN /\ accepted' = TRUE
    BY <1>0, <2>1 DEF WatchTypeOK
  <2>3. fails' \in 0..MaxFails /\ lapses' \in 0..MaxLapses /\ reauthorized' \in BOOLEAN
    <3>1. 0 \in 0..MaxFails /\ 0 \in 0..MaxLapses
      BY BoundsAreNatural
    <3> QED BY <2>1, <3>1
  <2>4. WatchInv' /\ \A e \in event': e.state > written[e.id]
    BY <1>1, <2>1, <2>2, <2>3, ReadReports, ReportStep
  <2> QED BY <2>4
<1>2. CASE Reauthorize \/ FailRead
  <2> HIDE DEF payments
  <2>1. /\ reauthorized' \in BOOLEAN /\ accepted' \in BOOLEAN
        /\ UNCHANGED <<revoked, lapses>>
        /\ ~accepted' => lapses >= 1
        /\ reauthorized' => lapses >= 1
        /\ reauthorized' /\ ~accepted' => revoked \/ lapses >= 2
    <3>1. CASE Reauthorize
      BY <1>0, <3>1 DEF Reauthorize, WatchTypeOK, Lapses
    <3>2. CASE FailRead
      BY <1>0, <3>2 DEF FailRead, WatchTypeOK, Lapses
    <3> QED BY <1>2, <3>1, <3>2
  <2>2. delay' \in Nat /\ backoff' \in 1..WatchCeiling /\ fails' \in 0..MaxFails
    <3>1. CASE Reauthorize
      BY <1>0, <3>1 DEF Reauthorize, WatchTypeOK
    <3>2. ASSUME delay' \in WatchHints, UNCHANGED <<backoff, fails>>
          PROVE  delay' \in Nat /\ backoff' \in 1..WatchCeiling /\ fails' \in 0..MaxFails
      BY <1>0, <3>2, PausesAreNatural DEF WatchTypeOK
    <3>3. ASSUME NEW jitter \in 0..(backoff \div 2), delay' = (backoff \div 2) + jitter,
                 backoff' = Smaller(2 * backoff, WatchCeiling), fails < MaxFails, fails' = fails + 1
          PROVE  delay' \in Nat /\ backoff' \in 1..WatchCeiling /\ fails' \in 0..MaxFails
      <4>1. backoff \div 2 \in Nat /\ 2 * backoff \in Nat /\ 2 * backoff >= 1
        BY <1>0, PausesAreNatural DEF WatchTypeOK
      <4> QED BY <1>0, <3>3, <4>1, PausesAreNatural, BoundsAreNatural DEF WatchTypeOK, Smaller
    <3> QED BY <1>2, <3>1, <3>2, <3>3 DEF FailRead
  <2>3. WatchInv' /\ \A e \in event': e.state > written[e.id]
    BY <1>0, <1>2, <2>1, <2>2, RereadReports, ReportStep DEF WatchTypeOK
  <2> QED BY <2>3
<1>3. CASE Reject \/ Finish
  <2>1. /\ UNCHANGED <<seen, page, delay, backoff, reauthorized, clock, changed, created,
                       accepted, revoked, lapses, written, readAt, fails>> /\ event' = {}
        /\ stage \in {"wait", "resolve"} /\ stage' \in {"resolve", "ended"}
    BY <1>3 DEF Reject, Finish, End
  <2>2. /\ ending' \in {"none", "stopped", "output", "error", "credential", "rejected"}
        /\ Lapses' /\ RejectedTwice'
    <3>1. CASE Reject
      BY <1>0, <3>1 DEF Reject, WatchTypeOK, Lapses, RejectedTwice
    <3>2. CASE Finish
      BY <1>0, <2>1, <3>2 DEF Finish, End, Lapses, RejectedTwice
    <3> QED BY <1>3, <3>1, <3>2
  <2>3. \A p \in Watched: changed[p] <= changed[p] /\ changed[p] <= clock
    BY <1>0 DEF WatchTypeOK, Remembered, Times
  <2>4. clock \in Times /\ clock <= clock
    BY <1>0 DEF WatchTypeOK, Times
  <2>5. WatchInv'
    BY <1>0, <2>1, <2>2, <2>3, <2>4, QuietStep DEF WatchTypeOK
  <2> QED BY <2>1, <2>5
<1>4. CASE Lapse
  <2>1. /\ UNCHANGED <<seen, page, delay, backoff, reauthorized, clock, changed, created,
                       written, readAt, fails, stage, ending>> /\ event' = {}
        /\ accepted' = FALSE /\ lapses' = lapses + 1 /\ lapses < MaxLapses
        /\ revoked' \in {revoked, TRUE}
    BY <1>4 DEF Lapse
  <2>2. /\ lapses' \in 0..MaxLapses
        /\ lapses' >= 1 /\ (lapses >= 1 => lapses' >= 2) /\ (lapses >= 2 => lapses' >= 2)
    BY <1>0, <2>1, BoundsAreNatural DEF WatchTypeOK
  <2>3. revoked' \in BOOLEAN /\ (revoked => revoked')
    <3>1. revoked \in BOOLEAN
      BY <1>0 DEF WatchTypeOK
    <3>2. CASE revoked' = revoked
      BY <3>1, <3>2
    <3>3. CASE revoked' = TRUE
      BY <3>3
    <3> QED BY <2>1, <3>2, <3>3
  <2>4. Lapses' /\ RejectedTwice'
    BY <1>0, <2>1, <2>2, <2>3 DEF Lapses, RejectedTwice
  <2>5. \A p \in Watched: changed[p] <= changed[p] /\ changed[p] <= clock
    BY <1>0 DEF WatchTypeOK, Remembered, Times
  <2>6. clock \in Times /\ clock <= clock
    BY <1>0 DEF WatchTypeOK, Times
  <2>7. WatchInv'
    BY <1>0, <2>1, <2>2, <2>3, <2>4, <2>5, <2>6, QuietStep DEF WatchTypeOK
  <2> QED BY <2>1, <2>7
<1>5. ASSUME NEW p \in Watched, ChangePayment(p)
      PROVE  WatchInv' /\ \A e \in event': e.state > written[e.id]
  <2>1. /\ UNCHANGED <<seen, page, delay, backoff, reauthorized, written, readAt, fails, stage, ending,
                       accepted, revoked, lapses>> /\ event' = {}
        /\ clock' = clock + 1 /\ clock < MaxClock /\ changed' = [changed EXCEPT ![p] = clock']
        /\ created' \in {created, [created EXCEPT ![p] = clock']}
    BY <1>5 DEF ChangePayment
  <2>2. clock' \in Times /\ clock <= clock'
    BY <1>0, <2>1, BoundsAreNatural DEF WatchTypeOK, Times
  <2>3. changed' \in [Watched -> Times] /\ created' \in [Watched -> Times]
    BY <1>0, <2>1, <2>2 DEF WatchTypeOK
  <2>4. ASSUME NEW q \in Watched PROVE changed[q] <= changed'[q] /\ changed'[q] <= clock'
    BY <1>0, <2>1, <2>2 DEF WatchTypeOK, Remembered, Times
  <2>5. Lapses' /\ RejectedTwice'
    BY <1>0, <2>1 DEF Lapses, RejectedTwice
  <2>6. WatchInv'
    BY <1>0, <2>1, <2>2, <2>3, <2>4, <2>5, QuietStep DEF WatchTypeOK
  <2> QED BY <2>1, <2>6
<1>6. CASE UNCHANGED watchVars /\ ~WatchNext
  BY <1>6 DEF watchVars, WatchInv, WatchTypeOK, Remembered, Lapses, RejectedTwice
<1> QED BY <1>1, <1>2, <1>3, <1>4, <1>5, <1>6 DEF WatchNext

LEMMA WatchInvariance == WatchSpec => []WatchInv
<1>1. WatchInv /\ [WatchNext]_watchVars => WatchInv'
  BY InvStep
<1> QED BY <1>1, InvInit, PTL DEF WatchSpec

-----------------------------------------------------------------------------
(* Theorems *)

\* The watch's state, what it wrote and the service's state have their types.
THEOREM WatchTypeCorrect == WatchSpec => []WatchTypeOK
<1>1. WatchInv => WatchTypeOK
  BY DEF WatchInv
<1> QED BY <1>1, WatchInvariance, PTL

\* Whatever fails, however often the loop goes over an old page, no state of a payment is
\* written twice or out of order (Seen::update).
THEOREM NeverRepeats == WatchSpec => ReportedOnce
<1>1. WatchInv /\ [WatchNext]_watchVars => [\A e \in event': e.state > written[e.id]]_watchVars
  BY InvStep
<1> QED BY <1>1, WatchInvariance, PTL DEF WatchSpec, ReportedOnce

\* A watch survives the expiry of an organization token (Call::watch, 401).
THEOREM SurvivesExpiry == WatchSpec => []RejectedTwice
<1>1. WatchInv => RejectedTwice
  BY DEF WatchInv
<1> QED BY <1>1, WatchInvariance, PTL

\* A payment that changed since the last read and is not on the page was pushed off it by
\* at least a page of later changes.
LEMMA PushedOff ==
    ASSUME WatchInv, NEW p \in Watched, changed[p] > readAt, p \notin Listed
    PROVE  Cardinality({q \in Watched : changed[q] > readAt}) > PageSize
<1> DEFINE later == {q \in Watched : changed[q] > changed[p]}
           since == {q \in Watched : changed[q] > readAt}
<1>1. /\ changed[p] \in Nat /\ readAt \in Nat /\ \A q \in Watched: changed[q] \in Nat
      /\ ~(Cardinality(later) < PageSize)
  BY DEF WatchInv, WatchTypeOK, Listed, Times
<1>2. IsFiniteSet(later) /\ IsFiniteSet(since) /\ later \subseteq Watched /\ since \subseteq Watched
  BY PaymentsAreFinite, FS_Subset
<1>3. p \notin later /\ later \cup {p} \subseteq since
  BY <1>1
<1> HIDE DEF later, since
<1>4. IsFiniteSet(later \cup {p}) /\ Cardinality(later \cup {p}) = Cardinality(later) + 1
  BY <1>2, <1>3, FS_AddElement
<1>5. Cardinality(later \cup {p}) <= Cardinality(since)
  BY <1>2, <1>3, FS_Subset
<1>6. Cardinality(later) \in Nat /\ Cardinality(since) \in Nat
  BY <1>2, FS_CardinalityType
<1>7. Cardinality(since) > PageSize
  BY <1>1, <1>4, <1>5, <1>6, PageHoldsRows
<1> QED BY <1>7 DEF since

\* With any page size, a refresh writes every change since the one before it unless there
\* are more of them than a page holds (guides/payments.md, Watch payments).
THEOREM ChangesReported == WatchSpec => MissesOnlyOverflow
<1>1. ASSUME WatchInv, WatchNext, stage # "start", readAt' # readAt, stage' # "ended",
             NEW p \in Watched, changed[p] > readAt
      PROVE  written'[p] = changed[p] \/ Cardinality({q \in Watched : changed[q] > readAt}) > PageSize
  <2>1. Refresh
    BY <1>1 DEF WatchNext, Begin, Reject, Reauthorize, FailRead, Finish, Lapse, ChangePayment
  <2>2. CASE p \in Listed
    <3>1. /\ Page[p] = changed[p] /\ DOMAIN Page \subseteq Watched /\ DOMAIN Page = Listed
          /\ Page \in [DOMAIN Page -> Times] /\ WatchTypeOK
      BY <1>1, <2>2, PageType DEF WatchInv
    <3>2. Write(Updates(Page))
      BY <1>1, <2>1 DEF Refresh, Read, Report, End
    <3>3. IF \E e \in Updates(Page): e.id = p THEN written'[p] = Page[p] ELSE written'[p] = written[p]
      BY <3>1, <3>2, WriteType
    <3>4. CASE seen[p] = changed[p]
      <4>1. written[p] = changed[p]
        BY <1>1, <2>1, <3>4 DEF WatchInv, Remembered, Refresh
      <4> QED BY <3>1, <3>3, <4>1
    <3>5. CASE seen[p] # changed[p]
      <4>1. \E e \in Updates(Page): e.id = p
        BY <2>2, <3>1, <3>5, UpdatesHere
      <4> QED BY <3>1, <3>3, <4>1
    <3> QED BY <3>4, <3>5
  <2>3. CASE p \notin Listed
    BY <1>1, <2>3, PushedOff
  <2> QED BY <2>2, <2>3
<1>2. WatchInv /\ [WatchNext]_watchVars =>
        [stage # "start" /\ readAt' # readAt /\ stage' # "ended" =>
            \A p \in Watched: changed[p] > readAt =>
                written'[p] = changed[p]
                  \/ Cardinality({q \in Watched : changed[q] > readAt}) > PageSize]_watchVars
  BY <1>1
<1> QED BY <1>2, WatchInvariance, PTL DEF WatchSpec, MissesOnlyOverflow

=============================================================================
