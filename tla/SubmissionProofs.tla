-------------------------- MODULE SubmissionProofs --------------------------
(***************************************************************************)
(* Proofs about Submission for any number of runs, IDs, requests and       *)
(* commands, and any timeout.                                              *)
(***************************************************************************)
EXTENDS Submission, TLAPS

LEMMA PlanFields ==
    ASSUME TypeOK, NEW r \in Runs
    PROVE  /\ plan[r].id \in Ids
           /\ plan[r].request \in Requests
           /\ plan[r].kind \in Kinds
           /\ plan[r].wait \in Targets
BY PlansAreInvocations DEF TypeOK, AllPlans

\* What any step does to the location and the report of its run.
Moves(r) ==
    \/ \E l \in Locations: Goto(r, l)
    \/ \E exit \in ExitCodes, claim \in Claims: Finish(r, exit, claim)

ReportsOK ==
    /\ pc \in [Runs -> Locations]
    /\ report \in [Runs -> [exit: ExitCodes, claim: Claims]]

LEMMA MovesType ==
    ASSUME TypeOK, NEW r \in Runs, Moves(r)
    PROVE  ReportsOK'
<1>1. CASE \E l \in Locations: Goto(r, l)
  BY <1>1 DEF TypeOK, ReportsOK, Goto
<1>2. CASE \E exit \in ExitCodes, claim \in Claims: Finish(r, exit, claim)
  <2>1. PICK exit \in ExitCodes, claim \in Claims: Finish(r, exit, claim)
    BY <1>2
  <2>2. "over" \in Locations
    BY DEF Locations
  <2> QED BY <2>1, <2>2 DEF TypeOK, ReportsOK, Finish
<1> QED BY <1>1, <1>2 DEF Moves

LEMMA TypeInit == Init => TypeOK
BY TicksAreNatural DEF Init, TypeOK, Locations, Statuses, ExitCodes, Claims

LEMMA TypeStep == TypeOK /\ [Next]_vars => TypeOK'
<1> SUFFICES ASSUME TypeOK, [Next]_vars PROVE TypeOK'
  OBVIOUS
<1> USE DEF local, journalFiles, service
<1>1. ASSUME NEW r \in Runs, Start(r) PROVE TypeOK'
  <2>1. ReportsOK'
    BY <1>1, MovesType DEF Start, Locations, ExitCodes, Claims, Moves
  <2> QED BY <1>1, <2>1 DEF Start, TypeOK, ReportsOK
<1>2. ASSUME NEW r \in Runs, Authorize(r) PROVE TypeOK'
  <2>1. plan[r].kind \in Kinds
    BY PlanFields
  <2>2. \/ \E exit \in {1, 2, 3, 4}: Finish(r, exit, "notsent")
        \/ \E l \in Locations: Goto(r, l)
    BY <1>2, <2>1 DEF Authorize, Mutates, Verifies, Journals, Kinds, Locations
  <2>3. ReportsOK'
    BY <2>2, MovesType DEF ExitCodes, Claims, Locations, Moves
  <2> QED BY <1>2, <2>3 DEF Authorize, TypeOK, ReportsOK
<1>3. ASSUME NEW r \in Runs, FirstRead(r) PROVE TypeOK'
  <2>1. AfterResponse(r) \in Locations
    BY DEF AfterResponse, Locations
  <2>2. ReportsOK'
    BY <1>3, <2>1, MovesType DEF FirstRead, ReadFails, ExitCodes, Claims, Locations, Moves
  <2>3. view' \in [Runs -> Statuses]
    <3>1. projected[plan[r].id] \in Statuses
      BY PlanFields DEF TypeOK
    <3> QED BY <1>3, <3>1 DEF FirstRead, TypeOK
  <2> QED BY <1>3, <2>2, <2>3 DEF FirstRead, TypeOK, ReportsOK
<1>4. ASSUME NEW r \in Runs, VerifyWalletEnvironment(r) PROVE TypeOK'
  <2>1. ReportsOK'
    BY <1>4, MovesType DEF VerifyWalletEnvironment, ReadFails, Locations, ExitCodes, Claims, Moves
  <2> QED BY <1>4, <2>1 DEF VerifyWalletEnvironment, TypeOK, ReportsOK
<1>5. ASSUME NEW r \in Runs, JournalCheck(r) PROVE TypeOK'
  <2>1. ReportsOK'
    BY <1>5, MovesType DEF JournalCheck, Locations, ExitCodes, Claims, Moves
  <2> QED BY <1>5, <2>1 DEF JournalCheck, TypeOK, ReportsOK
<1>6. ASSUME NEW r \in Runs, JournalCompare(r) PROVE TypeOK'
  <2>1. ReportsOK'
    BY <1>6, MovesType DEF JournalCompare, Locations, ExitCodes, Claims, Moves
  <2> QED BY <1>6, <2>1 DEF JournalCompare, TypeOK, ReportsOK
<1>7. ASSUME NEW r \in Runs, JournalCreate(r) PROVE TypeOK'
  <2>1. ReportsOK'
    BY <1>7, MovesType DEF JournalCreate, Locations, ExitCodes, Claims, Moves
  <2> QED BY <1>7, <2>1, PlanFields DEF JournalCreate, TypeOK, ReportsOK
<1>8. ASSUME NEW r \in Runs, JournalWrite(r) PROVE TypeOK'
  <2>1. ReportsOK'
    BY <1>8, MovesType DEF JournalWrite, Locations, ExitCodes, Claims, Moves
  <2> QED BY <1>8, <2>1, PlanFields DEF JournalWrite, TypeOK, ReportsOK
<1>9. ASSUME NEW r \in Runs, JournalSync(r) PROVE TypeOK'
  <2>1. ReportsOK'
    BY <1>9, MovesType DEF JournalSync, Locations, ExitCodes, Claims, Moves
  <2> QED BY <1>9, <2>1, PlanFields DEF JournalSync, TypeOK, ReportsOK
<1>10. ASSUME NEW r \in Runs, Send(r) PROVE TypeOK'
  <2>1. ReportsOK'
    BY <1>10, MovesType DEF Send, Locations, ExitCodes, Claims, Moves
  <2> QED BY <1>10, <2>1 DEF Send, TypeOK, ReportsOK
<1>11. ASSUME NEW r \in Runs, Answer(r) PROVE TypeOK'
  <2>1. AfterResponse(r) \in Locations
    BY DEF AfterResponse, Locations
  <2>2. ReportsOK'
    BY <1>11, <2>1, MovesType DEF Answer, AnswerAccepted, AnswerRefused, AnswerLost, Locations, ExitCodes, Claims, Moves
  <2>3. view' \in [Runs -> Statuses]
    BY <1>11 DEF Answer, AnswerAccepted, AnswerRefused, AnswerLost, TypeOK, Statuses
  <2>4. budget' \in [Runs -> 0..Timeout]
    <3>1. PICK left \in 0..budget[r] : budget' = [budget EXCEPT ![r] = left]
      BY <1>11 DEF Answer
    <3>2. left \in 0..Timeout
      BY <3>1, TicksAreNatural DEF TypeOK
    <3> QED BY <3>1, <3>2 DEF TypeOK
  <2> QED BY <1>11, <2>2, <2>3, <2>4 DEF Answer, TypeOK, ReportsOK
<1>12. ASSUME NEW r \in Runs, ReconcilePayment(r) PROVE TypeOK'
  <2>1. AfterResponse(r) \in Locations
    BY DEF AfterResponse, Locations
  <2>2. ReportsOK'
    BY <1>12, <2>1, MovesType DEF ReconcilePayment, ExitCodes, Claims, Locations, Moves
  <2>3. projected[plan[r].id] \in Statuses
    BY PlanFields DEF TypeOK
  <2> QED BY <1>12, <2>2, <2>3 DEF ReconcilePayment, TypeOK, ReportsOK
<1>13. ASSUME NEW r \in Runs, Settle(r) PROVE TypeOK'
  <2>1. ReportsOK'
    BY <1>13, MovesType DEF Settle, ExitCodes, Claims, Locations, Moves
  <2> QED BY <1>13, <2>1 DEF Settle, TypeOK, ReportsOK
<1>14. ASSUME NEW r \in Runs, Look(r) PROVE TypeOK'
  <2>1. ReportsOK'
    BY <1>14, MovesType DEF Look, Locations, ExitCodes, Claims, Moves
  <2>2. budget' \in [Runs -> 0..Timeout]
    <3>1. CASE UNCHANGED budget
      BY <3>1 DEF TypeOK
    <3>2. CASE \E pause \in 1..MaxPause: pause < budget[r]
                   /\ budget' = [budget EXCEPT ![r] = @ - pause]
      <4>1. PICK pause \in 1..MaxPause: pause < budget[r]
                   /\ budget' = [budget EXCEPT ![r] = @ - pause]
        BY <3>2
      <4>2. budget[r] - pause \in 0..Timeout
        BY <4>1, TicksAreNatural DEF TypeOK
      <4> QED BY <4>1, <4>2 DEF TypeOK
    <3> QED BY <1>14, <3>1, <3>2 DEF Look
  <2> QED BY <1>14, <2>1, <2>2 DEF Look, TypeOK, ReportsOK
<1>15. ASSUME NEW r \in Runs, Poll(r) PROVE TypeOK'
  <2>1. ReportsOK'
    BY <1>15, MovesType DEF Poll, ReadFails, Locations, ExitCodes, Claims, Moves
  <2>2. projected[plan[r].id] \in Statuses
    BY PlanFields DEF TypeOK
  <2> QED BY <1>15, <2>1, <2>2 DEF Poll, TypeOK, ReportsOK
<1>16. ASSUME NEW r \in Runs, Interrupt(r) PROVE TypeOK'
  <2>1. ReportsOK'
    BY <1>16, MovesType DEF Interrupt, ExitCodes, Claims, Locations, Moves
  <2> QED BY <1>16, <2>1 DEF Interrupt, TypeOK, ReportsOK
<1>17. ASSUME NEW r \in Runs, Kill(r) PROVE TypeOK'
  BY <1>17 DEF Kill, TypeOK, Locations, Goto, Finish, ExitCodes, Claims
<1>18. ASSUME NEW r \in Runs, Deliver(r) PROVE TypeOK'
  BY <1>18, PlanFields DEF Deliver, TypeOK, Statuses
<1>19. ASSUME NEW id \in Ids, Advance(id) PROVE TypeOK'
  BY <1>19 DEF Advance, TypeOK, Statuses, Final
<1>20. ASSUME NEW id \in Ids, Project(id) PROVE TypeOK'
  BY <1>20 DEF Project, TypeOK
<1>21. CASE PowerLoss
  BY <1>21 DEF PowerLoss, TypeOK, Locations, Goto, Finish, ExitCodes, Claims
<1>22. CASE UNCHANGED vars
  BY <1>22 DEF vars, TypeOK
<1> QED
  BY <1>1, <1>2, <1>3, <1>4, <1>5, <1>6, <1>7, <1>8, <1>9, <1>10, <1>11, <1>12, <1>13,
     <1>14, <1>15, <1>16, <1>17, <1>18, <1>19, <1>20, <1>21, <1>22
  DEF Next, Step

\* Every variable keeps its type (see TypeOK).
THEOREM TypeCorrect == Spec => []TypeOK
BY TypeInit, TypeStep, PTL DEF Spec

-----------------------------------------------------------------------------
(* The journal *)

BeforeSending ==
    {"start", "authorize", "first", "verify", "check", "compare", "create", "write",
     "sync", "send"}

\* SubmissionState tells exactly the runs whose request left.
SubmittedIsSent == \A r \in Runs: r \in submitted <=> Sent(r)

NotYetSent == \A r \in Runs: pc[r] \in BeforeSending => ~Sent(r)

\* What a run knows of the journal file at each of its steps.
Journaling ==
    \A r \in Runs:
        /\ pc[r] \in {"check", "compare", "create", "write", "sync"} => Journals(plan[r])
        /\ pc[r] = "verify" => ~Journals(plan[r])
        /\ pc[r] = "write" => disk[plan[r].id] = Torn
        /\ pc[r] = "sync" => disk[plan[r].id] = plan[r].request
        /\ pc[r] = "send" /\ Journals(plan[r]) => disk[plan[r].id] = plan[r].request

\* O_EXCL leaves one run writing the file of an ID.
OneWriter ==
    \A r, s \in Runs:
        pc[r] = "write" /\ pc[s] = "write" /\ plan[r].id = plan[s].id => r = s

\* Power failures lose files (see PowerLoss).
Recorded == ~PowerFails => RecoveryRecordFirst

UnsentReports ==
    \A r \in Runs: report[r].claim = "notsent" => pc[r] = "over" /\ ~Sent(r)

IInv ==
    /\ TypeOK
    /\ Recorded
    /\ SubmittedIsSent
    /\ NotYetSent
    /\ Journaling
    /\ OneWriter
    /\ UnsentReports

LEMMA IInvInit == Init => IInv
<1> SUFFICES ASSUME Init PROVE IInv
  OBVIOUS
<1>1. TypeOK
  BY TypeInit
<1>2. \A r \in Runs: pc[r] = "start" /\ post[r] = "unsent" /\ report[r].claim = "none"
  BY DEF Init
<1>3. submitted = {}
  BY DEF Init
<1> QED
  BY <1>1, <1>2, <1>3
  DEF IInv, Recorded, RecoveryRecordFirst, SubmittedIsSent, NotYetSent, Journaling,
      OneWriter, UnsentReports, Sent

\* A step of r to location l that neither writes the journal nor sends.
Quiet(r, l, rep) ==
    /\ UNCHANGED <<plan, disk, post, submitted>>
    /\ pc' = [pc EXCEPT ![r] = l]
    /\ report' = [report EXCEPT ![r] = rep]
    /\ l \in BeforeSending => ~Sent(r)
    /\ l \in {"check", "compare", "create"} => Journals(plan[r])
    /\ l = "verify" => ~Journals(plan[r])
    /\ l \notin {"write", "sync"}
    /\ l = "send" /\ Journals(plan[r]) => disk[plan[r].id] = plan[r].request
    /\ rep.claim = "notsent" => l = "over" /\ ~Sent(r)

LEMMA QuietKeeps ==
    ASSUME IInv, NEW r \in Runs, NEW l, NEW rep, Quiet(r, l, rep)
    PROVE  /\ Recorded' /\ SubmittedIsSent' /\ NotYetSent'
           /\ Journaling' /\ OneWriter' /\ UnsentReports'
<1>1. /\ pc' = [pc EXCEPT ![r] = l] /\ DOMAIN pc = Runs
      /\ report' = [report EXCEPT ![r] = rep] /\ DOMAIN report = Runs
      /\ \A s \in Runs: (Sent(s))' <=> Sent(s)
      /\ plan' = plan /\ disk' = disk /\ submitted' = submitted
  BY DEF Quiet, IInv, TypeOK, Sent
<1>2. Recorded' /\ SubmittedIsSent'
  BY <1>1 DEF IInv, Recorded, RecoveryRecordFirst, SubmittedIsSent, Journals
<1>3. NotYetSent'
  BY <1>1 DEF IInv, NotYetSent, Quiet
<1>4. Journaling'
  BY <1>1 DEF IInv, Journaling, Quiet, Journals
<1>5. OneWriter'
  BY <1>1 DEF IInv, OneWriter, Quiet
<1>6. UnsentReports'
  BY <1>1 DEF IInv, UnsentReports, Quiet
<1> QED BY <1>2, <1>3, <1>4, <1>5, <1>6

LEMMA GotoQuiet ==
    ASSUME IInv, NEW r \in Runs, NEW l, Goto(r, l), pc[r] # "over",
           UNCHANGED <<plan, disk, post, submitted>>,
           l \in BeforeSending => ~Sent(r),
           l \in {"check", "compare", "create"} => Journals(plan[r]),
           l = "verify" => ~Journals(plan[r]),
           l \notin {"write", "sync"},
           l = "send" /\ Journals(plan[r]) => disk[plan[r].id] = plan[r].request
    PROVE  \E rep: Quiet(r, l, rep)
<1>1. report[r].claim # "notsent"
  BY DEF IInv, UnsentReports
<1>2. report' = [report EXCEPT ![r] = report[r]]
  BY DEF Goto, IInv, TypeOK
<1>3. Quiet(r, l, report[r])
  BY <1>1, <1>2 DEF Quiet, Goto
<1> QED BY <1>3

LEMMA FinishQuiet ==
    ASSUME IInv, NEW r \in Runs, NEW exit, NEW claim, Finish(r, exit, claim),
           UNCHANGED <<plan, disk, post, submitted>>,
           claim = "notsent" => ~Sent(r)
    PROVE  \E rep: Quiet(r, "over", rep)
<1>1. Quiet(r, "over", [exit |-> exit, claim |-> claim])
  BY DEF Quiet, Finish, BeforeSending
<1> QED BY <1>1

\* One step per action: the reads and reports are Quiet, the journal's file operations and
\* the submission are argued on their own.
LEMMA IInvStep ==
    ASSUME IInv, [Next]_vars
    PROVE  IInv'
<1> USE DEF local, journalFiles, service
<1>0. TypeOK /\ TypeOK'
  BY TypeStep DEF IInv
<1> DEFINE Rest == /\ Recorded /\ SubmittedIsSent /\ NotYetSent
                   /\ Journaling /\ OneWriter /\ UnsentReports
<1> SUFFICES Rest'
  BY <1>0 DEF IInv
<1> DEFINE AQuiet(r) == \E l, rep: Quiet(r, l, rep)
<1>q. ASSUME NEW r \in Runs, AQuiet(r) PROVE Rest'
  BY <1>q, QuietKeeps
<1>u. ASSUME NEW r \in Runs, pc[r] \in BeforeSending PROVE ~Sent(r) /\ pc[r] # "over"
  BY <1>u DEF IInv, NotYetSent, BeforeSending
<1> HIDE DEF AQuiet, Rest
<1>1. ASSUME NEW r \in Runs, Start(r) PROVE Rest'
  <2>1. ~Sent(r) /\ pc[r] # "over"
    BY <1>1, <1>u DEF Start, BeforeSending
  <2>2. UNCHANGED <<plan, disk, post, submitted>>
    BY <1>1 DEF Start
  <2>3. \/ Finish(r, 2, "notsent") \/ Finish(r, 6, "notsent") \/ Goto(r, "authorize")
    BY <1>1 DEF Start
  <2> QED BY <1>q, <2>1, <2>2, <2>3, GotoQuiet, FinishQuiet DEF AQuiet
<1>2. ASSUME NEW r \in Runs, Authorize(r) PROVE Rest'
  <2>1. ~Sent(r) /\ pc[r] # "over"
    BY <1>2, <1>u DEF Authorize, BeforeSending
  <2>2. UNCHANGED <<plan, disk, post, submitted>>
    BY <1>2 DEF Authorize
  <2>3. \/ \E exit: Finish(r, exit, "notsent")
        \/ Goto(r, "first")
        \/ ~Journals(plan[r]) /\ Goto(r, "verify")
        \/ Journals(plan[r]) /\ Goto(r, "check")
    BY <1>2 DEF Authorize, Verifies, Journals
  <2> QED BY <1>q, <2>1, <2>2, <2>3, GotoQuiet, FinishQuiet DEF AQuiet
<1>3. ASSUME NEW r \in Runs, FirstRead(r) PROVE Rest'
  <2>1. ~Sent(r) /\ pc[r] # "over"
    BY <1>3, <1>u DEF FirstRead, BeforeSending
  <2>2. UNCHANGED <<plan, disk, post, submitted>>
    BY <1>3 DEF FirstRead
  <2>3. (\E exit: Finish(r, exit, "notsent")) \/ Goto(r, "look") \/ Goto(r, "settle")
    BY <1>3 DEF FirstRead, ReadFails, AfterResponse
  <2> QED BY <1>q, <2>1, <2>2, <2>3, GotoQuiet, FinishQuiet DEF AQuiet
<1>4. ASSUME NEW r \in Runs, VerifyWalletEnvironment(r) PROVE Rest'
  <2>1. ~Sent(r) /\ pc[r] # "over"
    BY <1>4, <1>u DEF VerifyWalletEnvironment, BeforeSending
  <2>2. UNCHANGED <<plan, disk, post, submitted>>
    BY <1>4 DEF VerifyWalletEnvironment
  <2>3. (\E exit: Finish(r, exit, "notsent")) \/ Goto(r, "send")
    BY <1>4 DEF VerifyWalletEnvironment, ReadFails
  <2>4. ~Journals(plan[r])
    BY <1>4 DEF VerifyWalletEnvironment, IInv, Journaling
  <2> QED BY <1>q, <2>1, <2>2, <2>3, <2>4, GotoQuiet, FinishQuiet DEF AQuiet
<1>5. ASSUME NEW r \in Runs, JournalCheck(r) PROVE Rest'
  <2>1. ~Sent(r) /\ pc[r] # "over"
    BY <1>5, <1>u DEF JournalCheck, BeforeSending
  <2>2. UNCHANGED <<plan, disk, post, submitted>>
    BY <1>5 DEF JournalCheck
  <2>3. Journals(plan[r])
    BY <1>5 DEF JournalCheck, IInv, Journaling
  <2>4. Goto(r, "create") \/ Goto(r, "compare")
    BY <1>5 DEF JournalCheck
  <2> QED BY <1>q, <2>1, <2>2, <2>3, <2>4, GotoQuiet DEF AQuiet
<1>6. ASSUME NEW r \in Runs, JournalCompare(r) PROVE Rest'
  <2>1. ~Sent(r) /\ pc[r] # "over"
    BY <1>6, <1>u DEF JournalCompare, BeforeSending
  <2>2. UNCHANGED <<plan, disk, post, submitted>>
    BY <1>6 DEF JournalCompare
  <2>3. \/ disk[plan[r].id] = plan[r].request /\ Goto(r, "send")
        \/ Finish(r, 2, "notsent")
    BY <1>6 DEF JournalCompare
  <2> QED BY <1>q, <2>1, <2>2, <2>3, GotoQuiet, FinishQuiet DEF AQuiet
<1>7. ASSUME NEW r \in Runs, JournalCreate(r) PROVE Rest'
  <2>1. ~Sent(r) /\ pc[r] # "over" /\ Journals(plan[r])
    BY <1>7, <1>u DEF JournalCreate, BeforeSending, IInv, Journaling
  <2>2. CASE Finish(r, 2, "notsent") /\ UNCHANGED disk
    <3>1. UNCHANGED <<plan, disk, post, submitted>>
      BY <1>7, <2>2 DEF JournalCreate
    <3> QED BY <1>q, <2>1, <2>2, <3>1, FinishQuiet DEF AQuiet
  <2>3. CASE /\ disk[plan[r].id] = Absent
             /\ disk' = [disk EXCEPT ![plan[r].id] = Torn]
             /\ Goto(r, "write")
    <3>1. /\ pc' = [pc EXCEPT ![r] = "write"] /\ pc \in [Runs -> Locations]
          /\ report' = report /\ plan' = plan /\ submitted' = submitted /\ post' = post
          /\ \A s \in Runs: plan[s].request \in Requests /\ plan[s].id \in Ids
          /\ disk' = [disk EXCEPT ![plan[r].id] = Torn] /\ DOMAIN disk = Ids
          /\ \A s \in Runs: (Sent(s))' <=> Sent(s)
      BY <1>0, <1>7, <2>3, PlanFields DEF JournalCreate, Goto, TypeOK, Sent
    <3>2. Absent \notin Requests /\ Torn # Absent
      BY FilesAreNotRequests
    <3>3. Recorded'
      BY <3>1, <3>2, <2>3 DEF IInv, Recorded, RecoveryRecordFirst, Journals
    <3>4. SubmittedIsSent' /\ UnsentReports'
      BY <3>1, <2>1, <1>7 DEF IInv, SubmittedIsSent, UnsentReports
    <3>5. NotYetSent'
      BY <3>1, <2>1 DEF IInv, NotYetSent
    <3>6. Journaling'
      BY <3>1, <3>2, <2>1, <2>3 DEF IInv, Journaling, Journals
    <3>7. OneWriter'
      BY <3>1, <3>2, <2>3 DEF IInv, OneWriter, Journaling
    <3> QED BY <3>3, <3>4, <3>5, <3>6, <3>7 DEF Rest
  <2> QED BY <1>7, <2>2, <2>3 DEF JournalCreate
<1>8. ASSUME NEW r \in Runs, JournalWrite(r) PROVE Rest'
  <2>1. ~Sent(r) /\ pc[r] # "over" /\ Journals(plan[r])
    BY <1>8, <1>u DEF JournalWrite, BeforeSending, IInv, Journaling
  <2>2. CASE Finish(r, 4, "notsent") /\ UNCHANGED disk
    <3>1. UNCHANGED <<plan, disk, post, submitted>>
      BY <1>8, <2>2 DEF JournalWrite
    <3> QED BY <1>q, <2>1, <2>2, <3>1, FinishQuiet DEF AQuiet
  <2>3. CASE /\ disk' = [disk EXCEPT ![plan[r].id] = plan[r].request]
             /\ Goto(r, "sync")
    <3>1. /\ pc' = [pc EXCEPT ![r] = "sync"] /\ pc \in [Runs -> Locations]
          /\ report' = report /\ plan' = plan /\ submitted' = submitted /\ post' = post
          /\ \A s \in Runs: plan[s].request \in Requests /\ plan[s].id \in Ids
          /\ disk' = [disk EXCEPT ![plan[r].id] = plan[r].request] /\ DOMAIN disk = Ids
          /\ \A s \in Runs: (Sent(s))' <=> Sent(s)
      BY <1>0, <1>8, <2>3, PlanFields DEF JournalWrite, Goto, TypeOK, Sent
    <3>2. Torn \notin Requests /\ pc[r] = "write" /\ disk[plan[r].id] = Torn
      BY <1>8, FilesAreNotRequests DEF JournalWrite, IInv, Journaling
    <3>3. Recorded'
      BY <3>1, <3>2 DEF IInv, Recorded, RecoveryRecordFirst, Journals
    <3>4. SubmittedIsSent' /\ UnsentReports'
      BY <3>1, <2>1 DEF IInv, SubmittedIsSent, UnsentReports
    <3>5. NotYetSent'
      BY <3>1, <2>1 DEF IInv, NotYetSent
    <3>6. Journaling'
      BY <3>1, <3>2, <2>1 DEF IInv, Journaling, OneWriter, Journals
    <3>7. OneWriter'
      BY <3>1 DEF IInv, OneWriter
    <3> QED BY <3>3, <3>4, <3>5, <3>6, <3>7 DEF Rest
  <2> QED BY <1>8, <2>2, <2>3 DEF JournalWrite
<1>9. ASSUME NEW r \in Runs, JournalSync(r) PROVE Rest'
  <2>1. ~Sent(r) /\ pc[r] # "over"
    BY <1>9, <1>u DEF JournalSync, BeforeSending
  <2>2. UNCHANGED <<plan, disk, post, submitted>>
    BY <1>9 DEF JournalSync
  <2>3. disk[plan[r].id] = plan[r].request
    BY <1>9 DEF JournalSync, IInv, Journaling
  <2>4. Goto(r, "send") \/ Finish(r, 4, "notsent")
    BY <1>9 DEF JournalSync
  <2> QED BY <1>q, <2>1, <2>2, <2>3, <2>4, GotoQuiet, FinishQuiet DEF AQuiet
<1>10. ASSUME NEW r \in Runs, Send(r) PROVE Rest'
  <2>1. /\ pc' = [pc EXCEPT ![r] = "posting"] /\ pc \in [Runs -> Locations] /\ pc[r] = "send"
        /\ report' = report /\ plan' = plan /\ disk' = disk
        /\ submitted' = submitted \cup {r}
        /\ \A s \in Runs: (Sent(s))' <=> Sent(s) \/ s = r
    BY <1>0, <1>10 DEF Send, Goto, TypeOK, Sent
  <2>2. Recorded'
    BY <2>1 DEF IInv, Recorded, RecoveryRecordFirst, Journaling, Journals
  <2>3. SubmittedIsSent'
    BY <2>1 DEF IInv, SubmittedIsSent
  <2>4. NotYetSent'
    BY <2>1 DEF IInv, NotYetSent, BeforeSending
  <2>5. Journaling'
    BY <2>1 DEF IInv, Journaling, Journals
  <2>6. OneWriter'
    BY <2>1 DEF IInv, OneWriter
  <2>7. UnsentReports'
    BY <2>1 DEF IInv, UnsentReports
  <2> QED BY <2>2, <2>3, <2>4, <2>5, <2>6, <2>7 DEF Rest
<1>11. ASSUME NEW r \in Runs, Answer(r) PROVE Rest'
  <2>1. UNCHANGED <<plan, disk, post, submitted>> /\ pc[r] # "over"
    BY <1>11 DEF Answer
  <2>2. \/ \E exit: Finish(r, exit, "rejected") \/ Finish(r, exit, "unknown")
        \/ Goto(r, "look") \/ Goto(r, "settle") \/ Goto(r, "reconcile")
    BY <1>11 DEF Answer, AnswerAccepted, AnswerRefused, AnswerLost, AfterResponse
  <2> QED BY <1>q, <2>1, <2>2, GotoQuiet, FinishQuiet DEF AQuiet, BeforeSending
<1>12. ASSUME NEW r \in Runs, ReconcilePayment(r) PROVE Rest'
  <2>1. UNCHANGED <<plan, disk, post, submitted>> /\ pc[r] # "over"
    BY <1>12 DEF ReconcilePayment
  <2>2. Goto(r, "look") \/ Goto(r, "settle") \/ Finish(r, 4, "unknown")
    BY <1>12 DEF ReconcilePayment, AfterResponse
  <2> QED BY <1>q, <2>1, <2>2, GotoQuiet, FinishQuiet DEF AQuiet, BeforeSending
<1>13. ASSUME NEW r \in Runs, Settle(r) PROVE Rest'
  <2>1. UNCHANGED <<plan, disk, post, submitted>> /\ pc[r] # "over"
    BY <1>13 DEF Settle
  <2>2. \E claim \in {"accepted", "found", "broken"}: \E exit: Finish(r, exit, claim)
    BY <1>13 DEF Settle
  <2> QED BY <1>q, <2>1, <2>2, FinishQuiet DEF AQuiet
<1>14. ASSUME NEW r \in Runs, Look(r) PROVE Rest'
  <2>1. UNCHANGED <<plan, disk, post, submitted>> /\ pc[r] # "over"
    BY <1>14 DEF Look
  <2>2. \/ \E claim \in {"failed", "ready", "completed", "broken", "pending"}: \E exit:
              Finish(r, exit, claim)
        \/ Goto(r, "sleep")
    BY <1>14 DEF Look
  <2> QED BY <1>q, <2>1, <2>2, GotoQuiet, FinishQuiet DEF AQuiet, BeforeSending
<1>15. ASSUME NEW r \in Runs, Poll(r) PROVE Rest'
  <2>1. UNCHANGED <<plan, disk, post, submitted>> /\ pc[r] # "over"
    BY <1>15 DEF Poll
  <2>2. (\E claim \in {"broken", "pending"}: \E exit: Finish(r, exit, claim)) \/ Goto(r, "look")
    BY <1>15 DEF Poll, ReadFails
  <2> QED BY <1>q, <2>1, <2>2, GotoQuiet, FinishQuiet DEF AQuiet, BeforeSending
<1>16. ASSUME NEW r \in Runs, Interrupt(r) PROVE Rest'
  <2>1. UNCHANGED <<plan, disk, post, submitted>>
    BY <1>16 DEF Interrupt
  <2>2. \/ Finish(r, 130, "unknown")
        \/ ~Sent(r) /\ Finish(r, 130, "notsent")
    BY <1>16 DEF Interrupt, IInv, SubmittedIsSent
  <2> QED BY <1>q, <2>1, <2>2, FinishQuiet DEF AQuiet
<1>17. ASSUME NEW r \in Runs, Kill(r) PROVE Rest'
  <2>1. UNCHANGED <<plan, disk, post, submitted>> /\ pc[r] # "over"
    BY <1>17 DEF Kill
  <2>2. Goto(r, "dead")
    BY <1>17 DEF Kill, Goto
  <2> QED BY <1>q, <2>1, <2>2, GotoQuiet DEF AQuiet, BeforeSending
<1>18. ASSUME UNCHANGED <<plan, pc, report, submitted, disk>>,
              \A s \in Runs: (Sent(s))' <=> Sent(s)
       PROVE  Rest'
  BY <1>18 DEF Rest, IInv, Recorded, RecoveryRecordFirst, SubmittedIsSent, NotYetSent, Journaling,
               OneWriter, UnsentReports, Journals
<1>19. ASSUME NEW r \in Runs, Deliver(r) PROVE Rest'
  <2>1. \A s \in Runs: (Sent(s))' <=> Sent(s)
    BY <1>0, <1>19 DEF Deliver, Sent, TypeOK
  <2> QED BY <1>18, <1>19, <2>1 DEF Deliver
<1>20. ASSUME NEW id \in Ids, Advance(id) \/ Project(id) PROVE Rest'
  BY <1>18, <1>20 DEF Advance, Project, Sent
<1>21. CASE PowerLoss
  <2>1. /\ \A r \in Runs: pc'[r] \in {"start", "over", "dead"}
        /\ \A r \in Runs: pc[r] \in {"start", "over"} => pc'[r] = pc[r]
        /\ \A r \in Runs: pc'[r] = "start" => pc[r] = "start"
        /\ UNCHANGED <<plan, report, submitted, post>> /\ PowerFails
    BY <1>21 DEF PowerLoss
  <2>2. \A r \in Runs: (Sent(r))' <=> Sent(r)
    BY <2>1 DEF Sent
  <2>3. Recorded' /\ SubmittedIsSent' /\ Journaling' /\ OneWriter'
    BY <2>1, <2>2 DEF IInv, Recorded, SubmittedIsSent, Journaling, OneWriter
  <2>4. NotYetSent' /\ UnsentReports'
    BY <2>1, <2>2 DEF IInv, NotYetSent, UnsentReports, BeforeSending
  <2> QED BY <2>3, <2>4 DEF Rest
<1>22. CASE UNCHANGED vars
  BY <1>18, <1>22 DEF vars, Sent
<1> QED
  BY <1>1, <1>2, <1>3, <1>4, <1>5, <1>6, <1>7, <1>8, <1>9, <1>10, <1>11, <1>12, <1>13,
     <1>14, <1>15, <1>16, <1>17, <1>19, <1>20, <1>21, <1>22
  DEF Next, Step

-----------------------------------------------------------------------------
(* Safety *)

LEMMA Invariance == Spec => []IInv
<1>1. IInv /\ [Next]_vars => IInv'
  BY IInvStep
<1> QED BY IInvInit, <1>1, PTL DEF Spec

\* The recovery record of a request that left can be read back, for good (see
\* RecoveryRecordFirst).
THEOREM RecoveryRecord == ASSUME ~PowerFails PROVE Spec => []RecoveryRecordFirst
<1>1. IInv => RecoveryRecordFirst
  BY DEF IInv, Recorded
<1> QED BY <1>1, Invariance, PTL

\* An ID never leaves with two requests (see OneRequestPerId): both would be what the one
\* recovery record says.
THEOREM OneRequest == ASSUME ~PowerFails PROVE Spec => []OneRequestPerId
<1>1. IInv => OneRequestPerId
  BY DEF IInv, Recorded, RecoveryRecordFirst, OneRequestPerId
<1> QED BY <1>1, Invariance, PTL

\* A run that says it submitted nothing has sent nothing (see UnsentIsReal).
THEOREM UnsentReal == Spec => []UnsentIsReal
<1>1. IInv => UnsentIsReal
  BY DEF IInv, UnsentReports, UnsentIsReal
<1> QED BY <1>1, Invariance, PTL

\* No step sends a request that has left before (see NeverResubmitted).
THEOREM SentOnce == Spec => NeverResubmitted
<1> DEFINE Once == \A r \in Runs: Sent(r) /\ post'[r] # post[r] => post'[r] \in {"accepted", "rejected"}
<1>1. ASSUME IInv, [Next]_vars PROVE [Once]_vars
  <2>1. ASSUME NEW s \in Runs, Send(s) PROVE Once
    <3>1. ~Sent(s)
      BY <2>1, <1>1 DEF IInv, NotYetSent, Send, BeforeSending
    <3> QED BY <2>1, <3>1, <1>1 DEF Send, IInv, TypeOK
  <2>2. ASSUME NEW s \in Runs, Deliver(s) PROVE Once
    BY <2>2, <1>1 DEF Deliver, IInv, TypeOK
  <2>3. ASSUME UNCHANGED post PROVE Once
    BY <2>3
  <2>4. \/ \E s \in Runs: Send(s) \/ Deliver(s)
        \/ UNCHANGED post
    BY <1>1
    DEF Next, Step, Start, Authorize, FirstRead, VerifyWalletEnvironment, JournalCheck,
        JournalCompare, JournalCreate, JournalWrite, JournalSync, Answer, ReconcilePayment,
        Settle, Look, Poll, Interrupt, Kill, PowerLoss, Advance, Project, vars
  <2> QED BY <2>1, <2>2, <2>3, <2>4
<1> QED BY <1>1, Invariance, PTL DEF Spec, NeverResubmitted

\* A request leaves with its record on disk, whatever power failures took before (see
\* SendsWithRecord).
THEOREM RecordedSend == Spec => SendsWithRecord
<1> DEFINE AtSend == \A r \in Runs: Journals(plan[r]) /\ r \in submitted' \ submitted
                                     => disk[plan[r].id] = plan[r].request
<1>1. ASSUME IInv, [Next]_vars PROVE [AtSend]_vars
  <2>1. ASSUME NEW s \in Runs, Send(s) PROVE AtSend
    BY <2>1, <1>1 DEF Send, IInv, Journaling
  <2>2. ASSUME UNCHANGED submitted PROVE AtSend
    BY <2>2
  <2>3. (\E s \in Runs: Send(s)) \/ UNCHANGED submitted
    BY <1>1
    DEF Next, Step, Start, Authorize, FirstRead, VerifyWalletEnvironment, JournalCheck,
        JournalCompare, JournalCreate, JournalWrite, JournalSync, Answer, ReconcilePayment,
        Settle, Look, Poll, Interrupt, Kill, PowerLoss, Deliver, Advance, Project, vars
  <2> QED BY <2>1, <2>2, <2>3
<1> QED BY <1>1, Invariance, PTL DEF Spec, SendsWithRecord

-----------------------------------------------------------------------------
(* Submission implements RequestLedger *)

\* A step that leaves the three things the ledger is about alone.
Unledgered == Binding' = Binding /\ SentUnder' = SentUnder /\ held' = held

LEMMA SameSent ==
    ASSUME plan' = plan, \A r \in Runs: Journals(plan[r]) => ((Sent(r))' <=> Sent(r))
    PROVE  SentUnder' = SentUnder
BY DEF SentUnder, Journals

LEMMA LedgerInit == Init => Ledger!Init
<1> SUFFICES ASSUME Init PROVE Ledger!Init
  OBVIOUS
<1>1. Binding = [id \in Ids |-> Absent]
  BY FilesAreNotRequests DEF Init, Binding
<1>2. SentUnder = {}
  BY DEF Init, SentUnder, Sent
<1> QED BY <1>1, <1>2 DEF Init, Ledger!Init

LEMMA LedgerStep ==
    ASSUME ~PowerFails, IInv, [Next]_vars
    PROVE  [Ledger!Next]_(Ledger!vars)
<1> USE DEF local, journalFiles, service
<1>0. /\ disk \in [Ids -> Requests \cup {Absent, Torn}]
      /\ \A r \in Runs: plan[r].id \in Ids /\ plan[r].request \in Requests
      /\ Absent \notin Requests /\ Torn \notin Requests /\ Absent # Torn
  BY PlanFields, FilesAreNotRequests DEF IInv, TypeOK
<1>1. ASSUME Unledgered PROVE UNCHANGED Ledger!vars
  BY <1>1 DEF Unledgered, Ledger!vars
<1>2. ASSUME UNCHANGED <<plan, disk, post, held>> PROVE Unledgered
  BY <1>2, SameSent DEF Unledgered, Binding, Sent
<1>3. ASSUME NEW r \in Runs, JournalCreate(r) PROVE Unledgered
  <2>1. UNCHANGED <<plan, post, held>> /\ SentUnder' = SentUnder
    BY <1>3, SameSent DEF JournalCreate, Sent
  <2>2. Binding' = Binding
    BY <1>3, <1>0 DEF JournalCreate, Binding
  <2> QED BY <2>1, <2>2 DEF Unledgered
<1>4. ASSUME NEW r \in Runs, JournalWrite(r) PROVE Unledgered \/ Ledger!Next
  <2>1. UNCHANGED <<plan, post, held>> /\ SentUnder' = SentUnder
    BY <1>4, SameSent DEF JournalWrite, Sent
  <2>2. CASE UNCHANGED disk
    BY <2>1, <2>2, <1>2
  <2>3. CASE disk' = [disk EXCEPT ![plan[r].id] = plan[r].request]
    <3>1. disk[plan[r].id] = Torn
      BY <1>4 DEF JournalWrite, IInv, Journaling
    <3>2. Binding[plan[r].id] = Absent
      BY <3>1, <1>0 DEF Binding
    <3>3. Binding' = [Binding EXCEPT ![plan[r].id] = plan[r].request]
      BY <2>3, <1>0 DEF Binding
    <3>4. Ledger!Bind(plan[r].id, plan[r].request)
      BY <2>1, <3>2, <3>3 DEF Ledger!Bind
    <3> QED BY <3>4, <1>0 DEF Ledger!Next
  <2> QED BY <1>4, <2>2, <2>3 DEF JournalWrite
<1>5. ASSUME NEW r \in Runs, Send(r) PROVE Unledgered \/ Ledger!Next
  <2>1. /\ UNCHANGED <<plan, disk, held>> /\ Binding' = Binding
        /\ \A s \in Runs: (Sent(s))' <=> Sent(s) \/ s = r
    BY <1>5 DEF Send, Binding, Sent, IInv, TypeOK
  <2>2. CASE ~Journals(plan[r])
    <3>1. SentUnder' = SentUnder
      BY <2>1, <2>2, SameSent
    <3> QED BY <2>1, <3>1 DEF Unledgered
  <2>3. CASE Journals(plan[r])
    <3>1. disk[plan[r].id] = plan[r].request
      BY <1>5, <2>3 DEF Send, IInv, Journaling
    <3>2. Binding[plan[r].id] = plan[r].request
      BY <3>1, <1>0 DEF Binding
    <3>3. SentUnder' = SentUnder \cup {<<plan[r].id, plan[r].request>>}
      BY <2>1, <2>3 DEF SentUnder, Journals
    <3>4. Ledger!Send(plan[r].id, plan[r].request)
      BY <2>1, <3>2, <3>3 DEF Ledger!Send
    <3> QED BY <3>4, <1>0 DEF Ledger!Next
  <2> QED BY <2>2, <2>3
<1>6. ASSUME NEW r \in Runs, Deliver(r) PROVE Unledgered \/ Ledger!Next
  <2>1. /\ UNCHANGED <<plan, disk>> /\ Binding' = Binding
        /\ \A s \in Runs: (Sent(s))' <=> Sent(s)
    BY <1>6 DEF Deliver, Binding, Sent, IInv, TypeOK
  <2>2. SentUnder' = SentUnder
    BY <2>1, SameSent
  <2>3. CASE UNCHANGED held
    BY <2>1, <2>2, <2>3 DEF Unledgered
  <2>4. CASE /\ Reconciles(plan[r]) /\ held[plan[r].id] = Absent
             /\ held' = [held EXCEPT ![plan[r].id] = plan[r].request]
    <3>1. Sent(r) /\ Journals(plan[r])
      BY <1>6, <2>4 DEF Deliver, Sent, Journals, Reconciles
    <3>2. <<plan[r].id, plan[r].request>> \in SentUnder
      BY <3>1 DEF SentUnder
    <3>3. Ledger!Accept(plan[r].id, plan[r].request)
      BY <2>1, <2>2, <2>4, <3>2 DEF Ledger!Accept
    <3> QED BY <3>3, <1>0 DEF Ledger!Next
  <2> QED BY <1>6, <2>3, <2>4 DEF Deliver
<1>7. \/ \E r \in Runs: JournalCreate(r) \/ JournalWrite(r) \/ Send(r) \/ Deliver(r)
      \/ UNCHANGED <<plan, disk, post, held>>
  BY DEF Next, Step, Start, Authorize, FirstRead, VerifyWalletEnvironment, JournalCheck,
         JournalCompare, JournalSync, Answer, ReconcilePayment, Settle, Look, Poll,
         Interrupt, Kill, PowerLoss, Advance, Project, vars
<1> QED BY <1>1, <1>2, <1>3, <1>4, <1>5, <1>6, <1>7

\* Without power failures the journal, its runs and the service implement the ledger (see
\* ImplementsLedger).
THEOREM Implements == ASSUME ~PowerFails PROVE Spec => ImplementsLedger
<1>1. IInv /\ [Next]_vars => [Ledger!Next]_(Ledger!vars)
  BY LedgerStep
<1> QED BY <1>1, LedgerInit, Invariance, PTL DEF Spec, ImplementsLedger, Ledger!Spec

-----------------------------------------------------------------------------
(***************************************************************************)
(* What a run of Submission reports of a payment is true of the service,   *)
(* for any number of runs, IDs, requests and commands, any timeout and any *)
(* lag of the service's projection.                                        *)
(*                                                                         *)
(* The argument.  A state that was read from the projection stays below    *)
(* the state of the payment (IsPast), which only advances.  A run that     *)
(* has a response to its payment knows that the service holds its own      *)
(* request: either its submission was accepted, or it read the ID after    *)
(* it had sent its request, and no other request leaves under that ID (the *)
(* journal; RecoveryRecordFirst above).  Hence no power failure may take    *)
(* records away.                                                            *)
(***************************************************************************)

\* A state the payment under an ID is in, or was.
IsPast(state, id) ==
    /\ state \in Final => status[id] = state
    /\ state = "receiving" => status[id] \in {"receiving"} \cup Final
    /\ state # "missing" => status[id] # "missing"

IsHeld(r) == held[plan[r].id] = plan[r].request

\* Where a run has a response to its payment in hand.
Responded == {"settle", "look", "sleep"}

\* What the report of a run may claim (see ReportedPaymentExists).
IsTrue(r, rep) ==
    /\ plan[r].kind = "payment" /\ rep.claim \in {"accepted", "ready", "completed", "failed", "pending"}
         => IsHeld(r)
    /\ rep.claim \in Final => status[plan[r].id] = rep.claim
    /\ rep.claim = "ready" => status[plan[r].id] \in {"receiving"} \cup Final

ViewsArePast == \A r \in Runs: IsPast(view[r], plan[r].id)
ProjectionIsPast == \A id \in Ids: IsPast(projected[id], id)

\* A payment has a state once a submission created it, and is that submission's.
HeldIsSent ==
    \A id \in Ids:
        /\ status[id] # "missing" => held[id] # Absent
        /\ held[id] # Absent =>
             \E s \in Runs: Sent(s) /\ Journals(plan[s]) /\ plan[s].id = id /\ plan[s].request = held[id]

AcceptedIsHeld == \A r \in Runs: plan[r].kind = "payment" /\ post[r] = "accepted" => IsHeld(r)

\* Where the steps of a run can be: only reads begin with a read, and what is reconciled is a
\* payment that left.
Paths ==
    \A r \in Runs:
        /\ pc[r] = "first" => plan[r].kind # "payment"
        /\ pc[r] = "reconcile" => plan[r].kind = "payment"
        /\ pc[r] \in {"posting", "reconcile"} => Sent(r)
        /\ pc[r] \in Responded /\ plan[r].kind = "payment" => IsHeld(r)

Reports == \A r \in Runs: IsTrue(r, report[r])

Known == ViewsArePast /\ ProjectionIsPast /\ HeldIsSent /\ AcceptedIsHeld /\ Paths /\ Reports

LEMMA KnownInit == Init => Known
<1> SUFFICES ASSUME Init PROVE Known
  OBVIOUS
<1>1. \A r \in Runs: pc[r] = "start" /\ view[r] = "missing" /\ post[r] = "unsent" /\ report[r].claim = "none"
                     /\ plan[r].id \in Ids
  BY TypeInit, PlanFields DEF Init
<1>2. \A id \in Ids: held[id] = Absent /\ status[id] = "missing" /\ projected[id] = "missing"
  BY DEF Init
<1> QED
  BY <1>1, <1>2 DEF Known, ViewsArePast, ProjectionIsPast, HeldIsSent, AcceptedIsHeld, Paths, Reports,
                    IsPast, IsTrue, Final, Responded

\* A step of r to location l, after which it holds the response v and has reported rep; its
\* request may leave.
Local(r, l, v, rep) ==
    /\ UNCHANGED <<plan, held, status, projected>>
    /\ post' = post \/ (post[r] = "unsent" /\ post' = [post EXCEPT ![r] = "transit"])
    /\ pc' = [pc EXCEPT ![r] = l]
    /\ view' = [view EXCEPT ![r] = v]
    /\ report' = [report EXCEPT ![r] = rep]
    /\ IsPast(v, plan[r].id) /\ IsTrue(r, rep)
    /\ l = "first" => plan[r].kind # "payment"
    /\ l = "reconcile" => plan[r].kind = "payment"
    /\ l \in {"posting", "reconcile"} => (Sent(r))'
    /\ l \in Responded /\ plan[r].kind = "payment" => IsHeld(r)

LEMMA LocalKeeps ==
    ASSUME TypeOK, Known, NEW r \in Runs, NEW l, NEW v, NEW rep, Local(r, l, v, rep)
    PROVE  Known'
<1>1. /\ plan' = plan /\ held' = held /\ status' = status /\ projected' = projected
      /\ DOMAIN pc = Runs /\ DOMAIN view = Runs /\ DOMAIN report = Runs /\ DOMAIN post = Runs
      /\ pc' = [pc EXCEPT ![r] = l] /\ view' = [view EXCEPT ![r] = v] /\ report' = [report EXCEPT ![r] = rep]
  BY DEF Local, TypeOK
<1>2. /\ \A s \in Runs: Sent(s) => (Sent(s))'
      /\ \A s \in Runs: post'[s] = "accepted" => post[s] = "accepted"
  BY <1>1 DEF Local, Sent
<1>3. ViewsArePast' /\ ProjectionIsPast'
  BY <1>1 DEF Known, ViewsArePast, ProjectionIsPast, IsPast, Local
<1>4. HeldIsSent'
  BY <1>1, <1>2 DEF Known, HeldIsSent, Journals
<1>5. AcceptedIsHeld'
  BY <1>1, <1>2 DEF Known, AcceptedIsHeld, IsHeld
<1>6. Paths'
  BY <1>1, <1>2 DEF Known, Paths, IsHeld, Local
<1>7. Reports'
  BY <1>1 DEF Known, Reports, IsTrue, IsHeld, Local
<1> QED BY <1>3, <1>4, <1>5, <1>6, <1>7 DEF Known

\* A step of r that keeps what it holds and reports at most what is true.
LEMMA GotoKeeps ==
    ASSUME TypeOK, Known, NEW r \in Runs, NEW l, Goto(r, l),
           UNCHANGED <<plan, view, post, held, status, projected>>,
           l = "first" => plan[r].kind # "payment",
           l = "reconcile" => plan[r].kind = "payment",
           l \in {"posting", "reconcile"} => Sent(r),
           l \in Responded /\ plan[r].kind = "payment" => IsHeld(r)
    PROVE  Known'
<1>1. view' = [view EXCEPT ![r] = view[r]] /\ report' = [report EXCEPT ![r] = report[r]]
  BY DEF Goto, TypeOK
<1>2. IsPast(view[r], plan[r].id) /\ IsTrue(r, report[r])
  BY DEF Known, ViewsArePast, Reports
<1>3. Local(r, l, view[r], report[r])
  BY <1>1, <1>2 DEF Local, Goto, Sent
<1> QED BY <1>3, LocalKeeps

LEMMA FinishKeeps ==
    ASSUME TypeOK, Known, NEW r \in Runs, NEW exit, NEW claim, Finish(r, exit, claim),
           UNCHANGED <<plan, view, post, held, status, projected>>,
           IsTrue(r, [exit |-> exit, claim |-> claim])
    PROVE  Known'
<1>1. view' = [view EXCEPT ![r] = view[r]]
  BY DEF TypeOK
<1>2. IsPast(view[r], plan[r].id)
  BY DEF Known, ViewsArePast
<1>3. Local(r, "over", view[r], [exit |-> exit, claim |-> claim])
  BY <1>1, <1>2 DEF Local, Finish, Responded
<1> QED BY <1>3, LocalKeeps

\* What says nothing of a payment is true.
LEMMA SilentIsTrue ==
    ASSUME NEW r, NEW exit, NEW claim \in {"notsent", "unknown", "rejected", "found", "broken"}
    PROVE  IsTrue(r, [exit |-> exit, claim |-> claim])
BY DEF IsTrue, Final

\* A projected payment under the ID of a payment that left is that payment: no other request
\* leaves under its ID.
LEMMA ReadIsOwn ==
    ASSUME ~PowerFails, IInv, Known, NEW r \in Runs,
           Sent(r), plan[r].kind = "payment", projected[plan[r].id] # "missing"
    PROVE  IsHeld(r)
<1>1. plan[r].id \in Ids /\ Journals(plan[r])
  BY PlanFields DEF IInv, Journals
<1>2. held[plan[r].id] # Absent
  BY <1>1 DEF Known, ProjectionIsPast, HeldIsSent, IsPast
<1>3. PICK s \in Runs: /\ Sent(s) /\ Journals(plan[s])
                       /\ plan[s].id = plan[r].id /\ plan[s].request = held[plan[r].id]
  BY <1>1, <1>2 DEF Known, HeldIsSent
<1>4. plan[s].request = plan[r].request
  BY <1>1, <1>3 DEF IInv, Recorded, RecoveryRecordFirst
<1> QED BY <1>3, <1>4 DEF IsHeld

-----------------------------------------------------------------------------
(* The steps of a run *)

LEMMA RunKeeps ==
    ASSUME ~PowerFails, IInv, Known, NEW r \in Runs, Start(r) \/ Step(r) \/ Interrupt(r) \/ Kill(r)
    PROVE  Known'
<1> USE DEF local, journalFiles, service
<1>0. TypeOK /\ plan[r].id \in Ids /\ plan[r].kind \in Kinds
  BY PlanFields DEF IInv
<1> DEFINE Same == UNCHANGED <<plan, view, post, held, status, projected>>
           Silent == \E exit: \E claim \in {"notsent", "unknown", "rejected", "found", "broken"}: Finish(r, exit, claim)
           Onward == \E l \in Locations \ ({"first", "posting", "reconcile"} \cup Responded): Goto(r, l)
<1>s. ASSUME Same, Silent PROVE Known'
  BY <1>s, <1>0, FinishKeeps, SilentIsTrue
<1>o. ASSUME Same, Onward PROVE Known'
  BY <1>o, <1>0, GotoKeeps
<1>r. ASSUME NEW v, NEW l \in Responded, Goto(r, l), UNCHANGED <<plan, post, held, status, projected>>,
             view' = [view EXCEPT ![r] = v], IsPast(v, plan[r].id),
             plan[r].kind = "payment" => IsHeld(r)
      PROVE  Known'
  <2>1. report' = [report EXCEPT ![r] = report[r]]
    BY <1>0, <1>r DEF Goto, TypeOK
  <2>2. Local(r, l, v, report[r])
    BY <1>r, <2>1 DEF Local, Goto, Known, Reports, Responded
  <2> QED BY <2>2, <1>0, LocalKeeps
<1>p. /\ AfterResponse(r) \in Responded
      /\ IsPast("missing", plan[r].id)
      /\ IsPast(projected[plan[r].id], plan[r].id)
  BY <1>0 DEF AfterResponse, Responded, IsPast, Final, Known, ProjectionIsPast
<1> HIDE DEF Same, Silent, Onward
<1>1. CASE Start(r)
  <2>1. Same
    BY <1>1 DEF Start, Same
  <2>2. Silent \/ Onward
    BY <1>1 DEF Start, Silent, Onward, Locations, Responded
  <2> QED BY <2>1, <2>2, <1>s, <1>o
<1>2. CASE Authorize(r)
  <2>1. Same
    BY <1>2 DEF Authorize, Same
  <2>2. Silent \/ Onward \/ (~Mutates(plan[r]) /\ Goto(r, "first"))
    BY <1>2 DEF Authorize, Silent, Onward, Locations, Responded
  <2>3. ASSUME ~Mutates(plan[r]), Goto(r, "first") PROVE Known'
    BY <2>1, <2>3, <1>0, GotoKeeps DEF Same, Mutates, Responded
  <2> QED BY <2>1, <2>2, <2>3, <1>s, <1>o
<1>3. CASE FirstRead(r)
  <2>1. plan[r].kind # "payment"
    BY <1>3 DEF FirstRead, Known, Paths
  <2>2. CASE Silent /\ UNCHANGED view
    <3>1. Same
      BY <1>3, <2>2 DEF FirstRead, Same
    <3> QED BY <3>1, <2>2, <1>s
  <2>3. CASE /\ view' = [view EXCEPT ![r] = projected[plan[r].id]]
             /\ Goto(r, AfterResponse(r))
    <3>1. UNCHANGED <<plan, post, held, status, projected>>
      BY <1>3 DEF FirstRead
    <3> QED BY <3>1, <2>1, <2>3, <1>p, <1>r
  <2> QED BY <1>3, <2>2, <2>3 DEF FirstRead, ReadFails, Silent
<1>4. CASE VerifyWalletEnvironment(r)
  <2>1. Same
    BY <1>4 DEF VerifyWalletEnvironment, Same
  <2>2. Silent \/ Onward
    BY <1>4 DEF VerifyWalletEnvironment, ReadFails, Silent, Onward, Locations, Responded
  <2> QED BY <2>1, <2>2, <1>s, <1>o
<1>5. CASE JournalCheck(r) \/ JournalCompare(r) \/ JournalCreate(r) \/ JournalWrite(r) \/ JournalSync(r)
  <2>1. Same
    BY <1>5 DEF JournalCheck, JournalCompare, JournalCreate, JournalWrite, JournalSync, Same
  <2>2. Silent \/ Onward
    BY <1>5 DEF JournalCheck, JournalCompare, JournalCreate, JournalWrite, JournalSync,
                Silent, Onward, Locations, Responded
  <2> QED BY <2>1, <2>2, <1>s, <1>o
<1>6. CASE Send(r)
  <2>1. /\ UNCHANGED <<plan, view, held, status, projected>>
        /\ post' = [post EXCEPT ![r] = "transit"] /\ Goto(r, "posting")
    BY <1>6 DEF Send
  <2>2. post[r] = "unsent"
    BY <1>6 DEF Send, IInv, NotYetSent, BeforeSending, Sent
  <2>3. view' = [view EXCEPT ![r] = view[r]] /\ report' = [report EXCEPT ![r] = report[r]] /\ (Sent(r))'
    BY <2>1, <1>0 DEF Goto, TypeOK, Sent
  <2>4. Local(r, "posting", view[r], report[r])
    BY <2>1, <2>2, <2>3 DEF Local, Goto, Known, Reports, ViewsArePast, Responded
  <2> QED BY <2>4, <1>0, LocalKeeps
<1>7. CASE Answer(r)
  <2>1. UNCHANGED <<plan, post, held, status, projected>> /\ Sent(r)
    BY <1>7 DEF Answer, Known, Paths
  <2>2. CASE AnswerAccepted(r)
    BY <2>1, <2>2, <1>p, <1>r DEF AnswerAccepted, Known, AcceptedIsHeld
  <2>3. CASE AnswerRefused(r)
    <3>1. Same /\ Silent
      BY <2>1, <2>3 DEF AnswerRefused, Same, Silent
    <3> QED BY <3>1, <1>s
  <2>4. CASE AnswerLost(r)
    <3>1. Same
      BY <2>1, <2>4 DEF AnswerLost, Same
    <3>2. Silent \/ (Reconciles(plan[r]) /\ Goto(r, "reconcile"))
      BY <2>4 DEF AnswerLost, Silent
    <3>3. ASSUME Reconciles(plan[r]), Goto(r, "reconcile") PROVE Known'
      BY <2>1, <3>1, <3>3, <1>0, GotoKeeps DEF Same, Reconciles, Responded
    <3> QED BY <3>1, <3>2, <3>3, <1>s
  <2> QED BY <1>7, <2>2, <2>3, <2>4 DEF Answer
<1>8. CASE ReconcilePayment(r)
  <2>1. UNCHANGED <<plan, post, held, status, projected>> /\ Sent(r) /\ plan[r].kind = "payment"
    BY <1>8 DEF ReconcilePayment, Known, Paths
  <2>2. CASE /\ projected[plan[r].id] # "missing"
             /\ view' = [view EXCEPT ![r] = projected[plan[r].id]]
             /\ Goto(r, AfterResponse(r))
    <3>1. IsHeld(r)
      BY <2>1, <2>2, ReadIsOwn
    <3> QED BY <2>1, <2>2, <3>1, <1>p, <1>r
  <2>3. CASE Finish(r, 4, "unknown") /\ UNCHANGED view
    <3>1. Same /\ Silent
      BY <2>1, <2>3 DEF Same, Silent
    <3> QED BY <3>1, <1>s
  <2> QED BY <1>8, <2>2, <2>3 DEF ReconcilePayment
<1>9. CASE Settle(r)
  <2>1. Same /\ (plan[r].kind = "payment" => IsHeld(r))
    BY <1>9 DEF Settle, Same, Known, Paths, Responded
  <2>2. Silent \/ Finish(r, 0, "accepted")
    BY <1>9 DEF Settle, Silent
  <2>3. ASSUME Finish(r, 0, "accepted") PROVE Known'
    <3>1. IsTrue(r, [exit |-> 0, claim |-> "accepted"])
      BY <2>1 DEF IsTrue, Final
    <3> QED BY <2>1, <2>3, <3>1, <1>0, FinishKeeps DEF Same
  <2> QED BY <2>1, <2>2, <2>3, <1>s
<1>10. CASE Look(r)
  <2>1. /\ Same /\ (plan[r].kind = "payment" => IsHeld(r))
        /\ IsPast(view[r], plan[r].id)
    BY <1>10 DEF Look, Same, Known, Paths, ViewsArePast, Responded
  <2>2. \/ Silent
        \/ Goto(r, "sleep")
        \/ \E exit: \E claim \in {"failed", "completed", "ready", "pending"}:
             /\ Finish(r, exit, claim)
             /\ claim = "failed" => Progress(view[r], plan[r].wait) = "unsuccessful"
             /\ claim \in {"ready", "completed"} => Progress(view[r], plan[r].wait) = claim
    BY <1>10 DEF Look, Silent
  <2>3. ASSUME Goto(r, "sleep") PROVE Known'
    BY <2>1, <2>3, <1>0, GotoKeeps DEF Same
  <2>4. ASSUME NEW exit, NEW claim \in {"failed", "completed", "ready", "pending"}, Finish(r, exit, claim),
               claim = "failed" => Progress(view[r], plan[r].wait) = "unsuccessful",
               claim \in {"ready", "completed"} => Progress(view[r], plan[r].wait) = claim
        PROVE  Known'
    <3>1. IsTrue(r, [exit |-> exit, claim |-> claim])
      BY <2>1, <2>4 DEF IsTrue, Progress, IsPast, Final
    <3> QED BY <2>1, <2>4, <3>1, <1>0, FinishKeeps DEF Same
  <2> QED BY <2>1, <2>2, <2>3, <2>4, <1>s
<1>11. CASE Poll(r)
  <2>1. /\ UNCHANGED <<plan, post, held, status, projected>>
        /\ plan[r].kind = "payment" => IsHeld(r)
        /\ IsPast(view[r], plan[r].id)
    BY <1>11 DEF Poll, Known, Paths, ViewsArePast, Responded
  <2>2. CASE view' = [view EXCEPT ![r] = projected[plan[r].id]] /\ Goto(r, "look")
    BY <2>1, <2>2, <1>p, <1>r DEF Responded
  <2>3. CASE Goto(r, "look") /\ UNCHANGED view
    BY <2>1, <2>3, <1>0, GotoKeeps
  <2>4. CASE ReadFails(r, "broken") /\ UNCHANGED view
    <3>1. Same /\ Silent
      BY <2>1, <2>4 DEF Same, Silent, ReadFails
    <3> QED BY <3>1, <1>s
  <2>5. CASE Finish(r, 5, "pending") /\ UNCHANGED view
    <3>1. IsTrue(r, [exit |-> 5, claim |-> "pending"])
      BY <2>1 DEF IsTrue, Final
    <3> QED BY <2>1, <2>5, <3>1, <1>0, FinishKeeps
  <2> QED BY <1>11, <2>2, <2>3, <2>4, <2>5 DEF Poll
<1>12. CASE Interrupt(r)
  <2>1. Same /\ Silent
    BY <1>12 DEF Interrupt, Same, Silent
  <2> QED BY <2>1, <1>s
<1>13. CASE Kill(r)
  <2>1. Same /\ Onward
    BY <1>13 DEF Kill, Same, Onward, Goto, Locations, Responded
  <2> QED BY <2>1, <1>o
<1> QED BY <1>1, <1>2, <1>3, <1>4, <1>5, <1>6, <1>7, <1>8, <1>9, <1>10, <1>11, <1>12, <1>13 DEF Step

-----------------------------------------------------------------------------
(* The steps of the service *)

LEMMA DeliverKeeps ==
    ASSUME IInv, Known, NEW r \in Runs, Deliver(r)
    PROVE  Known'
<1> USE DEF local, journalFiles
<1> DEFINE id == plan[r].id
<1>0. /\ TypeOK /\ id \in Ids /\ DOMAIN held = Ids /\ DOMAIN status = Ids /\ DOMAIN post = Runs
      /\ plan[r].request # Absent
      /\ \A s \in Runs: plan[s].id \in Ids
  BY PlanFields, FilesAreNotRequests DEF IInv, TypeOK
<1>1. UNCHANGED <<plan, pc, view, report, projected>> /\ post[r] = "transit"
  BY <1>0 DEF Deliver
<1>2. /\ \A s \in Runs: (Sent(s))' <=> Sent(s)
      /\ \A s \in Runs: s # r => post'[s] = post[s]
  BY <1>0 DEF Deliver, Sent
<1>3. CASE UNCHANGED <<held, status>> /\ (Reconciles(plan[r]) /\ post'[r] = "accepted" => held[id] = plan[r].request)
  <2>1. AcceptedIsHeld'
    BY <1>1, <1>2, <1>3 DEF Known, AcceptedIsHeld, IsHeld, Reconciles
  <2>2. HeldIsSent'
    BY <1>1, <1>2, <1>3 DEF Known, HeldIsSent
  <2>3. ViewsArePast' /\ ProjectionIsPast' /\ Paths' /\ Reports'
    BY <1>1, <1>2, <1>3 DEF Known, ViewsArePast, ProjectionIsPast, Paths, Reports, IsPast, IsTrue, IsHeld
  <2> QED BY <2>1, <2>2, <2>3 DEF Known
<1>4. CASE /\ Reconciles(plan[r]) /\ held[id] = Absent
           /\ held' = [held EXCEPT ![id] = plan[r].request]
           /\ status' = [status EXCEPT ![id] = "generating"]
  <2>1. status[id] = "missing"
    BY <1>0, <1>4 DEF Known, HeldIsSent
  <2>2. \A s \in Runs: IsHeld(s) /\ plan[s].request # Absent => (IsHeld(s))'
    BY <1>0, <1>1, <1>4 DEF IsHeld
  <2>3. \A s \in Runs: plan[s].request # Absent
    BY <1>0, PlanFields, FilesAreNotRequests
  <2>4. (IsHeld(r))'
    BY <1>0, <1>1, <1>4 DEF IsHeld
  <2>5. AcceptedIsHeld'
    BY <1>1, <1>2, <2>2, <2>3, <2>4 DEF Known, AcceptedIsHeld
  <2>6. HeldIsSent'
    <3>1. Sent(r) /\ Journals(plan[r])
      BY <1>1, <1>4 DEF Sent, Journals, Reconciles
    <3> QED BY <1>0, <1>1, <1>2, <1>4, <3>1 DEF Known, HeldIsSent, Journals
  <2>7. \A i \in Ids: \A state \in Statuses: IsPast(state, i) => (IsPast(state, i))'
    BY <1>0, <1>4, <2>1 DEF IsPast, Final, Statuses
  <2>8. ViewsArePast' /\ ProjectionIsPast'
    BY <1>0, <1>1, <2>7 DEF Known, ViewsArePast, ProjectionIsPast, TypeOK
  <2>9. Paths'
    BY <1>1, <1>2, <2>2, <2>3 DEF Known, Paths
  <2>10. Reports'
    <3>1. \A s \in Runs: plan[s].id = id => report[s].claim \notin Final \cup {"ready"}
      BY <2>1 DEF Known, Reports, IsTrue, Final
    <3> QED BY <1>0, <1>1, <1>4, <2>2, <2>3, <3>1 DEF Known, Reports, IsTrue, Final
  <2> QED BY <2>5, <2>6, <2>8, <2>9, <2>10 DEF Known
<1> QED BY <1>0, <1>3, <1>4 DEF Deliver

LEMMA ServiceKeeps ==
    ASSUME IInv, Known, NEW id \in Ids, Advance(id) \/ Project(id)
    PROVE  Known'
<1> USE DEF local, journalFiles
<1>0. /\ TypeOK /\ DOMAIN status = Ids /\ DOMAIN projected = Ids
      /\ \A s \in Runs: plan[s].id \in Ids
  BY PlanFields DEF IInv, TypeOK
<1>1. UNCHANGED <<plan, pc, view, report, post, held>>
  BY DEF Advance, Project
<1>2. CASE Advance(id)
  <2>1. projected' = projected
    BY <1>2 DEF Advance
  <2>2. /\ \A i \in Ids: \A state \in Statuses: IsPast(state, i) => (IsPast(state, i))'
        /\ \A i \in Ids: status'[i] # "missing" => status[i] # "missing"
        /\ \A i \in Ids: status[i] \in Final => status'[i] = status[i]
        /\ \A i \in Ids: status[i] = "receiving" => status'[i] \in {"receiving"} \cup Final
    BY <1>0, <1>2 DEF Advance, IsPast, Final, Statuses
  <2>3. ViewsArePast' /\ ProjectionIsPast'
    BY <1>0, <1>1, <2>1, <2>2 DEF Known, ViewsArePast, ProjectionIsPast, TypeOK
  <2>4. HeldIsSent' /\ AcceptedIsHeld' /\ Paths'
    BY <1>1, <2>2 DEF Known, HeldIsSent, AcceptedIsHeld, Paths, IsHeld, Sent
  <2>5. Reports'
    BY <1>0, <1>1, <2>2 DEF Known, Reports, IsTrue, IsHeld, Final
  <2> QED BY <2>3, <2>4, <2>5 DEF Known
<1>3. CASE Project(id)
  <2>1. status' = status /\ projected' = [projected EXCEPT ![id] = status[id]]
    BY <1>3 DEF Project
  <2>2. ProjectionIsPast'
    BY <1>0, <2>1 DEF Known, ProjectionIsPast, IsPast, Final
  <2>3. ViewsArePast' /\ HeldIsSent' /\ AcceptedIsHeld' /\ Paths' /\ Reports'
    BY <1>1, <2>1 DEF Known, ViewsArePast, HeldIsSent, AcceptedIsHeld, Paths, Reports, IsPast, IsTrue, IsHeld, Sent
  <2> QED BY <2>2, <2>3 DEF Known
<1> QED BY <1>2, <1>3

LEMMA KnownStep ==
    ASSUME ~PowerFails, IInv, Known, [Next]_vars
    PROVE  Known'
<1>1. CASE UNCHANGED vars
  BY <1>1 DEF vars, Known, ViewsArePast, ProjectionIsPast, HeldIsSent, AcceptedIsHeld, Paths, Reports,
              IsPast, IsTrue, IsHeld, Sent
<1>2. CASE PowerLoss
  BY <1>2 DEF PowerLoss
<1> QED BY <1>1, <1>2, RunKeeps, DeliverKeeps, ServiceKeeps DEF Next

\* What a run reports of a payment is true of the service (see ReportedPaymentExists), as long
\* as no power failure takes the record away that keeps other requests from its ID.
THEOREM ReportsTrue == ASSUME ~PowerFails PROVE Spec => []ReportedPaymentExists
<1>1. Known => ReportedPaymentExists
  BY DEF Known, Reports, IsTrue, IsHeld, ReportedPaymentExists
<1>2. IInv /\ Known /\ [Next]_vars => Known'
  BY KnownStep
<1> QED BY KnownInit, <1>1, <1>2, Invariance, PTL DEF Spec

-----------------------------------------------------------------------------
(* Rejections *)

\* A rejection that was reported ended its run, and is the service's own.
Rejections == \A r \in Runs: report[r].claim = "rejected" => pc[r] = "over" /\ post[r] = "rejected"

LEMMA RejectionsStep ==
    ASSUME ~Outages, IInv, Rejections, [Next]_vars
    PROVE  Rejections'
<1> USE DEF local, journalFiles, service
<1>0. DOMAIN pc = Runs /\ DOMAIN report = Runs /\ DOMAIN post = Runs
  BY DEF IInv, TypeOK
<1>1. ASSUME NEW r \in Runs, NEW exit, NEW claim, Finish(r, exit, claim), UNCHANGED post,
             claim = "rejected" => post[r] = "rejected"
      PROVE  Rejections'
  BY <1>0, <1>1 DEF Finish, Rejections
<1>2. ASSUME NEW r \in Runs, NEW l, pc[r] # "over", pc' = [pc EXCEPT ![r] = l], UNCHANGED report,
             \A s \in Runs: post'[s] # post[s] => s = r
      PROVE  Rejections'
  BY <1>0, <1>2 DEF Rejections
<1>3. ASSUME NEW r \in Runs, Answer(r) PROVE Rejections'
  BY <1>1, <1>2, <1>3 DEF Answer, AnswerAccepted, AnswerRefused, AnswerLost, Goto
<1>4. ASSUME NEW r \in Runs,
             \/ Start(r) \/ Authorize(r) \/ FirstRead(r) \/ VerifyWalletEnvironment(r)
             \/ JournalCheck(r) \/ JournalCompare(r) \/ JournalCreate(r) \/ JournalWrite(r) \/ JournalSync(r)
      PROVE  Rejections'
  BY <1>1, <1>2, <1>4 DEF Start, Authorize, FirstRead, VerifyWalletEnvironment, JournalCheck, JournalCompare,
                          JournalCreate, JournalWrite, JournalSync, ReadFails, Goto
<1>5. ASSUME NEW r \in Runs, Send(r) PROVE Rejections'
  <2>1. \A s \in Runs: post'[s] # post[s] => s = r
    BY <1>0, <1>5 DEF Send
  <2> QED BY <1>2, <1>5, <2>1 DEF Send, Goto
<1>6. ASSUME NEW r \in Runs, ReconcilePayment(r) \/ Settle(r) \/ Poll(r) PROVE Rejections'
  BY <1>1, <1>2, <1>6 DEF ReconcilePayment, Settle, Poll, ReadFails, Goto
<1>7. ASSUME NEW r \in Runs, Look(r) PROVE Rejections'
  <2>1. \/ \E exit: \E claim \in {"failed", "ready", "completed", "broken", "pending"}: Finish(r, exit, claim)
        \/ Goto(r, "sleep")
    BY <1>7 DEF Look
  <2>2. pc[r] # "over" /\ UNCHANGED post
    BY <1>7 DEF Look
  <2> QED BY <1>1, <1>2, <2>1, <2>2 DEF Goto
<1>8. ASSUME NEW r \in Runs, Interrupt(r) \/ Kill(r) PROVE Rejections'
  BY <1>1, <1>2, <1>8 DEF Interrupt, Kill
<1>9. ASSUME NEW r \in Runs, Deliver(r) PROVE Rejections'
  <2>1. UNCHANGED <<pc, report>> /\ \A s \in Runs: post[s] = "rejected" => post'[s] = "rejected"
    BY <1>0, <1>9 DEF Deliver
  <2> QED BY <2>1 DEF Rejections
<1>10. ASSUME NEW id \in Ids, Advance(id) \/ Project(id) PROVE Rejections'
  BY <1>10 DEF Advance, Project, Rejections
<1>11. CASE PowerLoss
  BY <1>11 DEF PowerLoss, Rejections
<1>12. CASE UNCHANGED vars
  BY <1>12 DEF vars, Rejections
<1> QED BY <1>3, <1>4, <1>5, <1>6, <1>7, <1>8, <1>9, <1>10, <1>11, <1>12 DEF Next, Step

\* Where every error status is the service's own, a rejection that is reported left nothing
\* behind (see RejectedIsReal), power failures or not.
THEOREM RejectedReal == ASSUME ~Outages PROVE Spec => []RejectedIsReal
<1>1. Init => Rejections
  BY DEF Init, Rejections
<1>2. Rejections => RejectedIsReal
  BY DEF Rejections, RejectedIsReal
<1>3. IInv /\ Rejections /\ [Next]_vars => Rejections'
  BY RejectionsStep
<1> QED BY <1>1, <1>2, <1>3, Invariance, PTL DEF Spec

=============================================================================
