------------------------- MODULE AgentApprovalsProofs -------------------------
(***************************************************************************)
(* Theorems about AgentApprovals, for any tasks, attempts and limits: the  *)
(* composition is still a ledger, grants are answers of the lead to that   *)
(* very request, and a request of an attempt that holds its task is closed *)
(* by nothing but an answer or another call of the turn.                   *)
(***************************************************************************)
EXTENDS AgentApprovals, AgentTasksProofs

\* A request whose answer was used is delivered, a pending one has no answer,
\* and a request belongs to an attempt that was made.
AskInvariant ==
  /\ asks \in [Asker -> Ask]
  /\ \A q \in Asker :
       /\ asks[q].at \in {"granted", "denied"} => asks[q].request = "delivered"
       /\ asks[q].request = "pending" => asks[q].answer = "none" /\ ~asks[q].taken
       /\ asks[q].at # "idle" => q[2] <= rows[q[1]].attempt

Inv == TasksInvariant /\ AskInvariant /\ GrantsAreAnswered /\ AskStaysOpen

LEMMA AskersAreAttempts ==
  ASSUME NEW q \in Asker
  PROVE  q[1] \in Task /\ q[2] \in Nat
<1>1. PICK t \in Background :
        q \in {<<t, a, s>> : a \in 1..MaxAttempts[t], s \in Slot}
  BY DEF Asker
<1>2. PICK a \in 1..MaxAttempts[t], s \in Slot : q = <<t, a, s>>
  BY <1>1
<1> QED
  BY <1>2, TasksAssumption, ApprovalsAssumption

\* The calls of a turn are beside each other.
LEMMA BesideIsMutual ==
  ASSUME NEW q \in Asker, NEW p \in Beside(q) \ {q}
  PROVE  p \in Asker /\ q \in Beside(p) \ {p}
BY DEF Beside

\* The attempts of a task only grow, and an attempt that was made and is not
\* current never is again.
LEMMA CurrentIsLost ==
  ASSUME TasksInvariant, [Next]_rows, NEW q \in Asker
  PROVE  /\ q[2] <= rows[q[1]].attempt => q[2] <= rows'[q[1]].attempt
         /\ q[2] <= rows[q[1]].attempt /\ Current(q)' => Current(q)
<1> DEFINE t == q[1]
<1>1. t \in Task /\ q[2] \in Nat
  BY AskersAreAttempts
<1>2. Effect(t) /\ rows' \in [Task -> Row]
  BY <1>1, StepEffect
<1>3. rows[t] \in Row /\ rows'[t] \in Row /\ rows[t].attempt \in Nat /\ rows'[t].attempt \in Nat
  BY <1>1, <1>2 DEF TasksInvariant, TasksTypeOK, Row
<1>4. rows[t].state = "absent" => rows[t].attempt = 0
  BY <1>1 DEF TasksInvariant, TasksTypeOK, NoRow
<1> HIDE DEF t
<1>5. CASE Stays(t)
  BY <1>1, <1>3, <1>5 DEF Stays, Current, Owned, t
<1>6. CASE IsCreated(t)
  BY <1>1, <1>3, <1>4, <1>6 DEF IsCreated, NewRow, NoRow, Current, Owned, t, Active
<1>7. CASE Starts(t)
  BY <1>1, <1>3, <1>7 DEF Starts, Current, Owned, t, Active
<1>8. CASE IsClaimed(t)
  BY <1>1, <1>3, <1>8 DEF IsClaimed, Current, Owned, t, Active
<1>9. CASE Ends(t)
  BY <1>1, <1>3, <1>9 DEF Ends, Current, Owned, t, Active
<1> QED
  BY <1>2, <1>5, <1>6, <1>7, <1>8, <1>9 DEF Effect

LEMMA InvInit == ApprovalInit => Inv
<1>1. ASSUME ApprovalInit, NEW q \in Asker
      PROVE  asks[q] = NoAsk
  BY <1>1 DEF ApprovalInit
<1>2. NoAsk \in Ask /\ NoAsk.at = "idle" /\ NoAsk.request = "none"
  BY DEF NoAsk, Ask
<1>3. ApprovalInit => AskInvariant
  BY <1>1, <1>2 DEF ApprovalInit, AskInvariant
<1>4. ApprovalInit => GrantsAreAnswered /\ AskStaysOpen
  BY <1>1, <1>2 DEF GrantsAreAnswered, AskStaysOpen, Waiting, Polling
<1> QED
  BY <1>3, <1>4, InvariantInit DEF ApprovalInit, Inv

\* A step of the ledger: no request changes, and no attempt becomes current.
LEMMA LedgerKeepsInv ==
  ASSUME Inv, LedgerStep
  PROVE  Inv'
<1>1. [Next]_rows /\ asks' = asks /\ TasksInvariant'
  BY InvariantStep DEF LedgerStep, Inv
<1>2. \A q \in Asker :
        /\ q[2] <= rows[q[1]].attempt => q[2] <= rows'[q[1]].attempt
        /\ q[2] <= rows[q[1]].attempt /\ Current(q)' => Current(q)
  BY <1>1, CurrentIsLost DEF Inv
<1>3. AskInvariant'
  BY <1>1, <1>2 DEF Inv, AskInvariant
<1>4. GrantsAreAnswered'
  BY <1>1 DEF Inv, GrantsAreAnswered
<1>5. AskStaysOpen'
  <2>1. \A q \in Asker : asks'[q].at \in Waiting => asks[q].at \in Waiting /\ asks[q].at # "idle"
    BY <1>1 DEF Waiting, Polling
  <2>2. \A q \in Asker : asks'[q].at \in Waiting /\ Current(q)' => Current(q)
    BY <1>2, <2>1 DEF Inv, AskInvariant
  <2>3. \A q \in Asker : (Unread(q) => Unread(q)') /\ (Discarded(q) => Discarded(q)')
    BY <1>1 DEF Unread, Discarded, Beside
  <2> QED
    BY <1>1, <2>1, <2>2, <2>3 DEF Inv, AskStaysOpen
<1> QED
  BY <1>1, <1>3, <1>4, <1>5 DEF Inv

\* The request of p after a step of the asks, with the ledger as it is.
AskKept(p) ==
  /\ asks'[p] \in Ask
  /\ asks'[p].at \in {"granted", "denied"} => asks'[p].request = "delivered"
  /\ asks'[p].request = "pending" => asks'[p].answer = "none" /\ ~asks'[p].taken
  /\ asks'[p].at # "idle" => p[2] <= rows[p[1]].attempt
  /\ asks'[p].at = "granted" => asks'[p].answer = "yes"
  /\ asks'[p].at = "denied" => asks'[p].answer = "no"
  /\ asks'[p].at \in Waiting /\ Current(p) =>
       asks'[p].request = "pending" \/ Unread(p)' \/ Discarded(p)'

\* A step of the call q, or of the lead that answers it.
CallStep(q) ==
  \/ SendRequest(q)
  \/ Check(q)
  \/ Read(q)
  \/ Recheck(q)
  \/ Take(q)
  \/ Withdraw(q)
  \/ CancelWait(q)
  \/ WorkerDies(q)
  \/ \E answer \in {"yes", "no"} : Resolve(q, answer)

\* What it does to another request: its turn ends, its answer is marked as
\* delivered, or nothing.
TurnEnded(p) ==
  \E request \in {asks[p].request, "delivered"} :
    asks'[p] = [asks[p] EXCEPT !.at = "ended", !.request = request]
MarkedBy(q, p) ==
  p \in Stale(q) /\ asks[q].at \in Waiting /\ asks'[p] = [asks[p] EXCEPT !.taken = TRUE]

LEMMA OnOthers ==
  ASSUME Inv, NEW q \in Asker, CallStep(q), NEW p \in Asker, p # q
  PROVE  asks'[p] = asks[p] \/ (TurnEnded(p) /\ p[2] <= rows[p[1]].attempt) \/ MarkedBy(q, p)
<1>1. asks \in [Asker -> Ask] /\ asks[p] \in Ask
  BY DEF Inv, AskInvariant
<1>2. CASE \/ SendRequest(q) \/ Check(q) \/ Recheck(q) \/ Withdraw(q)
           \/ \E answer \in {"yes", "no"} : Resolve(q, answer)
  BY <1>1, <1>2 DEF SendRequest, Check, Recheck, Pass, Withdraw, Resolve
<1>3. CASE Read(q)
  <2>1. asks[q].at \in Waiting
    BY <1>3 DEF Read, Waiting, Polling
  <2>2. asks'[p] = asks[p] \/ asks'[p] = MarkTaken(Stale(q))[p]
    BY <1>1, <1>3 DEF Read, MarkTaken
  <2> QED
    BY <2>1, <2>2 DEF MarkTaken, MarkedBy
<1>4. CASE Take(q)
  <2>1. asks[q].at \in Waiting
    BY <1>4 DEF Take, Waiting, Polling
  <2>2. PICK found \in AnswersTo(q), before \in SUBSET Stale(q) :
          asks'[p] = MarkTaken(before \cup {found})[p]
    BY <1>4 DEF Take, MarkTaken
  <2>3. found # p
    BY <2>2 DEF AnswersTo
  <2> QED
    BY <2>1, <2>2, <2>3 DEF MarkTaken, MarkedBy
<1>5. CancelWait(q) \/ WorkerDies(q) => (p \in Beside(q) => p[2] <= rows[p[1]].attempt)
  <2>1. CancelWait(q) \/ WorkerDies(q) => asks[q].at # "idle"
    BY DEF CancelWait, WorkerDies, Waiting, Polling
  <2> QED
    BY <2>1 DEF Inv, AskInvariant, Beside
<1>6. [asks[p] EXCEPT !.at = "ended"] = [asks[p] EXCEPT !.at = "ended", !.request = asks[p].request]
  BY <1>1 DEF Ask
<1>7. CASE CancelWait(q)
  <2>1. p \notin Beside(q) => asks'[p] = asks[p]
    BY <1>7 DEF CancelWait
  <2>2. p \in Beside(q) =>
          \/ asks'[p] = [asks[p] EXCEPT !.at = "ended", !.request = "delivered"]
          \/ asks'[p] = [asks[p] EXCEPT !.at = "ended"]
    BY <1>7 DEF CancelWait
  <2>3. p \in Beside(q) => TurnEnded(p)
    BY <1>6, <2>2 DEF TurnEnded
  <2> QED
    BY <1>5, <1>7, <2>1, <2>3
<1>8. CASE WorkerDies(q)
  <2>1. asks'[p] = IF p \in Beside(q) THEN [asks[p] EXCEPT !.at = "ended"] ELSE asks[p]
    BY <1>8 DEF WorkerDies
  <2> QED
    BY <1>5, <1>6, <1>8, <2>1 DEF TurnEnded
<1> QED
  BY <1>2, <1>3, <1>4, <1>7, <1>8 DEF CallStep

\* What it does to the request of q itself.
SentAnew(q) == asks'[q] = [NoAsk EXCEPT !.at = "checking", !.request = "pending"]
GoesOn(q) ==
  /\ asks[q].at \in Waiting
  /\ \E at \in Waiting : asks'[q] = [asks[q] EXCEPT !.at = at]
GivesUp(q) ==
  /\ asks[q].at \in Waiting
  /\ \E at \in {"refused", "ended"}, request \in {asks[q].request, "delivered"} :
       asks'[q] = [asks[q] EXCEPT !.at = at, !.request = request]
IsTold(q) ==
  /\ asks[q].at \in Waiting /\ asks[q].answer \in {"yes", "no"}
  /\ asks'[q] = [asks[q] EXCEPT
       !.at = IF asks[q].answer = "yes" THEN "granted" ELSE "denied",
       !.request = "delivered", !.taken = TRUE]
IsAnswered(q) ==
  /\ asks[q].request = "pending"
  /\ \E answer \in {"yes", "no"} :
       asks'[q] = [asks[q] EXCEPT !.request = "delivered", !.answer = answer]

LEMMA OnItself ==
  ASSUME Inv, NEW q \in Asker, CallStep(q)
  PROVE  (SentAnew(q) /\ q[2] <= rows[q[1]].attempt) \/ GoesOn(q) \/ GivesUp(q) \/ IsTold(q) \/ IsAnswered(q)
<1>1. asks \in [Asker -> Ask] /\ asks[q] \in Ask
  BY DEF Inv, AskInvariant
<1>2. q[1] \in Task /\ q[2] \in Nat /\ rows[q[1]].attempt \in Nat
  BY AskersAreAttempts DEF Inv, TasksInvariant, TasksTypeOK, Row
<1>3. CASE SendRequest(q)
  BY <1>1, <1>2, <1>3 DEF SendRequest, InTurn, SentAnew
<1>4. CASE Check(q) \/ Recheck(q)
  BY <1>1, <1>4 DEF Check, Recheck, Pass, GoesOn, Waiting, Polling
<1>5. CASE Read(q)
  <2>1. q \notin Stale(q)
    BY DEF Stale
  <2>2. MarkTaken(Stale(q))[q] = asks[q]
    BY <2>1 DEF MarkTaken
  <2>3. MarkTaken(Stale(q)) = [p \in Asker |-> MarkTaken(Stale(q))[p]]
    BY DEF MarkTaken
  <2>4. asks'[q] = [asks[q] EXCEPT !.at = "rechecking"] \/ asks'[q] = [asks[q] EXCEPT !.at = "checking"]
    BY <1>1, <1>5, <2>2, <2>3 DEF Read
  <2> QED
    BY <1>5, <2>4 DEF Read, GoesOn, Waiting, Polling
<1>6. CASE Take(q)
  <2>1. PICK found \in AnswersTo(q), before \in SUBSET Stale(q) :
          asks' = [MarkTaken(before \cup {found}) EXCEPT
                     ![q].at = IF asks[found].answer = "yes" THEN "granted" ELSE "denied",
                     ![q].request = "delivered"]
    BY <1>6 DEF Take
  <2>2. found = q /\ asks[q].answer \in {"yes", "no"}
    BY <1>1, <2>1 DEF AnswersTo, Unread, Ask
  <2>3. MarkTaken(before \cup {found})[q] = [asks[q] EXCEPT !.taken = TRUE]
    BY <2>2 DEF MarkTaken
  <2>4. MarkTaken(before \cup {found}) = [p \in Asker |-> MarkTaken(before \cup {found})[p]]
    BY DEF MarkTaken
  <2> DEFINE marked == [asks[q] EXCEPT !.taken = TRUE]
             told == IF asks[q].answer = "yes" THEN "granted" ELSE "denied"
  <2>5. asks'[q] = [marked EXCEPT !.at = told, !.request = "delivered"]
    BY <2>1, <2>2, <2>3, <2>4
  <2>6. [marked EXCEPT !.at = told, !.request = "delivered"]
          = [asks[q] EXCEPT !.at = told, !.request = "delivered", !.taken = TRUE]
    BY <1>1 DEF Ask
  <2> QED
    BY <1>6, <2>2, <2>5, <2>6 DEF Take, IsTold, Waiting, Polling
<1>7. CASE Withdraw(q)
  BY <1>1, <1>7 DEF Withdraw, GivesUp, Waiting, Polling
<1>8. CASE CancelWait(q) \/ WorkerDies(q)
  <2>1. q \in Beside(q) /\ asks[q].at \in Waiting
    BY <1>8 DEF Beside, CancelWait, WorkerDies, Waiting
  <2>2. \E request \in {asks[q].request, "delivered"} :
          asks'[q] = [asks[q] EXCEPT !.at = "ended", !.request = request]
    <3>1. CASE CancelWait(q)
      BY <2>1, <3>1 DEF CancelWait
    <3>2. CASE WorkerDies(q)
      <4>1. asks'[q] = [asks[q] EXCEPT !.at = "ended"]
        BY <2>1, <3>2 DEF WorkerDies
      <4> QED
        BY <1>1, <4>1 DEF Ask
    <3> QED
      BY <1>8, <3>1, <3>2
  <2> QED
    BY <2>1, <2>2 DEF GivesUp
<1>9. ASSUME NEW answer \in {"yes", "no"}, Resolve(q, answer)
      PROVE  IsAnswered(q)
  BY <1>1, <1>9 DEF Resolve, IsAnswered
<1> QED
  BY <1>3, <1>4, <1>5, <1>6, <1>7, <1>8, <1>9 DEF CallStep

LEMMA StepsAreCalls ==
  ASSUME AskStep
  PROVE  RetireStale \/ \E q \in Asker : CallStep(q)
BY DEF AskStep, CallStep

\* Who has asked once is never again one who has not.
LEMMA NeverIdle ==
  ASSUME Inv, AskStep, NEW p \in Asker, asks[p].at # "idle"
  PROVE  asks'[p].at # "idle"
<1>1. asks[p] \in Ask /\ NoAsk \in Ask
  BY DEF Inv, AskInvariant, NoAsk, Ask
<1>2. CASE RetireStale
  BY <1>1, <1>2 DEF RetireStale, Ask
<1>3. ASSUME NEW q \in Asker, CallStep(q)
      PROVE  asks'[p].at # "idle"
  <2>1. CASE p = q
    <3>1. CASE SentAnew(q)
      BY <1>1, <2>1, <3>1 DEF SentAnew, NoAsk
    <3>2. CASE GoesOn(q) \/ GivesUp(q)
      BY <1>1, <2>1, <3>2 DEF GoesOn, GivesUp, Ask, Waiting, Polling
    <3>3. CASE IsTold(q) \/ IsAnswered(q)
      BY <1>1, <2>1, <3>3 DEF IsTold, IsAnswered, Ask
    <3> QED
      BY <1>3, <3>1, <3>2, <3>3, OnItself
  <2>2. CASE p # q
    <3>1. CASE TurnEnded(p)
      BY <1>1, <3>1 DEF TurnEnded, Ask
    <3>2. CASE MarkedBy(q, p)
      BY <1>1, <3>2 DEF MarkedBy, Ask
    <3> QED
      BY <1>3, <2>2, <3>1, <3>2, OnOthers
  <2> QED
    BY <2>1, <2>2
<1> QED
  BY <1>2, <1>3, StepsAreCalls

\* An answer that a step leaves alone is unread, or discarded, as it was.
LEMMA AnswerStays ==
  ASSUME Inv, AskStep, NEW p \in Asker,
         asks'[p].answer = asks[p].answer, asks'[p].taken = asks[p].taken
  PROVE  (Unread(p) => Unread(p)') /\ (Discarded(p) => Discarded(p)')
<1>1. Unread(p) => Unread(p)'
  BY DEF Unread
<1>2. ASSUME Discarded(p)
      PROVE  Discarded(p)'
  <2>1. PICK r \in Beside(p) \ {p} : asks[r].at # "idle"
    BY <1>2 DEF Discarded
  <2>2. asks'[r].at # "idle"
    BY <2>1, NeverIdle DEF Beside
  <2> QED
    BY <1>2, <2>1, <2>2 DEF Discarded, Beside
<1> QED
  BY <1>1, <1>2

LEMMA AskKeptAsItWas ==
  ASSUME Inv, AskStep, NEW p \in Asker, asks'[p] = asks[p]
  PROVE  AskKept(p)
<1>1. (Unread(p) => Unread(p)') /\ (Discarded(p) => Discarded(p)')
  BY AnswerStays
<1> QED
  BY <1>1 DEF Inv, AskInvariant, GrantsAreAnswered, AskStaysOpen, AskKept

\* The request of another call: a turn that has ended waits for nothing, and
\* an answer that was marked is one its waiting neighbour has discarded.
LEMMA AskKeptOthers ==
  ASSUME Inv, NEW q \in Asker, CallStep(q), AskStep, NEW p \in Asker, p # q
  PROVE  AskKept(p)
<1>1. asks[p] \in Ask /\ asks[q] \in Ask
  BY DEF Inv, AskInvariant
<1>2. CASE asks'[p] = asks[p]
  BY <1>2, AskKeptAsItWas
<1>3. CASE TurnEnded(p) /\ p[2] <= rows[p[1]].attempt
  <2>1. PICK request \in {asks[p].request, "delivered"} :
          asks'[p] = [asks[p] EXCEPT !.at = "ended", !.request = request]
    BY <1>3 DEF TurnEnded
  <2> QED
    BY <1>1, <1>3, <2>1 DEF AskKept, Ask, Waiting, Polling, Inv, AskInvariant
<1>4. CASE MarkedBy(q, p)
  <2>1. p \in Beside(q) \ {q} /\ Unread(p)
    BY <1>4 DEF MarkedBy, Stale
  <2>2. asks[p].request # "pending"
    BY <2>1 DEF Unread, Inv, AskInvariant
  <2>3. asks'[q].at # "idle"
    BY <1>4, NeverIdle DEF MarkedBy, Waiting, Polling
  <2>4. asks'[p].answer # "none" /\ asks'[p].taken
    BY <1>1, <1>4, <2>1 DEF MarkedBy, Unread, Ask
  <2>5. Discarded(p)'
    BY <2>1, <2>3, <2>4, BesideIsMutual DEF Discarded, Beside
  <2> QED
    BY <1>1, <1>4, <2>2, <2>5 DEF MarkedBy, AskKept, Ask, Inv, AskInvariant, GrantsAreAnswered
<1> QED
  BY <1>2, <1>3, <1>4, OnOthers

LEMMA AskKeptItself ==
  ASSUME Inv, NEW q \in Asker, CallStep(q), AskStep
  PROVE  AskKept(q)
<1>1. asks[q] \in Ask
  BY DEF Inv, AskInvariant
<1>2. asks[q].at # "idle" => q[2] <= rows[q[1]].attempt
  BY DEF Inv, AskInvariant
<1>3. CASE SentAnew(q) /\ q[2] <= rows[q[1]].attempt
  BY <1>3 DEF SentAnew, AskKept, NoAsk, Ask, Waiting, Polling
<1>4. CASE GoesOn(q)
  <2>1. PICK at \in Waiting : asks'[q] = [asks[q] EXCEPT !.at = at]
    BY <1>4 DEF GoesOn
  <2>2. (Unread(q) => Unread(q)') /\ (Discarded(q) => Discarded(q)')
    BY <1>1, <2>1, AnswerStays DEF Ask
  <2> QED
    BY <1>1, <1>2, <1>4, <2>1, <2>2
    DEF GoesOn, AskKept, Ask, Waiting, Polling, Inv, AskInvariant, AskStaysOpen
<1>5. CASE GivesUp(q)
  BY <1>1, <1>2, <1>5 DEF GivesUp, AskKept, Ask, Waiting, Polling, Inv, AskInvariant
<1>6. CASE IsTold(q)
  BY <1>1, <1>2, <1>6 DEF IsTold, AskKept, Ask, Waiting, Polling
<1>7. CASE IsAnswered(q)
  <2>1. PICK answer \in {"yes", "no"} :
          asks'[q] = [asks[q] EXCEPT !.request = "delivered", !.answer = answer]
    BY <1>7 DEF IsAnswered
  <2>2. ~asks[q].taken /\ asks[q].at \notin {"granted", "denied"}
    BY <1>7 DEF IsAnswered, Inv, AskInvariant
  <2>3. Unread(q)'
    BY <1>1, <2>1, <2>2 DEF Unread, Ask
  <2> QED
    BY <1>1, <1>2, <2>1, <2>2, <2>3 DEF AskKept, Ask
<1> QED
  BY <1>3, <1>4, <1>5, <1>6, <1>7, OnItself

LEMMA AskKeptRetire ==
  ASSUME Inv, NEW p \in Asker, RetireStale, AskStep
  PROVE  AskKept(p)
<1>1. asks[p] \in Ask
  BY DEF Inv, AskInvariant
<1>2. CASE asks'[p] = asks[p]
  BY <1>2, AskKeptAsItWas
<1>3. CASE ~Current(p) /\ asks'[p] = [asks[p] EXCEPT !.request = "delivered"]
  BY <1>1, <1>3 DEF AskKept, Ask, Inv, AskInvariant, GrantsAreAnswered
<1> QED
  BY <1>2, <1>3 DEF RetireStale, Retires

LEMMA AsksKeepInv ==
  ASSUME Inv, AskStep, UNCHANGED rows
  PROVE  Inv'
<1>1. ASSUME NEW p \in Asker
      PROVE  AskKept(p)
  BY AskKeptItself, AskKeptOthers, AskKeptRetire, StepsAreCalls
<1>2. asks \in [Asker -> Ask]
  BY DEF Inv, AskInvariant
<1>3. asks' = [p \in Asker |-> asks'[p]]
  <2>1. CASE RetireStale
    BY <2>1 DEF RetireStale
  <2>2. ASSUME NEW q \in Asker, Read(q) \/ Take(q)
        PROVE  asks' = [p \in Asker |-> asks'[p]]
    BY <1>2, <2>2 DEF Read, Take, MarkTaken
  <2>3. ASSUME NEW q \in Asker,
               \/ SendRequest(q)
               \/ Check(q)
               \/ Recheck(q)
               \/ Withdraw(q)
               \/ CancelWait(q)
               \/ WorkerDies(q)
               \/ \E answer \in {"yes", "no"} : Resolve(q, answer)
        PROVE  asks' = [p \in Asker |-> asks'[p]]
    BY <1>2, <2>3 DEF SendRequest, Check, Recheck, Pass, Withdraw, CancelWait, WorkerDies, Resolve
  <2> QED
    BY <2>1, <2>2, <2>3 DEF AskStep
<1>4. rows' = rows /\ \A q \in Asker : Current(q)' <=> Current(q)
  BY DEF Current, Owned
<1>5. TasksInvariant'
  BY InvariantStep, <1>4 DEF Inv
<1>6. asks' \in [Asker -> Ask]
  BY <1>1, <1>3 DEF AskKept
<1>7. AskInvariant'
  BY <1>1, <1>4, <1>6 DEF AskKept, AskInvariant
<1>8. GrantsAreAnswered'
  BY <1>1 DEF AskKept, GrantsAreAnswered
<1>9. AskStaysOpen'
  BY <1>1, <1>4 DEF AskKept, AskStaysOpen
<1> QED
  BY <1>5, <1>7, <1>8, <1>9 DEF Inv

LEMMA InvHolds == ApprovalSpec => []Inv
<1>1. Inv /\ [ApprovalNext]_vars => Inv'
  <2> SUFFICES ASSUME Inv, [ApprovalNext]_vars PROVE Inv'
    OBVIOUS
  <2>1. CASE LedgerStep
    BY <2>1, LedgerKeepsInv
  <2>2. CASE AskStep /\ UNCHANGED rows
    BY <2>2, AsksKeepInv
  <2>3. CASE UNCHANGED vars
    <3>1. rows' = rows /\ asks' = asks
      BY <2>3 DEF vars
    <3>2. \A q \in Asker : Current(q)' <=> Current(q)
      BY <3>1 DEF Current, Owned
    <3>3. TasksInvariant'
      BY <3>1, InvariantStep DEF Inv
    <3> QED
      BY <3>1, <3>2, <3>3 DEF Inv, AskInvariant, GrantsAreAnswered, AskStaysOpen, Unread, Discarded
  <2> QED
    BY <2>1, <2>2, <2>3 DEF ApprovalNext
<1> QED
  BY InvInit, <1>1, PTL DEF ApprovalSpec

\* A tool call runs on a grant only if the lead gave it for that very request,
\* and never after a refusal, whichever answers to the other calls of its turn
\* lie in the mailbox that they poll.
THEOREM GrantsHold == ApprovalSpec => []GrantsAreAnswered
<1>1. Inv => GrantsAreAnswered
  BY DEF Inv
<1> QED
  BY InvHolds, <1>1, PTL

\* A call that waits can be answered, or has its answer, for as long as its
\* attempt holds the task, unless another call of the turn took it away.
THEOREM AsksStayOpen == ApprovalSpec => []AskStaysOpen
<1>1. Inv => AskStaysOpen
  BY DEF Inv
<1> QED
  BY InvHolds, <1>1, PTL

\* Approvals drive the ledger only by steps it allows, so that what is proved of
\* AgentTasks holds of the composition.
THEOREM ApprovalsKeepLedger == ApprovalSpec => Spec
<1>1. ApprovalInit => Init
  BY DEF ApprovalInit
<1>2. [ApprovalNext]_vars => [Next]_rows
  BY DEF ApprovalNext, LedgerStep, vars
<1> QED
  BY <1>1, <1>2, PTL DEF ApprovalSpec, Spec
==============================================================================
