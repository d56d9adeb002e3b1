-------------------------- MODULE TurnRecoveryProofs ---------------------------
(***************************************************************************)
(* Proofs about turn recovery, for any turns, batches of calls and files,  *)
(* any number of hand edits and of crashes: what a file held before Ash is *)
(* never lost, what the model is told of a call is true, an undo or rewind *)
(* that stopped can be begun again, recovery leaves completed work alone,  *)
(* and a turn that was cut short is answered before the model is asked.    *)
(***************************************************************************)
EXTENDS TurnRecovery, FiniteSetTheorems, WellFoundedInduction, TLAPS

(***************************************************************************)
(* The inductive invariant, in parts.                                      *)
(***************************************************************************)
\* A turn is in hand.
InTurn == {"model", "calls", "ending", "cancelled"}

Replied(t) == \A c \in Batch(t) : calls[c].asked => calls[c].answers = 1

\* Nothing is left of a turn but perhaps files to look at.
Quiet(t) == Replied(t) /\ Pending(t) = {}

\* What a batch that is being executed looks like: sequential calls begin when
\* those before them are answered; parallel ones are answered in order, later.
BatchInOrder(t) ==
  /\ \A c \in Batch(t) : calls[c].asked
  /\ t \notin Parallel => \A c, d \in Batch(t) :
       d < c /\ calls[c].row # "none" => calls[d].answers = 1
  /\ t \in Parallel =>
       /\ \E c \in Batch(t) : calls[c].answers = 0
       /\ \A c, d \in Batch(t) : d < c /\ calls[c].answers = 1 => calls[d].answers = 1

\* The turn in hand, the ones before it, and the calls of each.
TurnsInOrder ==
  /\ runtime \in InTurn => current \in Turn /\ journal[current] = "started"
  /\ \A c \in Call : stage[c] # "none" => runtime = "calls" /\ TurnOf[c] = current
  /\ \A c \in Call : journal[TurnOf[c]] \in {"none", "deleted"} \/ ~calls[c].asked
                       => calls[c] = NoCall
  /\ \A t \in Turn : journal[t] = "recovered" => Quiet(t)
  /\ runtime \in {"model", "calls"} => \A t \in Turn \ {current} :
       journal[t] # "started" /\ (journal[t] = "interrupted" => Quiet(t))
  /\ runtime = "model" => Replied(current)
  /\ runtime = "calls" => BatchInOrder(current)
  /\ runtime = "ending" /\ current \notin Parallel =>
       \A c \in Batch(current) : calls[c].row \in {"none", "settled"}
  /\ \A c \in Call : calls[c].row = "dispatched" /\ FilesOf[c] # {} =>
       journal[TurnOf[c]] \in {"started", "interrupted"}

\* What a call has done, and what its row says of it.
Gone(c) == journal[TurnOf[c]] = "deleted"
Over(c) == calls[c].row = "settled" \/ Gone(c)

EffectsRecorded ==
  \A c \in Call :
    /\ c \in acted \/ (\E f \in File : marks[c][f].at # "none")
         => calls[c].row = "dispatched" \/ Over(c)
    /\ stage[c] = "hooks" => c \notin acted /\ \A f \in File : marks[c][f].at = "none"
    /\ stage[c] = "run" => \A f \in FilesOf[c] : marks[c][f].at = "open"
    /\ calls[c].outcome = "notrun" => c \notin acted
    /\ calls[c].outcome = "success" => c \in acted

\* Contents are named by those who wrote them.
Written(x, f) == /\ x >= -edits
                 /\ x \in Call => x \in acted /\ f \in FilesOf[x]
ContentsNamed ==
  \A f \in File :
    /\ kept[f] \in (-edits)..0
    /\ Written(files[f], f) /\ Written(op.was[f], f)
    /\ \A c \in Call : Written(marks[c][f].before, f) /\ marks[c][f].after >= -edits

\* What call c may have left: what it found, what it wrote, or a hand edit that
\* could not be told from it.
LeftBy(c, f, x) == \/ x \in {marks[c][f].before, c}
                   \/ x < 0 /\ x # kept[f]
Covered(f) == \E c \in Live(f) : marks[c][f].before = kept[f]

OriginalsMarked ==
  \A f \in File :
    /\ files[f] # kept[f] => Covered(f)
    /\ \A c \in Call :
         /\ stage[c] # "none" /\ marks[c][f].at = "open"
              => Covered(f) /\ LeftBy(c, f, files[f])
         /\ marks[c][f].at = "closed" => LeftBy(c, f, marks[c][f].after)

\* The writing of a call that is not over is covered by its own mark, and is
\* what no other call found; a call that was rolled back is nowhere.
WritingsMarked ==
  \A c \in Call, f \in File :
    /\ calls[c].row = "dispatched" /\ c \in {files[f], op.was[f]} => c \in Live(f)
    /\ \A d \in Call : marks[d][f].at # "none" /\ marks[d][f].before = c
         => Over(c) /\ calls[c].outcome # "undone"
    /\ calls[c].outcome = "undone" => c \notin {files[f], op.was[f]}

\* A file that call c found as it is to be kept, is so.
Given(c, f, x) ==
  /\ x # c
  /\ c \in Live(f) /\ marks[c][f].before = kept[f] => x = kept[f]

RecoveryInHand ==
  op.kind = "recovery" => \E t \in Turn :
    /\ op.turns = {t} /\ journal[t] \in {"started", "interrupted"}
    /\ op.call = 0 => op.todo = {}
    /\ op.call # 0 => /\ op.call \in Unjudged(t) /\ calls[op.call].row = "dispatched"
                      /\ \A r \in op.todo : r[1] = op.call
                      /\ \A f \in File : <<op.call, f>> \notin op.todo
                                           => Given(op.call, f, files[f])
    /\ \A c \in Call :
         /\ op.verdict[c] # "none" => c \in Pending(t)
         /\ op.verdict[c] # "success"
         /\ op.verdict[c] = "notrun" => calls[c].row = "intent"
         /\ op.verdict[c] = "undone" => \A f \in File :
              Given(c, f, files[f]) /\ (op.call # 0 => Given(c, f, op.was[f]))

\* How far the restoration of a file is: it was edited by hand, or is done, or
\* it is as some edit of the chain left it, and that one is next.
Reached(T, f) ==
  \/ ~op.clean /\ files[f] = kept[f]
  \/ files[f] = Original(T, f) /\ \A r \in op.todo : r[2] # f
  \/ \E c \in Chain(T, f) : /\ files[f] = marks[c][f].after
                            /\ \A d \in Chain(T, f) : <<d, f>> \in op.todo <=> d <= c

ReversalInHand ==
  op.kind \in {"undo", "rewind"} =>
    /\ op.call = 0 /\ op.todo \subseteq Rows(op.turns)
    /\ \A r \in Rows(op.turns) : marks[r[1]][r[2]].at = "closed"
    /\ \A f \in File : Chain(op.turns, f) # {}
         => Linked(op.turns, f) /\ Reached(op.turns, f)

OperationSound ==
  /\ op.kind = "none" => op = NoOp
  /\ \A r \in op.todo : marks[r[1]][r[2]].at = "closed"
  /\ \A f \in File : op.left[f] # op.was[f] =>
       \E c \in Live(f) : marks[c][f].before = op.left[f]

RecoveryInvariant ==
  /\ RecoveryTypeOK /\ TurnsInOrder /\ EffectsRecorded /\ ContentsNamed
  /\ OriginalsMarked /\ WritingsMarked
  /\ OperationSound /\ RecoveryInHand /\ ReversalInHand

-----------------------------------------------------------------------------
(***************************************************************************)
(* Numbers: calls are numbered, so sets of them have ends.                 *)
(***************************************************************************)
LEMMA CallFacts ==
  /\ Cardinality(Call) \in Nat /\ Call = 1..Cardinality(Call) /\ IsFiniteSet(Call)
  /\ \A c \in Call : TurnOf[c] \in Turn /\ FilesOf[c] \subseteq File
  /\ \A c \in Call : FilesOf[c] # {} => TurnOf[c] \notin Parallel
BY RecoveryAssumption, FS_CardinalityType

LEMMA Negatives ==
  /\ \A n \in Nat : 0 >= -n
  /\ \A n \in Int : -n \in Int
OBVIOUS

\* By the strict inclusion of the initial segments of a finite set.
LEMMA LeastOf ==
  ASSUME NEW S, IsFiniteSet(S), S \subseteq Int, S # {}
  PROVE  \E m \in S : \A x \in S : m <= x
<1> DEFINE Seg(m) == {x \in S : x <= m}
           T == {Seg(m) : m \in S}
<1>1. T \subseteq FiniteSubsetsOf(S) /\ T # {}
  <2>1. \A m \in S : Seg(m) \in SUBSET S
    OBVIOUS
  <2>2. \A m \in S : IsFiniteSet(Seg(m))
    <3> TAKE m \in S
    <3> HIDE DEF Seg
    <3> QED BY <2>1, FS_Subset
  <2> QED BY <2>1, <2>2 DEF FiniteSubsetsOf
<1>2. PICK s \in T : \A y \in T : <<y, s>> \notin StrictSubsetOrdering(S)
  BY <1>1, FS_StrictSubsetOrderingWellFounded, WFMin
<1>3. PICK m \in S : s = Seg(m)
  OBVIOUS
<1>4. ASSUME NEW x \in S, ~(m <= x)
      PROVE  FALSE
  <2>1. x < m /\ x \in Int /\ m \in Int
    BY <1>4
  <2>2. Seg(x) \subseteq Seg(m) /\ m \in Seg(m) /\ m \notin Seg(x)
    <3>1. \A y \in S : y <= x => y <= m
      BY <2>1
    <3>2. m <= m /\ ~(m <= x)
      BY <2>1
    <3> QED BY <3>1, <3>2
  <2>3. Seg(x) \in T /\ Seg(x) \in SUBSET S /\ s \in SUBSET S
    BY <1>3
  <2> HIDE DEF Seg, T
  <2>4. <<Seg(x), s>> \in StrictSubsetOrdering(S)
    BY <1>3, <2>2, <2>3 DEF StrictSubsetOrdering
  <2> QED BY <1>2, <2>3, <2>4
<1> QED BY <1>4

LEMMA Numbered ==
  ASSUME NEW S, S \subseteq Call \/ S \subseteq Turn
  PROVE  IsFiniteSet(S) /\ S \subseteq Int
<1>1. IsFiniteSet(Turn) /\ Turn \subseteq Int
  BY RecoveryAssumption, FS_Interval DEF Turn
<1>2. IsFiniteSet(Call) /\ Call \subseteq Int
  BY CallFacts
<1>3. CASE S \subseteq Call
  BY <1>2, <1>3, FS_Subset
<1>4. CASE S \subseteq Turn
  BY <1>1, <1>4, FS_Subset
<1> QED BY <1>3, <1>4

LEMMA MinIs ==
  ASSUME NEW S, S \subseteq Call \/ S \subseteq Turn, S # {}
  PROVE  Min(S) \in S /\ \A x \in S : Min(S) <= x
<1>1. IsFiniteSet(S) /\ S \subseteq Int
  BY Numbered
<1> QED BY <1>1, LeastOf DEF Min

LEMMA MaxIs ==
  ASSUME NEW S, S \subseteq Call \/ S \subseteq Turn, S # {}
  PROVE  Max(S) \in S /\ \A x \in S : Max(S) >= x
<1>1. IsFiniteSet(S) /\ S \subseteq Int
  BY Numbered
<1> DEFINE N == {-x : x \in S}
           f == [x \in S |-> -x]
<1>2. f \in Surjection(S, N)
  BY <1>1 DEF Surjection
<1>3. N \subseteq Int /\ N # {}
  BY <1>1, Negatives
<1> HIDE DEF f, N
<1>a. IsFiniteSet(N)
  BY <1>1, <1>2, FS_Surjection
<1>4. PICK m \in N : \A x \in N : m <= x
  BY <1>3, <1>a, LeastOf
<1>5. PICK x \in S : m = -x
  BY DEF N
<1>6. \A y \in S : x >= y
  <2> SUFFICES ASSUME NEW y \in S PROVE x >= y
    OBVIOUS
  <2>1. -y \in N
    BY DEF N
  <2> QED BY <1>1, <1>4, <1>5, <2>1
<1> QED BY <1>6 DEF Max

-----------------------------------------------------------------------------
(***************************************************************************)
(* How the row of a call moves.                                            *)
(***************************************************************************)
RowOK(r) ==
  /\ r \in CallRow /\ r.answers <= 1
  /\ r.row = "settled" <=> r.outcome # "none"
  /\ r.answers = 1 => r.row = "settled"

Stays(r, q) == q.asked = r.asked /\ q.row = r.row /\ q.outcome = r.outcome

Advance(r, q) ==
  \/ q = r
  \/ r = NoCall /\ q = [NoCall EXCEPT !.asked = TRUE]
  \/ /\ r.asked /\ q.asked /\ q.outcome = "none" /\ q.answers = r.answers
     /\ <<r.row, q.row>> \in {<<"none", "intent">>, <<"intent", "dispatched">>}
  \/ /\ r.asked /\ q.asked /\ r.row # "settled" /\ q.row = "settled"
     /\ q.outcome # "none" /\ q.answers \in {0, 1}
  \/ Stays(r, q) /\ r.row = "settled" /\ r.answers = 0 /\ q.answers = 1

RowMoves(c) ==
  /\ RowOK(calls'[c])
  /\ Gone(c) => Gone(c)'
  /\ \/ Gone(c)' /\ calls'[c] = NoCall
     \/ Advance(calls[c], calls'[c])

LEMMA RowFields ==
  ASSUME NEW r, RowOK(r), NEW o \in Outcome \ {"none"}
  PROVE  /\ RowOK(Settled(r, o)) /\ Settled(r, o).row = "settled"
         /\ Settled(r, o).outcome = o /\ Settled(r, o).asked = r.asked
         /\ Settled(r, o).answers = r.answers
         /\ r.answers \in {0, 1} /\ (r.row # "settled" => r.answers = 0)
         /\ Stays(r, Answered(r)) /\ Answered(r).answers = r.answers + 1
         /\ r.row = "settled" /\ r.answers = 0 => RowOK(Answered(r))
<1> DEFINE q == Settled(r, o)
           u == Answered(r)
<1>1. q \in CallRow /\ q.row = "settled" /\ q.outcome = o /\ q.asked = r.asked
        /\ q.answers = r.answers
  BY DEF RowOK, CallRow, Settled
<1>2. u \in CallRow /\ Stays(r, u) /\ u.answers = r.answers + 1
  BY DEF RowOK, CallRow, Answered, Stays
<1>3. r.answers \in {0, 1} /\ (r.row # "settled" => r.answers = 0)
  BY DEF RowOK, CallRow
<1> HIDE DEF q, u
<1>4. RowOK(q)
  BY <1>1, <1>3 DEF RowOK
<1>5. r.row = "settled" /\ r.answers = 0 => RowOK(u)
  BY <1>2 DEF RowOK, Stays
<1> QED BY <1>1, <1>2, <1>3, <1>4, <1>5 DEF q, u

LEMMA RowSettles ==
  ASSUME NEW r, RowOK(r), r.row # "settled", r.asked, NEW o \in Outcome \ {"none"}
  PROVE  /\ RowOK(Settled(r, o)) /\ Advance(r, Settled(r, o))
         /\ RowOK(Answered(Settled(r, o))) /\ Advance(r, Answered(Settled(r, o)))
<1> DEFINE q == Settled(r, o)
           u == Answered(Settled(r, o))
<1>1. RowOK(q) /\ q.row = "settled" /\ q.outcome = o /\ q.asked /\ q.answers = 0
  BY RowFields
<1> HIDE DEF q
<1>2. RowOK(Answered(q)) /\ Stays(q, Answered(q)) /\ Answered(q).answers = 1
  BY <1>1, RowFields
<1>3. u = Answered(q)
  BY DEF q
<1> HIDE DEF u
<1>4. Advance(r, q) /\ Advance(r, u)
  BY <1>1, <1>2, <1>3 DEF Advance, Stays
<1> QED BY <1>1, <1>2, <1>3, <1>4 DEF q, u

LEMMA RowAnswered ==
  ASSUME NEW r, RowOK(r), r.row = "settled", r.answers = 0
  PROVE  RowOK(Answered(r)) /\ Advance(r, Answered(r))
<1>1. "failed" \in Outcome \ {"none"}
  BY DEF Outcome
<1> QED BY <1>1, RowFields DEF Advance

LEMMA NoCallRow ==
  /\ RowOK(NoCall) /\ RowOK([NoCall EXCEPT !.asked = TRUE])
  /\ NoCall.row = "none" /\ NoCall.outcome = "none" /\ NoCall.answers = 0
  /\ NoCall.asked = FALSE
  /\ [NoCall EXCEPT !.asked = TRUE].asked /\ [NoCall EXCEPT !.asked = TRUE].row = "none"
  /\ [NoCall EXCEPT !.asked = TRUE].outcome = "none"
  /\ [NoCall EXCEPT !.asked = TRUE].answers = 0
<1> DEFINE q == [NoCall EXCEPT !.asked = TRUE]
<1>1. /\ NoCall.row = "none" /\ NoCall.outcome = "none" /\ NoCall.answers = 0
      /\ NoCall.asked = FALSE /\ NoCall \in CallRow
  BY DEF NoCall, CallRow, Outcome
<1>2. q \in CallRow /\ q.asked /\ q.row = "none" /\ q.outcome = "none" /\ q.answers = 0
  BY <1>1 DEF CallRow
<1> HIDE DEF q
<1>3. RowOK(NoCall) /\ RowOK(q)
  BY <1>1, <1>2 DEF RowOK
<1> QED BY <1>1, <1>2, <1>3 DEF q

LEMMA RowsOK ==
  ASSUME RecoveryTypeOK
  PROVE  /\ \A c \in Call : RowOK(calls[c])
         /\ \A c \in Call : stage[c] # "none" => calls[c].row = "dispatched"
BY DEF RecoveryTypeOK, RowOK

\* The row of one call moves.
LEMMA OneRowMoves ==
  ASSUME RecoveryTypeOK, UNCHANGED journal, NEW c \in Call, NEW q,
         calls' = [calls EXCEPT ![c] = q], RowOK(q), Advance(calls[c], q)
  PROVE  /\ calls' \in [Call -> CallRow]
         /\ \A d \in Call : RowMoves(d)
<1>1. calls \in [Call -> CallRow] /\ q \in CallRow
  BY DEF RecoveryTypeOK, RowOK
<1>2. calls'[c] = q /\ \A d \in Call \ {c} : calls'[d] = calls[d]
  BY <1>1
<1>3. ASSUME NEW d \in Call
      PROVE  RowMoves(d)
  BY <1>2, RowsOK DEF RowMoves, Gone, Advance
<1> QED BY <1>1, <1>3

LEMMA FinalizeMoves ==
  ASSUME RecoveryTypeOK, TurnsInOrder, NEW c \in Call, HasTurn(c),
         NEW o \in Outcome \ {"none"}, NEW maytrip, Finalize(c, o, maytrip)
  PROVE  /\ calls' \in [Call -> CallRow]
         /\ \A d \in Call : RowMoves(d)
<1>1. RowOK(calls[c]) /\ calls[c].row # "settled" /\ calls[c].asked
  BY RowsOK DEF HasTurn, TurnsInOrder, BatchInOrder
<1>2. \/ calls' = [calls EXCEPT ![c] = Settled(calls[c], o)]
      \/ calls' = [calls EXCEPT ![c] = Answered(Settled(calls[c], o))]
  BY DEF Finalize
<1>3. UNCHANGED journal
  BY DEF Finalize
<1> QED BY <1>1, <1>2, <1>3, RowSettles, OneRowMoves

\* The answers of a parallel batch: there is one to give.
LEMMA AnswerNext ==
  ASSUME RecoveryTypeOK, TurnsInOrder, AnswerBatch
  PROVE  \E c \in Batch(current) :
           /\ c = Min(Missing(current))
           /\ calls[c].answers = 0 /\ calls[c].row = "settled"
           /\ \A d \in Batch(current) : d < c => calls[d].answers # 0
           /\ calls' = [calls EXCEPT ![c] = Answered(calls[c])]
           /\ runtime' = NextCall(c)
<1> DEFINE c == Min(Missing(current))
<1>1. /\ \A d \in Batch(current) : calls[d].row = "settled" /\ calls[d].asked
      /\ \E d \in Batch(current) : calls[d].answers = 0
  BY DEF AnswerBatch, TurnsInOrder, BatchInOrder
<1>2. Missing(current) # {} /\ Missing(current) \subseteq Call
  BY <1>1 DEF Missing, Batch
<1>3. c \in Missing(current) /\ \A d \in Missing(current) : c <= d
  BY <1>2, MinIs
<1>4. calls' = [calls EXCEPT ![c] = Answered(calls[c])] /\ runtime' = NextCall(c)
  BY DEF AnswerBatch
<1> HIDE DEF c
<1>5. c \in Batch(current) /\ calls[c].answers = 0
  BY <1>3 DEF Missing
<1>6. \A d \in Batch(current) : d < c => calls[d].answers # 0
  BY <1>1, <1>2, <1>3, CallFacts DEF Missing
<1> QED BY <1>1, <1>4, <1>5, <1>6 DEF c

\* What recovery makes of the calls of a turn.
LEMMA ReplyMoves ==
  ASSUME RecoveryInvariant, NEW t \in Turn, FinishRecovery(t), NEW c \in Batch(t)
  PROVE  /\ RowOK(Reply(c)) /\ Advance(calls[c], Reply(c))
         /\ Reply(c).asked => Reply(c).answers = 1
         /\ Reply(c).row \notin {"intent", "dispatched"}
         /\ Reply(c).outcome # calls[c].outcome =>
              \/ op.verdict[c] = Reply(c).outcome /\ c \in Pending(t)
              \/ Reply(c).outcome = "notrun" /\ calls[c].row = "none" /\ calls[c].asked
<1>1. RowOK(calls[c]) /\ c \in Call
  BY RowsOK DEF RecoveryInvariant, Batch
<1>2. op.turns = {t} /\ op.kind = "recovery" /\ Unjudged(t) = {}
  BY DEF FinishRecovery, Recovering
<1>3. op.verdict[c] # "none" => c \in Pending(t)
  BY <1>1, <1>2 DEF RecoveryInvariant, RecoveryInHand
<1>4. c \in Pending(t) => op.verdict[c] # "none"
  BY <1>2 DEF Unjudged
<1>5. op.verdict[c] \in Outcome
  BY <1>1 DEF RecoveryInvariant, RecoveryTypeOK, Operation
<1>6. c \in Pending(t) <=> calls[c].row \in {"intent", "dispatched"}
  BY DEF Pending
<1>7. ~calls[c].asked => calls[c].row = "none"
  BY <1>1, NoCallRow DEF RecoveryInvariant, TurnsInOrder
<1>8. calls[c].row \in {"none", "intent", "dispatched", "settled"}
        /\ calls[c].answers \in {0, 1} /\ (calls[c].row # "settled" => calls[c].answers = 0)
  BY <1>1 DEF RowOK, CallRow
<1>9. CASE op.verdict[c] # "none"
  <2>1. Reply(c) = Answered(Settled(calls[c], op.verdict[c]))
    BY <1>9 DEF Reply
  <2>2. calls[c].row # "settled" /\ calls[c].asked /\ op.verdict[c] \in Outcome \ {"none"}
    BY <1>3, <1>5, <1>6, <1>7, <1>9
  <2>3. RowOK(Reply(c)) /\ Advance(calls[c], Reply(c))
    BY <1>1, <2>1, <2>2, RowSettles
  <2> DEFINE q == Settled(calls[c], op.verdict[c])
  <2>4. q.row = "settled" /\ q.outcome = op.verdict[c] /\ q.answers = 0 /\ RowOK(q)
    BY <1>1, <1>8, <2>2, RowFields
  <2> HIDE DEF q
  <2>5. Stays(q, Answered(q)) /\ Answered(q).answers = 1
    BY <2>2, <2>4, RowFields
  <2>6. Reply(c) = Answered(q)
    BY <2>1 DEF q
  <2> QED BY <1>3, <1>9, <2>3, <2>4, <2>5, <2>6 DEF Stays
<1>10. CASE op.verdict[c] = "none" /\ (~calls[c].asked \/ calls[c].answers > 0)
  <2>1. Reply(c) = calls[c]
    BY <1>10 DEF Reply
  <2>2. calls[c].row \notin {"intent", "dispatched"}
    BY <1>4, <1>6, <1>10
  <2> QED BY <1>1, <1>8, <1>10, <2>1, <2>2 DEF Advance
<1>11. CASE op.verdict[c] = "none" /\ calls[c].asked /\ calls[c].answers = 0
  <2>1. calls[c].row \in {"none", "settled"}
    BY <1>4, <1>6, <1>8, <1>11
  <2>2. CASE calls[c].row = "none"
    <3> DEFINE q == Settled(calls[c], "notrun")
    <3>1. Reply(c) = Answered(q)
      BY <1>11, <2>2 DEF Reply
    <3>2. "notrun" \in Outcome \ {"none"}
      BY DEF Outcome
    <3>3. RowOK(Reply(c)) /\ Advance(calls[c], Reply(c))
      BY <1>1, <1>11, <2>2, <3>1, <3>2, RowSettles
    <3>4. q.row = "settled" /\ q.outcome = "notrun" /\ q.answers = 0 /\ RowOK(q)
      BY <1>1, <1>8, <2>2, <3>2, RowFields
    <3> HIDE DEF q
    <3>5. Stays(q, Answered(q)) /\ Answered(q).answers = 1
      BY <3>2, <3>4, RowFields
    <3> QED BY <1>11, <2>2, <3>1, <3>3, <3>4, <3>5 DEF Stays
  <2>3. CASE calls[c].row = "settled"
    <3>1. Reply(c) = Answered(calls[c])
      BY <1>11, <2>3 DEF Reply
    <3>2. "failed" \in Outcome \ {"none"}
      BY DEF Outcome
    <3>3. Stays(calls[c], Answered(calls[c])) /\ Answered(calls[c]).answers = 1
      BY <1>1, <1>11, <3>2, RowFields
    <3> QED BY <1>1, <1>11, <2>3, <3>1, <3>3, RowAnswered DEF Stays
  <2> QED BY <2>1, <2>2, <2>3
<1>12. calls[c].answers > 0 \/ calls[c].answers = 0
  BY <1>8
<1> QED BY <1>9, <1>10, <1>11, <1>12

LEMMA SameRows ==
  ASSUME RecoveryTypeOK, UNCHANGED calls, \A c \in Call : Gone(c) => Gone(c)'
  PROVE  /\ calls' \in [Call -> CallRow]
         /\ \A d \in Call : RowMoves(d)
BY RowsOK DEF RecoveryTypeOK, RowMoves, Advance

LEMMA DeletedMoves ==
  ASSUME RecoveryTypeOK, NEW T, Deleted(T)
  PROVE  /\ calls' \in [Call -> CallRow]
         /\ \A d \in Call : RowMoves(d)
<1>1. /\ \A c \in Call : calls'[c] = IF TurnOf[c] \in T THEN NoCall ELSE calls[c]
      /\ calls' = [c \in Call |-> calls'[c]]
  BY DEF Deleted
<1>2. \A c \in Call : Gone(c)' <=> (TurnOf[c] \in T \/ Gone(c))
  BY CallFacts DEF Deleted, Gone
<1>3. \A c \in Call : RowOK(calls'[c])
  BY <1>1, RowsOK, NoCallRow
<1>4. calls' \in [Call -> CallRow]
  BY <1>1, <1>3 DEF RowOK
<1> QED BY <1>1, <1>2, <1>3, <1>4 DEF RowMoves, Advance

\* In every step the row of every call stays, goes with its turn, or advances.
LEMMA RowsMove ==
  ASSUME RecoveryInvariant, [Next]_vars
  PROVE  /\ calls' \in [Call -> CallRow]
         /\ \A d \in Call : RowMoves(d)
<1> USE DEF RecoveryInvariant
<1>a. RecoveryTypeOK /\ TurnsInOrder
  OBVIOUS
<1>b. journal \in [Turn -> Status] /\ \A c \in Call : TurnOf[c] \in Turn
  BY CallFacts DEF RecoveryTypeOK
<1>1. CASE UNCHANGED vars
  BY <1>1, SameRows DEF vars, Gone
<1>2. ASSUME NEW t \in Turn, StartTurn(t) PROVE UNCHANGED calls /\ \A c \in Call : Gone(c) => Gone(c)'
  BY <1>2, <1>b DEF StartTurn, Gone
<1>3. CASE AskForTools
  <2>1. calls' = [c \in Call |-> IF c \in Batch(current)
                              THEN [NoCall EXCEPT !.asked = TRUE] ELSE calls[c]]
        /\ UNCHANGED journal /\ \A c \in Batch(current) : ~calls[c].asked
    BY <1>3 DEF AskForTools
  <2> DEFINE q == [NoCall EXCEPT !.asked = TRUE]
  <2>2. RowOK(q) /\ \A c \in Call : calls'[c] = IF c \in Batch(current) THEN q ELSE calls[c]
    BY <2>1, NoCallRow
  <2>3. \A c \in Batch(current) : calls[c] = NoCall /\ Advance(calls[c], q)
    BY <2>1 DEF TurnsInOrder, Batch, Advance
  <2> HIDE DEF q
  <2>4. \A c \in Call : RowOK(calls'[c]) /\ Advance(calls[c], calls'[c])
    BY <2>2, <2>3, RowsOK DEF Advance
  <2>5. calls' \in [Call -> CallRow]
    BY <2>1, <2>4 DEF RowOK
  <2> QED BY <2>1, <2>4, <2>5 DEF RowMoves, Gone
<1>4. CASE AnswerBatch
  <2>1. PICK c \in Batch(current) : /\ calls[c].answers = 0 /\ calls[c].row = "settled"
                                    /\ calls' = [calls EXCEPT ![c] = Answered(calls[c])]
    BY <1>4, <1>a, AnswerNext
  <2>2. c \in Call /\ UNCHANGED journal
    BY <1>4 DEF AnswerBatch, Batch
  <2> QED BY <1>a, <2>1, <2>2, RowsOK, RowAnswered, OneRowMoves
<1>5. CASE CompleteTurn \/ CancelTurn \/ TurnRaises \/ CancelRecoveryFails
  <2>1. UNCHANGED calls /\ \A c \in Call : Gone(c) => Gone(c)'
    BY <1>5, <1>b DEF CompleteTurn, CancelTurn, durable, TurnRaises, CancelRecoveryFails, Interrupt,
          TurnsInOrder, InTurn, Gone
  <2> QED BY <2>1, SameRows
<1>6. ASSUME NEW c \in Call, CallStep(c)
      PROVE  /\ calls' \in [Call -> CallRow]
             /\ \A d \in Call : RowMoves(d)
  <2>1. {"notrun", "failed", "success"} \subseteq Outcome \ {"none"}
    BY DEF Outcome
  <2>2. CASE RefuseCall(c) \/ SkipTool(c) \/ FinishCall(c) \/ ToolRaises(c)
    BY <1>a, <2>1, <2>2, FinalizeMoves DEF RefuseCall, SkipTool, FinishCall, ToolRaises
  <2>3. CASE ApproveCall(c) \/ DispatchCall(c)
    <3>1. RowOK(calls[c]) /\ calls[c].asked /\ calls[c].row # "settled" /\ UNCHANGED journal
      BY <2>3, RowsOK DEF ApproveCall, DispatchCall, HasTurn, TurnsInOrder, BatchInOrder
    <3>2. ASSUME NEW s \in {"intent", "dispatched"}, <<calls[c].row, s>> \in
                     {<<"none", "intent">>, <<"intent", "dispatched">>},
                 calls' = [calls EXCEPT ![c].row = s]
          PROVE  /\ calls' \in [Call -> CallRow]
                 /\ \A d \in Call : RowMoves(d)
      <4> DEFINE q == [calls[c] EXCEPT !.row = s]
      <4>1. calls' = [calls EXCEPT ![c] = q]
        BY <3>2
      <4>2. q \in CallRow /\ q.row = s /\ q.asked = calls[c].asked
              /\ q.outcome = calls[c].outcome /\ q.answers = calls[c].answers
        BY <3>1 DEF RowOK, CallRow
      <4> HIDE DEF q
      <4>3. RowOK(q) /\ Advance(calls[c], q)
        BY <3>1, <3>2, <4>2 DEF RowOK, Advance
      <4> QED BY <1>a, <3>1, <4>1, <4>3, OneRowMoves
    <3>3. \/ calls[c].row = "none" /\ calls' = [calls EXCEPT ![c].row = "intent"]
          \/ calls[c].row = "intent" /\ calls' = [calls EXCEPT ![c].row = "dispatched"]
      BY <2>3 DEF ApproveCall, DispatchCall
    <3> QED BY <3>2, <3>3
  <2>4. CASE \/ Checkpoint(c) \/ Act(c) \/ ToolReturns(c) \/ HaltBatch(c)
             \/ \E f \in File : WriteFile(c, f) \/ CloseMark(c, f)
    <3>1. UNCHANGED <<calls, journal>>
      BY <2>4 DEF Checkpoint, Act, ToolReturns, HaltBatch, WriteFile, CloseMark, durable
    <3> QED BY <1>a, <3>1, SameRows DEF Gone
  <2> QED BY <1>6, <2>2, <2>3, <2>4 DEF CallStep
<1>7. ASSUME NEW t \in Turn, FinishRecovery(t)
      PROVE  /\ calls' \in [Call -> CallRow]
             /\ \A d \in Call : RowMoves(d)
  <2>1. /\ calls' = [c \in Call |-> IF c \in Batch(t) THEN Reply(c) ELSE calls[c]]
        /\ journal' = [journal EXCEPT ![t] = "recovered"]
        /\ op.kind = "recovery" /\ op.turns = {t}
    BY <1>7 DEF FinishRecovery, Recovering
  <2>2. journal[t] # "deleted"
    BY <2>1 DEF RecoveryInHand
  <2>3. \A c \in Call : Gone(c) => Gone(c)'
    BY <1>b, <2>1, <2>2 DEF Gone
  <2>4. \A c \in Call : RowOK(calls'[c]) /\ Advance(calls[c], calls'[c])
    <3> TAKE c \in Call
    <3>1. CASE c \in Batch(t)
      BY <1>7, <2>1, <3>1, ReplyMoves
    <3>2. CASE c \notin Batch(t)
      BY <2>1, <3>2, RowsOK DEF Advance
    <3> QED BY <3>1, <3>2
  <2>5. calls' \in [Call -> CallRow]
    BY <2>1, <2>4 DEF RowOK
  <2> QED BY <2>3, <2>4, <2>5 DEF RowMoves
<1>8. CASE FinishRewind \/ \E t \in Turn : RewindTranscript(t)
  BY <1>a, <1>8, DeletedMoves DEF FinishRewind, RewindTranscript
<1>9. ASSUME \/ BeginRecovery \/ SessionReady \/ RestoreFile \/ RestoreFails \/ BeginUndo
             \/ FinishUndo \/ Crash \/ Restart
             \/ \E f \in File : HandEdit(f)
             \/ \E t \in Turn : JudgeCall(t) \/ CallUndone(t) \/ BeginRewind(t)
      PROVE  UNCHANGED <<calls, journal>>
  BY <1>9 DEF BeginRecovery, SessionReady, RestoreFile, RestoreFails, BeginUndo, FinishUndo,
        Crash, Restart, HandEdit, JudgeCall, CallUndone, BeginRewind, durable
<1>10. CASE UNCHANGED <<calls, journal>>
  BY <1>a, <1>10, SameRows DEF Gone
<1> QED BY <1>a, <1>1, <1>2, <1>3, <1>4, <1>5, <1>6, <1>7, <1>8, <1>9, <1>10, SameRows DEF Next

-----------------------------------------------------------------------------
(***************************************************************************)
(* The operation in hand: what each step makes of it.                      *)
(***************************************************************************)
LEMMA ContentFacts ==
  /\ 0 \in Content /\ Call \subseteq Content /\ Content \subseteq Int /\ 0 \notin Call
  /\ \A n \in 0..MaxEdits : -n \in Content
BY CallFacts, RecoveryAssumption DEF Content

LEMMA NoOpIs ==
  /\ NoOp \in Operation /\ NoOp.kind = "none" /\ NoOp.turns = {} /\ NoOp.call = 0
  /\ NoOp.todo = {} /\ NoOp.was = [f \in File |-> 0] /\ NoOp.left = [f \in File |-> 0]
  /\ NoOp.verdict = [c \in Call |-> "none"] /\ NoOp.clean = TRUE
BY ContentFacts DEF NoOp, Operation, Outcome

BeginsAs(o, kind, turns) ==
  /\ o \in Operation /\ o.kind = kind /\ o.turns = turns /\ o.call = 0
  /\ o.was = files /\ o.left = files
  /\ o.verdict = [c \in Call |-> "none"] /\ o.clean = TRUE

LEMMA BeginIs ==
  ASSUME RecoveryTypeOK, NEW kind \in {"none", "recovery", "undo", "rewind"},
         NEW turns \in SUBSET Turn
  PROVE  BeginsAs(Begin(kind, turns), kind, turns) /\ Begin(kind, turns).todo = {}
BY NoOpIs DEF Begin, BeginsAs, Operation, RecoveryTypeOK

LEMMA RowsAre ==
  ASSUME NEW T, NEW f \in File
  PROVE  /\ Chain(T, f) \subseteq Call
         /\ \A c \in Chain(T, f) : /\ <<c, f>> \in Rows(T) /\ TurnOf[c] \in T
                                   /\ c \in Live(f)
         /\ ToUndo(T, f) \subseteq Rows(T)
         /\ \A r \in ToUndo(T, f) : r[2] = f
<1>1. \A c \in Chain(T, f) : c \in Call /\ <<c, f>> \in Rows(T) /\ TurnOf[c] \in T /\ c \in Live(f)
  BY DEF Chain, Rows
<1>2. \A r \in ToUndo(T, f) : \E d \in Chain(T, f) : r = <<d, f>>
  BY DEF ToUndo
<1>3. \A r \in ToUndo(T, f) : r \in Rows(T) /\ r[2] = f
  <2> TAKE r \in ToUndo(T, f)
  <2>1. PICK d \in Chain(T, f) : r = <<d, f>>
    BY <1>2
  <2> QED BY <1>1, <2>1
<1> HIDE DEF Chain, ToUndo
<1>4. Chain(T, f) \subseteq Call /\ ToUndo(T, f) \subseteq Rows(T)
  BY <1>1, <1>3
<1> QED BY <1>1, <1>3, <1>4

LEMMA PlannedIs ==
  ASSUME RecoveryTypeOK, NEW kind \in {"undo", "rewind"}, NEW T \in SUBSET Turn
  PROVE  /\ BeginsAs(Planned(kind, T), kind, T)
         /\ Planned(kind, T).todo \subseteq Rows(T)
         /\ \A f \in File, c \in Call :
              <<c, f>> \in Planned(kind, T).todo <=> Chain(T, f) # {} /\ <<c, f>> \in ToUndo(T, f)
<1> DEFINE b == Begin(kind, T)
           todo == UNION {ToUndo(T, f) : f \in {g \in File : Chain(T, g) # {}}}
           o == [b EXCEPT !.todo = todo]
<1>1. BeginsAs(b, kind, T)
  BY BeginIs
<1>2. todo \subseteq Rows(T)
  BY RowsAre
<1>3. \A f \in File, c \in Call : <<c, f>> \in todo <=> Chain(T, f) # {} /\ <<c, f>> \in ToUndo(T, f)
  <2> SUFFICES ASSUME NEW f \in File, NEW c \in Call, <<c, f>> \in todo
               PROVE  Chain(T, f) # {} /\ <<c, f>> \in ToUndo(T, f)
    OBVIOUS
  <2>1. PICK g \in File : Chain(T, g) # {} /\ <<c, f>> \in ToUndo(T, g)
    OBVIOUS
  <2>2. <<c, f>>[2] = g
    BY <2>1, RowsAre
  <2> QED BY <2>1, <2>2
<1>4. todo \subseteq Call \X File
  BY <1>2 DEF Rows
<1>5. Planned(kind, T) = o
  BY DEF Planned
<1> HIDE DEF b, todo
<1>6. BeginsAs(o, kind, T) /\ o.todo = todo
  BY <1>1, <1>4 DEF BeginsAs, Operation
<1> QED BY <1>2, <1>3, <1>5, <1>6

\* The rest of the operation is as it was.
KeepsPlan(o) == /\ o \in Operation /\ o.kind = op.kind /\ o.turns = op.turns
                /\ o.was = op.was /\ o.clean = op.clean

LEMMA JudgedIs ==
  ASSUME RecoveryTypeOK, NEW c \in Call, NEW v \in Outcome
  PROVE  /\ KeepsPlan(Judged(c, v)) /\ Judged(c, v).call = 0
         /\ Judged(c, v).todo = op.todo /\ Judged(c, v).left = op.left
         /\ Judged(c, v).verdict[c] = v
         /\ \A d \in Call \ {c} : Judged(c, v).verdict[d] = op.verdict[d]
<1> DEFINE w == [op.verdict EXCEPT ![c] = v]
           o == [op EXCEPT !.verdict = w, !.call = 0]
<1>1. op \in Operation /\ op.verdict \in [Call -> Outcome]
  BY DEF RecoveryTypeOK, Operation
<1>2. w \in [Call -> Outcome] /\ w[c] = v /\ \A d \in Call \ {c} : w[d] = op.verdict[d]
  BY <1>1
<1>3. Judged(c, v) = o
  BY DEF Judged
<1> HIDE DEF w
<1>4. o \in Operation /\ o.verdict = w /\ o.call = 0 /\ o.kind = op.kind /\ o.turns = op.turns
        /\ o.was = op.was /\ o.clean = op.clean /\ o.todo = op.todo /\ o.left = op.left
  BY <1>1, <1>2 DEF Operation
<1> QED BY <1>2, <1>3, <1>4 DEF KeepsPlan

\* A file is restored: what was to be done, and what of it is now.
LEMMA RestoreFileIs ==
  ASSUME RecoveryTypeOK, RestoreFile
  PROVE  \E c \in Call, f \in File :
           /\ <<c, f>> \in op.todo /\ \A q \in op.todo : q[1] <= c
           /\ files[f] = marks[c][f].after
           /\ files' = [files EXCEPT ![f] = marks[c][f].before]
           /\ marks[c][f].before \in Content
           /\ KeepsPlan(op') /\ op'.call = op.call /\ op'.verdict = op.verdict
           /\ op'.todo = op.todo \ {<<c, f>>}
           /\ op'.left = [op.left EXCEPT ![f] = marks[c][f].before]
<1>1. op \in Operation /\ op.todo \subseteq Call \X File
  BY DEF RecoveryTypeOK, Operation
<1>2. PICK r \in op.todo :
        /\ \A q \in op.todo : q[1] <= r[1]
        /\ Restorable(r[1], r[2])
        /\ files' = [files EXCEPT ![r[2]] = marks[r[1]][r[2]].before]
        /\ op' = [op EXCEPT !.todo = @ \ {r}, !.left[r[2]] = marks[r[1]][r[2]].before]
  BY DEF RestoreFile
<1> DEFINE c == r[1]
           f == r[2]
           x == marks[c][f].before
           l == [op.left EXCEPT ![f] = x]
           T == op.todo \ {r}
           o == [op EXCEPT !.todo = T, !.left = l]
<1>3. c \in Call /\ f \in File /\ r = <<c, f>>
  BY <1>1
<1>4. x \in Content
  BY <1>3 DEF RecoveryTypeOK, Mark
<1>5. l \in [File -> Content] /\ T \subseteq Call \X File
  BY <1>1, <1>4 DEF Operation
<1>6. op' = o
  BY <1>2
<1>7. files' = [files EXCEPT ![f] = x] /\ files[f] = marks[c][f].after /\ T = op.todo \ {<<c, f>>}
  BY <1>2, <1>3 DEF Restorable
<1>8. <<c, f>> \in op.todo /\ \A q \in op.todo : q[1] <= c
  BY <1>2, <1>3
<1> HIDE DEF c, f, l, T
<1>9. o \in Operation /\ o.todo = T /\ o.left = l /\ o.kind = op.kind /\ o.turns = op.turns
        /\ o.was = op.was /\ o.clean = op.clean /\ o.verdict = op.verdict /\ o.call = op.call
  BY <1>1, <1>5 DEF Operation
<1>10. l = [op.left EXCEPT ![f] = marks[c][f].before]
  BY DEF l
<1>11. KeepsPlan(op') /\ op'.call = op.call /\ op'.verdict = op.verdict
         /\ op'.todo = op.todo \ {<<c, f>>} /\ op'.left = l
  BY <1>6, <1>7, <1>9 DEF KeepsPlan
<1> HIDE DEF x
<1> QED BY <1>3, <1>4, <1>7, <1>8, <1>10, <1>11 DEF x

\* A restoration that fails: recovery goes on, with the verdict failed.
LEMMA RestoreFailsIs ==
  ASSUME RecoveryInvariant, RestoreFails
  PROVE  /\ files' = RolledBack
         /\ \/ /\ op.kind = "recovery" /\ UNCHANGED <<runtime, current>>
               /\ op.call \in Call /\ KeepsPlan(op') /\ op'.call = 0 /\ op'.todo = {}
               /\ op'.left = op.left /\ op'.verdict[op.call] = "failed"
               /\ \A d \in Call \ {op.call} : op'.verdict[d] = op.verdict[d]
            \/ op.kind \in {"undo", "rewind"} /\ op' = NoOp /\ runtime' = "idle" /\ current' = 0
<1>1. op \in Operation /\ op.verdict \in [Call -> Outcome]
  BY DEF RecoveryInvariant, RecoveryTypeOK, Operation
<1>2. CASE op.kind = "recovery"
  <2>1. op.todo # {}
    BY <1>2 DEF RestoreFails
  <2>2. op.call \in Call
    BY <1>2, <2>1 DEF RecoveryInvariant, RecoveryInHand, Unjudged, Pending, Batch
  <2> DEFINE w == [op.verdict EXCEPT ![op.call] = "failed"]
             o == [op EXCEPT !.todo = {}, !.call = 0, !.verdict = w]
  <2>3. w \in [Call -> Outcome] /\ w[op.call] = "failed"
          /\ \A d \in Call \ {op.call} : w[d] = op.verdict[d]
    BY <1>1, <2>2 DEF Outcome
  <2>4. op' = o /\ files' = RolledBack /\ UNCHANGED <<runtime, current>>
    BY <1>2 DEF RestoreFails
  <2> HIDE DEF w
  <2>5. o \in Operation /\ o.verdict = w /\ o.call = 0 /\ o.kind = op.kind /\ o.turns = op.turns
          /\ o.was = op.was /\ o.clean = op.clean /\ o.todo = {} /\ o.left = op.left
    BY <1>1, <2>3 DEF Operation
  <2> QED BY <1>2, <2>2, <2>3, <2>4, <2>5 DEF KeepsPlan
<1>3. CASE op.kind # "recovery"
  <2>1. op.kind \in {"undo", "rewind"}
    BY <1>1, <1>3, NoOpIs DEF RestoreFails, RecoveryInvariant, OperationSound, Operation
  <2> QED BY <1>3, <2>1 DEF RestoreFails
<1> QED BY <1>2, <1>3

-----------------------------------------------------------------------------
(***************************************************************************)
(* How far the execution of a call moves in a step.                        *)
(***************************************************************************)
Restoring ==
  \/ RestoreFile \/ RestoreFails \/ FinishUndo \/ FinishRewind
  \/ \E t \in Turn : JudgeCall(t) \/ CallUndone(t) \/ FinishRecovery(t)

\* What only an operation in hand does.
LEMMA RestoringIs ==
  ASSUME RecoveryInvariant, Restoring
  PROVE  runtime = "restoring" /\ op.kind # "none" /\ \A c \in Call : stage[c] = "none"
<1>1. op.kind = "none" => op.todo = {}
  BY NoOpIs DEF RecoveryInvariant, OperationSound
<1>2. op.kind # "none"
  BY <1>1 DEF Restoring, RestoreFile, RestoreFails, FinishUndo, FinishRewind, JudgeCall, CallUndone,
        FinishRecovery, Recovering
<1> QED BY <1>2 DEF RecoveryInvariant, RecoveryTypeOK, TurnsInOrder

\* Sequential calls are executed one at a time.
LEMMA OneAtATime ==
  ASSUME RecoveryInvariant, NEW c \in Call, HasTurn(c), current \notin Parallel,
         NEW d \in Call, d # c
  PROVE  /\ stage[d] = "none"
         /\ d \in Batch(current) => IF d < c THEN calls[d].answers = 1 ELSE calls[d].row = "none"
<1>1. BatchInOrder(current) /\ c \in Batch(current) /\ calls[c].row # "settled"
  BY DEF HasTurn, RecoveryInvariant, TurnsInOrder
<1>2. calls[c].answers = 0 /\ calls[d].answers \in {0, 1}
        /\ (calls[d].answers = 1 => calls[d].row = "settled")
  BY <1>1, RowsOK DEF RecoveryInvariant, RowOK, CallRow
<1>3. c \in Int /\ d \in Int
  BY CallFacts
<1>4. CASE d \in Batch(current)
  <2>1. CASE d < c
    <3>1. calls[d].answers = 1
      BY <1>2, <1>4, <2>1 DEF HasTurn
    <3>2. stage[d] = "none"
      BY <1>2, <3>1 DEF RecoveryInvariant, RecoveryTypeOK
    <3> QED BY <2>1, <3>1, <3>2
  <2>2. CASE ~(d < c)
    <3>1. c < d
      BY <1>3, <2>2
    <3>2. calls[d].row = "none"
      BY <1>1, <1>2, <1>4, <3>1 DEF BatchInOrder
    <3>3. stage[d] = "none"
      BY <3>2 DEF RecoveryInvariant, RecoveryTypeOK
    <3> QED BY <2>2, <3>2, <3>3
  <2> QED BY <2>1, <2>2
<1>5. CASE d \notin Batch(current)
  BY <1>5 DEF RecoveryInvariant, TurnsInOrder, Batch
<1> QED BY <1>4, <1>5

StageMoves(c) ==
  \/ stage'[c] = "none"
  \/ /\ runtime = "calls" /\ runtime' = "calls" /\ UNCHANGED <<current, journal>>
     /\ TurnOf[c] = current
     /\ \/ stage'[c] = stage[c] /\ calls'[c] = calls[c]
        \/ /\ stage[c] = "none" /\ stage'[c] = "hooks"
           /\ calls[c].row = "intent" /\ calls'[c].row = "dispatched"
        \/ stage[c] = "hooks" /\ stage'[c] = "run" /\ Checkpoint(c) /\ UNCHANGED calls
        \/ stage[c] = "run" /\ stage'[c] = "after" /\ UNCHANGED <<calls, marks>>

LEMMA StagesMove ==
  ASSUME RecoveryInvariant, [Next]_vars
  PROVE  stage' \in [Call -> {"none", "hooks", "run", "after"}] /\ \A c \in Call : StageMoves(c)
<1> USE DEF RecoveryInvariant
<1>a. /\ stage \in [Call -> {"none", "hooks", "run", "after"}]
      /\ \A c \in Call : stage[c] # "none" =>
           runtime = "calls" /\ TurnOf[c] = current /\ calls[c].row = "dispatched"
  BY DEF RecoveryTypeOK, TurnsInOrder
<1>b. \A c \in Call : c \in Batch(current) <=> TurnOf[c] = current
  BY DEF Batch
<1>c. ASSUME UNCHANGED <<stage, calls, journal, runtime, current>>
      PROVE  stage' \in [Call -> {"none", "hooks", "run", "after"}] /\ \A c \in Call : StageMoves(c)
  BY <1>a, <1>c DEF StageMoves
<1>d. ASSUME \A c \in Call : stage[c] = "none", UNCHANGED stage
      PROVE  stage' \in [Call -> {"none", "hooks", "run", "after"}] /\ \A c \in Call : StageMoves(c)
  BY <1>a, <1>d DEF StageMoves
<1>e. ASSUME stage' = [c \in Call |-> "none"]
      PROVE  stage' \in [Call -> {"none", "hooks", "run", "after"}] /\ \A c \in Call : StageMoves(c)
  BY <1>e DEF StageMoves
<1>1. CASE UNCHANGED vars
  BY <1>1, <1>c DEF vars
<1>2. CASE CancelTurn \/ TurnRaises \/ CancelRecoveryFails \/ Crash
           \/ \E c \in Call : HaltBatch(c)
  <2>1. stage' = [c \in Call |-> "none"]
    BY <1>2 DEF CancelTurn, TurnRaises, CancelRecoveryFails, Interrupt, Crash, HaltBatch
  <2> QED BY <2>1, <1>e
<1>3. CASE \/ AskForTools \/ CompleteTurn \/ BeginRecovery \/ SessionReady \/ BeginUndo
           \/ Restart \/ Restoring
           \/ \E t \in Turn : StartTurn(t) \/ BeginRewind(t) \/ RewindTranscript(t)
  <2>1. UNCHANGED stage /\ runtime # "calls"
    BY <1>3, RestoringIs DEF Restoring, AskForTools, CompleteTurn, BeginRecovery, SessionReady, BeginUndo,
          Restart, RestoreFile, RestoreFails, FinishUndo, FinishRewind, JudgeCall, CallUndone,
          FinishRecovery, StartTurn, BeginRewind, RewindTranscript
  <2> QED BY <1>a, <1>d, <2>1
<1>4. CASE AnswerBatch
  <2>1. UNCHANGED stage /\ \A c \in Batch(current) : calls[c].row = "settled"
    BY <1>4 DEF AnswerBatch
  <2>2. \A c \in Call : stage[c] = "none"
    BY <1>a, <1>b, <2>1
  <2> QED BY <1>d, <2>1, <2>2
<1>5. CASE \E f \in File : HandEdit(f)
  BY <1>5, <1>c DEF HandEdit, durable
<1>6. ASSUME NEW c \in Call, CallStep(c)
      PROVE  stage' \in [Call -> {"none", "hooks", "run", "after"}] /\ \A d \in Call : StageMoves(d)
  <2>1. CASE \/ Act(c) \/ \E f \in File : WriteFile(c, f) \/ CloseMark(c, f)
    BY <2>1, <1>c DEF Act, WriteFile, CloseMark, durable
  <2>2. CASE HaltBatch(c)
    BY <1>2, <2>2
  <2>3. CASE ApproveCall(c)
    <3>1. /\ calls' = [calls EXCEPT ![c].row = "intent"] /\ calls[c].row = "none"
          /\ UNCHANGED <<stage, runtime, current, journal>>
      BY <2>3 DEF ApproveCall
    <3>2. \A d \in Call \ {c} : calls'[d] = calls[d]
      BY <3>1 DEF RecoveryTypeOK
    <3> QED BY <1>a, <3>1, <3>2 DEF StageMoves
  <2>4. CASE DispatchCall(c)
    <3>1. /\ calls' = [calls EXCEPT ![c].row = "dispatched"] /\ calls[c].row = "intent"
          /\ stage' = [stage EXCEPT ![c] = "hooks"]
          /\ UNCHANGED <<runtime, current, journal>> /\ runtime = "calls" /\ TurnOf[c] = current
      BY <2>4, <1>b DEF DispatchCall, HasTurn
    <3>2. \A d \in Call \ {c} : calls'[d] = calls[d] /\ stage'[d] = stage[d]
      BY <3>1, <1>a DEF RecoveryTypeOK
    <3>3. stage'[c] = "hooks" /\ calls'[c].row = "dispatched" /\ stage[c] = "none"
      BY <3>1, <1>a DEF RecoveryTypeOK, CallRow
    <3> QED BY <1>a, <3>1, <3>2, <3>3 DEF StageMoves
  <2>5. CASE Checkpoint(c)
    <3>1. /\ stage' = [stage EXCEPT ![c] = "run"] /\ stage[c] = "hooks"
          /\ UNCHANGED <<runtime, current, journal, calls>>
      BY <2>5 DEF Checkpoint
    <3> QED BY <1>a, <2>5, <3>1 DEF StageMoves
  <2>6. CASE ToolReturns(c)
    <3>1. /\ stage' = [stage EXCEPT ![c] = "after"] /\ stage[c] = "run"
          /\ UNCHANGED <<runtime, current, journal, calls, marks>>
      BY <2>6 DEF ToolReturns, durable
    <3> QED BY <1>a, <3>1 DEF StageMoves
  <2>7. CASE RefuseCall(c) \/ SkipTool(c) \/ FinishCall(c) \/ ToolRaises(c)
    <3>1. PICK o \in Outcome \ {"none"}, b \in BOOLEAN : Finalize(c, o, b)
      <4>1. {"notrun", "failed", "success"} \subseteq Outcome \ {"none"}
        BY DEF Outcome
      <4> QED BY <2>7, <4>1 DEF RefuseCall, SkipTool, FinishCall, ToolRaises
    <3>2. HasTurn(c)
      BY <2>7 DEF RefuseCall, SkipTool, FinishCall, ToolRaises
    <3>3. /\ stage' = [stage EXCEPT ![c] = "none"] /\ UNCHANGED <<current, journal>>
          /\ \E q : calls' = [calls EXCEPT ![c] = q]
          /\ current \in Parallel => UNCHANGED runtime
      BY <3>1 DEF Finalize
    <3>4. \A d \in Call \ {c} : calls'[d] = calls[d] /\ stage'[d] = stage[d]
      BY <1>a, <3>3 DEF RecoveryTypeOK
    <3>5. stage'[c] = "none" /\ stage' \in [Call -> {"none", "hooks", "run", "after"}]
      BY <1>a, <3>3
    <3>6. current \notin Parallel => \A d \in Call \ {c} : stage[d] = "none"
      BY <3>2, OneAtATime
    <3> QED BY <1>a, <3>3, <3>4, <3>5, <3>6 DEF StageMoves
  <2> QED BY <1>6, <2>1, <2>2, <2>3, <2>4, <2>5, <2>6, <2>7 DEF CallStep
<1> QED BY <1>1, <1>2, <1>3, <1>4, <1>5, <1>6 DEF Next, Restoring

-----------------------------------------------------------------------------
(***************************************************************************)
(* Types.                                                                  *)
(***************************************************************************)
LEMMA MarksTyped ==
  ASSUME RecoveryTypeOK, [Next]_vars
  PROVE  marks' \in [Call -> [File -> Mark]]
<1>a. marks \in [Call -> [File -> Mark]] /\ files \in [File -> Content]
  BY DEF RecoveryTypeOK
<1>1. ASSUME NEW c \in Call, Checkpoint(c) PROVE marks' \in [Call -> [File -> Mark]]
  <2> DEFINE row == [f \in File |-> IF f \in FilesOf[c]
                       THEN [at |-> "open", before |-> files[f], after |-> 0] ELSE marks[c][f]]
  <2>1. row \in [File -> Mark]
    BY <1>a, ContentFacts DEF Mark
  <2>2. marks' = [marks EXCEPT ![c] = row]
    BY <1>1 DEF Checkpoint
  <2> HIDE DEF row
  <2> QED BY <1>a, <2>1, <2>2
<1>2. ASSUME NEW c \in Call, NEW f \in File, CloseMark(c, f) PROVE marks' \in [Call -> [File -> Mark]]
  <2> DEFINE m == [marks[c][f] EXCEPT !.at = "closed", !.after = files[f]]
             row == [marks[c] EXCEPT ![f] = m]
  <2>0. marks[c][f] \in Mark /\ files[f] \in Content
    BY <1>a
  <2>1. m \in Mark
    BY <2>0 DEF Mark
  <2>2. marks' = [marks EXCEPT ![c] = row]
    BY <1>2, <1>a DEF CloseMark
  <2> HIDE DEF m
  <2>3. row \in [File -> Mark]
    BY <1>a, <2>1
  <2> HIDE DEF row
  <2> QED BY <1>a, <2>2, <2>3
<1>3. \A c \in Call, f \in File : [marks[c][f] EXCEPT !.at = "restored"] \in Mark
  BY <1>a DEF Mark
<1>4. CASE FinishUndo \/ FinishRewind \/ \E t \in Turn : FinishRecovery(t)
  BY <1>4, <1>3, <1>a DEF FinishUndo, FinishRewind, FinishRecovery, MarkRestored
<1>5. CASE UNCHANGED marks
  BY <1>5, <1>a
<1>6. \A c \in Call : CallStep(c) =>
        \/ UNCHANGED marks \/ Checkpoint(c) \/ \E f \in File : CloseMark(c, f)
  BY DEF CallStep, RefuseCall, ApproveCall, DispatchCall, SkipTool, WriteFile, Act, ToolReturns,
        FinishCall, ToolRaises, HaltBatch, Finalize, durable
<1> QED BY <1>1, <1>2, <1>4, <1>5, <1>6 DEF Next, vars, durable, StartTurn, AskForTools, AnswerBatch,
      CompleteTurn, CancelTurn, TurnRaises, CancelRecoveryFails, Interrupt, BeginRecovery,
      SessionReady, JudgeCall, CallUndone, RestoreFile, RestoreFails, BeginUndo, BeginRewind,
      RewindTranscript, Crash, Restart, HandEdit

LEMMA FilesTyped ==
  ASSUME RecoveryInvariant, [Next]_vars
  PROVE  /\ files' \in [File -> Content] /\ kept' \in [File -> Content]
         /\ acted' \subseteq Call /\ edits' \in 0..MaxEdits /\ crashes' \in 0..MaxCrashes
<1>a. /\ files \in [File -> Content] /\ kept \in [File -> Content] /\ acted \subseteq Call
      /\ edits \in 0..MaxEdits /\ crashes \in 0..MaxCrashes
  BY DEF RecoveryInvariant, RecoveryTypeOK
<1>b. \A c \in Call : c \in Content
  BY ContentFacts
<1>c. MaxEdits \in Nat /\ MaxCrashes \in Nat
  BY RecoveryAssumption
<1>1. ASSUME NEW f \in File, HandEdit(f)
      PROVE  /\ files' \in [File -> Content] /\ kept' \in [File -> Content]
             /\ UNCHANGED <<acted, crashes>> /\ edits' \in 0..MaxEdits
  <2>1. edits + 1 \in 0..MaxEdits /\ edits' = edits + 1
    BY <1>1, <1>a, <1>c DEF HandEdit
  <2>2. -(edits + 1) \in Content
    BY <2>1, ContentFacts
  <2> QED BY <1>1, <1>a, <2>1, <2>2 DEF HandEdit
<1>2. CASE RestoreFile
  <2>1. UNCHANGED <<kept, acted, edits, crashes>>
    BY <1>2 DEF RestoreFile, Ghosts
  <2>2. files' \in [File -> Content]
    BY <1>2, <1>a, RestoreFileIs DEF RecoveryInvariant
  <2> QED BY <1>a, <2>1, <2>2
<1>3. CASE RestoreFails
  <2>1. UNCHANGED <<kept, acted, edits, crashes>> /\ files' = RolledBack
    BY <1>3 DEF RestoreFails, Ghosts
  <2>2. op.was \in [File -> Content]
    BY DEF RecoveryInvariant, RecoveryTypeOK, Operation
  <2>3. files' \in [File -> Content]
    BY <1>a, <2>1, <2>2 DEF RolledBack
  <2> QED BY <1>a, <2>1, <2>3
<1>4. CASE Crash
  BY <1>4, <1>a, <1>c DEF Crash
<1>5. ASSUME NEW c \in Call, CallStep(c)
      PROVE  /\ files' \in [File -> Content] /\ UNCHANGED <<kept, edits, crashes>>
             /\ acted' \subseteq Call
  BY <1>5, <1>a, <1>b DEF CallStep, RefuseCall, ApproveCall, DispatchCall, Checkpoint, SkipTool,
        WriteFile, CloseMark, Act, ToolReturns, FinishCall, ToolRaises, HaltBatch, Ghosts, Bounds
<1>6. CASE UNCHANGED <<files, Ghosts>>
  BY <1>6, <1>a DEF Ghosts
<1> QED BY <1>a, <1>1, <1>2, <1>3, <1>4, <1>5, <1>6 DEF Next, vars, Ghosts, StartTurn, AskForTools,
      AnswerBatch, CompleteTurn, CancelTurn, TurnRaises, CancelRecoveryFails, Interrupt,
      BeginRecovery, SessionReady, JudgeCall, CallUndone, FinishRecovery, BeginUndo, FinishUndo,
      BeginRewind, FinishRewind, RewindTranscript, Restart

\* What the process does.
LEMMA RuntimeTyped ==
  ASSUME RecoveryTypeOK, [Next]_vars
  PROVE  /\ runtime' \in {"down", "starting", "idle", "model", "calls", "ending", "cancelled",
                          "restoring"}
         /\ current' \in Turn \cup {0}
         /\ journal' \in [Turn -> Status]
<1>a. /\ runtime \in {"down", "starting", "idle", "model", "calls", "ending", "cancelled", "restoring"}
      /\ current \in Turn \cup {0} /\ journal \in [Turn -> Status]
  BY DEF RecoveryTypeOK
<1>1. \A c \in Call : CallStep(c) =>
        /\ UNCHANGED <<journal, current>> /\ runtime' \in {runtime, "calls", "model", "ending"}
  BY DEF CallStep, RefuseCall, ApproveCall, DispatchCall, Checkpoint, SkipTool,
        WriteFile, CloseMark, Act, ToolReturns, FinishCall, ToolRaises, HaltBatch, Finalize,
        NextCall, durable
<1>2. ASSUME NEW t \in Turn, \/ StartTurn(t) \/ FinishRecovery(t) \/ RewindTranscript(t)
                             \/ JudgeCall(t) \/ CallUndone(t) \/ BeginRewind(t)
      PROVE  /\ runtime' \in {runtime, "model", "starting", "restoring"} /\ current' \in {current, t}
             /\ journal' \in [Turn -> Status]
  BY <1>2, <1>a DEF StartTurn, FinishRecovery, RewindTranscript, JudgeCall, CallUndone, BeginRewind,
        Deleted, durable, Status
<1>3. ASSUME \/ AskForTools \/ AnswerBatch \/ CompleteTurn \/ CancelTurn \/ TurnRaises
             \/ CancelRecoveryFails \/ FinishRewind
      PROVE  /\ runtime' \in {"calls", "model", "idle", "cancelled"} /\ current' \in {current, 0}
             /\ journal' \in [Turn -> Status]
  BY <1>3, <1>a DEF AskForTools, AnswerBatch, NextCall, CompleteTurn, CancelTurn, TurnRaises,
        CancelRecoveryFails, Interrupt, FinishRewind, Deleted, durable, Status
<1>4. ASSUME \/ UNCHANGED vars \/ BeginRecovery \/ SessionReady \/ RestoreFile \/ RestoreFails
             \/ BeginUndo \/ FinishUndo \/ Crash \/ Restart \/ \E f \in File : HandEdit(f)
      PROVE  /\ runtime' \in {runtime, "restoring", "idle", "down", "starting"}
             /\ current' \in {current, 0} /\ UNCHANGED journal
  BY <1>4 DEF vars, BeginRecovery, SessionReady, RestoreFile, RestoreFails, BeginUndo, FinishUndo,
        Crash, Restart, HandEdit, durable
<1> QED BY <1>a, <1>1, <1>2, <1>3, <1>4 DEF Next

\* Turns to recover, undo and rewind.
LEMMA TurnSets ==
  ASSUME RecoveryTypeOK
  PROVE  /\ Recoverable \subseteq Turn /\ (Recoverable # {} => Max(Recoverable) \in Recoverable)
         /\ Completed \subseteq Call /\ (Completed # {} => TurnOf[Max(Completed)] \in Turn)
         /\ \A t \in Turn : From(t) \in SUBSET Turn
<1>1. Recoverable \subseteq Turn /\ Completed \subseteq Call
  BY DEF Recoverable, Completed
<1>2. Recoverable # {} => Max(Recoverable) \in Recoverable
  <2> HIDE DEF Recoverable
  <2> QED BY <1>1, MaxIs
<1>3. Completed # {} => Max(Completed) \in Completed
  <2> HIDE DEF Completed
  <2> QED BY <1>1, MaxIs
<1> QED BY <1>1, <1>2, <1>3, CallFacts DEF From

\* The operations that begin.
Begins ==
  \/ BeginRecovery \/ BeginUndo \/ \E t \in Turn : BeginRewind(t)

LEMMA BeginsIs ==
  ASSUME RecoveryTypeOK, Begins
  PROVE  /\ runtime \in {"starting", "idle", "cancelled"} /\ runtime' = "restoring"
         /\ \E kind \in {"recovery", "undo", "rewind"}, T \in SUBSET Turn :
              /\ BeginsAs(op', kind, T)
              /\ kind = "recovery" => /\ op'.todo = {} /\ Recoverable # {}
                                      /\ T = {Max(Recoverable)} /\ Max(Recoverable) \in Turn
              /\ kind # "recovery" => /\ runtime = "idle" /\ Plannable(T) /\ op' = Planned(kind, T)
                                      /\ op'.todo \subseteq Rows(T)
<1>1. CASE BeginRecovery
  <2>1. {Max(Recoverable)} \in SUBSET Turn /\ op' = Begin("recovery", {Max(Recoverable)})
          /\ Recoverable # {} /\ runtime' = "restoring" /\ runtime \in {"starting", "idle", "cancelled"}
    BY <1>1, TurnSets DEF BeginRecovery
  <2>2. BeginsAs(op', "recovery", {Max(Recoverable)}) /\ op'.todo = {}
    BY <2>1, BeginIs
  <2> QED BY <2>1, <2>2
<1>2. ASSUME NEW kind \in {"undo", "rewind"}, NEW T \in SUBSET Turn,
             Plannable(T), op' = Planned(kind, T), runtime = "idle", runtime' = "restoring"
      PROVE  /\ BeginsAs(op', kind, T) /\ op'.todo \subseteq Rows(T)
  BY <1>2, PlannedIs
<1>3. CASE BeginUndo
  <2>1. {TurnOf[Max(Completed)]} \in SUBSET Turn /\ runtime = "idle" /\ runtime' = "restoring"
          /\ Plannable({TurnOf[Max(Completed)]}) /\ op' = Planned("undo", {TurnOf[Max(Completed)]})
    BY <1>3, TurnSets DEF BeginUndo
  <2> QED BY <1>2, <2>1
<1>4. CASE \E t \in Turn : BeginRewind(t)
  <2>1. PICK t \in Turn : /\ From(t) \in SUBSET Turn /\ runtime = "idle" /\ runtime' = "restoring"
                          /\ Plannable(From(t)) /\ op' = Planned("rewind", From(t))
    BY <1>4, TurnSets DEF BeginRewind
  <2> QED BY <1>2, <2>1
<1> QED BY <1>1, <1>3, <1>4 DEF Begins

\* The decision on a call: it was not run, it failed, or it is rolled back.
LEMMA JudgeIs ==
  ASSUME RecoveryTypeOK, NEW t \in Turn, JudgeCall(t)
  PROVE  /\ op.kind = "recovery" /\ op.turns = {t} /\ op.todo = {} /\ op.call = 0
         /\ \E c \in Unjudged(t) :
              /\ c \in Call /\ TurnOf[c] = t
              /\ \/ calls[c].row = "intent" /\ op' = Judged(c, "notrun")
                 \/ calls[c].row = "dispatched" /\ op' = Judged(c, "failed")
                 \/ /\ calls[c].row = "dispatched" /\ \A f \in Checkpointed(c) : Proven(c, f)
                    /\ op' \in Operation /\ op'.kind = op.kind /\ op'.turns = op.turns
                    /\ op'.clean = op.clean /\ op'.verdict = op.verdict
                    /\ op'.call = c /\ op'.was = files /\ op'.left = files
                    /\ op'.todo = {<<c, f>> : f \in {g \in Checkpointed(c) :
                                                       files[g] # marks[c][g].before}}
<1> DEFINE c == Min(Unjudged(t))
           changed == {f \in Checkpointed(c) : files[f] # marks[c][f].before}
           todo == {<<c, f>> : f \in changed}
<1>1. op.kind = "recovery" /\ op.turns = {t} /\ op.todo = {} /\ op.call = 0 /\ Unjudged(t) # {}
  BY DEF JudgeCall, Recovering
<1>2. Unjudged(t) \subseteq Call
  BY DEF Unjudged, Pending, Batch
<1>3. c \in Unjudged(t)
  <2> HIDE DEF Unjudged
  <2> QED BY <1>1, <1>2, MinIs
<1>4. \/ calls[c].row = "intent" /\ op' = Judged(c, "notrun")
      \/ calls[c].row # "intent" /\ op' = Judged(c, "failed")
      \/ /\ calls[c].row # "intent" /\ \A f \in Checkpointed(c) : Proven(c, f)
         /\ op' = [op EXCEPT !.call = c, !.todo = todo, !.was = files, !.left = files]
  BY DEF JudgeCall
<1> HIDE DEF c
<1>5. calls[c].row \in {"intent", "dispatched"} /\ c \in Call /\ TurnOf[c] = t
  BY <1>3 DEF Unjudged, Pending, Batch
<1>6. todo \subseteq Call \X File
  BY <1>5 DEF Checkpointed
<1> HIDE DEF todo
<1>7. ASSUME op' = [op EXCEPT !.call = c, !.todo = todo, !.was = files, !.left = files]
      PROVE  /\ op' \in Operation /\ op'.kind = op.kind /\ op'.turns = op.turns
             /\ op'.clean = op.clean /\ op'.verdict = op.verdict
             /\ op'.call = c /\ op'.was = files /\ op'.left = files /\ op'.todo = todo
  BY <1>5, <1>6, <1>7 DEF RecoveryTypeOK, Operation
<1> QED BY <1>1, <1>3, <1>4, <1>5, <1>7 DEF todo

\* A call that is rolled back.
LEMMA UndoneIs ==
  ASSUME RecoveryInvariant, NEW t \in Turn, CallUndone(t)
  PROVE  /\ op.kind = "recovery" /\ op.turns = {t} /\ op.todo = {}
         /\ op.call \in Unjudged(t) /\ op.call \in Call /\ op' = Judged(op.call, "undone")
         /\ calls[op.call].row = "dispatched"
<1>1. op.kind = "recovery" /\ op.turns = {t} /\ op.todo = {} /\ op.call # 0
        /\ op' = Judged(op.call, "undone")
  BY DEF CallUndone, Recovering
<1>2. PICK u \in Turn : op.turns = {u} /\ op.call \in Unjudged(u) /\ calls[op.call].row = "dispatched"
  BY <1>1 DEF RecoveryInvariant, RecoveryInHand
<1>3. u = t
  BY <1>1, <1>2
<1> QED BY <1>1, <1>2, <1>3 DEF Unjudged, Pending, Batch

LEMMA HandEditIs ==
  ASSUME RecoveryTypeOK, NEW f \in File, HandEdit(f)
  PROVE  /\ edits' = edits + 1 /\ edits \in Nat
         /\ files'[f] = -(edits + 1) /\ \A g \in File \ {f} : files'[g] = files[g]
         /\ kept'[f] = (IF Attributed(f) THEN kept[f] ELSE -(edits + 1))
         /\ \A g \in File \ {f} : kept'[g] = kept[g]
         /\ op' \in Operation /\ op'.kind = op.kind /\ op'.turns = op.turns /\ op'.call = op.call
         /\ op'.todo = op.todo /\ op'.was = op.was /\ op'.left = op.left
         /\ op'.verdict = op.verdict
         /\ IF op.kind = "none" THEN op' = op ELSE op'.clean = FALSE
<1>1. op \in Operation
  BY DEF RecoveryTypeOK
<1>2. op' = IF op.kind = "none" THEN op ELSE [op EXCEPT !.clean = FALSE]
  BY DEF HandEdit
<1>3. /\ op' \in Operation /\ op'.kind = op.kind /\ op'.turns = op.turns /\ op'.call = op.call
      /\ op'.todo = op.todo /\ op'.was = op.was /\ op'.left = op.left
      /\ op'.verdict = op.verdict
      /\ IF op.kind = "none" THEN op' = op ELSE op'.clean = FALSE
  BY <1>1, <1>2 DEF Operation
<1>4. /\ files' = [files EXCEPT ![f] = -(edits + 1)] /\ edits' = edits + 1 /\ edits \in Nat
      /\ kept' = [kept EXCEPT ![f] = IF Attributed(f) THEN @ ELSE -(edits + 1)]
  BY DEF HandEdit, RecoveryTypeOK
<1>5. files \in [File -> Content] /\ kept \in [File -> Content]
  BY DEF RecoveryTypeOK
<1> QED BY <1>3, <1>4, <1>5

\* The steps that have nothing to do with the operation in hand.
LEMMA OpStays ==
  ASSUME RecoveryInvariant, [Next]_vars, ~Restoring, ~Begins, ~Crash, \A f \in File : ~HandEdit(f)
  PROVE  UNCHANGED op /\ (runtime' = "restoring" <=> runtime = "restoring")
<1>1. \A c \in Call : CallStep(c) =>
        UNCHANGED op /\ runtime = "calls" /\ runtime' \in {"calls", "model", "ending"}
  BY DEF CallStep, RefuseCall, ApproveCall, DispatchCall, Checkpoint, SkipTool,
        WriteFile, CloseMark, Act, ToolReturns, FinishCall, ToolRaises, HaltBatch, Finalize,
        NextCall, HasTurn
<1>2. \A t \in Turn : StartTurn(t) \/ RewindTranscript(t) =>
        UNCHANGED op /\ runtime = "idle" /\ runtime' # "restoring"
  BY DEF StartTurn, RewindTranscript
<1>3. AskForTools \/ AnswerBatch \/ CompleteTurn \/ CancelTurn \/ TurnRaises \/ CancelRecoveryFails
        \/ SessionReady \/ Restart
        => UNCHANGED op /\ runtime # "restoring" /\ runtime' # "restoring"
  BY DEF AskForTools, AnswerBatch, NextCall, CompleteTurn, CancelTurn, TurnRaises,
        CancelRecoveryFails, Interrupt, SessionReady, Restart
<1> QED BY <1>1, <1>2, <1>3 DEF Next, vars, Restoring, Begins

LEMMA OpTyped ==
  ASSUME RecoveryInvariant, [Next]_vars
  PROVE  op' \in Operation /\ (op'.kind # "none" <=> runtime' = "restoring")
<1> USE DEF RecoveryInvariant
<1>a. RecoveryTypeOK /\ op \in Operation /\ (op.kind # "none" <=> runtime = "restoring")
  BY DEF RecoveryTypeOK
<1>b. {"failed", "notrun", "undone"} \subseteq Outcome
  BY DEF Outcome
<1>1. CASE UNCHANGED op /\ (runtime' = "restoring" <=> runtime = "restoring")
  BY <1>1, <1>a
<1>2. CASE Begins
  BY <1>2, <1>a, BeginsIs DEF BeginsAs
<1>3. CASE Crash
  BY <1>3, NoOpIs DEF Crash
<1>4. CASE \E f \in File : HandEdit(f)
  <2>1. UNCHANGED runtime
    BY <1>4 DEF HandEdit
  <2> QED BY <1>4, <1>a, <2>1, HandEditIs
<1>5. ASSUME NEW t \in Turn, JudgeCall(t) PROVE op' \in Operation /\ op'.kind = op.kind /\ UNCHANGED runtime
  <2>1. UNCHANGED runtime
    BY <1>5 DEF JudgeCall
  <2>2. \A c \in Call, v \in {"notrun", "failed"} :
          Judged(c, v) \in Operation /\ Judged(c, v).kind = op.kind
    BY <1>a, <1>b, JudgedIs DEF KeepsPlan
  <2>3. PICK c \in Call :
          \/ op' \in {Judged(c, "notrun"), Judged(c, "failed")}
          \/ op' \in Operation /\ op'.kind = op.kind
    BY <1>5, <1>a, JudgeIs
  <2> QED BY <2>1, <2>2, <2>3
<1>6. ASSUME NEW t \in Turn, CallUndone(t) PROVE op' \in Operation /\ op'.kind = op.kind /\ UNCHANGED runtime
  <2>1. UNCHANGED runtime
    BY <1>6 DEF CallUndone
  <2> QED BY <1>6, <1>a, <1>b, <2>1, UndoneIs, JudgedIs DEF KeepsPlan
<1>7. CASE FinishUndo \/ FinishRewind \/ \E t \in Turn : FinishRecovery(t)
  BY <1>7, NoOpIs DEF FinishUndo, FinishRewind, FinishRecovery
<1>8. CASE RestoreFile
  <2>1. UNCHANGED runtime
    BY <1>8 DEF RestoreFile
  <2> QED BY <1>8, <1>a, <2>1, RestoreFileIs DEF KeepsPlan
<1>9. CASE RestoreFails
  <2>1. runtime = "restoring"
    BY <1>9, RestoringIs DEF Restoring
  <2> QED BY <1>9, <1>a, <2>1, RestoreFailsIs, NoOpIs DEF KeepsPlan
<1> QED BY <1>a, <1>1, <1>2, <1>3, <1>4, <1>5, <1>6, <1>7, <1>8, <1>9, OpStays DEF Restoring

LEMMA TypeStep ==
  ASSUME RecoveryInvariant, [Next]_vars
  PROVE  RecoveryTypeOK'
<1>1. \A c \in Call : stage'[c] # "none" => calls'[c].row = "dispatched"
  BY StagesMove, RowsOK DEF StageMoves, RecoveryInvariant, RecoveryTypeOK
<1>2. \A c \in Call : RowOK(calls'[c]) /\ RowMoves(c)
  BY RowsMove DEF RowMoves
<1> QED BY <1>1, <1>2, RowsMove, StagesMove, MarksTyped, FilesTyped, RuntimeTyped, OpTyped
        DEF RecoveryInvariant, RecoveryTypeOK, RowOK

-----------------------------------------------------------------------------
(***************************************************************************)
(* Turns, and the rows of their calls.                                     *)
(***************************************************************************)
Others(c) == \A d \in Call \ {c} : calls'[d] = calls[d]

\* A call of the batch goes one step further, or is over.
Approaches(c) ==
  /\ UNCHANGED runtime /\ Others(c)
  /\ <<calls[c].row, calls'[c].row>> \in {<<"none", "intent">>, <<"intent", "dispatched">>}
  /\ calls'[c].asked = calls[c].asked /\ calls'[c].answers = calls[c].answers
  /\ calls'[c].outcome = calls[c].outcome

Settles(c) ==
  /\ Others(c) /\ calls'[c].row = "settled" /\ calls'[c].asked /\ calls'[c].outcome # "none"
  /\ calls'[c].answers = IF current \in Parallel THEN 0 ELSE 1
  /\ current \in Parallel => UNCHANGED runtime
  /\ current \notin Parallel => runtime' \in {NextCall(c), "ending"}

LEMMA FinalizeIs ==
  ASSUME RecoveryInvariant, NEW c \in Call, HasTurn(c),
         NEW o \in Outcome \ {"none"}, NEW maytrip, Finalize(c, o, maytrip)
  PROVE  Settles(c) /\ calls'[c].outcome = o
<1>1. RowOK(calls[c]) /\ calls[c].row # "settled" /\ calls[c].asked
  BY RowsOK DEF RecoveryInvariant, HasTurn, TurnsInOrder, BatchInOrder
<1> DEFINE q == Settled(calls[c], o)
<1>2. q.row = "settled" /\ q.outcome = o /\ q.asked /\ q.answers = 0 /\ RowOK(q)
  BY <1>1, RowFields
<1>3. \/ /\ current \notin Parallel /\ runtime' \in {NextCall(c), "ending"}
         /\ calls' = [calls EXCEPT ![c] = Answered(q)]
      \/ /\ current \in Parallel /\ UNCHANGED runtime
         /\ calls' = [calls EXCEPT ![c] = q]
  BY DEF Finalize
<1> HIDE DEF q
<1>4. Stays(q, Answered(q)) /\ Answered(q).answers = 1
  BY <1>2, RowFields
<1>5. Others(c) /\ calls'[c] = IF current \in Parallel THEN q ELSE Answered(q)
  BY <1>3 DEF Others, RecoveryInvariant, RecoveryTypeOK
<1> QED BY <1>2, <1>3, <1>4, <1>5 DEF Settles, Stays

LEMMA CallStepIs ==
  ASSUME RecoveryInvariant, NEW c \in Call, CallStep(c)
  PROVE  /\ HasTurn(c) /\ runtime = "calls" /\ c \in Batch(current)
         /\ calls[c].asked /\ calls[c].row # "settled" /\ calls[c].answers = 0
         /\ UNCHANGED <<journal, current, op, kept, edits, crashes>>
         /\ \/ UNCHANGED calls /\ UNCHANGED runtime
            \/ UNCHANGED calls /\ runtime' = "ending" /\ current \in Parallel
            \/ Approaches(c)
            \/ Settles(c) /\ UNCHANGED <<marks, files, acted>>
<1>1. HasTurn(c) /\ UNCHANGED <<journal, current, op, kept, edits, crashes>>
  BY DEF CallStep, RefuseCall, ApproveCall, DispatchCall, Checkpoint, SkipTool,
        WriteFile, CloseMark, Act, ToolReturns, FinishCall, ToolRaises, HaltBatch, Finalize,
        Ghosts, Bounds, durable
<1>2. runtime = "calls" /\ c \in Batch(current) /\ calls[c].row # "settled" /\ RowOK(calls[c])
  BY <1>1, RowsOK DEF HasTurn, RecoveryInvariant
<1>3. calls[c].asked /\ calls[c].answers = 0
  BY <1>2 DEF RecoveryInvariant, TurnsInOrder, BatchInOrder, RowOK, CallRow
<1>4. CASE ApproveCall(c) \/ DispatchCall(c)
  <2>1. PICK s \in {"intent", "dispatched"} :
          /\ <<calls[c].row, s>> \in {<<"none", "intent">>, <<"intent", "dispatched">>}
          /\ calls' = [calls EXCEPT ![c].row = s] /\ UNCHANGED runtime
    BY <1>4 DEF ApproveCall, DispatchCall
  <2> DEFINE q == [calls[c] EXCEPT !.row = s]
  <2>2. q.row = s /\ q.asked = calls[c].asked /\ q.answers = calls[c].answers
          /\ q.outcome = calls[c].outcome
    BY <1>2 DEF RowOK, CallRow
  <2>3. calls'[c] = q /\ Others(c)
    BY <2>1 DEF Others, RecoveryInvariant, RecoveryTypeOK
  <2> HIDE DEF q
  <2>4. Approaches(c)
    BY <2>1, <2>2, <2>3 DEF Approaches
  <2> QED BY <1>1, <1>2, <1>3, <2>4
<1>5. CASE RefuseCall(c) \/ SkipTool(c) \/ FinishCall(c) \/ ToolRaises(c)
  <2>1. {"notrun", "failed", "success"} \subseteq Outcome \ {"none"}
    BY DEF Outcome
  <2>2. /\ \E o \in Outcome \ {"none"}, b \in BOOLEAN : Finalize(c, o, b)
        /\ UNCHANGED <<files, acted>>
    BY <1>5, <2>1 DEF RefuseCall, SkipTool, FinishCall, ToolRaises, Ghosts
  <2>3. Settles(c) /\ UNCHANGED marks
    BY <1>1, <2>2, FinalizeIs DEF Finalize
  <2> QED BY <1>1, <1>2, <1>3, <2>2, <2>3
<1>6. CASE \/ Checkpoint(c) \/ Act(c) \/ ToolReturns(c) \/ HaltBatch(c)
           \/ \E f \in File : WriteFile(c, f) \/ CloseMark(c, f)
  <2>1. UNCHANGED calls /\ (UNCHANGED runtime \/ (runtime' = "ending" /\ current \in Parallel))
    BY <1>6 DEF Checkpoint, Act, ToolReturns, HaltBatch, WriteFile, CloseMark, durable
  <2> QED BY <1>1, <1>2, <1>3, <2>1
<1> QED BY <1>4, <1>5, <1>6 DEF CallStep

LEMMA AskIs ==
  ASSUME RecoveryTypeOK, AskForTools
  PROVE  /\ runtime = "model" /\ runtime' = "calls" /\ UNCHANGED <<journal, current>>
         /\ Batch(current) # {}
         /\ \A c \in Batch(current) : /\ calls'[c].asked /\ calls'[c].row = "none"
                                      /\ calls'[c].answers = 0
         /\ \A c \in Call \ Batch(current) : calls'[c] = calls[c]
<1> DEFINE q == [NoCall EXCEPT !.asked = TRUE]
<1>1. /\ runtime = "model" /\ runtime' = "calls" /\ UNCHANGED <<journal, current>>
      /\ Batch(current) # {}
      /\ calls' = [c \in Call |-> IF c \in Batch(current) THEN q ELSE calls[c]]
  BY DEF AskForTools
<1>2. q.asked /\ q.row = "none" /\ q.answers = 0
  BY NoCallRow
<1> HIDE DEF q
<1> QED BY <1>1, <1>2 DEF Batch

\* The rows of a turn move while it is in hand, when it is recovered, or go.
LEMMA TurnsMove ==
  ASSUME RecoveryInvariant, [Next]_vars, NEW t \in Turn
  PROVE  /\ \/ \A c \in Batch(t) : calls'[c] = calls[c]
            \/ /\ t = current /\ runtime \in {"model", "calls"}
               /\ UNCHANGED <<current, journal>>
            \/ FinishRecovery(t) /\ journal'[t] = "recovered"
            \/ journal'[t] = "deleted" /\ \A c \in Batch(t) : calls'[c] = NoCall
         /\ \/ journal'[t] = journal[t]
            \/ /\ StartTurn(t) /\ journal[t] = "none" /\ journal'[t] = "started"
               /\ UNCHANGED calls
            \/ /\ t = current /\ journal[t] = "started" /\ UNCHANGED calls
               /\ \/ journal'[t] = "completed" /\ CompleteTurn
                  \/ journal'[t] = "interrupted" /\ (TurnRaises \/ CancelRecoveryFails)
            \/ FinishRecovery(t) /\ journal'[t] = "recovered" /\ journal[t] \in {"started", "interrupted"}
            \/ journal'[t] = "deleted" /\ \A c \in Batch(t) : calls'[c] = NoCall
<1> USE DEF RecoveryInvariant
<1>a. journal \in [Turn -> Status] /\ calls \in [Call -> CallRow]
  BY DEF RecoveryTypeOK
<1>b. \A u : \A c \in Call : c \in Batch(u) <=> TurnOf[c] = u
  BY DEF Batch
<1>c. Batch(t) \subseteq Call
  BY DEF Batch
<1>1. CASE UNCHANGED <<calls, journal>>
  BY <1>1
<1>2. ASSUME NEW u \in Turn, StartTurn(u) PROVE u = t \/ journal'[t] = journal[t]
  BY <1>2, <1>a DEF StartTurn
<1>3. CASE \E u \in Turn : StartTurn(u)
  <2>1. PICK u \in Turn : StartTurn(u)
    BY <1>3
  <2>2. UNCHANGED calls /\ journal[u] = "none" /\ journal'[u] = "started"
    BY <1>a, <2>1 DEF StartTurn
  <2> QED BY <1>2, <2>1, <2>2
<1>4. CASE AskForTools
  BY <1>4, <1>b, <1>c, AskIs
<1>5. CASE AnswerBatch
  <2>1. PICK c \in Batch(current) : calls' = [calls EXCEPT ![c] = Answered(calls[c])]
    BY <1>5, AnswerNext
  <2>2. runtime = "calls" /\ UNCHANGED <<current, journal>>
    BY <1>5 DEF AnswerBatch
  <2>3. t # current => \A d \in Batch(t) : calls'[d] = calls[d]
    BY <1>a, <1>b, <1>c, <2>1
  <2> QED BY <2>2, <2>3
<1>6. CASE CompleteTurn \/ TurnRaises \/ CancelRecoveryFails
  <2>1. /\ current \in Turn /\ journal[current] = "started" /\ UNCHANGED calls
    BY <1>6 DEF CompleteTurn, TurnRaises, CancelRecoveryFails, Interrupt, TurnsInOrder, InTurn
  <2>2. CASE CompleteTurn
    BY <1>a, <2>1, <2>2 DEF CompleteTurn
  <2>3. CASE TurnRaises \/ CancelRecoveryFails
    BY <1>a, <2>1, <2>3 DEF TurnRaises, CancelRecoveryFails, Interrupt
  <2> QED BY <1>6, <2>2, <2>3
<1>7. CASE \E c \in Call : CallStep(c)
  <2>1. PICK c \in Call : /\ runtime = "calls" /\ UNCHANGED <<current, journal>> /\ c \in Batch(current)
                          /\ UNCHANGED calls \/ Others(c)
    BY <1>7, CallStepIs DEF Approaches, Settles
  <2>2. t # current => \A d \in Batch(t) : calls'[d] = calls[d]
    BY <1>b, <1>c, <2>1 DEF Others
  <2> QED BY <2>1, <2>2
<1>8. CASE \E u \in Turn : FinishRecovery(u)
  <2>1. PICK u \in Turn : FinishRecovery(u)
    BY <1>8
  <2>2. /\ calls' = [c \in Call |-> IF c \in Batch(u) THEN Reply(c) ELSE calls[c]]
        /\ journal' = [journal EXCEPT ![u] = "recovered"] /\ op.kind = "recovery" /\ op.turns = {u}
    BY <2>1 DEF FinishRecovery, Recovering
  <2>3. journal[u] \in {"started", "interrupted"}
    BY <2>2 DEF RecoveryInHand
  <2>4. CASE u = t
    BY <1>a, <2>1, <2>2, <2>3, <2>4
  <2>5. CASE u # t
    <3>1. journal'[t] = journal[t]
      BY <1>a, <2>2, <2>5
    <3>2. \A c \in Batch(t) : calls'[c] = calls[c]
      BY <1>b, <1>c, <2>2, <2>5
    <3> QED BY <3>1, <3>2
  <2> QED BY <2>4, <2>5
<1>9. CASE FinishRewind \/ \E u \in Turn : RewindTranscript(u)
  <2>1. PICK T : Deleted(T)
    BY <1>9 DEF FinishRewind, RewindTranscript
  <2>2. CASE t \in T
    BY <1>b, <1>c, <2>1, <2>2 DEF Deleted
  <2>3. CASE t \notin T
    BY <1>b, <1>c, <2>1, <2>3 DEF Deleted
  <2> QED BY <2>2, <2>3
<1>10. ASSUME \/ UNCHANGED vars \/ CancelTurn
              \/ BeginRecovery \/ SessionReady \/ RestoreFile \/ RestoreFails \/ BeginUndo
              \/ FinishUndo \/ Crash \/ Restart
              \/ \E f \in File : HandEdit(f)
              \/ \E u \in Turn : JudgeCall(u) \/ CallUndone(u) \/ BeginRewind(u)
      PROVE  UNCHANGED <<calls, journal>>
  BY <1>10 DEF vars, CancelTurn, BeginRecovery, SessionReady, RestoreFile, RestoreFails, BeginUndo,
        FinishUndo, Crash, Restart, HandEdit, JudgeCall, CallUndone, BeginRewind, durable
<1> QED BY <1>1, <1>3, <1>4, <1>5, <1>6, <1>7, <1>8, <1>9, <1>10 DEF Next

\* The turn in hand was so before, or it starts.
LEMMA InTurnStep ==
  ASSUME RecoveryInvariant, [Next]_vars, runtime' \in InTurn
  PROVE  \/ \E t \in Turn : StartTurn(t)
         \/ /\ UNCHANGED <<current, journal>>
            /\ \/ UNCHANGED <<runtime, calls>>
               \/ runtime' = "cancelled" /\ runtime \in {"model", "calls"}
               \/ AskForTools \/ AnswerBatch \/ \E c \in Call : CallStep(c)
<1> USE DEF InTurn
<1>1. CASE AskForTools \/ AnswerBatch \/ \E c \in Call : CallStep(c)
  <2>1. UNCHANGED <<current, journal>>
    BY <1>1, CallStepIs DEF AskForTools, AnswerBatch
  <2> QED BY <1>1, <2>1
<1>2. CASE CancelTurn
  BY <1>2 DEF CancelTurn, durable
<1>3. CASE UNCHANGED vars \/ \E f \in File : HandEdit(f)
  BY <1>3 DEF vars, HandEdit, durable
<1>4. ASSUME Restoring PROVE FALSE
  <2>1. runtime = "restoring"
    BY <1>4, RestoringIs
  <2>2. UNCHANGED runtime \/ runtime' \in {"starting", "idle"}
    BY <1>4 DEF Restoring, RestoreFile, RestoreFails, FinishUndo, FinishRewind, JudgeCall, CallUndone,
          FinishRecovery
  <2> QED BY <2>1, <2>2
<1>5. ASSUME \/ CompleteTurn \/ TurnRaises \/ CancelRecoveryFails \/ BeginRecovery \/ SessionReady
             \/ BeginUndo \/ Crash \/ Restart
             \/ \E t \in Turn : BeginRewind(t) \/ RewindTranscript(t)
      PROVE  FALSE
  BY <1>5 DEF CompleteTurn, TurnRaises, CancelRecoveryFails, Interrupt, BeginRecovery, SessionReady,
        BeginUndo, Crash, Restart, BeginRewind, RewindTranscript
<1> QED BY <1>1, <1>2, <1>3, <1>4, <1>5 DEF Next, Restoring

LEMMA TurnStarts ==
  ASSUME RecoveryInvariant, NEW t \in Turn, StartTurn(t)
  PROVE  /\ runtime = "idle" /\ runtime' = "model" /\ current' = t /\ UNCHANGED calls
         /\ journal[t] = "none" /\ journal'[t] = "started"
         /\ \A u \in Turn \ {t} : journal'[u] = journal[u]
         /\ \A u \in Turn : journal[u] # "started" /\ (journal[u] = "interrupted" => Quiet(u))
         /\ \A c \in Batch(t) : ~calls[c].asked
<1>1. /\ runtime = "idle" /\ runtime' = "model" /\ current' = t /\ UNCHANGED calls
      /\ journal[t] = "none" /\ journal' = [journal EXCEPT ![t] = "started"]
      /\ Recoverable = {}
  BY DEF StartTurn
<1>2. \A u \in Turn : journal[u] # "started" /\ (journal[u] = "interrupted" => ~Unsettled(u))
  BY <1>1 DEF Recoverable
<1>3. ASSUME NEW u \in Turn, ~Unsettled(u)
      PROVE  Quiet(u)
  <2>1. Pending(u) = {} /\ \A c \in Batch(u) : calls[c].asked => calls[c].answers # 0
    BY <1>3 DEF Unsettled, Missing
  <2>2. \A c \in Batch(u) : calls[c].answers \in {0, 1}
    BY RowsOK DEF Batch, RowOK, CallRow, RecoveryInvariant
  <2> QED BY <2>1, <2>2 DEF Quiet, Replied
<1>4. \A c \in Batch(t) : ~calls[c].asked
  BY <1>1, NoCallRow DEF Batch, RecoveryInvariant, TurnsInOrder
<1> QED BY <1>1, <1>2, <1>3, <1>4 DEF RecoveryInvariant, RecoveryTypeOK

\* A turn whose rows stay is as quiet as it was.
LEMMA StaysQuiet ==
  ASSUME NEW t \in Turn, \A c \in Batch(t) : calls'[c] = calls[c]
  PROVE  (Quiet(t) => Quiet(t)') /\ (Replied(t) => Replied(t)')
BY DEF Quiet, Replied, Pending, Batch

\* The last call of a batch is answered when it is over, or they all are.
LEMMA BatchStep ==
  ASSUME RecoveryInvariant, [Next]_vars, runtime' \in {"model", "calls", "ending"}
  PROVE  /\ runtime' = "model" => Replied(current)'
         /\ runtime' = "calls" => BatchInOrder(current)'
         /\ runtime' = "ending" /\ current' \notin Parallel =>
              \A c \in Batch(current') : calls'[c].row \in {"none", "settled"}
<1> USE DEF RecoveryInvariant
<1>a. \A d \in Call : d \in Int /\ RowOK(calls[d]) /\ calls[d].answers \in {0, 1}
        /\ (calls[d].answers = 1 => calls[d].row = "settled")
        /\ calls[d].row \in {"none", "intent", "dispatched", "settled"}
  BY CallFacts, RowsOK DEF RowOK, CallRow
<1>b. \A u : Batch(u) \subseteq Call
  BY DEF Batch
<1>c. Batch(current)' = Batch(current')
  BY DEF Batch
<1>1. CASE \E t \in Turn : StartTurn(t)
  <2>1. PICK t \in Turn : StartTurn(t)
    BY <1>1
  <2>2. \A c \in Batch(t) : ~calls'[c].asked
    BY <2>1, TurnStarts DEF Batch
  <2> QED BY <2>1, <2>2, <1>c, TurnStarts DEF Replied
<1>2. CASE UNCHANGED <<current, runtime, calls>>
  BY <1>2, <1>c DEF TurnsInOrder, Replied, BatchInOrder
<1>3. CASE AskForTools
  <2>1. runtime' = "calls" /\ current' = current
    BY <1>3, AskIs
  <2>2. /\ \A c \in Batch(current') : /\ calls'[c].asked /\ calls'[c].row = "none"
                                      /\ calls'[c].answers = 0
        /\ Batch(current') # {}
    BY <1>3, <2>1, AskIs
  <2>3. BatchInOrder(current)'
    BY <1>c, <2>2 DEF BatchInOrder
  <2> QED BY <2>1, <2>3
<1>4. CASE AnswerBatch
  <2>1. PICK c \in Batch(current) : /\ calls[c].answers = 0 /\ calls[c].row = "settled"
                                    /\ \A d \in Batch(current) : d < c => calls[d].answers # 0
                                    /\ calls' = [calls EXCEPT ![c] = Answered(calls[c])]
                                    /\ runtime' = NextCall(c)
    BY <1>4, AnswerNext
  <2>2. current' = current /\ current \in Parallel /\ runtime = "calls" /\ BatchInOrder(current)
    BY <1>4 DEF AnswerBatch, TurnsInOrder
  <2>3. c \in Call /\ "failed" \in Outcome \ {"none"}
    BY <1>b DEF Outcome
  <2>4. Stays(calls[c], Answered(calls[c])) /\ Answered(calls[c]).answers = 1
    BY <1>a, <2>1, <2>3, RowFields
  <2>5. /\ calls'[c].answers = 1 /\ calls'[c].asked = calls[c].asked
        /\ \A d \in Call \ {c} : calls'[d] = calls[d]
    BY <2>1, <2>3, <2>4 DEF RecoveryTypeOK, Stays
  <2>6. \A d \in Batch(current) : d < c => calls'[d].answers = 1
    BY <1>a, <1>b, <2>1, <2>5
  <2>7. \A d \in Batch(current) : calls'[d].asked
    BY <1>b, <2>2, <2>5 DEF BatchInOrder
  <2>8. ASSUME ~\E d \in Batch(current) : d > c
        PROVE  runtime' = "model" /\ Replied(current)'
    <3>1. \A d \in Batch(current) : calls'[d].answers = 1
      BY <1>a, <1>b, <2>5, <2>6, <2>8
    <3> QED BY <1>c, <2>1, <2>2, <2>8, <3>1 DEF NextCall, Replied
  <2>9. ASSUME NEW e \in Batch(current), e > c
        PROVE  runtime' = "calls" /\ BatchInOrder(current)'
    <3>1. calls'[e].answers = 0
      BY <1>a, <1>b, <2>1, <2>2, <2>5, <2>9 DEF BatchInOrder
    <3>2. \A d, b \in Batch(current) : d < b /\ calls'[b].answers = 1 => calls'[d].answers = 1
      BY <1>b, <2>2, <2>5, <2>6 DEF BatchInOrder
    <3> QED BY <1>c, <2>1, <2>2, <2>7, <2>9, <3>1, <3>2 DEF NextCall, BatchInOrder
  <2> QED BY <2>8, <2>9
<1>5. ASSUME NEW c \in Call, CallStep(c)
      PROVE  /\ runtime' = "model" => Replied(current)'
             /\ runtime' = "calls" => BatchInOrder(current)'
             /\ runtime' = "ending" /\ current' \notin Parallel =>
                  \A d \in Batch(current') : calls'[d].row \in {"none", "settled"}
  <2>1. /\ HasTurn(c) /\ runtime = "calls" /\ c \in Batch(current) /\ current' = current
        /\ calls[c].asked /\ calls[c].answers = 0
    BY <1>5, CallStepIs
  <2>2. BatchInOrder(current)
    BY <2>1 DEF TurnsInOrder
  <2>3. current \notin Parallel => \A d \in Batch(current) \ {c} :
          IF d < c THEN calls[d].answers = 1 ELSE calls[d].row = "none"
    BY <1>b, <2>1, OneAtATime
  <2>4. CASE UNCHANGED calls /\ UNCHANGED runtime
    BY <1>2, <2>1, <2>4
  <2>5. CASE UNCHANGED calls /\ runtime' = "ending" /\ current \in Parallel
    BY <2>1, <2>5
  <2>6. CASE Approaches(c)
    <3>1. runtime' = "calls" /\ \A d \in Call : calls'[d].asked = calls[d].asked
            /\ calls'[d].answers = calls[d].answers /\ (d # c => calls'[d].row = calls[d].row)
      BY <2>1, <2>6 DEF Approaches, Others
    <3>2. current \notin Parallel => \A d, e \in Batch(current) :
            d < e /\ calls'[e].row # "none" => calls'[d].answers = 1
      BY <1>a, <1>b, <2>2, <2>3, <3>1 DEF BatchInOrder
    <3> QED BY <1>b, <1>c, <2>1, <2>2, <3>1, <3>2 DEF BatchInOrder
  <2>7. CASE Settles(c) /\ current \in Parallel
    <3>1. runtime' = "calls" /\ \A d \in Batch(current) : calls'[d].asked
            /\ calls'[d].answers = calls[d].answers
      BY <1>b, <2>1, <2>2, <2>7 DEF Settles, Others, BatchInOrder
    <3> QED BY <1>c, <2>1, <2>2, <2>7, <3>1 DEF BatchInOrder
  <2>8. CASE Settles(c) /\ current \notin Parallel
    <3>1. /\ calls'[c].answers = 1 /\ calls'[c].asked /\ calls'[c].row = "settled"
          /\ \A d \in Batch(current) \ {c} : calls'[d] = calls[d]
          /\ runtime' \in {NextCall(c), "ending"}
      BY <1>b, <2>8 DEF Settles, Others
    <3>2. \A d \in Batch(current) : calls'[d].asked
      BY <2>2, <3>1 DEF BatchInOrder
    <3>3. \A d \in Batch(current) : calls'[d].answers = 1 \/ (d > c /\ calls'[d].row = "none")
      BY <1>a, <1>b, <2>1, <2>3, <2>8, <3>1
    <3>4. \A d, e \in Batch(current) : d < e /\ calls'[e].row # "none" => calls'[d].answers = 1
      BY <1>a, <1>b, <2>1, <2>3, <2>8, <3>1, <3>3
    <3>5. \A d \in Batch(current) : calls'[d].row \in {"none", "settled"}
      BY <1>a, <1>b, <2>1, <2>3, <2>8, <3>1
    <3>6. CASE \E d \in Batch(current) : d > c
      BY <1>c, <2>1, <2>8, <3>1, <3>2, <3>4, <3>5, <3>6 DEF NextCall, BatchInOrder
    <3>7. CASE ~\E d \in Batch(current) : d > c
      BY <1>c, <2>1, <2>8, <3>1, <3>3, <3>5, <3>7 DEF NextCall, Replied
    <3> QED BY <3>6, <3>7
  <2> QED BY <1>5, <2>4, <2>5, <2>6, <2>7, <2>8, CallStepIs
<1> QED BY <1>1, <1>2, <1>3, <1>4, <1>5, InTurnStep DEF InTurn

LEMMA OrderStep ==
  ASSUME RecoveryInvariant, [Next]_vars
  PROVE  TurnsInOrder'
<1> USE DEF RecoveryInvariant
<1>a. /\ \A c \in Call : TurnOf[c] \in Turn /\ c \in Batch(TurnOf[c]) /\ RowOK(calls[c]) /\ RowMoves(c)
      /\ \A t \in Turn : Batch(t) \subseteq Call
  BY CallFacts, RowsOK, RowsMove DEF Batch
<1>b. runtime \in InTurn => current \in Turn /\ journal[current] = "started"
  BY DEF TurnsInOrder
<1>1. runtime' \in InTurn => current' \in Turn /\ journal'[current'] = "started"
  <2> SUFFICES ASSUME runtime' \in InTurn PROVE current' \in Turn /\ journal'[current'] = "started"
    OBVIOUS
  <2>1. CASE \E t \in Turn : StartTurn(t)
    BY <2>1, TurnStarts
  <2>2. CASE UNCHANGED <<current, journal>> /\ runtime \in InTurn
    BY <1>b, <2>2
  <2>3. CASE AskForTools \/ AnswerBatch \/ \E c \in Call : CallStep(c)
    BY <1>b, <2>3, AskIs, CallStepIs DEF AnswerBatch, InTurn
  <2> QED BY <2>1, <2>2, <2>3, InTurnStep DEF InTurn
<1>2. \A c \in Call : stage'[c] # "none" => runtime' = "calls" /\ TurnOf[c] = current'
  BY StagesMove DEF StageMoves
<1>3. ASSUME NEW c \in Call, journal'[TurnOf[c]] \in {"none", "deleted"} \/ ~calls'[c].asked
      PROVE  calls'[c] = NoCall
  <2> DEFINE t == TurnOf[c]
  <2>1. t \in Turn /\ c \in Batch(t)
    BY <1>a
  <2>2. journal[t] \in {"none", "deleted"} \/ ~calls[c].asked => calls[c] = NoCall
    BY DEF TurnsInOrder
  <2> HIDE DEF t
  <2>3. CASE journal'[t] \in {"none", "deleted"}
    <3>1. CASE calls'[c] = NoCall
      BY <3>1
    <3>2. CASE journal'[t] = journal[t]
      <4>1. calls[c] = NoCall
        BY <2>2, <2>3, <3>2
      <4>2. CASE \A d \in Batch(t) : calls'[d] = calls[d]
        BY <2>1, <4>1, <4>2
      <4>3. CASE t = current /\ runtime \in {"model", "calls"}
        BY <1>b, <2>3, <3>2, <4>3 DEF InTurn
      <4> QED BY <2>1, <2>3, <3>1, <4>2, <4>3, TurnsMove
    <3>3. CASE journal'[t] # journal[t]
      BY <2>1, <2>3, <3>1, <3>3, TurnsMove
    <3> QED BY <3>2, <3>3
  <2>4. CASE ~calls'[c].asked
    <3>1. CASE Advance(calls[c], calls'[c])
      <4>1. ~calls[c].asked
        BY <2>4, <3>1, NoCallRow DEF Advance, Stays
      <4>2. calls[c] = NoCall /\ calls[c].row = "none"
        BY <2>2, <4>1, NoCallRow
      <4> QED BY <2>4, <3>1, <4>1, <4>2, NoCallRow DEF Advance, Stays
    <3> QED BY <1>a, <3>1 DEF RowMoves
  <2> QED BY <1>3, <2>3, <2>4 DEF t
<1>4. ASSUME NEW t \in Turn, journal'[t] = "recovered"
      PROVE  Quiet(t)'
  <2>1. CASE FinishRecovery(t)
    <3>1. \A c \in Batch(t) : calls'[c] = Reply(c)
      BY <1>a, <2>1 DEF FinishRecovery
    <3>2. \A c \in Batch(t) : /\ Reply(c).asked => Reply(c).answers = 1
                              /\ Reply(c).row \notin {"intent", "dispatched"}
      BY <2>1, ReplyMoves
    <3> QED BY <3>1, <3>2 DEF Quiet, Replied, Pending, Batch
  <2>2. CASE journal[t] = "recovered" /\ ~FinishRecovery(t)
    <3>1. Quiet(t) /\ ~(t = current /\ runtime \in InTurn)
      BY <1>b, <2>2 DEF TurnsInOrder
    <3>2. \A c \in Batch(t) : calls'[c] = calls[c]
      BY <1>4, <2>2, <3>1, TurnsMove DEF InTurn
    <3> QED BY <3>1, <3>2, StaysQuiet
  <2> QED BY <1>4, <2>1, <2>2, TurnsMove
<1>5. ASSUME runtime' \in {"model", "calls"}, NEW t \in Turn \ {current'}
      PROVE  journal'[t] # "started" /\ (journal'[t] = "interrupted" => Quiet(t)')
  <2>1. CASE \E u \in Turn : StartTurn(u)
    <3>1. PICK u \in Turn : StartTurn(u)
      BY <2>1
    <3>2. /\ journal'[t] = journal[t] /\ UNCHANGED calls
          /\ journal[t] # "started" /\ (journal[t] = "interrupted" => Quiet(t))
      BY <1>5, <3>1, TurnStarts
    <3>3. Quiet(t) => Quiet(t)'
      BY <3>2, StaysQuiet
    <3> QED BY <3>2, <3>3
  <2>2. CASE UNCHANGED <<current, journal>> /\ runtime \in {"model", "calls"}
    <3>1. journal[t] # "started" /\ (journal[t] = "interrupted" => Quiet(t)) /\ t # current
      BY <1>5, <2>2 DEF TurnsInOrder
    <3>2. (\A c \in Batch(t) : calls'[c] = calls[c]) \/ journal'[t] \in {"recovered", "deleted"}
      BY <3>1, TurnsMove
    <3>4. CASE \A c \in Batch(t) : calls'[c] = calls[c]
      BY <2>2, <3>1, <3>4, StaysQuiet
    <3> QED BY <3>2, <3>4
  <2>3. CASE AskForTools \/ AnswerBatch \/ \E c \in Call : CallStep(c)
    BY <2>2, <2>3, CallStepIs, AskIs DEF AnswerBatch
  <2> QED BY <1>5, <2>1, <2>2, <2>3, InTurnStep DEF InTurn
<1>6. /\ runtime' = "model" => Replied(current)'
      /\ runtime' = "calls" => BatchInOrder(current)'
      /\ runtime' = "ending" /\ current' \notin Parallel =>
           \A c \in Batch(current') : calls'[c].row \in {"none", "settled"}
  BY BatchStep
<1>7. ASSUME NEW c \in Call, calls'[c].row = "dispatched", FilesOf[c] # {}
      PROVE  journal'[TurnOf[c]] \in {"started", "interrupted"}
  <2> DEFINE t == TurnOf[c]
  <2>1. t \in Turn /\ c \in Batch(t) /\ t \notin Parallel
    BY <1>7, CallFacts DEF Batch
  <2> HIDE DEF t
  <2>2. calls'[c] # NoCall
    BY <1>7, NoCallRow
  <2>3. CASE FinishRecovery(t)
    <3>1. calls'[c] = Reply(c) /\ Reply(c).row # "dispatched"
      BY <1>a, <2>1, <2>3, ReplyMoves DEF FinishRecovery
    <3> QED BY <1>7, <3>1
  <2>4. CASE t = current /\ runtime \in {"model", "calls"} /\ UNCHANGED <<current, journal>>
    BY <1>b, <2>4 DEF InTurn, t
  <2>5. CASE \A d \in Batch(t) : calls'[d] = calls[d]
    <3>1. journal[t] \in {"started", "interrupted"} /\ calls[c].row = "dispatched"
      BY <1>7, <2>1, <2>5 DEF TurnsInOrder, t
    <3>2. journal'[t] # "completed"
      <4>1. SUFFICES ASSUME CompleteTurn, t = current PROVE FALSE
        BY <2>1, <3>1, TurnsMove
      <4>2. CASE runtime = "model"
        <5>1. calls[c].asked => calls[c].answers = 1
          BY <2>1, <4>1, <4>2 DEF TurnsInOrder, Replied
        <5>2. calls[c].asked
          BY <3>1, NoCallRow DEF TurnsInOrder
        <5> QED BY <1>a, <3>1, <5>1, <5>2 DEF RowOK
      <4>3. CASE runtime = "ending"
        BY <2>1, <3>1, <4>1, <4>3 DEF TurnsInOrder
      <4> QED BY <4>1, <4>2, <4>3 DEF CompleteTurn
    <3> QED BY <2>1, <2>2, <2>3, <3>1, <3>2, TurnsMove DEF t
  <2> QED BY <2>1, <2>2, <2>3, <2>4, <2>5, TurnsMove DEF t
<1> QED BY <1>1, <1>2, <1>3, <1>4, <1>5, <1>6, <1>7 DEF TurnsInOrder, Batch

-----------------------------------------------------------------------------
(***************************************************************************)
(* What calls do, and what is recorded of it.                              *)
(***************************************************************************)
\* Nothing but the journal, the calls and the plan of an operation changes.
Filing == UNCHANGED <<marks, files, acted, kept, edits>>

Clerical == Filing /\ \A f \in File : op'.was[f] \in {0, op.was[f], files[f]}

Tampers(c) == Checkpoint(c) \/ Act(c) \/ \E f \in File : WriteFile(c, f) \/ CloseMark(c, f)

Mends == \/ RestoreFile \/ RestoreFails \/ FinishUndo \/ FinishRewind
         \/ \E t \in Turn : FinishRecovery(t)

LEMMA Kinds ==
  ASSUME RecoveryInvariant, [Next]_vars
  PROVE  \/ Clerical \/ Mends
         \/ \E c \in Call : Tampers(c)
         \/ \E f \in File : HandEdit(f)
<1>a. RecoveryTypeOK
  BY DEF RecoveryInvariant
<1>1. CASE UNCHANGED vars
  BY <1>1 DEF vars, Clerical, Filing
<1>2. ASSUME NEW c \in Call, CallStep(c), ~Tampers(c) PROVE Clerical
  BY <1>2, CallStepIs DEF CallStep, Tampers, RefuseCall, ApproveCall, DispatchCall, SkipTool, ToolReturns,
        FinishCall, ToolRaises, HaltBatch, Finalize, Clerical, Filing, Ghosts, Bounds, durable
<1>3. CASE AskForTools \/ AnswerBatch \/ CompleteTurn \/ CancelTurn \/ TurnRaises \/ CancelRecoveryFails
        \/ SessionReady \/ Restart \/ \E t \in Turn : StartTurn(t) \/ RewindTranscript(t)
  BY <1>3 DEF AskForTools, AnswerBatch, CompleteTurn, CancelTurn, TurnRaises, CancelRecoveryFails,
        Interrupt, SessionReady, Restart, StartTurn, RewindTranscript, Clerical, Filing, Ghosts, durable
<1>4. CASE Begins
  <2>1. Filing
    BY <1>4 DEF Begins, BeginRecovery, BeginUndo, BeginRewind, Filing, Ghosts, durable
  <2>2. op'.was = files
    BY <1>a, <1>4, BeginsIs DEF BeginsAs
  <2> QED BY <2>1, <2>2 DEF Clerical
<1>5. CASE Crash
  BY <1>5, NoOpIs DEF Crash, Clerical, Filing, durable
<1>6. ASSUME NEW t \in Turn, JudgeCall(t) PROVE Clerical
  <2>1. Filing
    BY <1>6 DEF JudgeCall, Filing, Ghosts, durable
  <2>2. op'.was \in {files, op.was}
    <3>1. \A c \in Call, v \in {"notrun", "failed"} : Judged(c, v).was = op.was
      BY <1>a, JudgedIs DEF KeepsPlan, Outcome
    <3> QED BY <1>a, <1>6, <3>1, JudgeIs
  <2> QED BY <2>1, <2>2 DEF Clerical
<1>7. ASSUME NEW t \in Turn, CallUndone(t) PROVE Clerical
  <2>1. Filing
    BY <1>7 DEF CallUndone, Filing, Ghosts, durable
  <2>2. op'.was = op.was
    BY <1>a, <1>7, UndoneIs, JudgedIs DEF KeepsPlan, Outcome
  <2> QED BY <2>1, <2>2 DEF Clerical
<1> QED BY <1>1, <1>2, <1>3, <1>4, <1>5, <1>6, <1>7 DEF Next, Begins, Mends

\* How the mark of a call for a file moves.
LEMMA MarksMove ==
  ASSUME RecoveryInvariant, [Next]_vars, NEW c \in Call, NEW f \in File
  PROVE  \/ marks'[c][f] = marks[c][f]
         \/ /\ Checkpoint(c) /\ f \in FilesOf[c] /\ marks'[c][f].at = "open"
            /\ marks'[c][f].before = files[f] /\ marks'[c][f].after = 0
         \/ /\ CloseMark(c, f) /\ marks[c][f].at = "open" /\ marks'[c][f].at = "closed"
            /\ marks'[c][f].before = marks[c][f].before /\ marks'[c][f].after = files[f]
         \/ /\ marks'[c][f].at = "restored" /\ marks[c][f].at # "none"
            /\ marks'[c][f].before = marks[c][f].before
            /\ marks'[c][f].after = marks[c][f].after
            /\ \/ FinishRecovery(TurnOf[c]) /\ Retired(c, f)
               \/ (FinishUndo \/ FinishRewind) /\ TurnOf[c] \in op.turns
<1>a. marks \in [Call -> [File -> Mark]] /\ marks[c][f] \in Mark
  BY DEF RecoveryInvariant, RecoveryTypeOK
<1>1. CASE UNCHANGED marks
  BY <1>1
<1>2. CASE \E d \in Call : Tampers(d)
  <2>1. PICK d \in Call : Tampers(d)
    BY <1>2
  <2>2. CASE Act(d) \/ \E g \in File : WriteFile(d, g)
    BY <2>2 DEF Act, WriteFile, durable
  <2>3. CASE Checkpoint(d)
    <3>1. marks' = [marks EXCEPT ![d] = [g \in File |->
             IF g \in FilesOf[d] THEN [at |-> "open", before |-> files[g], after |-> 0]
             ELSE marks[d][g]]]
      BY <2>3 DEF Checkpoint
    <3>2. CASE d = c /\ f \in FilesOf[c]
      BY <1>a, <2>3, <3>1, <3>2
    <3>3. CASE ~(d = c /\ f \in FilesOf[c])
      BY <1>a, <3>1, <3>3
    <3> QED BY <3>2, <3>3
  <2>4. ASSUME NEW g \in File, CloseMark(d, g)
        PROVE  \/ marks'[c][f] = marks[c][f]
               \/ /\ CloseMark(c, f) /\ marks[c][f].at = "open" /\ marks'[c][f].at = "closed"
                  /\ marks'[c][f].before = marks[c][f].before /\ marks'[c][f].after = files[f]
    <3>1. marks' = [marks EXCEPT ![d] = [marks[d] EXCEPT ![g] =
              [marks[d][g] EXCEPT !.at = "closed", !.after = files[g]]]]
            /\ marks[d][g].at = "open"
      BY <1>a, <2>4 DEF CloseMark
    <3>2. CASE d = c /\ g = f
      <4> DEFINE m == [marks[c][f] EXCEPT !.at = "closed", !.after = files[f]]
      <4>1. m.at = "closed" /\ m.before = marks[c][f].before /\ m.after = files[f]
        BY <1>a DEF Mark
      <4>2. marks'[c][f] = m
        BY <1>a, <3>1, <3>2
      <4> HIDE DEF m
      <4> QED BY <2>4, <3>1, <3>2, <4>1, <4>2
    <3>3. CASE ~(d = c /\ g = f)
      BY <1>a, <3>1, <3>3
    <3> QED BY <3>2, <3>3
  <2> QED BY <2>1, <2>2, <2>3, <2>4 DEF Tampers
<1> DEFINE r == [marks[c][f] EXCEPT !.at = "restored"]
<1>b. r.at = "restored" /\ r.before = marks[c][f].before /\ r.after = marks[c][f].after
  BY <1>a DEF Mark
<1>3. ASSUME NEW t \in Turn, FinishRecovery(t)
      PROVE  \/ marks'[c][f] = marks[c][f]
             \/ marks'[c][f] = r /\ t = TurnOf[c] /\ Retired(c, f) /\ marks[c][f].at # "none"
  <2>1. marks'[c][f] = IF c \in Batch(t) /\ Retired(c, f) THEN r ELSE marks[c][f]
    BY <1>3 DEF FinishRecovery
  <2>2. Retired(c, f) => marks[c][f].at # "none"
    BY DEF Retired, Live
  <2> QED BY <2>1, <2>2 DEF Batch
<1>4. ASSUME FinishUndo \/ FinishRewind
      PROVE  \/ marks'[c][f] = marks[c][f]
             \/ marks'[c][f] = r /\ TurnOf[c] \in op.turns /\ marks[c][f].at # "none"
  BY <1>4 DEF FinishUndo, FinishRewind, MarkRestored
<1> HIDE DEF r
<1>5. CASE RestoreFile \/ RestoreFails \/ \E g \in File : HandEdit(g)
  BY <1>5 DEF RestoreFile, RestoreFails, HandEdit, durable
<1> QED BY <1>1, <1>2, <1>b, <1>3, <1>4, <1>5, Kinds DEF Mends, Clerical, Filing

LEMMA ActedMoves ==
  ASSUME RecoveryInvariant, [Next]_vars
  PROVE  \/ UNCHANGED acted
         \/ \E c \in Call : /\ acted' = acted \cup {c} /\ stage[c] = "run" /\ UNCHANGED <<calls, stage>>
                            /\ Act(c) \/ \E f \in File : WriteFile(c, f)
<1>1. ASSUME Mends \/ \E f \in File : HandEdit(f) PROVE UNCHANGED acted
  BY <1>1 DEF Mends, RestoreFile, RestoreFails, FinishUndo, FinishRewind, FinishRecovery, HandEdit, Ghosts
<1>2. ASSUME NEW c \in Call, Tampers(c)
      PROVE  \/ UNCHANGED acted
             \/ /\ acted' = acted \cup {c} /\ stage[c] = "run" /\ UNCHANGED <<calls, stage>>
                /\ Act(c) \/ \E f \in File : WriteFile(c, f)
  BY <1>2 DEF Tampers, Checkpoint, Act, WriteFile, CloseMark, Ghosts, durable
<1> QED BY <1>1, <1>2, Kinds DEF Clerical, Filing

\* A call that is recorded stays so; one that is over stays as it ended.
LEMMA OverStays ==
  ASSUME RecoveryInvariant, TurnsInOrder', NEW c \in Call, RowMoves(c)
  PROVE  /\ Over(c) => Over(c)'
         /\ calls[c].row = "dispatched" => calls'[c].row = "dispatched" \/ Over(c)'
         /\ Over(c) /\ calls'[c].outcome # calls[c].outcome => calls'[c].outcome = "none"
         /\ Gone(c) => calls[c].row = "none"
         /\ calls'[c].row = "dispatched" => calls[c].row \in {"intent", "dispatched"}
<1>1. Gone(c) => calls[c] = NoCall
  BY DEF RecoveryInvariant, TurnsInOrder, Gone
<1>2. Gone(c)' => calls'[c] = NoCall
  BY DEF TurnsInOrder, Gone
<1>3. RowOK(calls[c]) /\ RowOK(calls'[c])
  BY RowsOK DEF RecoveryInvariant, RowMoves
<1> QED BY <1>1, <1>2, <1>3, NoCallRow DEF RowMoves, Advance, Over, Gone, Stays, RowOK, CallRow

\* An outcome is told once, and is true.
LEMMA OutcomesMove ==
  ASSUME RecoveryInvariant, [Next]_vars, NEW c \in Call
  PROVE  \/ calls'[c].outcome \in {calls[c].outcome, "none", "failed"}
         \/ calls'[c].outcome = "notrun" /\ UNCHANGED <<acted, files>> /\ c \notin acted
         \/ calls'[c].outcome = "success" /\ UNCHANGED <<acted, files>> /\ c \in acted
         \/ /\ calls'[c].outcome = "undone" /\ op.verdict[c] = "undone"
            /\ UNCHANGED <<acted, files>> /\ FinishRecovery(TurnOf[c])
<1> USE DEF RecoveryInvariant
<1>a. TurnOf[c] \in Turn /\ c \in Batch(TurnOf[c])
  BY CallFacts DEF Batch
<1>1. CASE calls'[c] = calls[c] \/ calls'[c] = NoCall
  BY <1>1, NoCallRow
<1>2. CASE FinishRecovery(TurnOf[c])
  <2>1. UNCHANGED <<acted, files>> /\ calls'[c] = Reply(c)
    BY <1>2, <1>a DEF FinishRecovery, Ghosts
  <2>2. Reply(c).outcome # calls[c].outcome =>
          \/ op.verdict[c] = Reply(c).outcome /\ c \in Pending(TurnOf[c])
          \/ Reply(c).outcome = "notrun" /\ calls[c].row = "none" /\ calls[c].asked
    BY <1>2, <1>a, ReplyMoves
  <2>3. c \in acted => calls[c].row \in {"dispatched", "settled"} \/ Gone(c)
    BY DEF EffectsRecorded, Over
  <2>4. Gone(c) => ~calls[c].asked /\ calls[c].row = "none"
    BY NoCallRow DEF TurnsInOrder, Gone
  <2>5. op.kind = "recovery"
    BY <1>2 DEF FinishRecovery, Recovering
  <2>6. op.verdict[c] # "success" /\ (op.verdict[c] = "notrun" => calls[c].row = "intent")
    BY <2>5 DEF RecoveryInHand
  <2>7. op.verdict[c] \in Outcome
    BY DEF RecoveryTypeOK, Operation
  <2> QED BY <1>2, <2>1, <2>2, <2>3, <2>4, <2>6, <2>7 DEF Outcome
<1>3. CASE AskForTools
  <2>1. c \in Batch(current) => calls'[c].row = "none"
    BY <1>3, AskIs
  <2>2. RowOK(calls'[c])
    BY RowsMove DEF RowMoves
  <2>3. c \notin Batch(current) => calls'[c] = calls[c]
    BY <1>3, AskIs
  <2> QED BY <2>1, <2>2, <2>3 DEF RowOK
<1>4. CASE AnswerBatch
  <2>1. PICK d \in Batch(current) : calls' = [calls EXCEPT ![d] = Answered(calls[d])]
    BY <1>4, AnswerNext
  <2>2. d \in Call /\ RowOK(calls[d]) /\ "failed" \in Outcome \ {"none"}
    BY <2>1, RowsOK DEF Batch, Outcome
  <2>3. Answered(calls[d]).outcome = calls[d].outcome
    BY <2>2, RowFields DEF Stays
  <2> QED BY <2>1, <2>2, <2>3 DEF RecoveryTypeOK
<1>5. ASSUME NEW d \in Call, CallStep(d), calls'[c] # calls[c]
      PROVE  \/ calls'[c].outcome \in {calls[c].outcome, "failed"}
             \/ calls'[c].outcome = "notrun" /\ UNCHANGED <<acted, files>> /\ c \notin acted
             \/ calls'[c].outcome = "success" /\ UNCHANGED <<acted, files>> /\ c \in acted
  <2>1. d = c /\ HasTurn(c)
    BY <1>5, CallStepIs DEF Approaches, Settles, Others
  <2>2. "notrun" \in Outcome \ {"none"} /\ "success" \in Outcome \ {"none"} /\ "failed" \in Outcome \ {"none"}
    BY DEF Outcome
  <2>3. CASE RefuseCall(c) \/ SkipTool(c)
    <3>1. calls'[c].outcome = "notrun" /\ UNCHANGED <<acted, files>>
      BY <2>1, <2>2, <2>3, FinalizeIs DEF RefuseCall, SkipTool, Ghosts
    <3>2. c \notin acted
      <4>1. CASE stage[c] = "hooks"
        BY <4>1 DEF EffectsRecorded
      <4>2. CASE calls[c].row = "none"
        <5>1. ~Gone(c)
          BY <2>1 DEF HasTurn, Batch, TurnsInOrder, InTurn, Gone
        <5> QED BY <4>2, <5>1 DEF EffectsRecorded, Over
      <4> QED BY <2>3, <4>1, <4>2 DEF RefuseCall, SkipTool
    <3> QED BY <3>1, <3>2
  <2>4. CASE ToolRaises(c)
    BY <2>1, <2>2, <2>4, FinalizeIs DEF ToolRaises
  <2>5. CASE FinishCall(c)
    BY <2>1, <2>2, <2>5, FinalizeIs DEF FinishCall, Ghosts
  <2>6. CASE ApproveCall(c) \/ DispatchCall(c)
    <3>1. calls[c] \in CallRow
      BY DEF RecoveryTypeOK
    <3> QED BY <2>6, <3>1 DEF ApproveCall, DispatchCall, RecoveryTypeOK, CallRow
  <2>7. ~(\/ Checkpoint(c) \/ Act(c) \/ ToolReturns(c) \/ HaltBatch(c)
          \/ \E f \in File : WriteFile(c, f) \/ CloseMark(c, f))
    BY <1>5, <2>1 DEF Checkpoint, Act, ToolReturns, HaltBatch, WriteFile, CloseMark, durable
  <2> QED BY <1>5, <2>1, <2>3, <2>4, <2>5, <2>6, <2>7 DEF CallStep
<1>6. CASE TurnOf[c] = current /\ runtime \in {"model", "calls"} /\ UNCHANGED <<current, journal>>
           /\ calls'[c] # calls[c] /\ ~AskForTools /\ ~AnswerBatch /\ ~\E d \in Call : CallStep(d)
  <2>1. ~Restoring
    BY <1>6, RestoringIs
  <2>2. \/ UNCHANGED calls
        \/ \E u \in Turn : RewindTranscript(u)
    BY <1>6, <2>1 DEF Next, Restoring, vars, durable, StartTurn, CompleteTurn, CancelTurn, TurnRaises,
          CancelRecoveryFails, Interrupt, BeginRecovery, SessionReady, BeginUndo, BeginRewind, Crash,
          Restart, HandEdit
  <2>3. ~\E u \in Turn : RewindTranscript(u)
    BY <1>6 DEF RewindTranscript
  <2> QED BY <1>6, <2>2, <2>3
<1> QED BY <1>a, <1>1, <1>2, <1>3, <1>4, <1>5, <1>6, TurnsMove

LEMMA EffectsStep ==
  ASSUME RecoveryInvariant, [Next]_vars, TurnsInOrder'
  PROVE  EffectsRecorded'
<1> USE DEF RecoveryInvariant
<1> SUFFICES ASSUME NEW c \in Call
             PROVE  /\ c \in acted' \/ (\E f \in File : marks'[c][f].at # "none")
                         => calls'[c].row = "dispatched" \/ Over(c)'
                    /\ stage'[c] = "hooks" => c \notin acted' /\ \A f \in File : marks'[c][f].at = "none"
                    /\ stage'[c] = "run" => \A f \in FilesOf[c] : marks'[c][f].at = "open"
                    /\ calls'[c].outcome = "notrun" => c \notin acted'
                    /\ calls'[c].outcome = "success" => c \in acted'
  BY DEF EffectsRecorded
<1>a. FilesOf[c] \subseteq File /\ RowMoves(c) /\ RowOK(calls[c]) /\ StageMoves(c)
  BY CallFacts, RowsMove, RowsOK, StagesMove
<1>b. c \in acted' => \/ c \in acted
                      \/ stage[c] = "run" /\ UNCHANGED <<calls, stage>>
  BY ActedMoves
<1>c. acted \subseteq acted'
  BY ActedMoves
<1>d. stage[c] # "none" => calls[c].row = "dispatched"
  BY DEF RecoveryTypeOK
<1>e. \A f \in File : marks'[c][f].at # "none" /\ marks[c][f].at = "none"
        => stage[c] = "hooks" /\ stage'[c] = "run" /\ UNCHANGED calls
  <2> TAKE f \in File
  <2>1. Checkpoint(c) => stage[c] = "hooks" /\ stage'[c] = "run" /\ UNCHANGED calls
    BY DEF Checkpoint, RecoveryTypeOK
  <2> QED BY <2>1, MarksMove
<1>1. c \in acted' \/ (\E f \in File : marks'[c][f].at # "none")
        => calls'[c].row = "dispatched" \/ Over(c)'
  <2>1. c \in acted \/ (\E f \in File : marks[c][f].at # "none") \/ stage[c] # "none"
          => calls[c].row = "dispatched" \/ Over(c)
    BY <1>d DEF EffectsRecorded
  <2>2. calls[c].row = "dispatched" \/ Over(c) => calls'[c].row = "dispatched" \/ Over(c)'
    BY <1>a, OverStays
  <2>3. c \in acted' \/ (\E f \in File : marks'[c][f].at # "none")
          => c \in acted \/ (\E f \in File : marks[c][f].at # "none") \/ stage[c] # "none"
    BY <1>b, <1>e
  <2> QED BY <2>1, <2>2, <2>3
<1>2. ASSUME stage'[c] = "hooks"
      PROVE  c \notin acted' /\ \A f \in File : marks'[c][f].at = "none"
  <2>1. stage[c] = "hooks" \/ (stage[c] = "none" /\ calls[c].row = "intent")
    BY <1>2, <1>a DEF StageMoves
  <2>2. Gone(c) => calls[c].row = "none"
    BY NoCallRow DEF TurnsInOrder, Gone
  <2>3. c \notin acted /\ \A f \in File : marks[c][f].at = "none"
    BY <2>1, <2>2 DEF EffectsRecorded, Over
  <2> QED BY <1>2, <1>b, <1>e, <2>1, <2>3
<1>3. ASSUME stage'[c] = "run", NEW f \in FilesOf[c]
      PROVE  marks'[c][f].at = "open"
  <2>1. CASE Checkpoint(c)
    BY <1>a, <2>1 DEF Checkpoint, RecoveryTypeOK
  <2>2. CASE stage[c] = "run" /\ runtime = "calls"
    <3>1. marks[c][f].at = "open"
      BY <2>2 DEF EffectsRecorded
    <3>2. ~(FinishUndo \/ FinishRewind \/ FinishRecovery(TurnOf[c]))
      BY <2>2, RestoringIs, CallFacts DEF Restoring
    <3>3. ~CloseMark(c, f)
      BY <2>2 DEF CloseMark
    <3> QED BY <1>a, <3>1, <3>2, <3>3, MarksMove
  <2> QED BY <1>3, <1>a, <2>1, <2>2 DEF StageMoves
<1>4. calls'[c].outcome = "notrun" => c \notin acted'
  <2>1. calls[c].outcome = "notrun" => c \notin acted'
    BY <1>a, <1>b, <1>d DEF EffectsRecorded, RowOK
  <2> QED BY <2>1, OutcomesMove
<1>5. calls'[c].outcome = "success" => c \in acted'
  BY <1>c, OutcomesMove DEF EffectsRecorded
<1> QED BY <1>1, <1>2, <1>3, <1>4, <1>5

\* The new content of a file: what a call writes, what a mark holds, what there
\* was before the operation, or a hand edit.
LEMMA FilesMove ==
  ASSUME RecoveryInvariant, [Next]_vars, NEW f \in File
  PROVE  \/ files'[f] = files[f]
         \/ \E c \in Call : /\ WriteFile(c, f) /\ files'[f] = c /\ f \in FilesOf[c] /\ c \in acted'
         \/ \E c \in Call : /\ RestoreFile /\ <<c, f>> \in op.todo /\ \A q \in op.todo : q[1] <= c
                            /\ files[f] = marks[c][f].after /\ files'[f] = marks[c][f].before
         \/ /\ RestoreFails /\ op.left[f] # op.was[f] /\ files[f] = op.left[f]
            /\ files'[f] = op.was[f]
         \/ HandEdit(f) /\ files'[f] = -(edits + 1)
<1>a. RecoveryTypeOK /\ files \in [File -> Content]
  BY DEF RecoveryInvariant, RecoveryTypeOK
<1>1. CASE \E c \in Call : Tampers(c)
  <2>1. PICK c \in Call : UNCHANGED files \/ \E g \in File : WriteFile(c, g)
    BY <1>1 DEF Tampers, Checkpoint, Act, CloseMark
  <2>2. ASSUME NEW g \in File, WriteFile(c, g)
        PROVE  files'[f] = files[f] \/ (WriteFile(c, f) /\ files'[f] = c /\ f \in FilesOf[c] /\ c \in acted')
    <3>1. files' = [files EXCEPT ![g] = c] /\ g \in FilesOf[c] /\ c \in acted'
      BY <2>2 DEF WriteFile
    <3> QED BY <1>a, <2>2, <3>1
  <2> QED BY <2>1, <2>2
<1>2. CASE RestoreFile
  <2>1. PICK c \in Call, g \in File :
           /\ <<c, g>> \in op.todo /\ \A q \in op.todo : q[1] <= c
           /\ files[g] = marks[c][g].after
           /\ files' = [files EXCEPT ![g] = marks[c][g].before]
    BY <1>a, <1>2, RestoreFileIs
  <2> QED BY <1>a, <1>2, <2>1
<1>3. CASE RestoreFails
  BY <1>3 DEF RestoreFails, RolledBack
<1>4. CASE FinishUndo \/ FinishRewind \/ \E t \in Turn : FinishRecovery(t)
  BY <1>4 DEF FinishUndo, FinishRewind, FinishRecovery
<1>5. CASE \E g \in File : HandEdit(g)
  BY <1>a, <1>5, HandEditIs
<1> QED BY <1>1, <1>2, <1>3, <1>4, <1>5, Kinds DEF Mends, Clerical, Filing

\* What is to be kept of a file changes with a hand edit that no call can take
\* for its own.
LEMMA KeptMoves ==
  ASSUME RecoveryInvariant, [Next]_vars
  PROVE  \/ UNCHANGED <<kept, edits>>
         \/ \E f \in File : HandEdit(f) /\ UNCHANGED <<marks, acted, calls, stage, journal>>
<1>1. Mends => UNCHANGED <<kept, edits>>
  BY DEF Mends, RestoreFile, RestoreFails, FinishUndo, FinishRewind, FinishRecovery, Ghosts
<1>2. \A c \in Call : Tampers(c) => UNCHANGED <<kept, edits>>
  BY DEF Tampers, Checkpoint, Act, WriteFile, CloseMark, Ghosts, Bounds
<1>3. \A f \in File : HandEdit(f) => UNCHANGED <<marks, acted, calls, stage, journal>>
  BY DEF HandEdit, durable
<1> QED BY <1>1, <1>2, <1>3, Kinds DEF Clerical, Filing

LEMMA WasMoves ==
  ASSUME RecoveryInvariant, [Next]_vars, NEW f \in File
  PROVE  op'.was[f] \in {0, op.was[f], files[f]}
<1>a. RecoveryTypeOK
  BY DEF RecoveryInvariant
<1>1. CASE \E c \in Call : Tampers(c)
  BY <1>1 DEF Tampers, Checkpoint, Act, WriteFile, CloseMark
<1>2. CASE RestoreFile
  BY <1>a, <1>2, RestoreFileIs DEF KeepsPlan
<1>3. CASE RestoreFails
  BY <1>3, RestoreFailsIs, NoOpIs DEF KeepsPlan
<1>4. CASE FinishUndo \/ FinishRewind \/ \E t \in Turn : FinishRecovery(t)
  BY <1>4, NoOpIs DEF FinishUndo, FinishRewind, FinishRecovery
<1>5. CASE \E g \in File : HandEdit(g)
  BY <1>a, <1>5, HandEditIs
<1> QED BY <1>1, <1>2, <1>3, <1>4, <1>5, Kinds DEF Mends, Clerical

LEMMA NamedStep ==
  ASSUME RecoveryInvariant, [Next]_vars, RecoveryTypeOK'
  PROVE  ContentsNamed'
<1> USE DEF RecoveryInvariant
<1> DEFINE WrittenNow(x, f) == x >= -(edits') /\ (x \in Call => x \in acted' /\ f \in FilesOf[x])
<1>a. edits' \in {edits, edits + 1} /\ edits \in Nat /\ acted \subseteq acted'
  <2>1. edits' \in {edits, edits + 1}
    BY KeptMoves, HandEditIs
  <2> QED BY <2>1, ActedMoves DEF RecoveryTypeOK
<1>b. /\ files \in [File -> Content] /\ op.was \in [File -> Content]
      /\ marks \in [Call -> [File -> Mark]] /\ kept \in [File -> Content]
      /\ Content \subseteq Int
  BY ContentFacts DEF RecoveryTypeOK, Operation
<1>c. 0 \notin Call /\ \A c \in Call : c \in Int /\ c > 0
  BY CallFacts
<1>d. \A n \in Int : n < 0 => n \notin Call
  BY CallFacts
<1>1. ASSUME NEW x \in Int, NEW f \in File, Written(x, f) PROVE WrittenNow(x, f)
  <2>1. x >= -edits /\ (x \in Call => x \in acted /\ f \in FilesOf[x])
    BY <1>1 DEF Written
  <2>2. x >= -(edits')
    BY <1>a, <2>1
  <2> QED BY <1>a, <2>1, <2>2
<1>2. \A f \in File : WrittenNow(0, f)
  <2>1. edits' \in Nat
    BY <1>a
  <2>2. 0 >= -(edits')
    BY <2>1, Negatives
  <2> QED BY <1>c, <2>2
<1>3. \A f \in File : kept'[f] \in (-(edits'))..0
  <2> TAKE f \in File
  <2>1. kept[f] \in (-edits)..0
    BY DEF ContentsNamed
  <2>2. CASE UNCHANGED <<kept, edits>>
    BY <2>1, <2>2
  <2>3. CASE \E g \in File : HandEdit(g)
    <3>1. PICK g \in File : HandEdit(g)
      BY <2>3
    <3>2. edits' = edits + 1 /\ kept'[f] \in {kept[f], -(edits + 1)}
      BY <3>1, HandEditIs
    <3> QED BY <1>a, <2>1, <3>2
  <2> QED BY <2>2, <2>3, KeptMoves
<1>4. \A f \in File : WrittenNow(files'[f], f)
  <2> TAKE f \in File
  <2>1. CASE files'[f] \in {files[f], op.was[f]} \cup {marks[c][f].before : c \in Call}
    <3>1. PICK x \in Int : x = files'[f] /\ Written(x, f)
      BY <1>b, <2>1 DEF ContentsNamed, Mark
    <3> QED BY <1>1, <3>1
  <2>2. CASE \E c \in Call : files'[f] = c /\ f \in FilesOf[c] /\ c \in acted'
    BY <1>a, <1>c, <2>2 DEF Written
  <2>3. CASE HandEdit(f) /\ files'[f] = -(edits + 1)
    <3>1. edits' = edits + 1
      BY <2>3, HandEditIs
    <3>2. files'[f] \in Int /\ files'[f] < 0 /\ files'[f] >= -(edits')
      BY <1>a, <2>3, <3>1
    <3> QED BY <1>d, <3>2 DEF Written
  <2> QED BY <2>1, <2>2, <2>3, FilesMove
<1>5. \A f \in File : WrittenNow(op'.was[f], f)
  <2> TAKE f \in File
  <2>1. CASE op'.was[f] = 0
    BY <1>2, <2>1 DEF Written
  <2>2. CASE op'.was[f] \in {op.was[f], files[f]}
    <3>1. PICK x \in Int : x = op'.was[f] /\ Written(x, f)
      BY <1>b, <2>2 DEF ContentsNamed
    <3>2. WrittenNow(x, f)
      BY <1>1, <3>1
    <3> QED BY <3>1, <3>2 DEF Written
  <2> QED BY <2>1, <2>2, WasMoves
<1>6. \A f \in File, c \in Call : WrittenNow(marks'[c][f].before, f) /\ marks'[c][f].after >= -(edits')
  <2> TAKE f \in File, c \in Call
  <2>1. /\ marks[c][f].after \in Int /\ marks[c][f].after >= -edits
        /\ files[f] \in Int /\ files[f] >= -edits
    BY <1>b DEF ContentsNamed, Written, Mark
  <2>2. marks'[c][f].after \in {marks[c][f].after, files[f], 0}
    BY MarksMove
  <2>3. PICK x \in Int : x = marks'[c][f].before /\ Written(x, f)
    BY <1>b, MarksMove DEF ContentsNamed, Mark
  <2>4. WrittenNow(x, f)
    BY <1>1, <2>3
  <2>5. WrittenNow(marks'[c][f].before, f)
    BY <2>3, <2>4 DEF Written
  <2> QED BY <1>a, <2>1, <2>2, <2>5
<1> QED BY <1>3, <1>4, <1>5, <1>6 DEF ContentsNamed, Written

-----------------------------------------------------------------------------
(***************************************************************************)
(* What a file held is kept, or in a mark.                                 *)
(***************************************************************************)
LEMMA KeptNotCall ==
  ASSUME RecoveryInvariant, NEW f \in File
  PROVE  kept[f] \in Int /\ kept[f] <= 0 /\ kept[f] >= -edits /\ kept[f] \notin Call /\ edits \in Nat
<1>1. kept[f] \in (-edits)..0 /\ edits \in Nat
  BY DEF RecoveryInvariant, ContentsNamed, RecoveryTypeOK
<1> QED BY <1>1, CallFacts

\* A call that left what is to be kept had found it.
LEMMA KeptWasFound ==
  ASSUME RecoveryInvariant, NEW c \in Call, NEW f \in File,
         marks[c][f].at = "closed", marks[c][f].after = kept[f]
  PROVE  marks[c][f].before = kept[f]
BY KeptNotCall DEF RecoveryInvariant, OriginalsMarked, LeftBy

\* In a chain of edits where one found what is to be kept, the first one did.
LEMMA OriginalIsKept ==
  ASSUME RecoveryInvariant, NEW T, NEW f \in File, Linked(T, f),
         \A d \in Chain(T, f) : marks[d][f].at = "closed",
         NEW c \in Chain(T, f), marks[c][f].before = kept[f]
  PROVE  Original(T, f) = kept[f]
<1> DEFINE S == {d \in Chain(T, f) : marks[d][f].before = kept[f]}
           m == Min(S)
<1>1. S # {} /\ S \subseteq Call /\ Chain(T, f) \subseteq Call /\ Chain(T, f) # {}
  BY RowsAre
<1>2. m \in S /\ \A d \in S : m <= d
  <2> HIDE DEF S
  <2> QED BY <1>1, MinIs
<1> HIDE DEF m
<1>3. CASE m = Min(Chain(T, f))
  BY <1>2, <1>3 DEF Original
<1>4. CASE m # Min(Chain(T, f))
  <2> DEFINE B == {d \in Chain(T, f) : d < m}
             p == Max(B)
  <2>1. marks[m][f].before = marks[p][f].after
    BY <1>2, <1>4 DEF Linked
  <2>2. Min(Chain(T, f)) \in Chain(T, f) /\ Min(Chain(T, f)) <= m
    BY <1>1, <1>2, MinIs
  <2>3. B # {} /\ B \subseteq Call
    BY <1>1, <1>2, <1>4, <2>2, CallFacts
  <2>4. p \in B
    <3> HIDE DEF B
    <3> QED BY <2>3, MaxIs
  <2> HIDE DEF p
  <2>5. p \in Call /\ p \in Chain(T, f) /\ p < m
    BY <2>3, <2>4
  <2>6. marks[p][f].before = kept[f]
    BY <1>2, <2>1, <2>5, KeptWasFound
  <2>7. m <= p
    BY <1>2, <2>5, <2>6
  <2> QED BY <1>1, <1>2, <2>5, <2>7, CallFacts
<1> QED BY <1>3, <1>4

\* When an undo or a rewind is done, what it found first is there.
LEMMA MendedIs ==
  ASSUME RecoveryInvariant, FinishUndo \/ FinishRewind, NEW f \in File,
         NEW c \in Live(f), TurnOf[c] \in op.turns, marks[c][f].before = kept[f]
  PROVE  files[f] = kept[f]
<1> DEFINE T == op.turns
<1>1. op.kind \in {"undo", "rewind"} /\ op.todo = {}
  BY DEF FinishUndo, FinishRewind
<1>2. c \in Chain(T, f) /\ c \in Call
  BY DEF Chain, Rows, Live
<1>3. Linked(T, f) /\ Reached(T, f) /\ \A d \in Chain(T, f) : marks[d][f].at = "closed"
  <2>1. \A d \in Chain(T, f) : <<d, f>> \in Rows(T)
    BY DEF Chain
  <2> QED BY <1>1, <1>2, <2>1 DEF RecoveryInvariant, ReversalInHand
<1>4. Original(T, f) = kept[f]
  BY <1>2, <1>3, OriginalIsKept
<1>5. ~\E d \in Chain(T, f) : /\ files[f] = marks[d][f].after
                              /\ \A e \in Chain(T, f) : <<e, f>> \in op.todo <=> e <= d
  BY <1>1, <1>2, CallFacts, RowsAre
<1> QED BY <1>3, <1>4, <1>5 DEF Reached

LEMMA OriginalsStep ==
  ASSUME RecoveryInvariant, [Next]_vars, EffectsRecorded'
  PROVE  OriginalsMarked'
<1> USE DEF RecoveryInvariant
<1> SUFFICES ASSUME NEW f \in File
             PROVE  /\ files'[f] # kept'[f] => Covered(f)'
                    /\ \A c \in Call :
                         /\ stage'[c] # "none" /\ marks'[c][f].at = "open"
                              => Covered(f)' /\ LeftBy(c, f, files[f])'
                         /\ marks'[c][f].at = "closed" => LeftBy(c, f, marks[c][f].after)'
  BY DEF OriginalsMarked
<1>a. /\ files[f] # kept[f] => Covered(f)
      /\ \A c \in Call :
           /\ stage[c] # "none" /\ marks[c][f].at = "open" => Covered(f) /\ LeftBy(c, f, files[f])
           /\ marks[c][f].at = "closed" => LeftBy(c, f, marks[c][f].after)
  BY DEF OriginalsMarked
<1>k. kept[f] \in Int /\ kept[f] <= 0 /\ kept[f] >= -edits /\ kept[f] \notin Call /\ edits \in Nat
  BY KeptNotCall
<1>1. CASE HandEdit(f)
  <2>1. /\ UNCHANGED <<marks, stage>> /\ files'[f] = -(edits + 1)
        /\ kept'[f] = (IF Attributed(f) THEN kept[f] ELSE -(edits + 1))
    BY <1>1, HandEditIs DEF HandEdit, durable
  <2>2. CASE Attributed(f)
    <3>1. Covered(f)
      BY <1>a, <2>2 DEF Attributed
    <3>2. Covered(f)'
      BY <2>1, <2>2, <3>1 DEF Covered, Live
    <3>3. files'[f] < 0 /\ files'[f] # kept'[f]
      BY <1>k, <2>1, <2>2
    <3>4. \A c \in Call : LeftBy(c, f, files[f])'
      BY <3>3 DEF LeftBy
    <3>5. \A c \in Call : LeftBy(c, f, marks[c][f].after) => LeftBy(c, f, marks[c][f].after)'
      BY <2>1, <2>2 DEF LeftBy
    <3> QED BY <1>a, <2>1, <3>2, <3>4, <3>5
  <2>3. CASE ~Attributed(f)
    <3>1. ASSUME NEW c \in Call, marks[c][f].at = "closed"
          PROVE  LeftBy(c, f, marks[c][f].after)'
      <4>1. marks[c][f].after \in Int /\ marks[c][f].after >= -edits
        BY ContentFacts DEF ContentsNamed, RecoveryTypeOK, Mark
      <4>2. LeftBy(c, f, marks[c][f].after)
        BY <1>a, <3>1
      <4>3. marks[c][f].after # kept'[f]
        BY <1>k, <2>1, <2>3, <4>1
      <4> QED BY <2>1, <4>2, <4>3 DEF LeftBy
    <3>2. \A c \in Call : ~(stage'[c] # "none" /\ marks'[c][f].at = "open")
      BY <2>1, <2>3 DEF Attributed
    <3> QED BY <2>1, <2>3, <3>1, <3>2
  <2> QED BY <2>2, <2>3
<1>2. CASE ~HandEdit(f)
  <2>1. kept'[f] = kept[f]
    BY <1>2, KeptMoves, HandEditIs
  \* Whatever is done to the file, what is to be kept stays covered.
  <2>2. ASSUME NEW c \in Live(f), marks[c][f].before = kept[f],
               files'[f] # kept[f] \/ ~Mends
        PROVE  Covered(f)'
    <3>1. CASE c \in Live(f)'
      <4>1. marks'[c][f].before = kept[f]
        <5>1. ~(Checkpoint(c) /\ f \in FilesOf[c])
          BY <2>2 DEF Checkpoint, EffectsRecorded, Live
        <5> QED BY <2>2, <5>1, MarksMove DEF Live
      <4> QED BY <2>1, <3>1, <4>1 DEF Covered
    <3>2. CASE c \notin Live(f)'
      <4>1. \/ FinishRecovery(TurnOf[c]) /\ Retired(c, f)
            \/ (FinishUndo \/ FinishRewind) /\ TurnOf[c] \in op.turns
        BY <2>2, <3>2, MarksMove DEF Live
      <4>2. files'[f] = files[f] /\ files'[f] # kept[f]
        <5>1. TurnOf[c] \in Turn
          BY CallFacts DEF Live
        <5> QED BY <2>2, <4>1, <5>1 DEF FinishRecovery, FinishUndo, FinishRewind, Mends
      <4>3. CASE (FinishUndo \/ FinishRewind) /\ TurnOf[c] \in op.turns
        BY <2>2, <4>2, <4>3, MendedIs
      <4>4. CASE FinishRecovery(TurnOf[c]) /\ Retired(c, f)
        <5>1. op.kind = "recovery"
          BY <4>4 DEF FinishRecovery, Recovering
        <5>2. c \in Call
          BY <2>2 DEF Live
        <5>3. op.verdict[c] = "undone" => Given(c, f, files[f])
          BY <5>1, <5>2 DEF RecoveryInHand
        <5>4. files[f] = kept[f]
          BY <2>2, <4>4, <5>3 DEF Retired, Given
        <5> QED BY <2>2, <4>2, <5>4
      <4> QED BY <4>1, <4>3, <4>4
    <3> QED BY <3>1, <3>2
  <2>3. ASSUME files'[f] # kept'[f], files[f] # kept[f] PROVE Covered(f)'
    BY <1>a, <2>1, <2>2, <2>3 DEF Covered
  <2>4. ASSUME files'[f] # kept'[f], files[f] = kept[f] PROVE Covered(f)'
    <3>1. CASE \E c \in Call : WriteFile(c, f)
      <4>1. PICK c \in Call : WriteFile(c, f)
        BY <3>1
      <4>2. stage[c] = "run" /\ f \in FilesOf[c]
        BY <4>1 DEF WriteFile
      <4>3. Covered(f)
        BY <1>a, <4>2 DEF EffectsRecorded
      <4> QED BY <2>1, <2>2, <2>4, <4>3 DEF Covered
    <3>2. ASSUME NEW c \in Call, RestoreFile, <<c, f>> \in op.todo,
                 files[f] = marks[c][f].after, files'[f] = marks[c][f].before
          PROVE  FALSE
      <4>1. <<c, f>>[1] = c /\ <<c, f>>[2] = f
        OBVIOUS
      <4>2. marks[c][f].at = "closed"
        BY <3>2, <4>1 DEF OperationSound
      <4> QED BY <2>1, <2>4, <3>2, <4>2, KeptWasFound
    <3>3. CASE RestoreFails /\ op.left[f] # op.was[f] /\ files[f] = op.left[f]
      <4>1. PICK c \in Live(f) : marks[c][f].before = kept[f]
        BY <2>4, <3>3 DEF OperationSound
      <4> QED BY <2>1, <2>2, <2>4, <4>1
    <3> QED BY <1>2, <2>1, <2>4, <3>1, <3>2, <3>3, FilesMove
  <2>5. files'[f] # kept'[f] => Covered(f)'
    BY <2>3, <2>4
  <2>6. ASSUME NEW c \in Call, stage'[c] # "none", marks'[c][f].at = "open"
        PROVE  Covered(f)' /\ LeftBy(c, f, files[f])'
    <3>1. runtime = "calls" /\ TurnOf[c] = current
      BY <2>6, StagesMove DEF StageMoves
    <3>2. ~Mends
      BY <3>1, RestoringIs DEF Mends, Restoring
    <3>3. CASE Checkpoint(c) /\ f \in FilesOf[c]
      <4>1. files'[f] = files[f] /\ marks'[c][f].before = files[f]
        BY <3>3 DEF Checkpoint, RecoveryTypeOK
      <4>2. LeftBy(c, f, files[f])'
        BY <4>1 DEF LeftBy
      <4>3. files[f] = kept[f] => Covered(f)'
        BY <2>1, <2>6, <4>1 DEF Covered, Live
      <4> QED BY <2>1, <2>5, <4>1, <4>2, <4>3
    <3>4. CASE ~(Checkpoint(c) /\ f \in FilesOf[c])
      <4>1. marks'[c][f] = marks[c][f] /\ marks[c][f].at = "open"
        BY <2>6, <3>4, MarksMove
      <4>2. stage[c] # "none"
        <5>1. stage'[c] # "hooks"
          BY <2>6 DEF EffectsRecorded
        <5> QED BY <2>6, <5>1, StagesMove DEF StageMoves
      <4>3. Covered(f) /\ LeftBy(c, f, files[f])
        BY <1>a, <4>1, <4>2
      <4>4. Covered(f)'
        BY <2>2, <3>2, <4>3 DEF Covered
      <4>5. files'[f] \in {files[f], c}
        <5>1. ASSUME NEW d \in Call, WriteFile(d, f) PROVE d = c
          <6>1. HasTurn(d) /\ f \in FilesOf[d] /\ d \in Batch(current)
            BY <5>1 DEF WriteFile, HasTurn
          <6>2. current \notin Parallel
            BY <6>1, CallFacts DEF Batch
          <6> QED BY <4>2, <6>1, <6>2, OneAtATime
        <5> QED BY <1>2, <3>2, <5>1, FilesMove DEF Mends
      <4> QED BY <2>1, <4>1, <4>3, <4>4, <4>5 DEF LeftBy
    <3> QED BY <3>3, <3>4
  <2>7. ASSUME NEW c \in Call, marks'[c][f].at = "closed"
        PROVE  LeftBy(c, f, marks[c][f].after)'
    <3>1. CASE marks'[c][f] = marks[c][f]
      BY <1>a, <2>1, <2>7, <3>1 DEF LeftBy
    <3>2. CASE /\ CloseMark(c, f) /\ marks[c][f].at = "open"
               /\ marks'[c][f].before = marks[c][f].before /\ marks'[c][f].after = files[f]
      <4>1. LeftBy(c, f, files[f])
        BY <1>a, <3>2 DEF CloseMark
      <4> QED BY <2>1, <3>2, <4>1 DEF LeftBy
    <3> QED BY <2>7, <3>1, <3>2, MarksMove
  <2> QED BY <2>5, <2>6, <2>7
<1> QED BY <1>1, <1>2

-----------------------------------------------------------------------------
(***************************************************************************)
(* Where the writing of a call can be.                                     *)
(***************************************************************************)
\* What a call finds was left by one that is over.
LEMMA FoundIsOver ==
  ASSUME RecoveryInvariant, NEW d \in Call, NEW f \in File, Checkpoint(d), f \in FilesOf[d],
         NEW c \in Call, files[f] = c
  PROVE  Over(c) /\ calls[c].outcome # "undone"
<1> USE DEF RecoveryInvariant
<1>1. HasTurn(d) /\ stage[d] = "hooks" /\ runtime = "calls"
  BY DEF Checkpoint, HasTurn
<1>2. c \in acted /\ f \in FilesOf[c] /\ d \notin acted
  BY <1>1 DEF ContentsNamed, Written, EffectsRecorded
<1>3. calls[c].outcome # "undone"
  BY DEF WritingsMarked
<1>4. calls[c].row # "dispatched"
  <2> SUFFICES ASSUME calls[c].row = "dispatched" PROVE FALSE
    OBVIOUS
  <2>1. journal[TurnOf[c]] \in {"started", "interrupted"} /\ TurnOf[c] \in Turn
    BY <1>2, CallFacts DEF TurnsInOrder
  <2>2. TurnOf[c] = current
    <3>1. c \in Pending(TurnOf[c])
      BY DEF Pending, Batch
    <3> QED BY <1>1, <2>1, <3>1 DEF TurnsInOrder, Quiet
  <2>3. c \in Batch(current) /\ current \notin Parallel
    BY <1>2, <2>2, CallFacts DEF Batch
  <2>4. calls[c].answers # 1
    BY RowsOK DEF RowOK
  <2> QED BY <1>1, <1>2, <2>3, <2>4, OneAtATime
<1> QED BY <1>2, <1>3, <1>4 DEF EffectsRecorded

\* An undo or a rewind that is done leaves nothing of a call that is not over.
LEMMA MendedIsOver ==
  ASSUME RecoveryInvariant, FinishUndo \/ FinishRewind, NEW f \in File,
         NEW c \in Live(f), TurnOf[c] \in op.turns, files[f] = c
  PROVE  Over(c)
<1> USE DEF RecoveryInvariant
<1> DEFINE T == op.turns
<1>1. op.kind \in {"undo", "rewind"} /\ op.todo = {}
  BY DEF FinishUndo, FinishRewind
<1>2. c \in Chain(T, f) /\ c \in Call
  BY DEF Chain, Rows, Live
<1>3. Reached(T, f)
  BY <1>1, <1>2 DEF ReversalInHand
<1>4. ~\E d \in Chain(T, f) : /\ files[f] = marks[d][f].after
                              /\ \A e \in Chain(T, f) : <<e, f>> \in op.todo <=> e <= d
  BY <1>1, <1>2, CallFacts, RowsAre
<1>5. files[f] # kept[f]
  BY <1>2, KeptNotCall
<1>6. c = Original(T, f)
  BY <1>3, <1>4, <1>5 DEF Reached
<1>7. Min(Chain(T, f)) \in Chain(T, f)
  BY <1>2, RowsAre, MinIs
<1>8. PICK d \in Live(f) : marks[d][f].before = c
  BY <1>6, <1>7, RowsAre DEF Original
<1> QED BY <1>2, <1>8 DEF WritingsMarked, Live

LEMMA WritingsStep ==
  ASSUME RecoveryInvariant, [Next]_vars, TurnsInOrder'
  PROVE  WritingsMarked'
<1> USE DEF RecoveryInvariant
<1> SUFFICES ASSUME NEW c \in Call, NEW f \in File
             PROVE  /\ calls'[c].row = "dispatched" /\ c \in {files'[f], op'.was[f]} => c \in Live(f)'
                    /\ \A d \in Call : marks'[d][f].at # "none" /\ marks'[d][f].before = c
                         => Over(c)' /\ calls'[c].outcome # "undone"
                    /\ calls'[c].outcome = "undone" => c \notin {files'[f], op'.was[f]}
  BY DEF WritingsMarked
<1>a. RowMoves(c) /\ RowOK(calls[c]) /\ TurnOf[c] \in Turn /\ c \in Int /\ c > 0
        /\ c \in Batch(TurnOf[c])
  BY RowsMove, RowsOK, CallFacts DEF Batch
<1>b. /\ calls[c].row = "dispatched" /\ c \in {files[f], op.was[f]} => c \in Live(f)
      /\ \A d \in Call : marks[d][f].at # "none" /\ marks[d][f].before = c
           => Over(c) /\ calls[c].outcome # "undone"
      /\ calls[c].outcome = "undone" => c \notin {files[f], op.was[f]}
  BY DEF WritingsMarked
<1>c. /\ Over(c) => Over(c)' /\ calls[c].row \notin {"intent", "dispatched"}
      /\ Over(c) /\ calls'[c].outcome # calls[c].outcome => calls'[c].outcome = "none"
      /\ calls'[c].row = "dispatched" => calls[c].row \in {"intent", "dispatched"}
  BY <1>a, OverStays DEF Over
\* Where its content comes from, if a file has it.
<1>d. c = files'[f] =>
        \/ c \in {files[f], op.was[f]}
        \/ WriteFile(c, f) /\ f \in FilesOf[c]
        \/ Over(c) /\ calls[c].outcome # "undone"
  <2> SUFFICES ASSUME c = files'[f], c # files[f], c # op.was[f], ~(WriteFile(c, f) /\ f \in FilesOf[c])
               PROVE  Over(c) /\ calls[c].outcome # "undone"
    OBVIOUS
  <2>1. ~(files'[f] = -(edits + 1))
    BY <1>a DEF RecoveryTypeOK
  <2>2. PICK d \in Call : RestoreFile /\ <<d, f>> \in op.todo /\ files'[f] = marks[d][f].before
    BY <2>1, FilesMove
  <2>3. marks[d][f].at = "closed"
    <3>1. <<d, f>>[1] = d /\ <<d, f>>[2] = f
      OBVIOUS
    <3> QED BY <2>2, <3>1 DEF OperationSound
  <2> QED BY <1>b, <2>2, <2>3
<1>e. c = op'.was[f] => c \in {files[f], op.was[f]}
  BY <1>a, WasMoves
<1>1. ASSUME calls'[c].row = "dispatched", c \in {files'[f], op'.was[f]}
      PROVE  c \in Live(f)'
  <2>1. CASE WriteFile(c, f) /\ f \in FilesOf[c]
    <3>1. stage[c] = "run" /\ UNCHANGED marks
      BY <2>1 DEF WriteFile, durable
    <3> QED BY <2>1, <3>1 DEF EffectsRecorded, Live
  <2>2. CASE c \in {files[f], op.was[f]}
    <3>1. calls[c].row = "dispatched" /\ c \in Live(f)
      <4>1. c \in acted
        BY <2>2 DEF ContentsNamed, Written
      <4> QED BY <1>1, <1>b, <1>c, <2>2, <4>1 DEF EffectsRecorded
    <3>2. ~FinishRecovery(TurnOf[c])
      <4> SUFFICES ASSUME FinishRecovery(TurnOf[c]) PROVE FALSE
        OBVIOUS
      <4>1. calls'[c] = Reply(c) /\ Reply(c).row # "dispatched"
        BY <1>a, ReplyMoves DEF FinishRecovery
      <4> QED BY <1>1, <4>1
    <3>3. ~((FinishUndo \/ FinishRewind) /\ TurnOf[c] \in op.turns)
      <4> SUFFICES ASSUME FinishUndo \/ FinishRewind, TurnOf[c] \in op.turns PROVE FALSE
        OBVIOUS
      <4>1. op'.was[f] = 0 /\ files' = files
        BY NoOpIs DEF FinishUndo, FinishRewind
      <4>2. files[f] = c
        BY <1>1, <1>a, <4>1
      <4> QED BY <1>c, <3>1, <4>2, MendedIsOver
    <3>4. marks'[c][f].at \in {"open", "closed"}
      BY <3>1, <3>2, <3>3, MarksMove DEF Live
    <3> QED BY <3>4 DEF Live
  <2>3. ~Over(c)
    BY <1>1, <1>c
  <2> QED BY <1>1, <1>d, <1>e, <2>1, <2>2, <2>3
<1>2. ASSUME NEW d \in Call, marks'[d][f].at # "none", marks'[d][f].before = c
      PROVE  Over(c)' /\ calls'[c].outcome # "undone"
  <2>1. CASE Checkpoint(d) /\ f \in FilesOf[d] /\ marks'[d][f].before = files[f]
    <3>1. Over(c) /\ calls[c].outcome # "undone"
      BY <1>2, <2>1, FoundIsOver
    <3> QED BY <1>c, <3>1
  <2>2. CASE marks[d][f].at # "none" /\ marks[d][f].before = c
    BY <1>b, <1>c, <2>2
  <2> QED BY <1>2, <2>1, <2>2, MarksMove
<1>3. ASSUME calls'[c].outcome = "undone"
      PROVE  c \notin {files'[f], op'.was[f]}
  <2>1. CASE calls[c].outcome = "undone"
    <3>1. ~WriteFile(c, f)
      <4>1. calls[c].row # "dispatched"
        BY <1>a, <2>1 DEF RowOK
      <4> QED BY <4>1 DEF WriteFile, RecoveryTypeOK
    <3> QED BY <1>b, <1>d, <1>e, <2>1, <3>1
  <2>2. CASE op.verdict[c] = "undone" /\ UNCHANGED files /\ FinishRecovery(TurnOf[c])
    <3>1. op'.was[f] = 0 /\ op.kind = "recovery"
      BY <2>2, NoOpIs DEF FinishRecovery, Recovering
    <3>2. Given(c, f, files[f])
      BY <2>2, <3>1 DEF RecoveryInHand
    <3> QED BY <1>a, <2>2, <3>1, <3>2 DEF Given
  <2> QED BY <1>3, <2>1, <2>2, OutcomesMove
<1> QED BY <1>1, <1>2, <1>3

-----------------------------------------------------------------------------
(***************************************************************************)
(* The operation in hand.                                                  *)
(***************************************************************************)
LEMMA OpIdle ==
  ASSUME RecoveryInvariant, [Next]_vars, ~Restoring, ~Begins, ~Crash, \A f \in File : ~HandEdit(f)
  PROVE  UNCHANGED op /\ (op = NoOp \/ UNCHANGED vars)
<1>1. \A c \in Call : CallStep(c) => runtime # "restoring"
  BY CallStepIs
<1>2. \A t \in Turn : StartTurn(t) \/ RewindTranscript(t) => runtime # "restoring"
  BY DEF StartTurn, RewindTranscript
<1>3. AskForTools \/ AnswerBatch \/ CompleteTurn \/ CancelTurn \/ TurnRaises \/ CancelRecoveryFails
        \/ SessionReady \/ Restart => runtime # "restoring"
  BY DEF AskForTools, AnswerBatch, CompleteTurn, CancelTurn, TurnRaises,
        CancelRecoveryFails, SessionReady, Restart
<1>4. runtime # "restoring" => op = NoOp
  BY DEF RecoveryInvariant, RecoveryTypeOK, OperationSound
<1> QED BY <1>1, <1>2, <1>3, <1>4, OpStays DEF Next, Restoring, Begins

\* The ways an operation moves on.
LEMMA OpMoves ==
  ASSUME RecoveryInvariant, [Next]_vars
  PROVE  \/ op' = NoOp
         \/ UNCHANGED vars
         \/ Begins \/ RestoreFile \/ RestoreFails
         \/ \E t \in Turn : JudgeCall(t) \/ CallUndone(t)
         \/ \E f \in File : HandEdit(f)
<1>1. FinishUndo \/ FinishRewind \/ Crash \/ (\E t \in Turn : FinishRecovery(t)) => op' = NoOp
  BY DEF FinishUndo, FinishRewind, FinishRecovery, Crash
<1> QED BY <1>1, OpIdle DEF Restoring

LEMMA DurableStays ==
  ASSUME \/ Begins \/ RestoreFile \/ RestoreFails
         \/ \E t \in Turn : JudgeCall(t) \/ CallUndone(t)
         \/ \E f \in File : HandEdit(f)
  PROVE  /\ UNCHANGED <<journal, calls, marks, stage, acted>>
         /\ (\A f \in File : ~HandEdit(f)) => UNCHANGED <<kept, edits>>
         /\ RestoreFile \/ RestoreFails \/ (\E f \in File : HandEdit(f)) \/ UNCHANGED files
BY DEF Begins, BeginRecovery, BeginUndo, BeginRewind, RestoreFile, RestoreFails, JudgeCall, CallUndone,
     HandEdit, durable, Ghosts

\* No call can take a hand edit for its own while files are restored.
LEMMA HandEditKept ==
  ASSUME RecoveryInvariant, NEW f \in File, HandEdit(f), op.kind # "none"
  PROVE  kept'[f] = -(edits + 1) /\ files'[f] = -(edits + 1) /\ op'.clean = FALSE
<1>1. \A c \in Call : stage[c] = "none"
  BY DEF RecoveryInvariant, RecoveryTypeOK, TurnsInOrder
<1>2. ~Attributed(f)
  BY <1>1 DEF Attributed
<1> QED BY <1>2, HandEditIs DEF RecoveryInvariant

LEMMA MarksStay ==
  ASSUME UNCHANGED marks, NEW T
  PROVE  /\ Rows(T)' = Rows(T)
         /\ \A f \in File : /\ Live(f)' = Live(f) /\ Chain(T, f)' = Chain(T, f)
                            /\ Linked(T, f)' <=> Linked(T, f)
                            /\ Original(T, f)' = Original(T, f)
BY DEF Rows, Live, Chain, Linked, Original

LEMMA SoundStep ==
  ASSUME RecoveryInvariant, [Next]_vars
  PROVE  OperationSound'
<1> USE DEF RecoveryInvariant
<1>a. /\ op.kind = "none" => op = NoOp
      /\ \A r \in op.todo : marks[r[1]][r[2]].at = "closed"
      /\ \A f \in File : op.left[f] # op.was[f] => \E c \in Live(f) : marks[c][f].before = op.left[f]
      /\ RecoveryTypeOK
  BY DEF OperationSound
<1>1. CASE op' = NoOp
  BY <1>1, NoOpIs DEF OperationSound
<1>2. CASE UNCHANGED vars
  BY <1>2, <1>a DEF vars, OperationSound, Live
<1>3. ASSUME UNCHANGED marks, \A f \in File : op'.left[f] = op'.was[f],
             op'.kind # "none", \A r \in op'.todo : marks[r[1]][r[2]].at = "closed"
      PROVE  OperationSound'
  BY <1>3 DEF OperationSound
<1>4. ASSUME UNCHANGED marks, op'.left = op.left, op'.was = op.was, op'.todo \subseteq op.todo,
             op'.kind = op.kind, op'.kind = "none" => op' = op
      PROVE  OperationSound'
  BY <1>4, <1>a DEF OperationSound, Live
<1>5. CASE Begins
  <2>1. UNCHANGED marks
    BY <1>5, DurableStays
  <2>2. PICK kind \in {"recovery", "undo", "rewind"}, T \in SUBSET Turn :
          /\ BeginsAs(op', kind, T)
          /\ kind = "recovery" => op'.todo = {}
          /\ kind # "recovery" => Plannable(T) /\ op'.todo \subseteq Rows(T)
    BY <1>5, <1>a, BeginsIs
  <2>3. \A r \in op'.todo : marks[r[1]][r[2]].at = "closed"
    BY <2>2 DEF Plannable
  <2> QED BY <1>3, <2>1, <2>2, <2>3 DEF BeginsAs
<1>6. ASSUME NEW t \in Turn, JudgeCall(t) PROVE OperationSound'
  <2>1. UNCHANGED marks
    BY <1>6, DurableStays
  <2>2. PICK c \in Call :
          \/ op' \in {Judged(c, "notrun"), Judged(c, "failed")}
          \/ /\ \A f \in Checkpointed(c) : Proven(c, f)
             /\ op'.kind = op.kind /\ op'.was = op'.left
             /\ op'.todo = {<<c, f>> : f \in {g \in Checkpointed(c) :
                                                 files[g] # marks[c][g].before}}
    BY <1>6, <1>a, JudgeIs
  <2>3. CASE op' \in {Judged(c, "notrun"), Judged(c, "failed")}
    <3>1. op'.left = op.left /\ op'.was = op.was /\ op'.todo = op.todo /\ op'.kind = op.kind
      BY <1>a, <2>3, JudgedIs DEF KeepsPlan, Outcome
    <3>2. op.kind # "none"
      BY <1>6, <1>a, JudgeIs
    <3> QED BY <1>4, <2>1, <3>1, <3>2
  <2>4. CASE /\ \A f \in Checkpointed(c) : Proven(c, f)
             /\ op'.kind = op.kind /\ op'.was = op'.left
             /\ op'.todo = {<<c, f>> : f \in {g \in Checkpointed(c) :
                                                 files[g] # marks[c][g].before}}
    <3>1. \A r \in op'.todo : marks[r[1]][r[2]].at = "closed"
      BY <2>4 DEF Proven
    <3>2. op.kind # "none"
      BY <1>6, <1>a, JudgeIs
    <3> QED BY <1>3, <2>1, <2>4, <3>1, <3>2
  <2> QED BY <2>2, <2>3, <2>4
<1>7. ASSUME NEW t \in Turn, CallUndone(t) PROVE OperationSound'
  <2>1. UNCHANGED marks
    BY <1>7, DurableStays
  <2>2. op.call \in Call /\ op' = Judged(op.call, "undone") /\ op.kind = "recovery"
    BY <1>7, UndoneIs
  <2>3. op'.left = op.left /\ op'.was = op.was /\ op'.todo = op.todo /\ op'.kind = op.kind
    BY <1>a, <2>2, JudgedIs DEF KeepsPlan, Outcome
  <2> QED BY <1>4, <2>1, <2>2, <2>3
<1>8. CASE RestoreFile
  <2>1. UNCHANGED marks /\ op.kind # "none"
    BY <1>8, DurableStays, RestoringIs DEF Restoring
  <2>2. PICK c \in Call, f \in File :
           /\ <<c, f>> \in op.todo
           /\ KeepsPlan(op')
           /\ op'.todo = op.todo \ {<<c, f>>}
           /\ op'.left = [op.left EXCEPT ![f] = marks[c][f].before]
    BY <1>8, <1>a, RestoreFileIs
  <2>3. marks[c][f].at = "closed"
    <3>1. <<c, f>>[1] = c /\ <<c, f>>[2] = f
      OBVIOUS
    <3> QED BY <1>a, <2>2, <3>1
  <2>4. op'.kind = op.kind /\ op'.was = op.was /\ op.left \in [File -> Content]
    BY <1>a, <2>2 DEF KeepsPlan, RecoveryTypeOK, Operation
  <2>5. ASSUME NEW g \in File, op'.left[g] # op'.was[g]
        PROVE  \E d \in Live(g) : marks[d][g].before = op'.left[g]
    BY <1>a, <2>2, <2>3, <2>4, <2>5 DEF Live
  <2>6. \A r \in op'.todo : marks[r[1]][r[2]].at = "closed"
    BY <1>a, <2>2
  <2> QED BY <2>1, <2>4, <2>5, <2>6 DEF OperationSound, Live
<1>9. CASE RestoreFails
  <2>1. UNCHANGED marks /\ op.kind # "none"
    BY <1>9, DurableStays, RestoringIs DEF Restoring
  <2>2. op' = NoOp \/ (op'.todo = {} /\ op'.left = op.left /\ op'.was = op.was /\ op'.kind = op.kind)
    BY <1>9, RestoreFailsIs DEF KeepsPlan
  <2> QED BY <1>1, <1>4, <2>1, <2>2
<1>10. CASE \E f \in File : HandEdit(f)
  <2>1. UNCHANGED marks
    BY <1>10, DurableStays
  <2>2. /\ op'.kind = op.kind /\ op'.todo = op.todo /\ op'.was = op.was /\ op'.left = op.left
        /\ op.kind = "none" => op' = op
    BY <1>10, <1>a, HandEditIs
  <2> QED BY <1>4, <2>1, <2>2
<1> QED BY <1>1, <1>2, <1>5, <1>6, <1>7, <1>8, <1>9, <1>10, OpMoves

LEMMA BeforeBound ==
  ASSUME RecoveryInvariant, NEW c \in Call, NEW f \in File
  PROVE  marks[c][f].before \in Int /\ marks[c][f].before >= -edits /\ edits \in Nat
<1>1. marks[c][f] \in Mark /\ edits \in Nat
  BY DEF RecoveryInvariant, RecoveryTypeOK
<1>2. marks[c][f].before \in Int
  BY <1>1, ContentFacts DEF Mark
<1> QED BY <1>1, <1>2 DEF RecoveryInvariant, ContentsNamed, Written

LEMMA HandStep ==
  ASSUME RecoveryInvariant, [Next]_vars
  PROVE  RecoveryInHand'
<1> USE DEF RecoveryInvariant
<1> DEFINE GivenNow(c, f, x) == /\ x # c
                                /\ c \in Live(f) /\ marks[c][f].before = kept'[f] => x = kept'[f]
<1> HIDE DEF GivenNow
<1>a. RecoveryTypeOK /\ files \in [File -> Content]
  BY DEF RecoveryTypeOK
<1>g. ASSUME NEW t \in Turn, UNCHANGED <<journal, calls, marks>>,
             op'.turns = {t}, journal[t] \in {"started", "interrupted"},
             op'.call = 0 => op'.todo = {},
             op'.call # 0 => /\ op'.call \in Pending(t) /\ op'.verdict[op'.call] = "none"
                             /\ calls[op'.call].row = "dispatched"
                             /\ \A r \in op'.todo : r[1] = op'.call
                             /\ \A f \in File : <<op'.call, f>> \notin op'.todo
                                                  => GivenNow(op'.call, f, files'[f]),
             \A c \in Call :
               /\ op'.verdict[c] # "none" => c \in Pending(t)
               /\ op'.verdict[c] # "success"
               /\ op'.verdict[c] = "notrun" => calls[c].row = "intent"
               /\ op'.verdict[c] = "undone" => \A f \in File :
                    GivenNow(c, f, files'[f]) /\ (op'.call # 0 => GivenNow(c, f, op'.was[f]))
      PROVE  RecoveryInHand'
  <2>1. Pending(t)' = Pending(t) /\ \A f \in File : Live(f)' = Live(f)
    BY <1>g DEF Pending, Batch, Live
  <2>2. op'.call # 0 => op'.call \in Unjudged(t)'
    BY <1>g, <2>1 DEF Unjudged
  <2>4. \A c \in Pending(t) : c \in Call
    BY DEF Pending, Batch
  <2>5. op'.call # 0 => \A f \in File : <<op'.call, f>> \notin op'.todo => Given(op.call, f, files[f])'
    BY <1>g, <2>1 DEF Given, GivenNow
  <2>6. op'.call # 0 => /\ op'.call \in Unjudged(t)' /\ calls'[op'.call].row = "dispatched"
                        /\ \A r \in op'.todo : r[1] = op'.call
    BY <1>g, <2>2
  <2>7. \A c \in Call :
          /\ op'.verdict[c] # "none" => c \in Pending(t)'
          /\ op'.verdict[c] # "success"
          /\ op'.verdict[c] = "notrun" => calls'[c].row = "intent"
          /\ op'.verdict[c] = "undone" => \A f \in File :
               Given(c, f, files[f])' /\ (op'.call # 0 => Given(c, f, op.was[f])')
    <3> TAKE c \in Call
    <3>1. /\ op'.verdict[c] # "none" => c \in Pending(t)'
          /\ op'.verdict[c] # "success"
          /\ op'.verdict[c] = "notrun" => calls'[c].row = "intent"
      BY <1>g, <2>1
    <3>2. ASSUME op'.verdict[c] = "undone", NEW f \in File
          PROVE  Given(c, f, files[f])' /\ (op'.call # 0 => Given(c, f, op.was[f])')
      <4>1. GivenNow(c, f, files'[f]) /\ (op'.call # 0 => GivenNow(c, f, op'.was[f]))
        BY <1>g, <3>2
      <4> QED BY <1>g, <2>1, <4>1 DEF Given, GivenNow
    <3> QED BY <3>1, <3>2
  <2>8. op'.turns = {t} /\ journal'[t] \in {"started", "interrupted"} /\ (op'.call = 0 => op'.todo = {})
    BY <1>g
  <2> QED BY <2>5, <2>6, <2>7, <2>8 DEF RecoveryInHand
<1>h. ASSUME NEW t \in Turn, op.kind = "recovery", op.turns = {t}
      PROVE  /\ journal[t] \in {"started", "interrupted"}
             /\ op.call = 0 => op.todo = {}
             /\ op.call # 0 => /\ op.call \in Unjudged(t) /\ calls[op.call].row = "dispatched"
                               /\ \A r \in op.todo : r[1] = op.call
                               /\ \A f \in File : <<op.call, f>> \notin op.todo
                                                    => Given(op.call, f, files[f])
             /\ \A c \in Call :
                  /\ op.verdict[c] # "none" => c \in Pending(t)
                  /\ op.verdict[c] # "success"
                  /\ op.verdict[c] = "notrun" => calls[c].row = "intent"
                  /\ op.verdict[c] = "undone" => \A f \in File :
                       Given(c, f, files[f]) /\ (op.call # 0 => Given(c, f, op.was[f]))
  <2>1. PICK u \in Turn :
             /\ op.turns = {u} /\ journal[u] \in {"started", "interrupted"}
             /\ op.call = 0 => op.todo = {}
             /\ op.call # 0 => /\ op.call \in Unjudged(u) /\ calls[op.call].row = "dispatched"
                               /\ \A r \in op.todo : r[1] = op.call
                               /\ \A f \in File : <<op.call, f>> \notin op.todo
                                                    => Given(op.call, f, files[f])
             /\ \A c \in Call :
                  /\ op.verdict[c] # "none" => c \in Pending(u)
                  /\ op.verdict[c] # "success"
                  /\ op.verdict[c] = "notrun" => calls[c].row = "intent"
                  /\ op.verdict[c] = "undone" => \A f \in File :
                       Given(c, f, files[f]) /\ (op.call # 0 => Given(c, f, op.was[f]))
    BY <1>h DEF RecoveryInHand
  <2>2. u = t
    BY <1>h, <2>1
  <2> QED BY <2>1, <2>2
<1>i. \A t \in Turn : Unjudged(t) \subseteq Pending(t) /\ Pending(t) \subseteq Call
        /\ \A c \in Unjudged(t) : op.verdict[c] = "none"
  BY DEF Unjudged, Pending, Batch
<1>j. \A c \in Call : c # 0
  BY CallFacts
<1>k. ASSUME UNCHANGED kept, NEW c \in Call, NEW f \in File, NEW x, Given(c, f, x)
      PROVE  GivenNow(c, f, x)
  BY <1>k DEF Given, GivenNow
\* What a pending call wrote is nowhere found by another.
<1>l. \A t \in Turn : \A c \in Pending(t), d \in Call, f \in File :
        marks[d][f].at # "none" => marks[d][f].before # c
  <2> TAKE t \in Turn
  <2> TAKE c \in Pending(t), d \in Call, f \in File
  <2>1. c \in Call /\ calls[c].row \in {"intent", "dispatched"}
    BY DEF Pending, Batch
  <2>2. ~Over(c)
    BY <2>1, NoCallRow DEF Over, Gone, TurnsInOrder
  <2> QED BY <2>1, <2>2 DEF WritingsMarked
<1>1. CASE op' = NoOp
  BY <1>1, NoOpIs DEF RecoveryInHand
<1>2. CASE UNCHANGED vars
  BY <1>2 DEF vars, RecoveryInHand, Given, Live, Unjudged, Pending
<1>3. CASE op'.kind # "recovery"
  BY <1>3 DEF RecoveryInHand
<1>4. CASE Begins
  <2>1. UNCHANGED <<journal, calls, marks>>
    BY <1>4, DurableStays
  <2>2. PICK kind \in {"recovery", "undo", "rewind"}, T \in SUBSET Turn :
              /\ BeginsAs(op', kind, T)
              /\ kind = "recovery" => /\ op'.todo = {} /\ Recoverable # {}
                                      /\ T = {Max(Recoverable)} /\ Max(Recoverable) \in Turn
    BY <1>4, <1>a, BeginsIs
  <2>3. CASE kind = "recovery"
    <3> DEFINE t == Max(Recoverable)
    <3>1. t \in Turn /\ t \in Recoverable
      BY <1>a, <2>2, <2>3, TurnSets
    <3>2. journal[t] \in {"started", "interrupted"}
      BY <3>1 DEF Recoverable
    <3>3. op'.turns = {t} /\ op'.call = 0 /\ op'.todo = {} /\ \A c \in Call : op'.verdict[c] = "none"
      BY <2>2, <2>3 DEF BeginsAs
    <3> HIDE DEF t
    <3> QED BY <1>g, <2>1, <3>1, <3>2, <3>3
  <2>4. CASE kind # "recovery"
    BY <1>3, <2>2, <2>4 DEF BeginsAs
  <2> QED BY <2>3, <2>4
<1>5. ASSUME NEW t \in Turn, JudgeCall(t) PROVE RecoveryInHand'
  <2>1. UNCHANGED <<journal, calls, marks, kept, files>>
    BY <1>5 DEF JudgeCall, durable, Ghosts
  <2>2. op.kind = "recovery" /\ op.turns = {t} /\ op.todo = {} /\ op.call = 0
    BY <1>5, <1>a, JudgeIs
  <2>3. PICK c \in Unjudged(t) :
              /\ c \in Call /\ TurnOf[c] = t
              /\ \/ calls[c].row = "intent" /\ op' = Judged(c, "notrun")
                 \/ calls[c].row = "dispatched" /\ op' = Judged(c, "failed")
                 \/ /\ calls[c].row = "dispatched" /\ \A f \in Checkpointed(c) : Proven(c, f)
                    /\ op' \in Operation /\ op'.kind = op.kind /\ op'.turns = op.turns
                    /\ op'.clean = op.clean /\ op'.verdict = op.verdict
                    /\ op'.call = c /\ op'.was = files /\ op'.left = files
                    /\ op'.todo = {<<c, f>> : f \in {g \in Checkpointed(c) :
                                                       files[g] # marks[c][g].before}}
    BY <1>5, <1>a, JudgeIs
  <2>4. c \in Pending(t) /\ op.verdict[c] = "none"
    BY <1>i, <2>3
  <2>5. \A d \in Call : op.verdict[d] = "undone" => \A f \in File : GivenNow(d, f, files'[f])
    BY <1>h, <1>k, <2>1, <2>2
  <2>6. ASSUME NEW v \in {"notrun", "failed"}, op' = Judged(c, v), v = "notrun" => calls[c].row = "intent"
        PROVE  RecoveryInHand'
    <3>1. /\ op'.turns = {t} /\ op'.call = 0 /\ op'.todo = {} /\ op'.verdict[c] = v
          /\ \A d \in Call \ {c} : op'.verdict[d] = op.verdict[d]
      BY <1>a, <2>2, <2>3, <2>6, JudgedIs DEF KeepsPlan, Outcome
    <3>2. ASSUME NEW d \in Call
          PROVE  /\ op'.verdict[d] # "none" => d \in Pending(t)
                 /\ op'.verdict[d] # "success"
                 /\ op'.verdict[d] = "notrun" => calls[d].row = "intent"
                 /\ op'.verdict[d] = "undone" => \A f \in File : GivenNow(d, f, files'[f])
      BY <1>h, <2>2, <2>4, <2>5, <2>6, <3>1
    <3> QED BY <1>g, <1>h, <2>1, <2>2, <3>1, <3>2
  <2>7. ASSUME /\ calls[c].row = "dispatched"
               /\ op'.turns = op.turns /\ op'.verdict = op.verdict
               /\ op'.call = c /\ op'.was = files
               /\ op'.todo = {<<c, f>> : f \in {g \in Checkpointed(c) :
                                                  files[g] # marks[c][g].before}}
        PROVE  RecoveryInHand'
    <3>1. ASSUME NEW f \in File, <<c, f>> \notin op'.todo
          PROVE  GivenNow(c, f, files'[f])
      <4>1. f \in Checkpointed(c) => files[f] = marks[c][f].before
        BY <2>7, <3>1
      <4>2. c \in Live(f) => files[f] = marks[c][f].before /\ marks[c][f].at # "none"
        BY <4>1 DEF Checkpointed, Live
      <4>3. files[f] # c
        BY <1>l, <2>3, <2>4, <2>7, <4>2 DEF WritingsMarked
      <4>4. Given(c, f, files[f])
        BY <4>2, <4>3 DEF Given
      <4> QED BY <1>k, <2>1, <2>3, <4>4
    <3>2. \A r \in op'.todo : r[1] = c
      BY <2>7
    <3>3. \A d \in Call : op.verdict[d] = "undone" => \A f \in File : GivenNow(d, f, op'.was[f])
      BY <2>1, <2>5, <2>7
    <3>4. /\ op'.turns = {t} /\ op'.call = c /\ c # 0 /\ op'.verdict[c] = "none"
          /\ journal[t] \in {"started", "interrupted"}
      BY <1>h, <1>j, <2>2, <2>3, <2>4, <2>7
    <3>5. \A d \in Call :
            /\ op'.verdict[d] # "none" => d \in Pending(t)
            /\ op'.verdict[d] # "success"
            /\ op'.verdict[d] = "notrun" => calls[d].row = "intent"
            /\ op'.verdict[d] = "undone" => \A f \in File :
                    GivenNow(d, f, files'[f]) /\ GivenNow(d, f, op'.was[f])
      BY <1>h, <2>2, <2>5, <2>7, <3>3
    <3> QED BY <1>g, <2>1, <2>4, <2>7, <3>1, <3>2, <3>4, <3>5
  <2> QED BY <2>3, <2>6, <2>7
<1>6. ASSUME NEW t \in Turn, CallUndone(t) PROVE RecoveryInHand'
  <2>1. UNCHANGED <<journal, calls, marks, kept, files>>
    BY <1>6 DEF CallUndone, durable, Ghosts
  <2>2. /\ op.kind = "recovery" /\ op.turns = {t} /\ op.todo = {}
        /\ op.call \in Unjudged(t) /\ op.call \in Call /\ op' = Judged(op.call, "undone")
    BY <1>6, UndoneIs
  <2>3. /\ op'.turns = {t} /\ op'.call = 0 /\ op'.todo = {} /\ op'.verdict[op.call] = "undone"
        /\ \A d \in Call \ {op.call} : op'.verdict[d] = op.verdict[d]
    BY <1>a, <2>2, JudgedIs DEF KeepsPlan, Outcome
  <2>4. op.call # 0 /\ op.call \in Pending(t)
    BY <1>i, <1>j, <2>2
  <2>5. ASSUME NEW d \in Call
        PROVE  /\ op'.verdict[d] # "none" => d \in Pending(t)
               /\ op'.verdict[d] # "success"
               /\ op'.verdict[d] = "notrun" => calls[d].row = "intent"
               /\ op'.verdict[d] = "undone" => \A f \in File : GivenNow(d, f, files'[f])
    <3>1. CASE d = op.call
      <4>1. \A f \in File : Given(d, f, files[f])
        BY <1>h, <2>2, <2>4, <3>1
      <4> QED BY <1>k, <2>1, <2>3, <2>4, <3>1, <4>1
    <3>2. CASE d # op.call
      BY <1>h, <1>k, <2>1, <2>2, <2>3, <3>2
    <3> QED BY <3>1, <3>2
  <2> QED BY <1>g, <1>h, <2>1, <2>2, <2>3, <2>5
<1>7. CASE RestoreFile /\ op.kind = "recovery"
  <2>1. UNCHANGED <<journal, calls, marks, kept>>
    BY <1>7 DEF RestoreFile, durable, Ghosts
  <2>2. PICK c \in Call, f \in File :
           /\ <<c, f>> \in op.todo
           /\ files[f] = marks[c][f].after
           /\ files' = [files EXCEPT ![f] = marks[c][f].before]
           /\ KeepsPlan(op') /\ op'.call = op.call /\ op'.verdict = op.verdict
           /\ op'.todo = op.todo \ {<<c, f>>}
    BY <1>7, <1>a, RestoreFileIs
  <2>3. PICK t \in Turn : op.turns = {t}
    BY <1>7 DEF RecoveryInHand
  <2>4. /\ op.call # 0 /\ op.call \in Pending(t) /\ op.verdict[op.call] = "none" /\ c = op.call
        /\ calls[c].row = "dispatched"
    <3>1. <<c, f>>[1] = c
      OBVIOUS
    <3> QED BY <1>7, <1>h, <1>i, <2>2, <2>3, <3>1
  <2>5. marks[c][f].at = "closed"
    <3>1. <<c, f>>[1] = c /\ <<c, f>>[2] = f
      OBVIOUS
    <3> QED BY <2>2, <3>1 DEF OperationSound
  <2>6. files'[f] = marks[c][f].before /\ \A g \in File \ {f} : files'[g] = files[g]
    BY <1>a, <2>2
  <2>7. ASSUME NEW d \in Pending(t), Given(d, f, files[f])
        PROVE  GivenNow(d, f, files'[f])
    <3>1. d \in Call /\ files'[f] # d
      BY <1>i, <1>l, <2>5, <2>6
    <3>2. ASSUME d \in Live(f), marks[d][f].before = kept[f] PROVE files'[f] = kept[f]
      BY <2>2, <2>5, <2>6, <2>7, <3>2, KeptWasFound DEF Given
    <3>3. Given(d, f, files'[f])
      BY <3>1, <3>2 DEF Given
    <3> QED BY <1>k, <2>1, <3>1, <3>3
  <2>8. GivenNow(c, f, files'[f])
    <3>1. Given(c, f, files'[f])
      BY <1>l, <2>4, <2>5, <2>6 DEF Given
    <3> QED BY <1>k, <2>1, <3>1
  <2>9. ASSUME NEW g \in File, <<c, g>> \notin op'.todo
        PROVE  GivenNow(c, g, files'[g])
    <3>1. CASE g # f
      <4>1. <<c, g>> \notin op.todo
        BY <2>2, <2>9, <3>1
      <4>2. Given(c, g, files'[g])
        BY <1>7, <1>h, <2>3, <2>4, <2>6, <3>1, <4>1
      <4> QED BY <1>k, <2>1, <4>2
    <3> QED BY <2>8, <3>1
  <2>10. ASSUME NEW d \in Call, op.verdict[d] = "undone", NEW g \in File
         PROVE  GivenNow(d, g, files'[g]) /\ GivenNow(d, g, op'.was[g])
    <3>1. Given(d, g, files[g]) /\ Given(d, g, op.was[g]) /\ d \in Pending(t)
      BY <1>7, <1>h, <2>3, <2>4, <2>10
    <3>2. op'.was = op.was
      BY <2>2 DEF KeepsPlan
    <3> QED BY <1>k, <2>1, <2>6, <2>7, <3>1, <3>2
  <2>11. /\ op'.turns = {t} /\ op'.call = c /\ c # 0 /\ op'.verdict = op.verdict
         /\ \A r \in op'.todo : r[1] = c
         /\ journal[t] \in {"started", "interrupted"}
         /\ c \in Pending(t) /\ op'.verdict[op'.call] = "none"
    BY <1>7, <1>h, <1>j, <2>2, <2>3, <2>4 DEF KeepsPlan
  <2>12. \A d \in Call :
            /\ op'.verdict[d] # "none" => d \in Pending(t)
            /\ op'.verdict[d] # "success"
            /\ op'.verdict[d] = "notrun" => calls[d].row = "intent"
            /\ op'.verdict[d] = "undone" => \A g \in File :
                    GivenNow(d, g, files'[g]) /\ GivenNow(d, g, op'.was[g])
    BY <1>7, <1>h, <2>3, <2>10, <2>11
  <2> QED BY <1>g, <2>1, <2>4, <2>9, <2>11, <2>12
<1>8. CASE RestoreFails /\ op.kind = "recovery"
  <2>1. UNCHANGED <<journal, calls, marks, kept>> /\ op.todo # {}
    BY <1>8 DEF RestoreFails, durable, Ghosts
  <2>2. /\ files' = RolledBack
        /\ op.call \in Call /\ KeepsPlan(op') /\ op'.call = 0 /\ op'.todo = {}
        /\ op'.verdict[op.call] = "failed"
        /\ \A d \in Call \ {op.call} : op'.verdict[d] = op.verdict[d]
    BY <1>8, RestoreFailsIs
  <2>3. PICK t \in Turn : op.turns = {t}
    BY <1>8 DEF RecoveryInHand
  <2>4. op.call # 0 /\ op.call \in Pending(t) /\ op'.turns = {t}
          /\ journal[t] \in {"started", "interrupted"}
    BY <1>8, <1>h, <1>i, <2>1, <2>2, <2>3 DEF KeepsPlan
  <2>5. \A f \in File : files'[f] \in {files[f], op.was[f]}
    BY <2>2 DEF RolledBack
  <2>6. ASSUME NEW d \in Call
        PROVE  /\ op'.verdict[d] # "none" => d \in Pending(t)
               /\ op'.verdict[d] # "success"
               /\ op'.verdict[d] = "notrun" => calls[d].row = "intent"
               /\ op'.verdict[d] = "undone" => \A f \in File : GivenNow(d, f, files'[f])
    <3>1. CASE d = op.call
      BY <2>2, <2>4, <3>1
    <3>2. CASE d # op.call
      <4>1. op'.verdict[d] = op.verdict[d]
        BY <2>2, <3>2
      <4>2. ASSUME op.verdict[d] = "undone", NEW f \in File PROVE GivenNow(d, f, files'[f])
        <5>1. Given(d, f, files[f]) /\ Given(d, f, op.was[f])
          BY <1>8, <1>h, <2>3, <2>4, <4>2
        <5> QED BY <1>k, <2>1, <2>5, <5>1
      <4> QED BY <1>8, <1>h, <2>3, <4>1, <4>2
    <3> QED BY <3>1, <3>2
  <2> QED BY <1>g, <2>1, <2>2, <2>4, <2>6
<1>9. ASSUME NEW f \in File, HandEdit(f), op.kind = "recovery" PROVE RecoveryInHand'
  <2>1. UNCHANGED <<journal, calls, marks>>
    BY <1>9, DurableStays
  <2>2. /\ kept'[f] = -(edits + 1) /\ files'[f] = -(edits + 1)
        /\ \A g \in File \ {f} : files'[g] = files[g] /\ kept'[g] = kept[g]
        /\ op'.turns = op.turns /\ op'.call = op.call /\ op'.todo = op.todo /\ op'.was = op.was
        /\ op'.verdict = op.verdict
    BY <1>a, <1>9, HandEditIs, HandEditKept
  <2>3. PICK t \in Turn : op.turns = {t}
    BY <1>9 DEF RecoveryInHand
  <2>4. ASSUME NEW c \in Call, NEW g \in File, NEW x, Given(c, g, x), g # f \/ x = kept'[f] \/ x = op.was[f]
        PROVE  GivenNow(c, g, x)
    <3>1. CASE g # f
      BY <2>2, <2>4, <3>1 DEF Given, GivenNow
    <3>2. CASE g = f
      <4>1. marks[c][f].before \in Int /\ marks[c][f].before >= -edits /\ edits \in Nat
        BY BeforeBound
      <4>2. marks[c][f].before # kept'[f]
        BY <2>2, <4>1
      <4> QED BY <2>4, <3>2, <4>2 DEF Given, GivenNow
    <3> QED BY <3>1, <3>2
  <2>5. ASSUME NEW c \in Call, NEW g \in File, Given(c, g, files[g]) \/ g = f
        PROVE  GivenNow(c, g, files'[g])
    <3>1. CASE g # f
      BY <2>2, <2>4, <2>5, <3>1
    <3>2. CASE g = f
      <4>1. files'[f] # c
        BY <2>2, CallFacts DEF RecoveryTypeOK
      <4> QED BY <2>2, <3>2, <4>1 DEF GivenNow
    <3> QED BY <3>1, <3>2
  <2>6. ASSUME NEW c \in Call, op.verdict[c] = "undone", NEW g \in File
        PROVE  GivenNow(c, g, files'[g]) /\ (op'.call # 0 => GivenNow(c, g, op'.was[g]))
    <3>1. Given(c, g, files[g]) /\ (op.call # 0 => Given(c, g, op.was[g]))
      BY <1>9, <1>h, <2>3, <2>6
    <3>2. op.call # 0 => GivenNow(c, g, op.was[g])
      BY <2>4, <3>1
    <3> QED BY <2>2, <2>5, <3>1, <3>2
  <2>7. ASSUME op.call # 0, NEW g \in File, <<op.call, g>> \notin op.todo
        PROVE  GivenNow(op.call, g, files'[g])
    <3>1. op.call \in Call /\ Given(op.call, g, files[g])
      BY <1>9, <1>h, <1>i, <2>3, <2>7
    <3> QED BY <2>5, <3>1
  <2>8. op.call # 0 => /\ op.call \in Pending(t) /\ op.verdict[op.call] = "none"
                       /\ calls[op.call].row = "dispatched" /\ \A r \in op.todo : r[1] = op.call
    BY <1>9, <1>h, <1>i, <2>3
  <2>9. /\ journal[t] \in {"started", "interrupted"} /\ (op.call = 0 => op.todo = {})
        /\ \A c \in Call :
            /\ op.verdict[c] # "none" => c \in Pending(t)
            /\ op.verdict[c] # "success"
            /\ op.verdict[c] = "notrun" => calls[c].row = "intent"
    BY <1>9, <1>h, <2>3
  <2> QED BY <1>g, <2>1, <2>2, <2>3, <2>6, <2>7, <2>8, <2>9
<1>10. ASSUME op'.kind = "recovery", RestoreFile \/ RestoreFails \/ \E f \in File : HandEdit(f),
              op' # NoOp
       PROVE  op.kind = "recovery"
  <2>1. RestoreFile => op'.kind = op.kind
    BY <1>a, RestoreFileIs DEF KeepsPlan
  <2>2. RestoreFails => op'.kind = op.kind
    BY <1>10, RestoreFailsIs DEF KeepsPlan
  <2> QED BY <1>a, <1>10, <2>1, <2>2, HandEditIs
<1> QED BY <1>1, <1>2, <1>3, <1>4, <1>5, <1>6, <1>7, <1>8, <1>9, <1>10, OpMoves

LEMMA ChainEnds ==
  ASSUME NEW T, NEW f \in File, NEW c \in Chain(T, f)
  PROVE  /\ Chain(T, f) \subseteq Call /\ c \in Int
         /\ Min(Chain(T, f)) \in Chain(T, f) /\ \A d \in Chain(T, f) : Min(Chain(T, f)) <= d /\ d \in Int
         /\ c # Min(Chain(T, f)) =>
              LET p == Max({d \in Chain(T, f) : d < c})
              IN  p \in Chain(T, f) /\ p < c /\ \A d \in Chain(T, f) : d < c <=> d <= p
<1> DEFINE B == {d \in Chain(T, f) : d < c}
           m == Min(Chain(T, f))
<1>1. Chain(T, f) \subseteq Call /\ \A d \in Chain(T, f) : d \in Int
  BY RowsAre, CallFacts
<1>2. m \in Chain(T, f) /\ \A d \in Chain(T, f) : m <= d
  BY <1>1, MinIs
<1>3. ASSUME c # m
      PROVE  Max(B) \in Chain(T, f) /\ Max(B) < c /\ \A d \in Chain(T, f) : d < c <=> d <= Max(B)
  <2> HIDE DEF m
  <2>1. m \in B /\ B \subseteq Call
    BY <1>1, <1>2, <1>3
  <2>2. Max(B) \in B /\ \A d \in B : Max(B) >= d
    <3> HIDE DEF B
    <3> QED BY <2>1, MaxIs
  <2> DEFINE p == Max(B)
  <2>3. p \in B /\ \A d \in B : p >= d
    BY <2>2
  <2> HIDE DEF p
  <2>4. p \in Chain(T, f) /\ p < c /\ \A d \in Chain(T, f) : d < c <=> d <= p
    BY <1>1, <2>3
  <2> QED BY <2>4 DEF p
<1> QED BY <1>1, <1>2, <1>3

LEMMA ReversalStep ==
  ASSUME RecoveryInvariant, [Next]_vars
  PROVE  ReversalInHand'
<1> USE DEF RecoveryInvariant
<1>a. RecoveryTypeOK /\ files \in [File -> Content] /\ op.todo \subseteq Call \X File
  BY DEF RecoveryTypeOK, Operation
<1>1. CASE op' = NoOp
  BY <1>1, NoOpIs DEF ReversalInHand
<1>3. CASE op'.kind \notin {"undo", "rewind"}
  BY <1>3 DEF ReversalInHand
\* How far the restoration of a file is now, told with the marks as they are.
<1> DEFINE ReachedNow(T, f) ==
             \/ ~op'.clean /\ files'[f] = kept'[f]
             \/ files'[f] = Original(T, f) /\ \A r \in op'.todo : r[2] # f
             \/ \E c \in Chain(T, f) : /\ files'[f] = marks[c][f].after
                                       /\ \A d \in Chain(T, f) : <<d, f>> \in op'.todo <=> d <= c
<1>g. ASSUME UNCHANGED marks, NEW T, op'.turns = T, op'.call = 0, op'.todo \subseteq Rows(T),
             \A r \in Rows(T) : marks[r[1]][r[2]].at = "closed",
             \A f \in File : Chain(T, f) # {} => Linked(T, f) /\ ReachedNow(T, f)
      PROVE  ReversalInHand'
  <2>1. /\ Rows(T)' = Rows(T)
        /\ \A f \in File : /\ Chain(T, f)' = Chain(T, f)
                           /\ Linked(T, f)' <=> Linked(T, f)
                           /\ Original(T, f)' = Original(T, f)
    BY <1>g, MarksStay
  <2>2. \A f \in File : ReachedNow(T, f) => Reached(T, f)'
    BY <1>g, <2>1 DEF Reached
  <2>3. /\ op'.call = 0 /\ op'.todo \subseteq Rows(T)' /\ op'.turns = T
        /\ \A r \in Rows(T)' : marks'[r[1]][r[2]].at = "closed"
    BY <1>g, <2>1
  <2>4. \A f \in File : Chain(T, f)' # {} => Linked(T, f)' /\ Reached(T, f)'
    BY <1>g, <2>1, <2>2
  <2> HIDE DEF ReachedNow
  <2> QED BY <2>3, <2>4 DEF ReversalInHand
<1> HIDE DEF ReachedNow
<1>4. CASE Begins
  <2>1. UNCHANGED <<marks, files>>
    BY <1>4, DurableStays DEF Begins, BeginRecovery, BeginUndo, BeginRewind, durable
  <2>2. PICK kind \in {"recovery", "undo", "rewind"}, T \in SUBSET Turn :
              /\ BeginsAs(op', kind, T)
              /\ kind # "recovery" => Plannable(T) /\ op' = Planned(kind, T)
    BY <1>4, <1>a, BeginsIs
  <2>3. CASE kind = "recovery"
    BY <1>3, <2>2, <2>3 DEF BeginsAs
  <2>4. CASE kind # "recovery"
    <3>1. /\ op'.turns = T /\ op'.call = 0 /\ op'.todo \subseteq Rows(T)
          /\ \A f \in File, c \in Call :
               <<c, f>> \in op'.todo <=> Chain(T, f) # {} /\ <<c, f>> \in ToUndo(T, f)
      <4>1. kind \in {"undo", "rewind"} /\ op' = Planned(kind, T)
        BY <2>2, <2>4
      <4>2. op'.turns = T /\ op'.call = 0
        BY <2>2 DEF BeginsAs
      <4> QED BY <1>a, <4>1, <4>2, PlannedIs
    <3>2. /\ \A r \in Rows(T) : marks[r[1]][r[2]].at = "closed"
          /\ \A f \in File : Chain(T, f) # {} => Linked(T, f) /\ Boundary(T, f)
      BY <2>2, <2>4 DEF Plannable
    <3>3. ASSUME NEW f \in File, Chain(T, f) # {}
          PROVE  ReachedNow(T, f)
      <4>1. CASE files[f] = Original(T, f)
        <5>1. \A c \in Call : <<c, f>> \notin op'.todo
          BY <3>1, <4>1 DEF ToUndo
        <5>2. \A r \in op'.todo : r = <<r[1], r[2]>> /\ r[1] \in Call
          BY <3>1 DEF Rows
        <5> QED BY <2>1, <4>1, <5>1, <5>2 DEF ReachedNow
      <4>2. CASE files[f] # Original(T, f)
        <5> DEFINE S == {d \in Chain(T, f) : marks[d][f].after = files[f]}
                   m == Min(S)
        <5>1. S # {} /\ S \subseteq Call
          BY <3>2, <3>3, <4>2, RowsAre DEF Boundary
        <5>2. m \in S
          <6> HIDE DEF S
          <6> QED BY <5>1, MinIs
        <5>3. ToUndo(T, f) = {<<d, f>> : d \in {e \in Chain(T, f) : e <= m}}
          BY <4>2 DEF ToUndo
        <5> HIDE DEF m
        <5>4. m \in Chain(T, f) /\ marks[m][f].after = files[f]
          BY <5>2
        <5>5. \A d \in Chain(T, f) : <<d, f>> \in op'.todo <=> d <= m
          <6> TAKE d \in Chain(T, f)
          <6>1. d \in Call
            BY RowsAre
          <6>2. <<d, f>> \in ToUndo(T, f) <=> d <= m
            BY <5>3
          <6> QED BY <3>1, <3>3, <6>1, <6>2
        <5> QED BY <2>1, <5>4, <5>5 DEF ReachedNow
      <4> QED BY <4>1, <4>2
    <3> QED BY <1>g, <2>1, <3>1, <3>2, <3>3
  <2> QED BY <2>3, <2>4
<1>h. ASSUME op.kind \in {"undo", "rewind"}
      PROVE  /\ op.call = 0 /\ op.todo \subseteq Rows(op.turns)
             /\ \A r \in Rows(op.turns) : marks[r[1]][r[2]].at = "closed"
             /\ \A f \in File : Chain(op.turns, f) # {}
                   => Linked(op.turns, f) /\ Reached(op.turns, f)
  BY <1>h DEF ReversalInHand
<1>2. CASE UNCHANGED vars
  <2> DEFINE T == op.turns
  <2>1. CASE op.kind \in {"undo", "rewind"}
    <3>1. UNCHANGED <<marks, files, kept, op>>
      BY <1>2 DEF vars
    <3>2. /\ op.call = 0 /\ op.todo \subseteq Rows(T)
          /\ \A r \in Rows(T) : marks[r[1]][r[2]].at = "closed"
          /\ \A f \in File : Chain(T, f) # {} => Linked(T, f) /\ Reached(T, f)
      BY <1>h, <2>1
    <3> HIDE DEF T
    <3>3. \A f \in File : Reached(T, f) => ReachedNow(T, f)
      BY <3>1 DEF Reached, ReachedNow
    <3>4. op'.turns = T
      BY <3>1 DEF T
    <3>5. \A f \in File : Chain(T, f) # {} => Linked(T, f) /\ ReachedNow(T, f)
      BY <3>2, <3>3
    <3>6. op'.call = 0 /\ op'.todo \subseteq Rows(T)
      BY <3>1, <3>2
    <3> QED BY <1>g, <3>1, <3>2, <3>4, <3>5, <3>6
  <2>2. CASE op.kind \notin {"undo", "rewind"}
    BY <1>2, <1>3, <2>2 DEF vars
  <2> QED BY <2>1, <2>2
<1>5. CASE RestoreFile /\ op.kind \in {"undo", "rewind"}
  <2> DEFINE T == op.turns
  <2>1. UNCHANGED <<marks, kept>>
    BY <1>5 DEF RestoreFile, durable, Ghosts
  <2>2. PICK c \in Call, f \in File :
           /\ <<c, f>> \in op.todo /\ \A q \in op.todo : q[1] <= c
           /\ files[f] = marks[c][f].after
           /\ files' = [files EXCEPT ![f] = marks[c][f].before]
           /\ KeepsPlan(op') /\ op'.call = op.call
           /\ op'.todo = op.todo \ {<<c, f>>}
    BY <1>5, <1>a, RestoreFileIs
  <2>3. op'.turns = T /\ op'.clean = op.clean /\ op'.call = 0 /\ op'.todo \subseteq Rows(T)
    BY <1>5, <1>h, <2>2 DEF KeepsPlan
  <2>4. c \in Chain(T, f) /\ <<c, f>> \in Rows(T)
    BY <1>5, <1>h, <2>2 DEF Chain
  <2>5. marks[c][f].at = "closed"
    <3>1. <<c, f>>[1] = c /\ <<c, f>>[2] = f
      OBVIOUS
    <3> QED BY <1>5, <1>h, <2>4, <3>1
  <2>6. files'[f] = marks[c][f].before /\ \A g \in File \ {f} : files'[g] = files[g]
    BY <1>a, <2>2
  <2>7. Linked(T, f) /\ Reached(T, f)
    BY <1>5, <1>h, <2>4
  <2> HIDE DEF T
  <2>0. \A d \in Chain(T, f) : d \in Int /\ Min(Chain(T, f)) <= d
    BY <2>4, ChainEnds
  <2>8. ReachedNow(T, f)
    <3>1. CASE ~op.clean /\ files[f] = kept[f]
      <4>1. marks[c][f].before = kept[f]
        BY <2>2, <2>5, <3>1, KeptWasFound
      <4> QED BY <2>1, <2>3, <2>6, <3>1, <4>1 DEF ReachedNow
    <3>2. ASSUME NEW e \in Chain(T, f),
                 \A d \in Chain(T, f) : <<d, f>> \in op.todo <=> d <= e
          PROVE  ReachedNow(T, f)
      <4>1. c = e
        <5>1. c <= e
          BY <2>2, <2>4, <3>2
        <5>2. <<e, f>> \in op.todo
          BY <2>0, <3>2
        <5>3. <<e, f>>[1] <= c
          BY <2>2, <5>2
        <5>4. <<e, f>>[1] = e
          OBVIOUS
        <5> QED BY <2>4, <2>0, <5>1, <5>3, <5>4
      <4>2. \A d \in Chain(T, f) : <<d, f>> \in op'.todo <=> d < c
        <5> TAKE d \in Chain(T, f)
        <5>1. <<d, f>> \in op'.todo <=> <<d, f>> \in op.todo /\ d # c
          BY <2>2
        <5>2. d \in Int /\ c \in Int
          BY <2>4, <2>0
        <5> QED BY <3>2, <4>1, <5>1, <5>2
      <4>3. CASE c = Min(Chain(T, f))
        <5>1. \A d \in Chain(T, f) : <<d, f>> \notin op'.todo
          BY <2>4, <2>0, <4>2, <4>3
        <5>2. ASSUME NEW r \in op'.todo, r[2] = f PROVE FALSE
          <6>1. r \in Rows(T) /\ r \in Call \X File
            BY <2>3, <5>2 DEF Rows
          <6>2. r = <<r[1], f>> /\ r[1] \in Call
            BY <5>2, <6>1
          <6>3. r[1] \in Chain(T, f)
            BY <6>1, <6>2 DEF Chain
          <6> QED BY <5>1, <5>2, <6>2, <6>3
        <5>3. files'[f] = Original(T, f)
          BY <2>6, <4>3 DEF Original
        <5> QED BY <5>2, <5>3 DEF ReachedNow
      <4>4. CASE c # Min(Chain(T, f))
        <5> DEFINE p == Max({d \in Chain(T, f) : d < c})
        <5>1. p \in Chain(T, f) /\ \A d \in Chain(T, f) : d < c <=> d <= p
          BY <2>4, <4>4, ChainEnds
        <5>2. marks[c][f].before = marks[p][f].after
          BY <2>4, <2>7, <4>4 DEF Linked
        <5> HIDE DEF p
        <5>3. \A d \in Chain(T, f) : <<d, f>> \in op'.todo <=> d <= p
          BY <4>2, <5>1
        <5> QED BY <2>6, <5>1, <5>2, <5>3 DEF ReachedNow
      <4> QED BY <4>3, <4>4
    <3>3. ~(\A r \in op.todo : r[2] # f)
      <4>1. <<c, f>>[2] = f
        OBVIOUS
      <4> QED BY <2>2, <4>1
    <3>4. T = op.turns
      BY DEF T
    <3> QED BY <2>7, <3>1, <3>2, <3>3, <3>4 DEF Reached
  <2>9. ASSUME NEW g \in File, g # f, Chain(T, g) # {}
        PROVE  Linked(T, g) /\ ReachedNow(T, g)
    <3>1. Linked(T, g) /\ Reached(T, g)
      BY <1>5, <1>h, <2>9 DEF T
    <3>2. \A d : <<d, g>> \in op'.todo <=> <<d, g>> \in op.todo
      BY <2>2, <2>9
    <3>3. op'.todo \subseteq op.todo /\ files'[g] = files[g]
      BY <2>2, <2>6, <2>9
    <3> QED BY <2>1, <2>3, <3>1, <3>2, <3>3 DEF Reached, ReachedNow
  <2>10. \A r \in Rows(T) : marks[r[1]][r[2]].at = "closed"
    BY <1>5, <1>h DEF T
  <2>11. \A g \in File : Chain(T, g) # {} => Linked(T, g) /\ ReachedNow(T, g)
    BY <2>7, <2>8, <2>9
  <2> QED BY <1>g, <2>1, <2>3, <2>10, <2>11
<1>6. ASSUME NEW f \in File, HandEdit(f), op.kind \in {"undo", "rewind"}
      PROVE  ReversalInHand'
  <2> DEFINE T == op.turns
  <2>1. UNCHANGED marks
    BY <1>6, DurableStays
  <2>2. /\ kept'[f] = files'[f] /\ op'.clean = FALSE
        /\ \A g \in File \ {f} : files'[g] = files[g] /\ kept'[g] = kept[g]
        /\ op'.turns = T /\ op'.call = op.call /\ op'.todo = op.todo
    BY <1>a, <1>6, HandEditIs, HandEditKept
  <2> HIDE DEF T
  <2>3. ASSUME NEW g \in File, Chain(T, g) # {}
        PROVE  Linked(T, g) /\ ReachedNow(T, g)
    <3>1. Linked(T, g) /\ Reached(T, g)
      BY <1>6, <1>h, <2>3 DEF T
    <3>2. CASE g = f
      BY <2>2, <3>1, <3>2 DEF ReachedNow
    <3>3. CASE g # f
      BY <2>2, <3>1, <3>3 DEF Reached, ReachedNow
    <3> QED BY <3>1, <3>2, <3>3
  <2>4. op.call = 0 /\ op.todo \subseteq Rows(T) /\ \A r \in Rows(T) : marks[r[1]][r[2]].at = "closed"
    BY <1>6, <1>h DEF T
  <2> QED BY <1>g, <2>1, <2>2, <2>3, <2>4
<1>7. ASSUME RestoreFile \/ RestoreFails \/ (\E f \in File : HandEdit(f)),
              op' # NoOp
       PROVE  op'.kind = op.kind /\ (RestoreFails => op.kind = "recovery")
  <2>1. RestoreFile => op'.kind = op.kind
    BY <1>a, RestoreFileIs DEF KeepsPlan
  <2>2. RestoreFails => op'.kind = op.kind /\ op.kind = "recovery"
    BY <1>7, RestoreFailsIs DEF KeepsPlan
  <2> QED BY <1>a, <1>7, <2>1, <2>2, HandEditIs
<1>8. ASSUME NEW t \in Turn, JudgeCall(t) \/ CallUndone(t) PROVE op'.kind = "recovery"
  <2>1. \A c \in Call, v \in {"notrun", "failed", "undone"} : Judged(c, v).kind = op.kind
    BY <1>a, JudgedIs DEF KeepsPlan, Outcome
  <2>2. CallUndone(t) => op'.kind = "recovery"
    BY <2>1, UndoneIs
  <2>3. JudgeCall(t) => op'.kind = "recovery"
    BY <1>a, <2>1, JudgeIs
  <2> QED BY <1>8, <2>2, <2>3
<1> QED BY <1>1, <1>2, <1>3, <1>4, <1>5, <1>6, <1>7, <1>8, OpMoves

-----------------------------------------------------------------------------
LEMMA InvariantBegins ==
  ASSUME Init
  PROVE  RecoveryInvariant
<1> USE DEF Init
<1>1. RecoveryTypeOK
  <2>1. NoMark \in Mark /\ 0 \in Content
    BY ContentFacts DEF NoMark, Mark
  <2>2. RowOK(NoCall) /\ NoOp \in Operation /\ NoOp.kind = "none"
    BY NoCallRow, NoOpIs
  <2>3. journal \in [Turn -> Status] /\ stage \in [Call -> {"none", "hooks", "run", "after"}]
    BY DEF Status
  <2>4. calls \in [Call -> CallRow] /\ marks \in [Call -> [File -> Mark]]
          /\ files \in [File -> Content] /\ kept \in [File -> Content]
    BY <2>1, <2>2 DEF RowOK
  <2>5. edits \in 0..MaxEdits /\ crashes \in 0..MaxCrashes
    BY RecoveryAssumption
  <2>6. \A c \in Call : RowOK(calls[c]) /\ stage[c] = "none"
    BY <2>2
  <2>7. op \in Operation /\ (op.kind # "none" <=> runtime = "restoring") /\ acted \subseteq Call
          /\ runtime = "idle" /\ current \in Turn \cup {0}
    BY <2>2
  <2> QED BY <2>3, <2>4, <2>5, <2>6, <2>7 DEF RecoveryTypeOK, RowOK
<1>2. TurnsInOrder
  <2>1. \A c \in Call : calls[c] = NoCall /\ stage[c] = "none" /\ calls[c].row = "none"
    BY NoCallRow
  <2>2. \A t \in Turn : journal[t] = "none"
    OBVIOUS
  <2> QED BY <2>1, <2>2 DEF TurnsInOrder, InTurn
<1>3. EffectsRecorded
  <2>1. \A c \in Call : /\ c \notin acted /\ stage[c] = "none" /\ calls[c].outcome = "none"
                        /\ \A f \in File : marks[c][f].at = "none"
    BY NoCallRow DEF NoMark
  <2> QED BY <2>1 DEF EffectsRecorded
<1>4. ContentsNamed /\ OriginalsMarked /\ WritingsMarked
  <2>1. \A c \in Call, f \in File : /\ marks[c][f].at = "none" /\ marks[c][f].before = 0
                                    /\ marks[c][f].after = 0 /\ op.was[f] = 0
                                    /\ calls[c].outcome = "none" /\ calls[c].row = "none"
    BY NoCallRow, NoOpIs DEF NoMark
  <2>2. 0 \notin Call /\ \A f \in File : op.was[f] = 0
    BY ContentFacts, NoOpIs
  <2>3. ContentsNamed
    BY <2>1, <2>2 DEF ContentsNamed, Written
  <2>4. OriginalsMarked
    BY <2>1 DEF OriginalsMarked
  <2>5. WritingsMarked
    BY <2>1 DEF WritingsMarked
  <2> QED BY <2>3, <2>4, <2>5
<1>5. OperationSound /\ RecoveryInHand /\ ReversalInHand
  BY NoOpIs DEF OperationSound, RecoveryInHand, ReversalInHand
<1> QED BY <1>1, <1>2, <1>3, <1>4, <1>5 DEF RecoveryInvariant

LEMMA InvariantStays ==
  ASSUME RecoveryInvariant, [Next]_vars
  PROVE  RecoveryInvariant'
<1>1. RecoveryTypeOK' /\ TurnsInOrder'
  BY TypeStep, OrderStep
<1>2. EffectsRecorded' /\ ContentsNamed' /\ WritingsMarked'
  BY <1>1, EffectsStep, NamedStep, WritingsStep
<1>3. OriginalsMarked'
  BY <1>2, OriginalsStep
<1> QED BY <1>1, <1>2, <1>3, SoundStep, HandStep, ReversalStep DEF RecoveryInvariant

\* The invariant of the sessions: turns are executed and answered in order,
\* effects are recorded before they happen, every file that is not as it is to
\* be kept is covered by a mark, and an operation in hand knows how far it is.
THEOREM RecoveryIsInvariant == Spec => []RecoveryInvariant
<1>1. Init => RecoveryInvariant
  BY InvariantBegins
<1>2. RecoveryInvariant /\ [Next]_vars => RecoveryInvariant'
  BY InvariantStays
<1> QED BY <1>1, <1>2, PTL DEF Spec

-----------------------------------------------------------------------------
\* Every table keeps its shape through execution, recovery, undo and rewind: a
\* call is answered once at most, and only when its outcome is recorded.
THEOREM RecoveryTypeCorrect == Spec => []RecoveryTypeOK
BY RecoveryIsInvariant, PTL DEF RecoveryInvariant

\* What a file held before Ash touched it, or since it was last edited by hand,
\* is in the file or in a checkpoint that can still be restored.
THEOREM OriginalsAreKept == Spec => []OriginalKept
<1>1. RecoveryInvariant => OriginalKept
  BY DEF RecoveryInvariant, OriginalsMarked, OriginalKept, Covered
<1> QED BY <1>1, RecoveryIsInvariant, PTL

\* What the model is told of a call is true: not run, succeeded, rolled back.
THEOREM AnswersAreHonest == Spec => []AnswersHonest
<1>1. RecoveryInvariant => AnswersHonest
  BY DEF RecoveryInvariant, EffectsRecorded, WritingsMarked, AnswersHonest
<1> QED BY <1>1, RecoveryIsInvariant, PTL

\* An undo or a rewind that stopped anywhere can be planned again from the files
\* as they are, unless one of them was edited by hand.
THEOREM RestoresCanBeRetried == Spec => []RestoreRetriable
<1>1. ASSUME RecoveryInvariant, op.kind \in {"undo", "rewind"}, op.clean
      PROVE  Plannable(op.turns)
  <2> DEFINE T == op.turns
  <2>1. /\ \A r \in Rows(T) : marks[r[1]][r[2]].at = "closed"
        /\ \A f \in File : Chain(T, f) # {} => Linked(T, f) /\ Reached(T, f)
    BY <1>1 DEF RecoveryInvariant, ReversalInHand
  <2>2. \A f \in File : Reached(T, f) => Boundary(T, f)
    BY <1>1 DEF Reached, Boundary
  <2> QED BY <2>1, <2>2 DEF Plannable
<1>2. RecoveryInvariant => RestoreRetriable
  BY <1>1 DEF RestoreRetriable
<1> QED BY <1>2, RecoveryIsInvariant, PTL

\* When the model is asked, every call of a turn that was cut short, or is in
\* hand, has its answer.
THEOREM InterruptedAreAnswered == Spec => []InterruptedAnswered
<1>1. RecoveryInvariant => InterruptedAnswered
  <2> SUFFICES ASSUME RecoveryInvariant, runtime = "model", NEW t \in Turn,
                      journal[t] \in {"started", "interrupted", "recovered"}
               PROVE  Replied(t)
    BY DEF InterruptedAnswered, Replied
  <2>1. journal[current] = "started" /\ Replied(current)
    BY DEF RecoveryInvariant, TurnsInOrder, InTurn
  <2>2. t # current => journal[t] # "started" /\ (journal[t] = "interrupted" => Quiet(t))
    BY DEF RecoveryInvariant, TurnsInOrder
  <2>3. journal[t] = "recovered" => Quiet(t)
    BY DEF RecoveryInvariant, TurnsInOrder
  <2> QED BY <2>1, <2>2, <2>3 DEF Quiet
<1> QED BY <1>1, RecoveryIsInvariant, PTL

\* A recovery leaves the work of a call that succeeded alone, but to put back
\* what it found when the restoration that brought that work back fails.
THEOREM CompletedWorkStays == Spec => CompletedWorkRetained
<1>1. ASSUME RecoveryInvariant, [Next]_vars, op.kind = "recovery", UNCHANGED edits,
             NEW f \in File, files[f] \in Call, calls[files[f]].outcome = "success"
      PROVE  files'[f] = files[f] \/ (op.was[f] # files[f] /\ files'[f] = op.was[f])
  <2>1. \A c \in Call : ~WriteFile(c, f)
    BY <1>1 DEF WriteFile, HasTurn, RecoveryInvariant, RecoveryTypeOK
  <2>2. ~HandEdit(f)
    <3>1. SUFFICES ASSUME HandEdit(f) PROVE FALSE
      OBVIOUS
    <3>2. edits' = edits + 1 /\ edits \in Nat
      BY <1>1, <3>1 DEF HandEdit, RecoveryInvariant, RecoveryTypeOK
    <3> QED BY <1>1, <3>2
  <2>3. ASSUME NEW c \in Call, <<c, f>> \in op.todo, files[f] = marks[c][f].after,
               files'[f] = marks[c][f].before
        PROVE  files'[f] = files[f]
    <3>1. <<c, f>>[1] = c /\ <<c, f>>[2] = f
      OBVIOUS
    <3>2. marks[c][f].at = "closed"
      BY <1>1, <2>3, <3>1 DEF RecoveryInvariant, OperationSound
    <3>3. c = op.call /\ calls[c].row = "dispatched"
      BY <1>1, <2>3, <3>1 DEF RecoveryInvariant, RecoveryInHand
    <3>4. files[f] # c
      BY <1>1, <3>3, RowsOK DEF RecoveryInvariant, RowOK
    <3>5. LeftBy(c, f, files[f])
      BY <1>1, <2>3, <3>2 DEF RecoveryInvariant, OriginalsMarked
    <3> QED BY <1>1, <2>3, <3>4, <3>5, CallFacts DEF LeftBy
  <2> QED BY <1>1, <2>1, <2>2, <2>3, FilesMove
<1> DEFINE Retains == op.kind = "recovery" /\ UNCHANGED edits => \A f \in File :
       LET c == files[f]
       IN  c \in Call /\ calls[c].outcome = "success"
             => \/ files'[f] = c
                \/ op.was[f] # c /\ files'[f] = op.was[f]
<1>2. RecoveryInvariant /\ [Next]_vars => [Retains]_vars
  BY <1>1
<1> HIDE DEF Retains
<1>3. Spec => [][Retains]_vars
  BY <1>2, RecoveryIsInvariant, PTL DEF Spec
<1> QED BY <1>3 DEF CompletedWorkRetained, Retains
==============================================================================
