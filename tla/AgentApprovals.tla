---------------------------- MODULE AgentApprovals ----------------------------
(***************************************************************************)
(* The approvals of background tasks (resolve_approval_request and its     *)
(* neighbours in src/src/ash/agents/shared_state.py, and                   *)
(* _await_durable_approval in src/src/ash/tools/agent.py), composed with   *)
(* the ledger whose attempts they are bound to.                            *)
(*                                                                         *)
(* A worker that may not decide on a tool call sends a request to the lead *)
(* and polls its mailbox for the answer.  A dispatched attempt has an      *)
(* agent id, hence a mailbox, of its own.  The calls of its turn share it: *)
(* parallel reads that an ask rule covers wait side by side, and each poll *)
(* finds the answers to the others.  They run on one event loop, and a     *)
(* poll has no await in it: only other processes come between its steps.   *)
(*                                                                         *)
(* asks[<<t, a, s>>] is the last request of slot s of attempt a, its       *)
(* answer, and the wait for it: nobody looks at the request of an earlier  *)
(* call of the slot again.                                                 *)
(***************************************************************************)
EXTENDS AgentTasks

CONSTANTS
  Background,  \* the tasks whose worker asks through the database
  Slot         \* the tool calls of a turn that may be at work at once

ASSUME ApprovalsAssumption == Background \subseteq Task

VARIABLE asks

vars == <<rows, asks>>

Asker   == UNION {{<<t, a, s>> : a \in 1..MaxAttempts[t], s \in Slot} : t \in Background}
Polling == {"reading", "rechecking", "taking"}
Waiting == {"checking"} \cup Polling

Ask == [at : Waiting \cup {"idle", "granted", "denied", "refused", "ended"},
        request : {"none", "pending", "delivered"},
        answer : {"none", "yes", "no"},
        taken : BOOLEAN]  \* whether the answer is marked as delivered
NoAsk == [at |-> "idle", request |-> "none", answer |-> "none", taken |-> FALSE]

\* _approval_attempt_is_current_locked
Current(q) == Owned(q[1], q[2])

\* Between mark_recovery_unsafe and the settlement of the attempt.  A worker
\* that lost its task may not have noticed.
InTurn(q) ==
  /\ rows[q[1]].attempt = q[2] /\ ~rows[q[1]].safe
  /\ rows[q[1]].state \in Active \cup {"failed", "cancelled"}

\* The calls of the same turn, which share a mailbox and an event loop.
Beside(q) == {p \in Asker : p[1] = q[1] /\ p[2] = q[2]}

\* None of them is in the middle of a poll.
LoopIsFree(q) == \A p \in Beside(q) : asks[p].at \notin Polling

SendRequest(q) ==
  /\ asks[q].at \in {"idle", "granted", "denied", "refused"} /\ InTurn(q)
  /\ asks' = [asks EXCEPT ![q] = [NoAsk EXCEPT !.at = "checking", !.request = "pending"]]

Pass(q, from, to) ==
  /\ asks[q].at = from /\ Current(q)
  /\ asks' = [asks EXCEPT ![q].at = to]

\* Two looks at the attempt: before the mailbox is read, and before an answer
\* that was found in it is used.
Check(q)   == LoopIsFree(q) /\ Pass(q, "checking", "reading")
Recheck(q) == Pass(q, "rechecking", "taking")

\* An attempt that is no longer current never is again: the look and the mark
\* that withdraws the request are one step.
Withdraw(q) ==
  /\ \/ asks[q].at = "checking" /\ LoopIsFree(q)
     \/ asks[q].at = "rechecking"
  /\ ~Current(q)
  /\ asks' = [asks EXCEPT ![q].at = "refused", ![q].request = "delivered"]

Unread(p) == asks[p].answer # "none" /\ ~asks[p].taken

\* Variant: any answer in the mailbox will do.
AnswersInMailbox(q) == {p \in Beside(q) : Unread(p)}

\* The answers whose request_message_id is that of the request.
AnswersTo(q) == {p \in {q} : Unread(p)}

\* The others, which the code takes for answers to earlier requests although
\* a call may still wait for them (README, section 6).
Stale(q) == {p \in Beside(q) \ {q} : Unread(p)}

MarkTaken(S) ==
  [p \in Asker |-> IF p \in S THEN [asks[p] EXCEPT !.taken = TRUE] ELSE asks[p]]

Read(q) ==
  /\ asks[q].at = "reading"
  /\ IF AnswersTo(q) # {}
     THEN asks' = [asks EXCEPT ![q].at = "rechecking"]
     ELSE asks' = [MarkTaken(Stale(q)) EXCEPT ![q].at = "checking"]

\* The stale answers that lie before the one that was found are marked with it.
Take(q) ==
  /\ asks[q].at = "taking"
  /\ \E found \in AnswersTo(q), before \in SUBSET Stale(q) :
       asks' = [MarkTaken(before \cup {found}) EXCEPT
                  ![q].at = IF asks[found].answer = "yes" THEN "granted" ELSE "denied",
                  ![q].request = "delivered"]

\* The turn is cancelled while the worker sleeps between two looks: every wait
\* withdraws its request.
CancelWait(q) ==
  /\ asks[q].at = "checking" /\ LoopIsFree(q)
  /\ asks' = [p \in Asker |->
       IF p \in Beside(q)
       THEN [asks[p] EXCEPT !.at = "ended",
                            !.request = IF asks[p].at = "checking" THEN "delivered" ELSE @]
       ELSE asks[p]]

\* The worker's process dies.
WorkerDies(q) ==
  /\ asks[q].at \in Waiting
  /\ asks' = [p \in Asker |-> IF p \in Beside(q) THEN [asks[p] EXCEPT !.at = "ended"] ELSE asks[p]]

\* resolve_approval_request, by any process: once, and for a current attempt.
Resolve(q, answer) ==
  /\ asks[q].request = "pending" /\ Current(q)
  /\ asks' = [asks EXCEPT ![q].request = "delivered", ![q].answer = answer]

\* Variant: once a task runs, its requests are taken for stale.
RetiresLeased(q) == ~(rows[q[1]].state = "leased" /\ Current(q))

Retires(q) == ~Current(q)

\* retire_stale_approval_requests, in every pass of every dispatcher.
RetireStale ==
  asks' = [q \in Asker |-> IF asks[q].request = "pending" /\ Retires(q)
                           THEN [asks[q] EXCEPT !.request = "delivered"] ELSE asks[q]]

\* A worker settles its attempt only after its turn: while it waits, its
\* heartbeat, its inbox, the users and the sweeps go on, but the attempt is
\* neither completed nor tried again (its effects forbid that to a sweep).
LedgerStep ==
  /\ Next
  /\ \A q \in Asker : asks[q].at \in Waiting /\ InTurn(q) =>
       rows'[q[1]].state \notin {"queued", "succeeded"}
  /\ UNCHANGED asks

AskStep ==
  \/ \E q \in Asker :
       \/ SendRequest(q)
       \/ Check(q)
       \/ Read(q)
       \/ Recheck(q)
       \/ Take(q)
       \/ Withdraw(q)
       \/ CancelWait(q)
       \/ WorkerDies(q)
       \/ \E answer \in {"yes", "no"} : Resolve(q, answer)
  \/ RetireStale

ApprovalNext == LedgerStep \/ (AskStep /\ UNCHANGED rows)

ApprovalInit == Init /\ asks = [q \in Asker |-> NoAsk]

ApprovalSpec == ApprovalInit /\ [][ApprovalNext]_vars
-------------------------------------------------------------------------------
\* A tool call runs on a grant only if the lead gave it for that very call,
\* and a call the lead refused never does, although the answers to the other
\* calls of the turn lie in the mailbox it polls.
GrantsAreAnswered ==
  \A q \in Asker :
    /\ asks[q].at = "granted" => asks[q].answer = "yes"
    /\ asks[q].at = "denied" => asks[q].answer = "no"

\* An answer marked as delivered by the wait of another call of the turn.
Discarded(q) ==
  /\ asks[q].answer # "none" /\ asks[q].taken
  /\ \E p \in Beside(q) \ {q} : asks[p].at # "idle"

\* As long as the attempt holds its task, a worker that waits can be answered,
\* or has its answer in the mailbox: neither a pass of a dispatcher, nor the
\* end of another attempt, nor a refused resolution closes its request.  Only
\* another call that waits at the same time can take its answer away.
AskStaysOpen ==
  \A q \in Asker :
    asks[q].at \in Waiting /\ Current(q) =>
      asks[q].request = "pending" \/ Unread(q) \/ Discarded(q)
==============================================================================
