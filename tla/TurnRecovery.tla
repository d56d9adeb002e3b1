------------------------------ MODULE TurnRecovery -----------------------------
(***************************************************************************)
(* The turns of one session: how their tool calls are journalled, executed *)
(* and answered (src/src/ash/core/loop.py), what the session database      *)
(* keeps of them (src/src/ash/core/session.py), and how an interrupted     *)
(* turn is recovered and file edits are undone from checkpoints            *)
(* (src/src/ash/core/checkpoints.py).                                      *)
(*                                                                         *)
(* One process holds the session at a time, but it may crash anywhere, and *)
(* files may be edited by hand (or by shell commands) at any moment.  The  *)
(* content of a file is named by who wrote it: call c leaves c, the n-th   *)
(* hand edit -n, and 0 is what there was before.  A file that does not     *)
(* exist, and its mode, are part of its content.                           *)
(***************************************************************************)
EXTENDS Integers, FiniteSets, FiniteSetsExt

CONSTANTS
  Turns,     \* bound: turns 1..Turns are started, in this order
  TurnOf,    \* the turn of each call 1..n: the batch the model asks for
  FilesOf,   \* the files a call edits; none for a tool that edits no file
  Parallel,  \* turns whose batch is of parallel-safe reads
  File,
  MaxEdits,  \* bound: hand edits
  MaxCrashes \* bound: crashes

Turn == 1..Turns
Call == DOMAIN TurnOf
Batch(t) == {c \in Call : TurnOf[c] = t}

ASSUME RecoveryAssumption ==
  /\ Turns \in Nat /\ MaxEdits \in Nat /\ MaxCrashes \in Nat
  /\ Parallel \subseteq Turn /\ IsFiniteSet(File) /\ IsFiniteSet(Call)
  /\ Call = 1..Cardinality(Call)
  /\ TurnOf \in [Call -> Turn] /\ FilesOf \in [Call -> SUBSET File]
  /\ \A c, d \in Call : c <= d => TurnOf[c] <= TurnOf[d]
  /\ \A c \in Call : TurnOf[c] \in Parallel => FilesOf[c] = {}

VARIABLES
  journal,  \* turn_journal: the status of each turn
  calls,    \* tool_calls, and the messages that ask for and answer them
  marks,    \* file_checkpoints: of each call, for each file
  files,    \* the content of the files
  runtime,  \* what the process is doing, and
  current,  \* in which turn
  stage,    \* how far the execution of each call is
  op,       \* the recovery, undo or rewind in hand
  acted,    \* history: the calls that had an effect
  kept,     \* history: what no restoration may lose of each file
  edits, crashes

durable == <<journal, calls, marks>>
vars == <<journal, calls, marks, files, runtime, current, stage, op,
          acted, kept, edits, crashes>>

Content == (-MaxEdits)..Cardinality(Call)

\* recovered: interrupted, with a recovery report.
Status == {"none", "started", "completed", "interrupted", "recovered", "deleted"}

\* What the result of a call says: that it succeeded, that it was not run, that
\* its files were rolled back; failed: that it ran, or may have run, and is not
\* known to have succeeded or to have been rolled back.
Outcome == {"none", "success", "notrun", "undone", "failed"}

\* intent: approved; settled: with a result or an error.
CallRow == [asked : BOOLEAN, row : {"none", "intent", "dispatched", "settled"},
            outcome : Outcome, answers : Nat]
NoCall == [asked |-> FALSE, row |-> "none", outcome |-> "none", answers |-> 0]

\* open: after_sha256 is NULL.
Mark == [at : {"none", "open", "closed", "restored"}, before : Content, after : Content]
NoMark == [at |-> "none", before |-> 0, after |-> 0]

\* todo: the checkpoints to restore yet; was and left: the files when it was
\* planned, and as it left them; clean: no file was edited by hand since.
Operation ==
  [kind : {"none", "recovery", "undo", "rewind"}, turns : SUBSET Turn,
   call : Call \cup {0}, todo : SUBSET (Call \X File),
   was : [File -> Content], left : [File -> Content],
   verdict : [Call -> Outcome], clean : BOOLEAN]
NoOp == [kind |-> "none", turns |-> {}, call |-> 0, todo |-> {},
         was |-> [f \in File |-> 0], left |-> [f \in File |-> 0],
         verdict |-> [c \in Call |-> "none"], clean |-> TRUE]

Live(f) == {c \in Call : marks[c][f].at \in {"open", "closed"}}

\* Types, and the shape of the tables: a call is answered once, and only when
\* its outcome is known; an answer is all that is left to change after that.
RecoveryTypeOK ==
  /\ journal \in [Turn -> Status]
  /\ calls \in [Call -> CallRow]
  /\ marks \in [Call -> [File -> Mark]]
  /\ files \in [File -> Content] /\ kept \in [File -> Content]
  /\ runtime \in {"down", "starting", "idle", "model", "calls", "ending", "cancelled", "restoring"}
  /\ current \in Turn \cup {0}
  /\ stage \in [Call -> {"none", "hooks", "run", "after"}]
  /\ op \in Operation /\ (op.kind # "none" <=> runtime = "restoring")
  /\ acted \subseteq Call
  /\ edits \in 0..MaxEdits /\ crashes \in 0..MaxCrashes
  /\ \A c \in Call :
       /\ calls[c].answers <= 1
       /\ calls[c].row = "settled" <=> calls[c].outcome # "none"
       /\ calls[c].answers = 1 => calls[c].row = "settled"
       /\ stage[c] # "none" => calls[c].row = "dispatched"

Init ==
  /\ journal = [t \in Turn |-> "none"]
  /\ calls = [c \in Call |-> NoCall]
  /\ marks = [c \in Call |-> [f \in File |-> NoMark]]
  /\ files = [f \in File |-> 0] /\ kept = [f \in File |-> 0]
  /\ runtime = "idle" /\ current = 0
  /\ stage = [c \in Call |-> "none"] /\ op = NoOp
  /\ acted = {} /\ edits = 0 /\ crashes = 0

Bounds == <<edits, crashes>>
Ghosts == <<acted, kept, edits, crashes>>

(***************************************************************************)
(* What the database says of a turn.                                       *)
(***************************************************************************)
\* Variant: a call that is known to have succeeded is rolled back as well.
PendingDispatched(t) ==
  {c \in Batch(t) : calls[c].row # "none" /\ calls[c].outcome \in {"none", "success"}}

\* pending_tool_calls: approved, without an outcome.
Pending(t) == {c \in Batch(t) : calls[c].row \in {"intent", "dispatched"}}

\* assistant_tool_calls_missing_results
Missing(t) == {c \in Batch(t) : calls[c].asked /\ calls[c].answers = 0}

\* Variant: a call whose result is recorded is taken for one that was answered.
UnsettledUnrecorded(t) ==
  \/ \E c \in Batch(t) : calls[c].asked /\ calls[c].row # "settled"
  \/ \E c \in Batch(t), f \in File : marks[c][f].at = "open"

\* What is left to do in a turn that was interrupted but not recovered.
Unsettled(t) ==
  \/ Pending(t) # {} \/ Missing(t) # {}
  \/ \E c \in Batch(t), f \in File : marks[c][f].at = "open"

Recoverable == {t \in Turn : \/ journal[t] = "started"
                             \/ journal[t] = "interrupted" /\ Unsettled(t)}
-------------------------------------------------------------------------------
(***************************************************************************)
(* A turn.                                                                 *)
(***************************************************************************)
\* run_turn, once the session is recovered; the user message is saved with it.
StartTurn(t) ==
  /\ runtime = "idle" /\ Recoverable = {}
  /\ journal[t] = "none" /\ \A u \in 1..(t - 1) : journal[u] # "none"
  /\ journal' = [journal EXCEPT ![t] = "started"]
  /\ runtime' = "model" /\ current' = t
  /\ UNCHANGED <<calls, marks, files, stage, op, Ghosts>>

\* The model answers with its batch of tool calls.
AskForTools ==
  /\ runtime = "model" /\ Batch(current) # {}
  /\ \A c \in Batch(current) : ~calls[c].asked
  /\ calls' = [c \in Call |-> IF c \in Batch(current)
                              THEN [NoCall EXCEPT !.asked = TRUE] ELSE calls[c]]
  /\ runtime' = "calls"
  /\ UNCHANGED <<journal, marks, files, current, stage, op, Ghosts>>

\* The model answers without tool calls, or the breaker has halted the turn.
CompleteTurn ==
  /\ runtime \in {"model", "ending"}
  /\ journal' = [journal EXCEPT ![current] = "completed"]
  /\ runtime' = "idle" /\ current' = 0
  /\ UNCHANGED <<calls, marks, files, stage, op, Ghosts>>

\* A call of the batch that is not over; sequential calls wait for the ones
\* before them.
HasTurn(c) ==
  /\ runtime = "calls" /\ c \in Batch(current) /\ calls[c].row # "settled"
  /\ current \in Parallel \/ \A d \in Batch(current) : d < c => calls[d].answers > 0

\* The calls of the batch are over, or the next one is executed.
NextCall(c) == IF \E d \in Batch(current) : d > c THEN "calls" ELSE "model"

Settled(row, outcome) == [row EXCEPT !.row = "settled", !.outcome = outcome]
Answered(row) == [row EXCEPT !.answers = row.answers + 1]

\* The end of a call: its record and its message are written in one
\* transaction, and the breaker may halt the turn after a failure.  In a
\* parallel batch the messages wait for the whole batch, and a failure that
\* trips the breaker leaves before its record is written.
Finalize(c, outcome, maytrip) ==
  /\ stage' = [stage EXCEPT ![c] = "none"]
  /\ \/ /\ current \notin Parallel
        /\ calls' = [calls EXCEPT ![c] = Answered(Settled(calls[c], outcome))]
        /\ runtime' = NextCall(c)
     \/ /\ current \notin Parallel /\ maytrip
        /\ calls' = [calls EXCEPT ![c] = Answered(Settled(calls[c], outcome))]
        /\ runtime' = "ending"
     \/ /\ current \in Parallel
        /\ calls' = [calls EXCEPT ![c] = Settled(calls[c], outcome)]
        /\ UNCHANGED runtime
  /\ UNCHANGED <<journal, marks, current, op>>

\* The breaker trips in a parallel batch: the other reads are cancelled.
HaltBatch(c) ==
  /\ HasTurn(c) /\ current \in Parallel
  /\ stage[c] # "none" \/ calls[c].row = "none"
  /\ stage' = [d \in Call |-> "none"] /\ runtime' = "ending"
  /\ UNCHANGED <<journal, calls, marks, files, current, op, Ghosts>>

\* Unknown tool, invalid arguments, denied, or out of the token budget.
RefuseCall(c) ==
  /\ HasTurn(c) /\ calls[c].row = "none"
  /\ Finalize(c, "notrun", TRUE)
  /\ UNCHANGED <<files, Ghosts>>

\* Approved: the intent is durable before anything is done.
ApproveCall(c) ==
  /\ HasTurn(c) /\ calls[c].row = "none"
  /\ calls' = [calls EXCEPT ![c].row = "intent"]
  /\ UNCHANGED <<journal, marks, files, runtime, current, stage, op, Ghosts>>

\* Variant: the dispatch is recorded with the result only.
DispatchUnrecorded(c) ==
  /\ HasTurn(c) /\ calls[c].row = "intent" /\ stage[c] = "none"
  /\ stage' = [stage EXCEPT ![c] = "hooks"]
  /\ UNCHANGED <<durable, files, runtime, current, op, Ghosts>>

\* That it is dispatched is durable before it is.
DispatchCall(c) ==
  /\ HasTurn(c) /\ calls[c].row = "intent"
  /\ calls' = [calls EXCEPT ![c].row = "dispatched"]
  /\ stage' = [stage EXCEPT ![c] = "hooks"]
  /\ UNCHANGED <<journal, marks, files, runtime, current, op, Ghosts>>

\* before_tool: the files as they are, in one transaction.
Checkpoint(c) ==
  /\ HasTurn(c) /\ stage[c] = "hooks"
  /\ marks' = [marks EXCEPT ![c] = [f \in File |->
       IF f \in FilesOf[c] THEN [at |-> "open", before |-> files[f], after |-> 0]
       ELSE marks[c][f]]]
  /\ stage' = [stage EXCEPT ![c] = "run"]
  /\ UNCHANGED <<journal, calls, files, runtime, current, op, Ghosts>>

\* A middleware skips the tool.
SkipTool(c) ==
  /\ HasTurn(c) /\ stage[c] = "hooks"
  /\ Finalize(c, "notrun", FALSE)
  /\ UNCHANGED <<files, Ghosts>>

\* The tool writes its files one by one; another tool acts.
WriteFile(c, f) ==
  /\ HasTurn(c) /\ stage[c] = "run" /\ f \in FilesOf[c] /\ files[f] # c
  /\ files' = [files EXCEPT ![f] = c]
  /\ acted' = acted \cup {c}
  /\ UNCHANGED <<durable, runtime, current, stage, op, kept, Bounds>>

Act(c) ==
  /\ HasTurn(c) /\ stage[c] = "run" /\ FilesOf[c] = {} /\ c \notin acted
  /\ acted' = acted \cup {c}
  /\ UNCHANGED <<durable, files, runtime, current, stage, op, kept, Bounds>>

\* It returns, whatever it has done.
ToolReturns(c) ==
  /\ HasTurn(c) /\ stage[c] = "run"
  /\ stage' = [stage EXCEPT ![c] = "after"]
  /\ UNCHANGED <<durable, files, runtime, current, op, Ghosts>>

\* after_tool: the digest of each file, as it is now.
CloseMark(c, f) ==
  /\ HasTurn(c) /\ stage[c] = "after" /\ marks[c][f].at = "open"
  /\ marks' = [marks EXCEPT ![c][f].at = "closed", ![c][f].after = files[f]]
  /\ UNCHANGED <<journal, calls, files, runtime, current, stage, op, Ghosts>>

\* The result is success only if the tool acted and every mark is closed.
FinishCall(c) ==
  /\ HasTurn(c) /\ stage[c] = "after"
  /\ \/ Finalize(c, "failed", TRUE)
     \/ /\ c \in acted /\ \A f \in File : marks[c][f].at # "open"
        /\ Finalize(c, "success", FALSE)
  /\ UNCHANGED <<files, Ghosts>>

\* A hook, a middleware or the tool raises, or its outcome is lost.
ToolRaises(c) ==
  /\ HasTurn(c) /\ stage[c] \in {"hooks", "run"}
  /\ Finalize(c, "failed", TRUE)
  /\ UNCHANGED <<files, Ghosts>>

\* The messages of a parallel batch, in order, once all are settled.
AnswerBatch ==
  /\ runtime = "calls" /\ current \in Parallel
  /\ \A c \in Batch(current) : calls[c].row = "settled"
  /\ LET c == Min(Missing(current))
     IN  /\ calls' = [calls EXCEPT ![c] = Answered(calls[c])]
         /\ runtime' = NextCall(c)
  /\ UNCHANGED <<journal, marks, files, current, stage, op, Ghosts>>

\* run_turn is cancelled, or raises (the provider, the database).
CancelTurn ==
  /\ runtime \in {"model", "calls"}
  /\ runtime' = "cancelled" /\ stage' = [c \in Call |-> "none"]
  /\ UNCHANGED <<durable, files, current, op, Ghosts>>

Interrupt ==
  /\ journal' = [journal EXCEPT ![current] = "interrupted"]
  /\ runtime' = "idle" /\ current' = 0 /\ stage' = [c \in Call |-> "none"]
  /\ UNCHANGED <<calls, marks, files, op, Ghosts>>

TurnRaises == runtime \in {"model", "calls"} /\ Interrupt

\* The recovery of a cancelled turn raises.
CancelRecoveryFails == runtime = "cancelled" /\ Interrupt
-------------------------------------------------------------------------------
(***************************************************************************)
(* Restoring files: what recovery, undo and rewind have in common.         *)
(***************************************************************************)
Begin(kind, turns) ==
  [NoOp EXCEPT !.kind = kind, !.turns = turns, !.was = files, !.left = files]

\* Variant: the files are written whatever they hold by now.
RestorableAlways(c, f) == TRUE

Restorable(c, f) == files[f] = marks[c][f].after

\* restore_scoped_file, remove_scoped_file: the newest checkpoint first, and
\* only over the content the call left.
RestoreFile ==
  /\ op.todo # {}
  /\ \E r \in op.todo :
       LET c == r[1] f == r[2] before == marks[r[1]][r[2]].before
       IN  /\ \A q \in op.todo : q[1] <= c
           /\ Restorable(c, f)
           /\ files' = [files EXCEPT ![f] = before]
           /\ op' = [op EXCEPT !.todo = @ \ {r}, !.left[f] = before]
  /\ UNCHANGED <<durable, runtime, current, stage, Ghosts>>

\* _rollback_file_states: what the operation wrote and nobody else changed.
RolledBack ==
  [f \in File |-> IF op.left[f] # op.was[f] /\ files[f] = op.left[f]
                  THEN op.was[f] ELSE files[f]]

\* A file has changed meanwhile, or cannot be written, or the undo or rewind
\* cannot be recorded.  Recovery goes on to the next call; the others give up.
RestoreFails ==
  /\ op.todo # {} \/ op.kind \in {"undo", "rewind"}
  /\ files' = RolledBack
  /\ IF op.kind = "recovery"
     THEN /\ op' = [op EXCEPT !.todo = {}, !.call = 0, !.verdict[op.call] = "failed"]
          /\ UNCHANGED <<runtime, current>>
     ELSE op' = NoOp /\ runtime' = "idle" /\ current' = 0
  /\ UNCHANGED <<durable, stage, Ghosts>>

(***************************************************************************)
(* recover_interrupted_turns: at startup, before a turn, and when a turn   *)
(* is cancelled; the newest turn first.                                    *)
(***************************************************************************)
BeginRecovery ==
  /\ runtime \in {"starting", "idle", "cancelled"} /\ Recoverable # {}
  /\ op' = Begin("recovery", {Max(Recoverable)})
  /\ runtime' = "restoring" /\ current' = 0
  /\ UNCHANGED <<durable, files, stage, Ghosts>>

SessionReady ==
  /\ runtime = "starting" /\ Recoverable = {}
  /\ runtime' = "idle"
  /\ UNCHANGED <<durable, files, current, stage, op, Ghosts>>

Recovering(t) == op.kind = "recovery" /\ op.turns = {t} /\ op.todo = {}
Unjudged(t) == {c \in Pending(t) : op.verdict[c] = "none"}

Checkpointed(c) == {f \in File : c \in Live(f)}

\* The file is as before the call, or as the call is known to have left it.
Proven(c, f) ==
  \/ files[f] = marks[c][f].before
  \/ marks[c][f].at = "closed" /\ files[f] = marks[c][f].after

Judged(c, verdict) == [op EXCEPT !.verdict[c] = verdict, !.call = 0]

\* The decision for the oldest pending call.
JudgeCall(t) ==
  /\ Recovering(t) /\ op.call = 0 /\ Unjudged(t) # {}
  /\ LET c == Min(Unjudged(t))
         changed == {f \in Checkpointed(c) : files[f] # marks[c][f].before}
     IN  \/ calls[c].row = "intent" /\ op' = Judged(c, "notrun")
         \/ /\ calls[c].row # "intent"
            /\ Checkpointed(c) = {} \/ \E f \in Checkpointed(c) : ~Proven(c, f)
            /\ op' = Judged(c, "failed")
         \/ /\ calls[c].row # "intent" /\ Checkpointed(c) # {}
            /\ \A f \in Checkpointed(c) : Proven(c, f)
            /\ op' = [op EXCEPT !.call = c, !.todo = {<<c, f>> : f \in changed},
                                !.was = files, !.left = files]
  /\ UNCHANGED <<durable, files, runtime, current, stage, Ghosts>>

\* The files of a call are restored.
CallUndone(t) ==
  /\ Recovering(t) /\ op.call # 0
  /\ op' = Judged(op.call, "undone")
  /\ UNCHANGED <<durable, files, runtime, current, stage, Ghosts>>

\* Variant: every result of the turn is answered, whether it has been or not.
ReplyAgain(c) ==
  IF op.verdict[c] # "none" THEN Answered(Settled(calls[c], op.verdict[c]))
  ELSE IF ~calls[c].asked THEN calls[c]
  ELSE IF calls[c].row = "none" THEN Answered(Settled(calls[c], "notrun"))
  ELSE Answered(calls[c])

\* What recovery makes of a call: its verdict; for a call that was asked for
\* but not recorded, that it was not run; for a result whose message is
\* missing, that message.
Reply(c) ==
  IF op.verdict[c] # "none" THEN Answered(Settled(calls[c], op.verdict[c]))
  ELSE IF ~calls[c].asked \/ calls[c].answers > 0 THEN calls[c]
  ELSE IF calls[c].row = "none" THEN Answered(Settled(calls[c], "notrun"))
  ELSE Answered(calls[c])

\* Restored: of the calls rolled back, and what a call that is not pending
\* left incomplete without having changed its file.
Retired(c, f) ==
  \/ op.verdict[c] = "undone" /\ c \in Live(f)
  \/ op.verdict[c] = "none" /\ marks[c][f].at = "open" /\ files[f] = marks[c][f].before

\* finalize_interrupted_recovery: one transaction.
FinishRecovery(t) ==
  /\ Recovering(t) /\ op.call = 0 /\ Unjudged(t) = {}
  /\ calls' = [c \in Call |-> IF c \in Batch(t) THEN Reply(c) ELSE calls[c]]
  /\ marks' = [c \in Call |-> [f \in File |->
       IF c \in Batch(t) /\ Retired(c, f)
       THEN [marks[c][f] EXCEPT !.at = "restored"] ELSE marks[c][f]]]
  /\ journal' = [journal EXCEPT ![t] = "recovered"]
  /\ op' = NoOp /\ runtime' = "starting"
  /\ UNCHANGED <<files, current, stage, Ghosts>>
-------------------------------------------------------------------------------
(***************************************************************************)
(* Undo and rewind.                                                        *)
(***************************************************************************)
Rows(T) == {r \in Call \X File : TurnOf[r[1]] \in T /\ r[1] \in Live(r[2])}
Chain(T, f) == {c \in Call : <<c, f>> \in Rows(T)}

\* Each edit found what the one before it had left.
Linked(T, f) ==
  \A c \in Chain(T, f) : c # Min(Chain(T, f)) =>
    marks[c][f].before = marks[Max({d \in Chain(T, f) : d < c})][f].after

Original(T, f) == marks[Min(Chain(T, f))][f].before

\* Variant: the file must be as the newest edit left it.
BoundaryNewest(T, f) == files[f] = marks[Max(Chain(T, f))][f].after

\* The file is where the chain, or an earlier try to restore it, left it.
Boundary(T, f) ==
  files[f] = Original(T, f) \/ \E c \in Chain(T, f) : files[f] = marks[c][f].after

\* The edits yet to be undone, from that boundary.
ToUndo(T, f) ==
  IF files[f] = Original(T, f) THEN {}
  ELSE LET c == Min({d \in Chain(T, f) : marks[d][f].after = files[f]})
       IN  {<<d, f>> : d \in {e \in Chain(T, f) : e <= c}}

\* _plan_checkpoint_restore refuses incomplete, broken and foreign chains.
Plannable(T) ==
  /\ \A r \in Rows(T) : marks[r[1]][r[2]].at = "closed"
  /\ \A f \in File : Chain(T, f) # {} => Linked(T, f) /\ Boundary(T, f)

Planned(kind, T) ==
  [Begin(kind, T) EXCEPT
     !.todo = UNION {ToUndo(T, f) : f \in {g \in File : Chain(T, g) # {}}}]

\* latest_file_checkpoints: the turn of the newest complete checkpoint.
Completed == {c \in Call : \E f \in File : marks[c][f].at = "closed"}

BeginUndo ==
  /\ runtime = "idle" /\ Completed # {}
  /\ LET T == {TurnOf[Max(Completed)]}
     IN  Plannable(T) /\ op' = Planned("undo", T)
  /\ runtime' = "restoring"
  /\ UNCHANGED <<durable, files, current, stage, Ghosts>>

\* mark_file_checkpoints_restored
MarkRestored(T) ==
  marks' = [c \in Call |-> [f \in File |->
    IF TurnOf[c] \in T /\ marks[c][f].at # "none"
    THEN [marks[c][f] EXCEPT !.at = "restored"] ELSE marks[c][f]]]

FinishUndo ==
  /\ op.kind = "undo" /\ op.todo = {}
  /\ MarkRestored(op.turns)
  /\ op' = NoOp /\ runtime' = "idle"
  /\ UNCHANGED <<journal, calls, files, current, stage, Ghosts>>

\* The turns from t on, in the transcript.
From(t) == {u \in Turn : u >= t /\ journal[u] \notin {"none", "deleted"}}

BeginRewind(t) ==
  /\ runtime = "idle" /\ t \in From(t)
  /\ Plannable(From(t)) /\ op' = Planned("rewind", From(t))
  /\ runtime' = "restoring"
  /\ UNCHANGED <<durable, files, current, stage, Ghosts>>

\* rewind_session: messages, calls and journal of the turns are deleted.
Deleted(T) ==
  /\ journal' = [u \in Turn |-> IF u \in T THEN "deleted" ELSE journal[u]]
  /\ calls' = [c \in Call |-> IF TurnOf[c] \in T THEN NoCall ELSE calls[c]]

FinishRewind ==
  /\ op.kind = "rewind" /\ op.todo = {}
  /\ Deleted(op.turns) /\ MarkRestored(op.turns)
  /\ op' = NoOp /\ runtime' = "idle"
  /\ UNCHANGED <<files, current, stage, Ghosts>>

\* /rewind without --files: the checkpoints stay.
RewindTranscript(t) ==
  /\ runtime = "idle" /\ t \in From(t)
  /\ Deleted(From(t))
  /\ UNCHANGED <<marks, files, runtime, current, stage, op, Ghosts>>
-------------------------------------------------------------------------------
(***************************************************************************)
(* Crashes, and edits from outside.                                        *)
(***************************************************************************)
Crash ==
  /\ runtime # "down" /\ crashes < MaxCrashes /\ crashes' = crashes + 1
  /\ runtime' = "down" /\ current' = 0
  /\ stage' = [c \in Call |-> "none"] /\ op' = NoOp
  /\ UNCHANGED <<durable, files, acted, kept, edits>>

\* start_session
Restart ==
  /\ runtime = "down" /\ runtime' = "starting"
  /\ UNCHANGED <<durable, files, current, stage, op, Ghosts>>

\* A call is between the two looks it takes at a file.
Attributed(f) == \E c \in Call : stage[c] # "none" /\ marks[c][f].at = "open"

\* A hand edit.  One that falls between the two looks of a call cannot be
\* told from what the call wrote.
HandEdit(f) ==
  /\ edits < MaxEdits /\ edits' = edits + 1
  /\ files' = [files EXCEPT ![f] = -(edits + 1)]
  /\ kept' = [kept EXCEPT ![f] = IF Attributed(f) THEN @ ELSE -(edits + 1)]
  /\ op' = IF op.kind = "none" THEN op ELSE [op EXCEPT !.clean = FALSE]
  /\ UNCHANGED <<durable, runtime, current, stage, acted, crashes>>

CallStep(c) ==
  \/ RefuseCall(c) \/ ApproveCall(c) \/ DispatchCall(c)
  \/ Checkpoint(c) \/ SkipTool(c)
  \/ \E f \in File : WriteFile(c, f) \/ CloseMark(c, f)
  \/ Act(c) \/ ToolReturns(c) \/ FinishCall(c) \/ ToolRaises(c)
  \/ HaltBatch(c)

Next ==
  \/ \E t \in Turn : StartTurn(t)
  \/ AskForTools \/ AnswerBatch \/ CompleteTurn
  \/ \E c \in Call : CallStep(c)
  \/ CancelTurn \/ TurnRaises \/ CancelRecoveryFails
  \/ BeginRecovery \/ SessionReady
  \/ \E t \in Turn : JudgeCall(t) \/ CallUndone(t) \/ FinishRecovery(t)
  \/ RestoreFile \/ RestoreFails
  \/ BeginUndo \/ FinishUndo
  \/ \E t \in Turn : BeginRewind(t) \/ RewindTranscript(t)
  \/ FinishRewind
  \/ Crash \/ Restart
  \/ \E f \in File : HandEdit(f)

Spec == Init /\ [][Next]_vars
-------------------------------------------------------------------------------
\* What a file held before Ash touched it, or since it was last edited by
\* hand, is still there or in a checkpoint that can be restored, through any
\* number of edits, crashes, recoveries, undos and rewinds.
OriginalKept ==
  \A f \in File : files[f] # kept[f] =>
    \E c \in Live(f) : marks[c][f].before = kept[f]

\* The model is told the truth: a call that "was not run" did nothing, one
\* that succeeded did act, and of one that "was rolled back" nothing is left.
AnswersHonest ==
  \A c \in Call :
    /\ calls[c].outcome = "notrun" => c \notin acted
    /\ calls[c].outcome = "success" => c \in acted
    /\ calls[c].outcome = "undone" => \A f \in File : files[f] # c

\* "Hash-proven partial restores can be retried": wherever an undo or a rewind
\* stops, and if no file was edited by hand meanwhile, it can be begun again.
RestoreRetriable ==
  op.kind \in {"undo", "rewind"} /\ op.clean => Plannable(op.turns)

\* "Completed work is retained": no step of a recovery takes away the work of
\* a call that is known to have succeeded, but to put back what it found when
\* the restoration that brought that work back fails.
CompletedWorkRetained ==
  [][op.kind = "recovery" /\ UNCHANGED edits => \A f \in File :
       LET c == files[f]
       IN  c \in Call /\ calls[c].outcome = "success"
             => \/ files'[f] = c
                \/ op.was[f] # c /\ files'[f] = op.was[f]]_vars

\* Before the model is asked again, every call of a turn that was cut short has
\* been answered, whatever cut it short and however often.
InterruptedAnswered ==
  runtime = "model" =>
    \A t \in Turn : journal[t] \in {"started", "interrupted", "recovered"} =>
      \A c \in Batch(t) : calls[c].asked => calls[c].answers = 1

==============================================================================
