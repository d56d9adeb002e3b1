--------------------------- MODULE PluginLifecycle ---------------------------
(***************************************************************************)
(* Installing, replacing, updating and removing one user plugin            *)
(* (src/src/ash/plugins/lifecycle.py) with its write-ahead journal         *)
(* (lifecycle_journal.py), its activation bit (state.py) and the           *)
(* coordinated update of several plugins (commands/extensions.py).         *)
(*                                                                         *)
(* The calls hold the lifecycle lock of the plugin root, so there is one   *)
(* at a time; each begins by recovering what an interrupted call left.     *)
(* Between two file operations the process may die.  A coordinated update  *)
(* writes the activation state under another lock, and so in the middle of *)
(* such a call.                                                            *)
(*                                                                         *)
(* A tree is its inode.  Nobody but Ash touches the plugin root.  A tree   *)
(* that is half removed is recognised by its inode and removed again, so a *)
(* removal is one step.  Staging copies and trees put aside under a        *)
(* conflict name are never read again, and are left out.                   *)
(***************************************************************************)
EXTENDS Integers

CONSTANT MaxTrees  \* bound: how many trees are created

ASSUME PluginAssumption == MaxTrees \in Nat

Tree   == 1..MaxTrees
NoTree == 0
Some   == Tree \cup {NoTree}

VARIABLES
  live,      \* the tree under the plugin's name
  moved,     \* the tree under the backup or quarantine name of the journal
  filled,    \* the trees whose contents are complete
  record,    \* the managed install record: the tree it describes
  disabled,  \* whether the plugin is in disabled_plugins
  journal,   \* the journal on disk
  call,      \* the call that holds the lifecycle lock
  cohort,    \* the coordinated update
  made       \* how many trees were created

vars == <<live, moved, filled, record, disabled, journal, call, cohort, made>>

Journal == [phase : {"none", "prepared", "committed"},
            operation : {"install", "uninstall"},
            previous : Some,              \* previous_tree; a backup is planned for one
            new : Some,                   \* live_tree
            recordWas : Some, recordTo : Some,
            activates : BOOLEAN,          \* the activation is part of the call
            disabledWas : BOOLEAN]
NoJournal == [phase |-> "none", operation |-> "install", previous |-> NoTree,
              new |-> NoTree, recordWas |-> NoTree, recordTo |-> NoTree,
              activates |-> FALSE, disabledWas |-> FALSE]

\* Where a call is: before its commit, after it, undoing (rolled back by
\* itself or by a recovery), or finishing what an earlier call committed.
Working == {"prepared", "vacated", "made", "named", "filled", "recorded", "activated"}
Undoing == {"undoing", "unmade", "unrecorded", "restored"}
At == {"idle", "committed", "cleaned", "finishing"} \cup Working \cup Undoing

\* A coordinated update: it has chosen its component, has quiesced it, has
\* validated the graph it will enable.
Quiesced == {"quiesced", "validated"}
Cohort == [at : {"none", "planned"} \cup Quiesced,
           restore : BOOLEAN]             \* in restore_enabled
NoCohort == [at |-> "none", restore |-> FALSE]

\* Types, and what the journal says of the trees: a tree is away from its
\* place only under a journal that knows it, and the journal that decides is
\* the one in memory, except for the tree just created.
PluginTypeOK ==
  /\ live \in Some /\ moved \in Some /\ record \in Some
  /\ filled \in SUBSET Tree
  /\ disabled \in BOOLEAN
  /\ journal \in Journal
  /\ call \in [at : At, known : Journal]
  /\ cohort \in Cohort
  /\ made \in 0..MaxTrees
  /\ moved # NoTree => moved = journal.previous /\ moved # live
  /\ live # NoTree => live <= made
  /\ journal.phase = "none" => call.at = "idle" /\ (live = NoTree \/ live \in filled)
  /\ call.at \in Working \ {"made"} => call.known = journal
  /\ call.at = "made" => call.known = [journal EXCEPT !.new = live]

Init ==
  /\ live = NoTree /\ moved = NoTree /\ filled = {} /\ record = NoTree
  /\ disabled = FALSE
  /\ journal = NoJournal
  /\ call = [at |-> "idle", known |-> NoJournal]
  /\ cohort = NoCohort
  /\ made = 0

Idle == [at |-> "idle", known |-> NoJournal]
Goes(at) == call' = [call EXCEPT !.at = at]

Trees == <<live, moved, filled, made>>
State == <<record, disabled, cohort>>
-------------------------------------------------------------------------------
(***************************************************************************)
(* The calls, up to their commit.                                          *)
(***************************************************************************)
\* No call runs, and none was interrupted.
Settled == call.at = "idle" /\ journal.phase = "none"

Prepares(j) ==
  /\ Settled
  /\ journal' = j
  /\ call' = [at |-> "prepared", known |-> j]
  /\ UNCHANGED <<Trees, State>>

Planned(operation, recordTo, activates) ==
  [phase |-> "prepared", operation |-> operation, previous |-> live, new |-> NoTree,
   recordWas |-> record, recordTo |-> recordTo, activates |-> activates,
   disabledWas |-> activates /\ disabled]

\* install_local_plugin, over nothing or over an older tree (replace), from a
\* directory or from a tracked source; or the update of a tracked plugin,
\* which leaves its activation alone.
BeginInstall ==
  /\ made < MaxTrees
  /\ \/ \E recordTo \in {NoTree, made + 1} : Prepares(Planned("install", recordTo, TRUE))
     \/ /\ record # NoTree
        /\ Prepares(Planned("install", made + 1, FALSE))

\* uninstall_local_plugin
BeginUninstall == live \in filled /\ Prepares(Planned("uninstall", NoTree, TRUE))

\* The tree that is there is renamed to its backup or quarantine name.
Vacate ==
  /\ call.at = "prepared" /\ live # NoTree
  /\ moved' = live /\ live' = NoTree
  /\ Goes("vacated")
  /\ UNCHANGED <<filled, made, State, journal>>

\* create_child, and with_live_tree in memory.
MakeLive ==
  /\ call.known.operation = "install"
  /\ call.at = IF call.known.previous = NoTree THEN "prepared" ELSE "vacated"
  /\ live' = made + 1 /\ made' = made + 1
  /\ call' = [at |-> "made", known |-> [call.known EXCEPT !.new = made + 1]]
  /\ UNCHANGED <<moved, filled, State, journal>>

NameLive ==
  /\ call.at = "made"
  /\ journal' = call.known
  /\ Goes("named")
  /\ UNCHANGED <<Trees, State>>

\* The snapshot is written into it and verified.
Fill ==
  /\ call.at = "named"
  /\ filled' = filled \cup {live}
  /\ Goes("filled")
  /\ UNCHANGED <<live, moved, made, State, journal>>

WriteRecord ==
  /\ call.at = IF call.known.operation = "install" THEN "filled" ELSE "vacated"
  /\ record' = call.known.recordTo
  /\ Goes("recorded")
  /\ UNCHANGED <<Trees, disabled, cohort, journal>>

\* Variant: the bit is written although a coordinated update owns it.
MayWriteUnasked == TRUE

\* transition_extension_state_checked, under the lock of the state: refused
\* for a plugin of a coordinated update.
MayWrite == cohort.at \notin Quiesced

\* The bit is still what the call found; the plugin is then enabled.
Activate ==
  /\ call.at = "recorded" /\ call.known.activates
  /\ MayWrite /\ disabled = call.known.disabledWas
  /\ disabled' = FALSE
  /\ Goes("activated")
  /\ UNCHANGED <<Trees, record, cohort, journal>>

Commit ==
  /\ call.at = IF call.known.activates THEN "activated" ELSE "recorded"
  /\ journal' = [call.known EXCEPT !.phase = "committed"]
  /\ call' = [at |-> "committed", known |-> journal']
  /\ UNCHANGED <<Trees, State>>
-------------------------------------------------------------------------------
(***************************************************************************)
(* After the commit, and failures before it.                               *)
(***************************************************************************)
\* _finish_committed_lifecycle_at: what a recovery checks before it cleans up.
MayFinish(j) ==
  /\ live = j.new
  /\ record = j.recordTo
  /\ j.activates => ~disabled

\* The call goes on to its cleanup, or a recovery takes it up.
RemoveMoved ==
  /\ \/ call.at = "committed"
     \/ call.at = "finishing" /\ MayFinish(call.known)
  /\ moved' = NoTree
  /\ Goes("cleaned")
  /\ UNCHANGED <<live, filled, made, State, journal>>

ClearJournal ==
  /\ call.at \in {"cleaned", "restored"}
  /\ journal' = NoJournal
  /\ call' = Idle
  /\ UNCHANGED <<Trees, State>>

\* The cleanup of a committed call fails: the journal stays.
CleanupFails ==
  /\ call.at \in {"committed", "cleaned"}
  /\ moved' \in {moved, NoTree}
  /\ call' = Idle
  /\ UNCHANGED <<live, filled, made, State, journal>>

\* Any step before the commit may fail: what it had done is rolled back by
\* the journal in memory.
Fail ==
  /\ call.at \in Working
  /\ Goes("undoing")
  /\ UNCHANGED <<Trees, State, journal>>

\* The process dies, or a recovery or a rollback fails or refuses to go on.
Abandon ==
  /\ call.at # "idle"
  /\ call' = Idle
  /\ UNCHANGED <<Trees, State, journal>>
-------------------------------------------------------------------------------
(***************************************************************************)
(* Recovery (_recover_plugin_lifecycle_at), at the start of every call and *)
(* of every process.                                                       *)
(***************************************************************************)
Recover ==
  /\ call.at = "idle" /\ journal.phase # "none"
  /\ call' = [at |-> IF journal.phase = "committed" THEN "finishing" ELSE "undoing",
              known |-> journal]
  /\ UNCHANGED <<Trees, State, journal>>

\* _rollback_prepared_install_tree and _rollback_prepared_uninstall_tree go on
\* if the tree of before is under the moved name, or was never moved; with none
\* before, if the tree to remove is known to be Ash's.  Otherwise they refuse.
MayUndo(j) ==
  IF j.previous = NoTree
  THEN live \in {NoTree, j.new}
  ELSE moved = j.previous \/ (live = j.previous /\ j.new = NoTree)

\* The new tree is removed, or put aside when the journal does not name it.
RemoveNew ==
  /\ call.at = "undoing" /\ MayUndo(call.known)
  /\ live \notin {NoTree, call.known.previous}
  /\ live' = NoTree
  /\ UNCHANGED <<moved, filled, made, State, journal, call>>

\* Variant: the moved tree stays where it is.
PutBackNothing ==
  /\ call.at = "undoing" /\ MayUndo(call.known)
  /\ live \in {NoTree, call.known.previous}
  /\ Goes("unmade")
  /\ UNCHANGED <<Trees, State, journal>>

PutBack ==
  /\ call.at = "undoing" /\ MayUndo(call.known)
  /\ live \in {NoTree, call.known.previous}
  /\ live' = call.known.previous /\ moved' = NoTree
  /\ Goes("unmade")
  /\ UNCHANGED <<filled, made, State, journal>>

RestoreRecord ==
  /\ call.at = "unmade"
  /\ record \in {call.known.recordWas, call.known.recordTo}
  /\ record' = call.known.recordWas
  /\ Goes("unrecorded")
  /\ UNCHANGED <<Trees, disabled, cohort, journal>>

RestoreActivation ==
  /\ call.at = "unrecorded"
  /\ IF call.known.activates
     THEN MayWrite /\ disabled' = call.known.disabledWas
     ELSE UNCHANGED disabled
  /\ Goes("restored")
  /\ UNCHANGED <<Trees, record, cohort, journal>>
-------------------------------------------------------------------------------
(***************************************************************************)
(* The activation, and the coordinated update of the plugin's component.   *)
(***************************************************************************)
\* set_local_plugin_enabled, under both locks.
Toggle ==
  /\ Settled /\ live # NoTree
  /\ MayWrite
  /\ disabled' = ~disabled
  /\ UNCHANGED <<Trees, record, journal, call, cohort>>

\* update_all_local_plugins has loaded the graph, of which the plugin is part.
PlanCohort ==
  /\ Settled /\ live # NoTree /\ cohort.at = "none"
  /\ cohort' = [NoCohort EXCEPT !.at = "planned"]
  /\ UNCHANGED <<Trees, record, disabled, journal, call>>

\* An update holds the lock of the state from its first file operation to its
\* commit, for the validator of its publication.
StateFree ==
  ~(call.at \in Working \ {"prepared"} /\ ~call.known.activates)

\* begin_coordinated_plugin_update
Quiesce ==
  /\ cohort.at = "planned" /\ StateFree
  /\ cohort' = [at |-> "quiesced", restore |-> ~disabled]
  /\ disabled' = TRUE
  /\ UNCHANGED <<Trees, record, journal, call>>

\* The updates of its targets are calls like any other; then the graph that is
\* to be enabled is loaded and validated.
ValidateCohort ==
  /\ Settled /\ cohort.at = "quiesced"
  /\ cohort' = [cohort EXCEPT !.at = "validated"]
  /\ UNCHANGED <<Trees, record, disabled, journal, call>>

\* finish_coordinated_plugin_update
FinishCohort ==
  /\ cohort.at = "validated" /\ StateFree /\ disabled
  /\ disabled' = ~cohort.restore
  /\ cohort' = NoCohort
  /\ UNCHANGED <<Trees, record, journal, call>>

\* The process of the coordinated update ends, by a crash or an error: a
\* planned one is forgotten, one that was begun is resumed from its intent.
CohortRestarts ==
  /\ cohort.at \in {"planned", "validated"}
  /\ cohort' = IF cohort.at = "planned" THEN NoCohort
               ELSE [cohort EXCEPT !.at = "quiesced"]
  /\ UNCHANGED <<Trees, record, disabled, journal, call>>

Next ==
  \/ BeginInstall \/ BeginUninstall
  \/ Vacate \/ MakeLive \/ NameLive \/ Fill \/ WriteRecord \/ Activate \/ Commit
  \/ RemoveMoved \/ ClearJournal \/ CleanupFails \/ Fail \/ Abandon
  \/ Recover \/ RemoveNew \/ PutBack \/ RestoreRecord \/ RestoreActivation
  \/ Toggle \/ PlanCohort \/ Quiesce \/ ValidateCohort \/ FinishCohort
  \/ CohortRestarts

Spec == Init /\ [][Next]_vars
-------------------------------------------------------------------------------
\* A plugin that a coordinated update has quiesced stays disabled until the
\* update is finished, whatever installs, removals, rollbacks and recoveries
\* of it are under way ("without exposing an enabled broken graph").
CohortQuiesced == cohort.at \in Quiesced => disabled

\* A coordinated update that was begun can be resumed and finished ("rerunning
\* update-all resumes the same targets"): no interrupted call waits for the
\* update to give up the activation it must restore, while the update, which
\* starts by recovering that call, waits for it.
UpdateResumes ==
  call.at = "idle" /\ journal.phase = "prepared" /\ journal.activates
    => cohort.at \notin Quiesced

\* The tree that is installed, or that recovery brings back: lost unless it is
\* whole and in one of its two places.
Lost == -1
Kept(t) == IF t = NoTree \/ (t \in filled /\ t \in {live, moved}) THEN t ELSE Lost

Slot == INSTANCE PluginSlot WITH
  tree <- Kept(IF journal.phase = "prepared" THEN journal.previous ELSE live),
  provenance <- IF journal.phase = "prepared" THEN journal.recordWas ELSE record

\* The calls, with their crashes and recoveries, are atomic: tree and
\* provenance change together, when the journal is committed, and never to
\* anything that is not whole.
SlotImplemented == Slot!SlotSpec
==============================================================================
