------------------------ MODULE PluginLifecycleProofs -------------------------
(***************************************************************************)
(* Theorems about PluginLifecycle, for any number of trees: types, the     *)
(* plugin that stays quiesced, and the calls as an implementation of the   *)
(* atomic steps of PluginSlot.                                             *)
(***************************************************************************)
EXTENDS PluginLifecycle, TLAPS

\* The journal in memory is the one on disk, but for the tree just created.
JournalKnown ==
  /\ call.at \in Working \cup Undoing =>
       journal.phase = "prepared" /\ call.known = [journal EXCEPT !.new = call.known.new]
  /\ call.at \in {"committed", "cleaned", "finishing"} =>
       journal.phase = "committed" /\ call.known = journal
  /\ journal.phase = "none" => journal.previous = NoTree

\* What was installed is whole, and in one of its places, until the commit;
\* from the commit on, what is installed is.
TreesKept ==
  /\ \A t \in filled : t <= made
  /\ IF journal.phase = "prepared"
     THEN \/ journal.previous = NoTree
          \/ journal.previous \in filled /\ journal.previous \in {live, moved}
     ELSE live = NoTree \/ live \in filled

\* How far a call has come, forwards and, once it failed, backwards.
Before == {"prepared", "vacated"}
Placed == {"made", "named", "filled", "recorded", "activated"}

Forwards ==
  LET j == call.known
  IN  /\ call.at = "prepared" => live = j.previous
      /\ call.at = "vacated" => live = NoTree
      /\ call.at \in Working /\ j.operation = "uninstall" =>
           /\ call.at \notin {"made", "named", "filled"}
           /\ j.recordTo = NoTree
           /\ call.at \in Placed => live = NoTree
      /\ call.at \in Before /\ j.operation = "install" =>
           j.recordTo \in {NoTree, made + 1} /\ made < MaxTrees
      /\ call.at \in Placed /\ j.operation = "install" =>
           /\ live # NoTree /\ live # j.previous
           /\ j.recordTo \in {NoTree, live}
           /\ call.at \notin {"made", "named"} => live \in filled
      /\ call.at \in {"recorded", "activated"} => record = j.recordTo

Backwards ==
  LET j == call.known
  IN  /\ call.at \in {"unmade", "unrecorded", "restored"} => live = j.previous
      /\ call.at \in {"unrecorded", "restored"} => record = j.recordWas
      /\ call.at \in {"cleaned", "unmade", "unrecorded", "restored"} => moved = NoTree

CallInvariant == PluginTypeOK /\ JournalKnown /\ TreesKept /\ Forwards /\ Backwards
-------------------------------------------------------------------------------
LEMMA CallInvariantInit == Init => CallInvariant
<1> SUFFICES ASSUME Init PROVE CallInvariant
  OBVIOUS
<1> USE DEF Init, NoTree, Some, Tree
<1>1. NoJournal \in Journal /\ NoJournal.phase = "none" /\ NoJournal.previous = NoTree
  BY DEF NoJournal, Journal
<1>2. NoCohort \in Cohort
  BY DEF NoCohort, Cohort, Quiesced
<1>3. call.at = "idle" /\ call \in [at : At, known : Journal]
  BY <1>1 DEF At
<1>4. disabled \in BOOLEAN
  OBVIOUS
<1>5. live \in Some /\ moved \in Some /\ record \in Some /\ filled \in SUBSET Tree
      /\ made \in 0..MaxTrees
  BY PluginAssumption
<1>6. PluginTypeOK
  BY <1>1, <1>2, <1>3, <1>4, <1>5 DEF PluginTypeOK, Working
<1>7. JournalKnown /\ TreesKept /\ Forwards /\ Backwards
  BY <1>1, <1>3 DEF JournalKnown, TreesKept, Forwards, Backwards, Working, Undoing, Before,
     Placed
<1> QED
  BY <1>6, <1>7 DEF CallInvariant

\* What a call writes into its journal when it begins.
LEMMA PlannedJournal ==
  ASSUME PluginTypeOK, NEW operation \in {"install", "uninstall"},
         NEW recordTo \in Some, NEW activates \in BOOLEAN
  PROVE  LET j == Planned(operation, recordTo, activates)
         IN  /\ j \in Journal /\ j.phase = "prepared" /\ j.operation = operation
             /\ j.previous = live /\ j.new = NoTree
             /\ j.recordWas = record /\ j.recordTo = recordTo
<1>1. (activates /\ disabled) \in BOOLEAN
  BY DEF PluginTypeOK
<1> QED
  BY <1>1 DEF PluginTypeOK, Planned, Journal, Some

\* Every call begins with a journal that names the tree that is installed.
LEMMA BeginKeeps ==
  ASSUME CallInvariant, NEW operation \in {"install", "uninstall"},
         NEW recordTo \in Some, NEW activates \in BOOLEAN,
         operation = "install" => recordTo \in {NoTree, made + 1} /\ made < MaxTrees,
         operation = "uninstall" => recordTo = NoTree,
         Prepares(Planned(operation, recordTo, activates))
  PROVE  CallInvariant'
<1> DEFINE j == Planned(operation, recordTo, activates)
<1>1. j \in Journal /\ j.phase = "prepared" /\ j.operation = operation
      /\ j.previous = live /\ j.new = NoTree /\ j.recordTo = recordTo
  BY PlannedJournal DEF CallInvariant
<1>2. Settled /\ journal' = j /\ call' = [at |-> "prepared", known |-> j]
      /\ UNCHANGED <<Trees, State>>
  BY DEF Prepares
<1> HIDE DEF j
<1>3. call' \in [at : At, known : Journal] /\ call'.at = "prepared" /\ call'.known = j
  BY <1>1, <1>2 DEF At, Working
<1>4. moved = NoTree
  BY <1>2 DEF CallInvariant, PluginTypeOK, JournalKnown, Settled
<1>5. PluginTypeOK'
  BY <1>1, <1>2, <1>3, <1>4 DEF CallInvariant, PluginTypeOK, Trees, State, Working
<1>6. JournalKnown' /\ Backwards'
  BY <1>1, <1>2, <1>3 DEF JournalKnown, Backwards, Working, Undoing, Journal
<1>7. TreesKept'
  BY <1>1, <1>2, <1>3 DEF CallInvariant, PluginTypeOK, TreesKept, Settled, Trees
<1>8. Forwards'
  BY <1>1, <1>2, <1>3 DEF Forwards, Before, Placed, Trees, Working
<1> QED
  BY <1>5, <1>6, <1>7, <1>8 DEF CallInvariant

LEMMA CallInvariantStep == CallInvariant /\ [Next]_vars => CallInvariant'
<1> SUFFICES ASSUME CallInvariant, [Next]_vars PROVE CallInvariant'
  OBVIOUS
<1> USE PluginAssumption
<1> USE DEF CallInvariant, PluginTypeOK, JournalKnown, TreesKept, Forwards, Backwards,
            Journal, NoJournal, Cohort, NoCohort, At, Working, Undoing, Quiesced, Before, Placed,
            Some, NoTree, Tree, Trees, State, Goes, Idle
<1>1. CASE BeginInstall
  <2>1. made < MaxTrees /\ made + 1 \in Some
    BY <1>1 DEF BeginInstall, Prepares
  <2>2. PICK recordTo \in {NoTree, made + 1}, activates \in BOOLEAN :
          Prepares(Planned("install", recordTo, activates))
    BY <1>1 DEF BeginInstall
  <2> QED
    BY <2>1, <2>2, BeginKeeps
<1>2. CASE BeginUninstall
  BY <1>2, BeginKeeps DEF BeginUninstall
<1>3. CASE Vacate
  BY <1>3 DEF Vacate
<1>4. CASE MakeLive
  <2>1. made < MaxTrees /\ made + 1 \in Tree
    BY <1>4 DEF MakeLive
  <2> QED
    BY <1>4, <2>1 DEF MakeLive
<1>5. CASE NameLive
  BY <1>5 DEF NameLive
<1>6. CASE Fill
  BY <1>6 DEF Fill
<1>7. CASE WriteRecord
  BY <1>7 DEF WriteRecord
<1>8. CASE Activate
  <2>1. disabled' \in BOOLEAN
    BY <1>8 DEF Activate
  <2> QED
    BY <1>8, <2>1 DEF Activate
<1>9. CASE Commit
  BY <1>9 DEF Commit
<1>10. CASE RemoveMoved
  BY <1>10 DEF RemoveMoved, MayFinish
<1>11. CASE ClearJournal
  BY <1>11 DEF ClearJournal
<1>12. CASE CleanupFails
  BY <1>12 DEF CleanupFails
<1>13. CASE Fail
  BY <1>13 DEF Fail
<1>14. CASE Abandon
  BY <1>14 DEF Abandon
<1>15. CASE Recover
  BY <1>15 DEF Recover
<1>16. CASE RemoveNew
  BY <1>16 DEF RemoveNew, MayUndo
<1>17. CASE PutBack
  BY <1>17 DEF PutBack, MayUndo
<1>18. CASE RestoreRecord
  BY <1>18 DEF RestoreRecord
<1>19. CASE RestoreActivation
  BY <1>19 DEF RestoreActivation, MayWrite
<1>20. CASE Toggle
  BY <1>20 DEF Toggle, MayWrite
<1>21. CASE PlanCohort
  <2>1. cohort' \in Cohort
    BY <1>21 DEF PlanCohort
  <2>2. UNCHANGED <<Trees, record, disabled, journal, call>>
    BY <1>21 DEF PlanCohort
  <2> QED
    BY <2>1, <2>2
<1>22. CASE Quiesce
  BY <1>22 DEF Quiesce
<1>23. CASE ValidateCohort
  BY <1>23 DEF ValidateCohort
<1>24. CASE FinishCohort
  BY <1>24 DEF FinishCohort
<1>25. CASE CohortRestarts
  BY <1>25 DEF CohortRestarts
<1>26. CASE UNCHANGED vars
  BY <1>26 DEF vars
<1> QED
  BY <1>1, <1>2, <1>3, <1>4, <1>5, <1>6, <1>7, <1>8, <1>9, <1>10, <1>11, <1>12, <1>13, <1>14, <1>15, <1>16, <1>17, <1>18, <1>19, <1>20, <1>21, <1>22, <1>23, <1>24, <1>25, <1>26 DEF Next

\* The journals in memory and on disk, the trees and the place of the call
\* agree in every reachable state.
THEOREM CallsKeepTrack == Spec => []CallInvariant
<1>1. Init => CallInvariant
  BY CallInvariantInit
<1>2. CallInvariant /\ [Next]_vars => CallInvariant'
  BY CallInvariantStep
<1> QED
  BY <1>1, <1>2, PTL DEF Spec

\* Types, and what the journal says of the trees (PluginTypeOK): a tree is away
\* from its place only under a journal that knows it.
THEOREM PluginTypeCorrect == Spec => []PluginTypeOK
<1>1. CallInvariant => PluginTypeOK
  BY DEF CallInvariant
<1> QED
  BY <1>1, CallsKeepTrack, PTL
-------------------------------------------------------------------------------
\* A plugin that a coordinated update has quiesced stays disabled until the
\* update is finished (CohortQuiesced): every other writer of the activation
\* state asks for the pending update under the lock of that state.
THEOREM QuiescedStaysDisabled == Spec => []CohortQuiesced
<1>1. Init => CohortQuiesced
  BY DEF Init, CohortQuiesced, NoCohort, Quiesced
<1>2. CohortQuiesced /\ [Next]_vars => CohortQuiesced'
  <2> SUFFICES ASSUME CohortQuiesced, [Next]_vars PROVE CohortQuiesced'
    OBVIOUS
  <2> USE DEF CohortQuiesced
  <2>1. ASSUME UNCHANGED <<disabled, cohort>> PROVE CohortQuiesced'
    BY <2>1
  <2>2. ASSUME MayWrite, UNCHANGED cohort PROVE CohortQuiesced'
    BY <2>2 DEF MayWrite
  <2>3. CASE Activate \/ RestoreActivation \/ Toggle
    <3>1. (MayWrite /\ UNCHANGED cohort) \/ UNCHANGED <<disabled, cohort>>
      BY <2>3 DEF Activate, RestoreActivation, Toggle
    <3> QED
      BY <3>1, <2>1, <2>2
  <2>4. CASE PlanCohort
    BY <2>4 DEF PlanCohort, NoCohort, Quiesced
  <2>5. CASE Quiesce
    BY <2>5 DEF Quiesce
  <2>6. CASE ValidateCohort
    BY <2>6 DEF ValidateCohort, Quiesced
  <2>7. CASE FinishCohort
    BY <2>7 DEF FinishCohort, NoCohort, Quiesced
  <2>8. CASE CohortRestarts
    BY <2>8 DEF CohortRestarts, NoCohort, Quiesced
  <2>9. CASE BeginInstall \/ BeginUninstall
    <3>1. UNCHANGED <<disabled, cohort>>
      BY <2>9 DEF BeginInstall, BeginUninstall, Prepares, State
    <3> QED
      BY <3>1, <2>1
  <2>10. CASE \/ Vacate \/ MakeLive \/ NameLive \/ Fill \/ WriteRecord \/ Commit
              \/ RemoveMoved \/ ClearJournal \/ CleanupFails \/ Fail \/ Abandon
              \/ Recover \/ RemoveNew \/ PutBack \/ RestoreRecord
    <3>1. UNCHANGED <<disabled, cohort>>
      BY <2>10 DEF Vacate, MakeLive, NameLive, Fill, WriteRecord, Commit, RemoveMoved,
         ClearJournal, CleanupFails, Fail, Abandon, Recover, RemoveNew, PutBack,
         RestoreRecord, State
    <3> QED
      BY <3>1, <2>1
  <2>11. CASE UNCHANGED vars
    BY <2>11, <2>1 DEF vars
  <2> QED
    BY <2>3, <2>4, <2>5, <2>6, <2>7, <2>8, <2>9, <2>10, <2>11 DEF Next
<1> QED
  BY <1>1, <1>2, PTL DEF Spec
-------------------------------------------------------------------------------
(***************************************************************************)
(* The calls implement PluginSlot.                                         *)
(***************************************************************************)
\* The tree and the provenance of the abstract slot.
SlotTree == Kept(IF journal.phase = "prepared" THEN journal.previous ELSE live)
SlotProvenance == IF journal.phase = "prepared" THEN journal.recordWas ELSE record

\* While the journal is prepared, only what it names counts.
LEMMA PreparedStutters ==
  ASSUME CallInvariant, CallInvariant', journal.phase = "prepared",
         journal'.phase = "prepared", journal'.previous = journal.previous,
         journal'.recordWas = journal.recordWas
  PROVE  UNCHANGED <<SlotTree, SlotProvenance>>
BY DEF CallInvariant, TreesKept, SlotTree, SlotProvenance, Kept

\* Otherwise, only what is under the plugin's name.
LEMMA OtherwiseStutters ==
  ASSUME CallInvariant, CallInvariant', journal.phase # "prepared",
         journal'.phase # "prepared", UNCHANGED <<live, record>>
  PROVE  UNCHANGED <<SlotTree, SlotProvenance>>
BY DEF CallInvariant, TreesKept, SlotTree, SlotProvenance, Kept

\* A call that begins names what is installed.
LEMMA BeginStutters ==
  ASSUME CallInvariant, CallInvariant', BeginInstall \/ BeginUninstall
  PROVE  UNCHANGED <<SlotTree, SlotProvenance>>
<1>1. /\ journal.phase = "none" /\ journal'.phase = "prepared"
      /\ journal'.previous = live /\ journal'.recordWas = record
      /\ UNCHANGED <<live, record>>
  BY DEF BeginInstall, BeginUninstall, Prepares, Planned, Settled, Trees, State
<1> QED
  BY <1>1 DEF CallInvariant, TreesKept, SlotTree, SlotProvenance, Kept

\* A journal is cleared after its cleanup, or once everything is as it was.
LEMMA ClearStutters ==
  ASSUME CallInvariant, CallInvariant', ClearJournal
  PROVE  UNCHANGED <<SlotTree, SlotProvenance>>
<1>1. journal'.phase = "none" /\ UNCHANGED <<live, record, moved, filled>>
  BY DEF ClearJournal, NoJournal, Trees, State
<1>2. CASE call.at = "cleaned"
  BY <1>1, <1>2, OtherwiseStutters DEF CallInvariant, JournalKnown
<1>3. CASE call.at = "restored"
  <2>1. /\ journal.phase = "prepared" /\ live = journal.previous
        /\ record = journal.recordWas
    BY <1>3 DEF CallInvariant, JournalKnown, Backwards, Undoing, PluginTypeOK, Journal
  <2> QED
    BY <2>1, <1>1 DEF CallInvariant, TreesKept, SlotTree, SlotProvenance, Kept
<1> QED
  BY <1>2, <1>3 DEF ClearJournal

\* The commit installs the new tree, whole and with its record, or none.
LEMMA CommitDecides ==
  ASSUME CallInvariant, CallInvariant', Commit
  PROVE  \/ \E t \in Tree : SlotTree' = t /\ SlotProvenance' \in {t, NoTree}
         \/ SlotTree' = NoTree /\ SlotProvenance' = NoTree
<1>1. call.at \in {"recorded", "activated"} /\ UNCHANGED <<live, record, filled, moved>>
  BY DEF Commit, Trees, State
<1>2. call.known \in Journal /\ live \in Some /\ record = call.known.recordTo
  BY <1>1 DEF CallInvariant, PluginTypeOK, Forwards
<1>3. SlotTree' = Kept(live)' /\ SlotProvenance' = record'
  BY <1>2 DEF Commit, Journal, SlotTree, SlotProvenance
<1>4. CASE call.known.operation = "install"
  <2>1. live # NoTree /\ live \in filled /\ record \in {NoTree, live}
    BY <1>1, <1>2, <1>4 DEF CallInvariant, Forwards, Placed
  <2>2. live \in Tree /\ Kept(live)' = live
    BY <1>1, <1>2, <2>1 DEF Kept, Some
  <2> QED
    BY <1>1, <1>3, <2>1, <2>2
<1>5. CASE call.known.operation = "uninstall"
  <2>1. live = NoTree /\ record = NoTree
    BY <1>1, <1>2, <1>5 DEF CallInvariant, Forwards, Placed, Working
  <2> QED
    BY <1>1, <1>3, <2>1 DEF Kept
<1> QED
  BY <1>2, <1>4, <1>5 DEF Journal

LEMMA SlotStep ==
  ASSUME CallInvariant, CallInvariant', [Next]_vars
  PROVE  \/ UNCHANGED <<SlotTree, SlotProvenance>>
         \/ \E t \in Tree : SlotTree' = t /\ SlotProvenance' \in {t, NoTree}
         \/ SlotTree' = NoTree /\ SlotProvenance' = NoTree
<1>1. CASE BeginInstall \/ BeginUninstall
  BY <1>1, BeginStutters
<1>2. CASE Commit
  BY <1>2, CommitDecides
<1>3. CASE ClearJournal
  BY <1>3, ClearStutters
<1>4. CASE NameLive
  <2>1. /\ journal.phase = "prepared" /\ journal'.phase = "prepared"
        /\ journal'.previous = journal.previous /\ journal'.recordWas = journal.recordWas
    BY <1>4 DEF NameLive, CallInvariant, JournalKnown, Working, PluginTypeOK, Journal
  <2> QED
    BY <2>1, PreparedStutters
<1>5. CASE \/ Vacate \/ MakeLive \/ Fill \/ WriteRecord \/ Activate
           \/ RemoveNew \/ PutBack \/ RestoreRecord \/ RestoreActivation
  <2>1. call.at \in Working \cup Undoing /\ UNCHANGED journal
    BY <1>5 DEF Vacate, MakeLive, Fill, WriteRecord, Activate, RemoveNew, PutBack,
       RestoreRecord, RestoreActivation, Working, Undoing
  <2>2. journal.phase = "prepared"
    BY <2>1 DEF CallInvariant, JournalKnown
  <2> QED
    BY <2>1, <2>2, PreparedStutters
<1>6. CASE RemoveMoved \/ CleanupFails
  <2>1. journal.phase = "committed" /\ UNCHANGED <<journal, live, record>>
    BY <1>6 DEF RemoveMoved, CleanupFails, State, CallInvariant, JournalKnown
  <2> QED
    BY <2>1, OtherwiseStutters
<1>7. ASSUME UNCHANGED <<journal, live, record>>
      PROVE  UNCHANGED <<SlotTree, SlotProvenance>>
  BY <1>7, PreparedStutters, OtherwiseStutters
<1>8. CASE \/ Fail \/ Abandon \/ Recover \/ Toggle \/ PlanCohort \/ Quiesce
           \/ ValidateCohort \/ FinishCohort \/ CohortRestarts \/ UNCHANGED vars
  BY <1>7, <1>8 DEF Fail, Abandon, Recover, Toggle, PlanCohort, Quiesce, ValidateCohort,
     FinishCohort, CohortRestarts, Trees, State, vars
<1> QED
  BY <1>1, <1>2, <1>3, <1>4, <1>5, <1>6, <1>8 DEF Next

\* The calls, with their failures, crashes, rollbacks and recoveries, are
\* atomic (SlotImplemented), for any number of trees: tree and provenance
\* change together, at the commit, and never to anything that is not whole.
THEOREM LifecycleImplementsSlot == Spec => SlotImplemented
<1>1. Init => Slot!SlotInit
  BY DEF Init, NoJournal, Kept, Slot!SlotInit
<1>2. CallInvariant /\ CallInvariant' /\ [Next]_vars => [Slot!SlotNext]_(Slot!slotVars)
  BY SlotStep DEF SlotTree, SlotProvenance, Slot!SlotNext, Slot!Install, Slot!Uninstall,
     Slot!slotVars
<1> QED
  BY <1>1, <1>2, CallsKeepTrack, PTL DEF Spec, SlotImplemented, Slot!SlotSpec
==============================================================================
