--------------------------------- MODULE Tui ---------------------------------
(***************************************************************************)
(* The full-screen console of crates/cpg-tui/src/app.rs: run_loop takes at *)
(* most one key, polls the session, handles the event it returns and draws *)
(* what synchronize copied out of the session's view.                      *)
(*                                                                         *)
(* Text is abstract: a draft is the endpoint it parses to, a confirmation  *)
(* reads YES or does not, and a message is where it is shown.              *)
(***************************************************************************)
EXTENDS SessionClient

CONSTANT
  Garbled      \* a draft that parse_port_strict or the session's validation refuses

Modals == {"None", "ProxyEditor", "Consent", "Repair", "LaunchResult", "ErrorResult",
           "Help", "QuitWhileBusy"}
Drafts == Endpoints \cup {Blank, Garbled}

VARIABLES
  at,            \* "start", "input", "poll", "handle", "exited", "failed"
  event,         \* what poll returned
  modal, screen, \* Model.modal, Model.view
  draft, inline, \* the editor's fields and editor_error
  saving,        \* saving_operation, 0 for none
  typed,         \* confirm_buffer reads YES
  notice,        \* Model.notice is set
  result,        \* the operation whose outcome the modal shows, 0 for an error without one
  exiting,       \* exit_requested
  refreshed,     \* refreshed_launch
  opened         \* the proposal on screen when its dialog opened

dialog == <<draft, inline, saving, typed, result, opened>>
tui == <<at, event, modal, screen, notice, exiting, refreshed, dialog>>

TuiInit ==
  /\ at = "start" /\ event = "None"
  /\ modal = "None" /\ screen = View
  /\ draft = Blank /\ inline = FALSE /\ saving = 0 /\ typed = FALSE /\ notice = FALSE
  /\ result = 0 /\ exiting = FALSE /\ refreshed = 0 /\ opened = 0

Synchronize == screen' = View'

StartUp ==
  /\ at = "start" /\ at' = "input" /\ Refresh
  /\ UNCHANGED <<event, modal, notice, exiting, refreshed, dialog>> /\ Synchronize

------------------------------------------------------------------------------
(* key and apply_action.                                                   *)

\* A key starts by clearing the notice and ends with the look at the session.
Pressed == at = "input" /\ at' = "poll" /\ UNCHANGED <<event, refreshed>>
Quiet == notice' = FALSE
Free == Pressed /\ ~Busy /\ modal # "QuitWhileBusy"
Dialog == UNCHANGED dialog

\* No key within the slice, a released key, or one the modal ignores.
NoKey == Pressed /\ UNCHANGED <<session, modal, screen, exiting, dialog, notice>>
IgnoredKey ==
  /\ Pressed /\ Quiet /\ UNCHANGED <<session, modal, exiting, dialog>> /\ Synchronize

CtrlC ==
  /\ Pressed /\ Quiet /\ Busy /\ CancelOperation /\ Synchronize
  /\ UNCHANGED <<modal, exiting, dialog>>

\* Q while busy asks first; its answers.
AskToQuit ==
  /\ Pressed /\ Quiet /\ Busy /\ modal # "QuitWhileBusy" /\ modal' = "QuitWhileBusy"
  /\ UNCHANGED <<session, exiting, dialog>> /\ Synchronize

KeepRunning ==
  /\ Pressed /\ Quiet /\ modal = "QuitWhileBusy" /\ modal' = "None"
  /\ UNCHANGED <<session, exiting, dialog>> /\ Synchronize

\* Mutant: leaving waits for the operation to end by itself.
QuitWithoutCancel ==
  /\ Pressed /\ Quiet /\ modal = "QuitWhileBusy" /\ modal' = "None"
  /\ exiting' = TRUE /\ UNCHANGED session
  /\ Dialog /\ Synchronize

CancelAndQuit ==
  /\ Pressed /\ Quiet /\ modal = "QuitWhileBusy" /\ modal' = "None"
  /\ exiting' = TRUE /\ CancelOperation
  /\ Dialog /\ Synchronize

Quit ==
  /\ Free /\ Quiet /\ modal = "None" /\ exiting' = TRUE
  /\ UNCHANGED <<session, modal, dialog>> /\ Synchronize

Help ==
  /\ Free /\ Quiet /\ modal = "None" /\ modal' = "Help"
  /\ UNCHANGED <<session, exiting, dialog>> /\ Synchronize

Close ==
  /\ Free /\ Quiet /\ modal # "None" /\ modal' = "None"
  /\ typed' = FALSE /\ draft' = Blank /\ inline' = FALSE /\ result' = 0 /\ opened' = 0
  /\ UNCHANGED <<session, exiting, saving>> /\ Synchronize

\* set_operation_outcome.
ShowOutcome(op, failed) ==
  /\ modal' = (IF failed THEN "ErrorResult" ELSE "LaunchResult") /\ result' = op
  /\ Quiet

\* publish_refusal: the proposals a refusal used up leave the screen with it.
PublishRefusal == ShowOutcome(0, TRUE) /\ UNCHANGED <<draft, inline, saving, typed, opened>>

\* Mutant: R refreshes under an open dialog too.
PressRefreshAnywhere ==
  /\ Free /\ Quiet /\ operation < MaxOps /\ Refresh
  /\ UNCHANGED <<modal, exiting, dialog>> /\ Synchronize

PressRefresh ==
  /\ Free /\ Quiet
  /\ modal \in {"LaunchResult", "ErrorResult"} \/ (modal = "None" /\ screen.canEdit)
  /\ operation < MaxOps /\ Refresh /\ Synchronize
  /\ UNCHANGED <<modal, exiting, dialog>>

PressLaunch ==
  /\ Free /\ modal = "None" /\ screen.canLaunch
  /\ \/ operation < MaxOps /\ Launch /\ Quiet /\ UNCHANGED <<modal, dialog>>
     \/ Refused /\ PublishRefusal
  /\ UNCHANGED exiting /\ Synchronize

\* A key whose action the view does not offer leaves a notice.
Unavailable ==
  /\ Free /\ notice' = TRUE
  /\ \/ modal = "None" /\ (~screen.canLaunch \/ screen.consent = 0 \/ screen.repair = 0)
     \/ modal \in {"LaunchResult", "ErrorResult"} /\ screen.consent = 0
  /\ UNCHANGED <<session, modal, exiting, dialog>> /\ Synchronize

OpenEditor ==
  /\ Free /\ Quiet /\ modal \in {"None", "LaunchResult", "ErrorResult"} /\ screen.canEdit
  /\ modal' = "ProxyEditor" /\ draft' = View.endpoint /\ inline' = FALSE /\ saving' = 0
  /\ UNCHANGED <<session, exiting, typed, result, opened>> /\ Synchronize

OpenConsent ==
  /\ Free /\ Quiet /\ modal \in {"None", "LaunchResult", "ErrorResult"} /\ screen.consent # 0
  /\ IF consent # 0
       THEN modal' = "Consent" /\ typed' = FALSE /\ opened' = screen.consent
       ELSE UNCHANGED <<modal, typed, opened>>
  /\ UNCHANGED <<session, exiting, draft, inline, saving, result>> /\ Synchronize

OpenRepair ==
  /\ Free /\ Quiet /\ modal = "None" /\ screen.repair # 0
  /\ modal' = "Repair" /\ typed' = FALSE /\ opened' = screen.repair
  /\ UNCHANGED <<session, exiting, draft, inline, saving, result>> /\ Synchronize

\* Typing, erasing and pasting; an error goes away when the draft changes.
EditDraft ==
  /\ Free /\ Quiet /\ modal = "ProxyEditor"
  /\ draft' \in Drafts \ {draft} /\ inline' = FALSE
  /\ UNCHANGED <<session, modal, exiting, saving, typed, result, opened>> /\ Synchronize

Type ==
  /\ Free /\ Quiet /\ modal \in {"Consent", "Repair"}
  /\ typed' = ~typed
  /\ UNCHANGED <<session, modal, exiting, draft, inline, saving, result, opened>> /\ Synchronize

\* retain_editor_error.
Retain ==
  /\ modal' = "ProxyEditor" /\ inline' = TRUE
  /\ UNCHANGED <<draft, typed, result, opened, notice>>

\* C in a result.
CopyDiagnostic ==
  /\ Free /\ notice' = TRUE /\ modal \in {"LaunchResult", "ErrorResult"}
  /\ UNCHANGED <<session, modal, exiting, dialog>> /\ Synchronize

\* Enter in the editor: parse_port_strict here, validation in the session.
Save ==
  /\ Free /\ Quiet /\ modal = "ProxyEditor"
  /\ \/ draft \notin Endpoints /\ inline' = TRUE
        /\ UNCHANGED <<session, saving>>
     \/ operation < MaxOps /\ SaveProxy(draft)
        /\ saving' = operation' /\ inline' = FALSE
  /\ UNCHANGED <<modal, exiting, draft, typed, result, opened>> /\ Synchronize

\* Enter in a confirmation: the proposal the session offers at that moment.
Submit(offer) ==
  IF modal = "Repair" THEN RepairLaunch(offer) ELSE SetConsent(offer)

Confirm ==
  /\ Free /\ modal \in {"Consent", "Repair"} /\ typed' = FALSE
  /\ LET offer == IF modal = "Repair" THEN repair ELSE consent
     IN \/ /\ typed /\ offer # 0 /\ operation < MaxOps /\ Submit(offer)
           /\ modal' = "None" /\ Quiet /\ opened' = 0 /\ UNCHANGED <<draft, inline, saving, result>>
        \/ /\ typed /\ offer # 0
           /\ Refused /\ ShowOutcome(0, TRUE) /\ opened' = 0 /\ UNCHANGED <<draft, inline, saving>>
        \/ /\ ~typed \/ offer = 0
           /\ Quiet /\ UNCHANGED <<session, modal, draft, inline, saving, result, opened>>
  /\ UNCHANGED exiting /\ Synchronize

Key ==
  \/ NoKey \/ IgnoredKey \/ CtrlC \/ AskToQuit \/ KeepRunning \/ CancelAndQuit \/ Quit
  \/ Help \/ Close \/ CopyDiagnostic \/ PressRefresh \/ PressLaunch \/ Unavailable
  \/ OpenEditor \/ OpenConsent \/ OpenRepair \/ EditDraft \/ Type \/ Save \/ Confirm
------------------------------------------------------------------------------
(* poll and handle_event.                                                  *)

NextRound == at' = IF exiting /\ ~Busy' THEN "exited" ELSE "input"

Poll ==
  /\ at = "poll"
  /\ \/ (~mail /\ UNCHANGED session) /\ UNCHANGED event /\ NextRound
     \/ OverBudget /\ UNCHANGED event /\ NextRound
     \/ Collect /\ event' = EventOf /\ at' = "handle"
  /\ UNCHANGED <<modal, notice, exiting, refreshed, dialog>> /\ Synchronize

Note == notice' = TRUE /\ UNCHANGED <<modal, dialog>>
ShowError == ShowOutcome(0, TRUE) /\ UNCHANGED <<draft, inline, saving, typed, opened>>
Nothing == UNCHANGED <<modal, notice, dialog>>
NoLaunchYet == launched.op = 0

\* Mutant: an error takes the place of a launch result.
OnFailureAlways == ShowError

OnFailure == IF NoLaunchYet THEN ShowError ELSE Note

OnSnapshot ==
  IF ~screen.error THEN Nothing
  ELSE IF modal = "None" /\ NoLaunchYet THEN ShowError
  ELSE IF ~NoLaunchYet THEN Note ELSE Nothing

\* Mutant: a save closes the editor whether or not it committed.
CloseEditorAlways ==
  IF saving # mutation.op THEN Nothing
  ELSE /\ saving' = 0 /\ modal' = "None" /\ notice' = TRUE
       /\ UNCHANGED <<draft, inline, typed, result, opened>>

\* apply_mutation_outcome: an outcome of another operation is not for the editor.
ApplyMutationOutcome ==
  IF saving # mutation.op THEN Nothing
  ELSE /\ saving' = 0
       /\ IF mutation.failed THEN Retain
          ELSE /\ modal' = "None" /\ notice' = TRUE
               /\ UNCHANGED <<draft, inline, typed, result, opened>>

OnMutation ==
  IF saving # 0 THEN ApplyMutationOutcome ELSE IF mutation.failed THEN ShowError ELSE Note

\* A launch is followed by one refresh, unless the user is leaving.
OnOperation ==
  /\ ShowOutcome(launched.op, launched.failed) /\ UNCHANGED <<draft, inline, saving, typed, opened>>
  /\ IF ~exiting /\ refreshed # launched.op
       THEN refreshed' = launched.op /\ Refresh
       ELSE UNCHANGED <<session, refreshed>>

Handle ==
  /\ at = "handle"
  /\ \/ event = "OperationFinished" /\ OnOperation
     \/ /\ \/ event = "SnapshotArrived" /\ OnSnapshot
           \/ event = "MutationFinished" /\ OnMutation
           \/ event = "MutationFailed" /\ OnFailure
        /\ UNCHANGED <<session, refreshed>>
  /\ Synchronize /\ event' = "None"
  /\ UNCHANGED exiting /\ NextRound

\* render fails, or panics under with_panic_guard: the loop drops its session,
\* which cancels the operation in hand.
DrawFails ==
  /\ at = "input" /\ at' = "failed" /\ latch' = (latch \/ Busy)
  /\ UNCHANGED <<Facts, mail, target, event, modal, screen, notice, exiting, refreshed, dialog>>
  /\ Session!Close

TuiTypeOK ==
  /\ at \in {"start", "input", "poll", "handle", "exited", "failed"}
  /\ event \in {"None", "SnapshotArrived", "OperationFinished", "MutationFailed", "MutationFinished"}
  /\ modal \in Modals /\ screen \in Views /\ draft \in Drafts
  /\ {inline, notice, exiting} \subseteq BOOLEAN
  /\ {saving, result, refreshed} \subseteq 0..operation
  /\ typed \in BOOLEAN /\ opened \in 0..revision
==============================================================================
