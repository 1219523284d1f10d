----------------------------- MODULE CoinControl -----------------------------
(***************************************************************************)
(* The coin-control frame of SendBreadcrumbsDialog                         *)
(* (src/src/qt/sendcoinsdialog.cpp): the slots that edit the static        *)
(* BreadcrumbControlDialog::coinControl -- its custom change address       *)
(* destChange and its selection of coins -- and the send that uses and     *)
(* then clears it.                                                         *)
(*                                                                         *)
(* phase is the dialog's lifecycle, owned by FeeSection; this module only  *)
(* reads it.  The option fCoinControlFeatures persists in QSettings        *)
(* across restarts; coinControl is a static of the process and starts      *)
(* null (CCoinControl's constructor calls SetNull, which clears destChange *)
(* and the selection -- that class is outside the repository).  The       *)
(* strings typed are a few members of Texts, and IsValid and getPubKey     *)
(* are membership of ValidAddrs and KnownAddrs.  The labels'  wording and  *)
(* colours are abstracted to which of the four messages is shown.          *)
(***************************************************************************)
CONSTANTS
    Texts,          \* what the user types into lineEditBreadcrumbControlChange
    ValidAddrs,     \* the texts CBitcoinAddress::IsValid accepts
    KnownAddrs,     \* the valid ones whose key the wallet holds (getPubKey)
    Coins,          \* outputs the BreadcrumbControlDialog can select
    NoDestination,  \* CNoDestination
    DesignerChangeEnabled  \* whether the form makes the line edit enabled

ASSUME ValidAddrs \subseteq Texts /\ KnownAddrs \subseteq ValidAddrs
ASSUME "" \in Texts /\ "" \notin ValidAddrs

VARIABLES
    phase,          \* the dialog's lifecycle (FeeSection): "down", "built", "ready"
    features,       \* OptionsModel::getBreadcrumbControlFeatures; the frame shows
    changeChecked,  \* checkBoxBreadcrumbControlChange
    changeText,     \* lineEditBreadcrumbControlChange->text()
    changeEnabled,  \* lineEditBreadcrumbControlChange->isEnabled()
    changeLabel,    \* which message labelBreadcrumbControlChangeLabel shows
    destChange,     \* coinControl->destChange
    selected        \* the outputs coinControl has selected

Labels == {"none", "invalid", "unknown", "known"}

TypeOK ==
    /\ features \in BOOLEAN /\ changeChecked \in BOOLEAN
    /\ changeText \in Texts /\ changeEnabled \in BOOLEAN
    /\ changeLabel \in Labels
    /\ destChange \in KnownAddrs \cup {NoDestination}
    /\ selected \subseteq Coins

\* The controls as the form builds them.  The form is outside the
\* repository; whether it enables the line edit is the constant
\* DesignerChangeEnabled (the upstream form disables it).
DesignerControls ==
    /\ changeChecked' = FALSE /\ changeText' = "" /\ changeLabel' = "none"
    /\ changeEnabled' = DesignerChangeEnabled

\* The first start: the option as QSettings holds it, the form's
\* controls, a null coinControl.
Init ==
    /\ features \in BOOLEAN
    /\ changeChecked = FALSE /\ changeText = "" /\ changeLabel = "none"
    /\ changeEnabled = DesignerChangeEnabled
    /\ destChange = NoDestination /\ selected = {}

-----------------------------------------------------------------------------
(* Actions.                                                                *)

\* A coinControlChangeEdited that keeps the old destChange until the new
\* text is verified.
ValidateChange_NoReset(t) ==
    /\ changeLabel' = CASE t = ""              -> "none"
                        [] t \notin ValidAddrs -> "invalid"
                        [] t \notin KnownAddrs -> "unknown"
                        [] OTHER               -> "known"
    /\ destChange' = IF t \in KnownAddrs THEN t ELSE destChange

\* coinControlChangeEdited(text) with the model set: destChange is reset
\* to CNoDestination, then set to the address only when it is valid and
\* the wallet knows its key; the label says which case it was.
ValidateChange(t) ==
    /\ changeLabel' = CASE t = ""              -> "none"
                        [] t \notin ValidAddrs -> "invalid"
                        [] t \notin KnownAddrs -> "unknown"
                        [] OTHER               -> "known"
    /\ destChange' = IF t \in KnownAddrs THEN t ELSE NoDestination

\* A new process constructs the dialog: the controls are the designer's,
\* the static coinControl is null again, the option is what was saved.
Construct ==
    /\ DesignerControls
    /\ destChange' = NoDestination /\ selected' = {}
    /\ UNCHANGED features

\* The user turns coin control on or off in the options dialog
\* (coinControlFeaturesChanged, connected by setModel):
\* coinControlFeatureChanged shows or hides the frame, and SetNull
\* clears coinControl when the features are turned off.
coinControlFeatureChanged ==
    /\ phase = "ready"
    /\ \E checked \in BOOLEAN :
           /\ features' = checked
           /\ IF ~checked
                 THEN destChange' = NoDestination /\ selected' = {}
                 ELSE UNCHANGED <<destChange, selected>>
    /\ UNCHANGED <<phase, changeChecked, changeText, changeEnabled, changeLabel>>

\* pushButtonBreadcrumbControl: the modal BreadcrumbControlDialog (outside
\* the repository) leaves some selection of outputs in coinControl.
coinControlButtonClicked ==
    /\ phase = "ready" /\ features
    /\ \E s \in SUBSET Coins : selected' = s
    /\ UNCHANGED <<phase, features, changeChecked, changeText, changeEnabled,
                   changeLabel, destChange>>

\* checkBoxBreadcrumbControlChange toggled: unchecked clears destChange
\* and the label, checked re-validates the text already entered; the line
\* edit is enabled exactly when the box is checked.
coinControlChangeChecked ==
    /\ phase = "ready" /\ features
    /\ changeChecked' = ~changeChecked
    /\ IF changeChecked
          THEN destChange' = NoDestination /\ changeLabel' = "none"
          ELSE ValidateChange(changeText)
    /\ changeEnabled' = changeChecked'
    /\ UNCHANGED <<phase, features, changeText, selected>>

\* lineEditBreadcrumbControlChange textEdited: coinControlChangeEdited.
coinControlChangeEdited ==
    /\ phase = "ready" /\ features /\ changeEnabled
    /\ \E t \in Texts \ {changeText} :
           /\ changeText' = t
           /\ ValidateChange(t)
    /\ UNCHANGED <<phase, features, changeChecked, changeEnabled, selected>>

\* on_sendButton_clicked, as far as coinControl goes: prepareTransaction
\* is given coinControl when the features are on; when sendBreadcrumbs
\* returns OK, UnSelectAll.  A cancelled unlock or a failed prepare or
\* send leaves coinControl as it was.
SendBreadcrumbs ==
    /\ phase = "ready"
    /\ \/ selected' = {}
       \/ UNCHANGED selected
    /\ UNCHANGED <<phase, features, changeChecked, changeText, changeEnabled,
                   changeLabel, destChange>>

\* The steps a user takes while the dialog is up.
UserNext ==
    \/ coinControlFeatureChanged \/ coinControlButtonClicked
    \/ coinControlChangeChecked \/ coinControlChangeEdited
    \/ SendBreadcrumbs

-----------------------------------------------------------------------------
(* Properties.                                                             *)

\* A custom change address is used only when the dialog shows it: if
\* coinControl->destChange is set, the box is checked, the line edit
\* holds that address and the label names it as the wallet's own.  Every
\* edit, toggle, feature switch and restart must keep the static
\* destChange in step with controls that are rebuilt or re-validated.
DestChangeShown ==
    destChange # NoDestination =>
        /\ changeChecked
        /\ changeText = destChange
        /\ changeLabel = "known"
====
