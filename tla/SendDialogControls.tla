-------------------------- MODULE SendDialogControls --------------------------
(***************************************************************************)
(* SendBreadcrumbsDialog's fee section and coin-control frame together.    *)
(* They share the dialog's lifecycle: the constructor builds both (and a   *)
(* new process has a null static coinControl), setModel connects both,    *)
(* and the process ends with the dialog.  Between those steps the user     *)
(* works either frame, one slot at a time on the GUI thread.               *)
(***************************************************************************)
EXTENDS FeeSection

CONSTANTS Texts, ValidAddrs, KnownAddrs, Coins, NoDestination,
          DesignerChangeEnabled

VARIABLES features, changeChecked, changeText, changeEnabled, changeLabel,
          destChange, selected

CC == INSTANCE CoinControl

feeVars == vars

coinVars == <<features, changeChecked, changeText, changeEnabled, changeLabel,
              destChange, selected>>

allVars == <<feeVars, coinVars>>

ControlsInit == Init /\ CC!Init

\* The constructor of a new process builds both frames.
ControlsConstruct == Construct /\ CC!Construct

\* setModel: the coin-control part connects the options' signal, shows the
\* frame as the option says and updates labels, which changes no state.
ControlsSetModel == SetModel /\ UNCHANGED coinVars

\* The process ends; the static coinControl goes with it, and the next
\* constructor starts a null one.
ControlsDestroy == Destroy /\ UNCHANGED coinVars

FeeUserNext ==
    \/ on_buttonChooseFee_clicked \/ on_buttonMinimizeFee_clicked
    \/ SlideSmartFee \/ ClickFeeRadio \/ ClickCustomRadio \/ EditCustomFee
    \/ ToggleMinimumFee \/ ToggleFreeTx

ControlsNext ==
    \/ ControlsConstruct \/ ControlsSetModel \/ ControlsDestroy
    \/ FeeUserNext /\ UNCHANGED coinVars
    \/ CC!UserNext /\ UNCHANGED feeVars

\* As in FeeSection, every step is a user's action or a start or exit of
\* the program, and none is owed: no fairness.
ControlsSpec == ControlsInit /\ [][ControlsNext]_allVars

-----------------------------------------------------------------------------
(* Properties.                                                             *)

\* Both frames' state has its type.
ControlsTypeOK == TypeOK /\ CC!TypeOK

\* The custom change address coinControl carries is the one the dialog
\* shows as the wallet's own (coinControlChangeEdited, ...ChangeChecked,
\* the constructor and the options' switch).
DestChangeShown == CC!DestChangeShown
====
