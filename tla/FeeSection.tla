------------------------------ MODULE FeeSection ------------------------------
(***************************************************************************)
(* The transaction-fee section of SendBreadcrumbsDialog                    *)
(* (src/src/qt/sendcoinsdialog.cpp): the constructor that migrates and     *)
(* loads the QSettings, setModel that connects the controls' signals to    *)
(* the slots and syncs the wallet's global fee variables, the slots run    *)
(* by the user's clicks, and the destructor that saves the controls.       *)
(*                                                                         *)
(* The process is restarted any number of times: the settings persist,    *)
(* the globals and CWallet::minTxFee are set anew by the wallet at each    *)
(* start (code outside the repository, so they are inputs of Construct).  *)
(* While no dialog exists, ui keeps the controls of the last one.         *)
(* Labels (updateSmartFeeLabel, updateMinFeeLabel, the coin control        *)
(* labels) only display and are left out.                                  *)
(***************************************************************************)
EXTENDS Integers

CONSTANTS
    Absent,                   \* a key QSettings does not contain
    Fees,                     \* amounts typed into customFee, or saved by 0.9
    MinFees,                  \* values CWallet::minTxFee takes at a start
    StartFees,                \* payTxFee as the wallet sets it (-paytxfee)
    StartTargets,             \* nTxConfirmTarget as the wallet sets it
    SliderPositions,          \* positions of sliderSmartFee (range 0..24)
    DEFAULT_TRANSACTION_FEE

VARIABLES
    settings,   \* the QSettings keys of the fee section
    phase,      \* "down": no dialog; "built": constructed; "ready": setModel ran
    ui,         \* the controls of the fee section
    enabled,    \* what updateFeeSectionControls last enabled
    globals,    \* nTxConfirmTarget, payTxFee, fPayAtLeastCustomFee, fSendFreeTransactions
    minTxFee    \* CWallet::minTxFee.GetFeePerK() of this run of the process

vars == <<settings, phase, ui, enabled, globals, minTxFee>>

Keys == {"fFeeSectionMinimized", "nFeeRadio", "nCustomFeeRadio",
         "nSmartFeeSliderPosition", "nTransactionFee", "fPayOnlyMinFee",
         "fSendFreeTransactions"}

Amounts == {0} \cup Fees \cup MinFees \cup StartFees \cup {DEFAULT_TRANSACTION_FEE}

Ui == [minimized : BOOLEAN, feeRadio : {0, 1}, customRadio : {0, 1},
       slider : SliderPositions, customFee : Amounts, minFeeBox : BOOLEAN,
       freeTx : BOOLEAN]

\* Widgets are enabled when the designer file makes them.
DesignerEnabled == [smart |-> TRUE, minBox |-> TRUE, customEdit |-> TRUE]

DesignerUi == [minimized |-> FALSE, feeRadio |-> 0, customRadio |-> 0,
               slider |-> 0, customFee |-> DEFAULT_TRANSACTION_FEE,
               minFeeBox |-> FALSE, freeTx |-> FALSE]

TypeOK ==
    /\ settings \in [fFeeSectionMinimized : BOOLEAN \cup {Absent},
                     nFeeRadio : {0, 1, Absent}, nCustomFeeRadio : {0, 1, Absent},
                     nSmartFeeSliderPosition : SliderPositions \cup {Absent},
                     nTransactionFee : Amounts \cup {Absent},
                     fPayOnlyMinFee : BOOLEAN \cup {Absent},
                     fSendFreeTransactions : BOOLEAN \cup {Absent}]
    /\ phase \in {"down", "built", "ready"}
    /\ ui \in Ui
    /\ enabled \in [{"smart", "minBox", "customEdit"} -> BOOLEAN]
    /\ globals \in [nTxConfirmTarget : 1..25, payTxFee : Amounts,
                    fPayAtLeastCustomFee : BOOLEAN, fSendFreeTransactions : BOOLEAN]
    /\ minTxFee \in MinFees

\* A settings file written by 0.9, which kept only nTransactionFee.
Init ==
    /\ \E fee \in Fees \cup {Absent} :
           settings = [k \in Keys |-> IF k = "nTransactionFee" THEN fee ELSE Absent]
    /\ phase = "down"
    /\ ui = DesignerUi
    /\ enabled = DesignerEnabled
    /\ \E t \in StartTargets, f \in StartFees :
           globals = [nTxConfirmTarget |-> t, payTxFee |-> f,
                      fPayAtLeastCustomFee |-> FALSE, fSendFreeTransactions |-> FALSE]
    /\ minTxFee \in MinFees

-----------------------------------------------------------------------------
(* Helpers.                                                                *)

ClampTo(x, lo, hi) == IF x < lo THEN lo ELSE IF x > hi THEN hi ELSE x

\* A compatibility rule that forgets to look for a saved nFeeRadio.
Migrate_NoRadioCheck(s) ==
    LET oldFee == s.nTransactionFee # Absent /\ s.nTransactionFee > 0
        Default(k, v) == IF s[k] = Absent THEN v ELSE s[k]
    IN  [fFeeSectionMinimized |-> Default("fFeeSectionMinimized", TRUE),
         nFeeRadio |-> IF oldFee THEN 1 ELSE Default("nFeeRadio", 0),
         nCustomFeeRadio |-> Default("nCustomFeeRadio", IF oldFee THEN 1 ELSE 0),
         nSmartFeeSliderPosition |-> Default("nSmartFeeSliderPosition", 0),
         nTransactionFee |-> Default("nTransactionFee", DEFAULT_TRANSACTION_FEE),
         fPayOnlyMinFee |-> Default("fPayOnlyMinFee", FALSE),
         fSendFreeTransactions |-> Default("fSendFreeTransactions", FALSE)]

\* The constructor's defaults, with the compatibility rule: a positive
\* nTransactionFee from before the fee section selects a custom fee paid
\* "at least".
Migrate(s) ==
    LET oldFee == s.nTransactionFee # Absent /\ s.nTransactionFee > 0
        Default(k, v) == IF s[k] = Absent THEN v ELSE s[k]
    IN  [fFeeSectionMinimized |-> Default("fFeeSectionMinimized", TRUE),
         nFeeRadio |-> Default("nFeeRadio", IF oldFee THEN 1 ELSE 0),
         nCustomFeeRadio |-> Default("nCustomFeeRadio", IF oldFee THEN 1 ELSE 0),
         nSmartFeeSliderPosition |-> Default("nSmartFeeSliderPosition", 0),
         nTransactionFee |-> Default("nTransactionFee", DEFAULT_TRANSACTION_FEE),
         fPayOnlyMinFee |-> Default("fPayOnlyMinFee", FALSE),
         fSendFreeTransactions |-> Default("fSendFreeTransactions", FALSE)]

\* The controls set from the settings, the radio ids clamped to 0..1.
LoadUi(s) ==
    [minimized |-> s.fFeeSectionMinimized,
     feeRadio |-> ClampTo(s.nFeeRadio, 0, 1),
     customRadio |-> ClampTo(s.nCustomFeeRadio, 0, 1),
     slider |-> s.nSmartFeeSliderPosition, customFee |-> s.nTransactionFee,
     minFeeBox |-> s.fPayOnlyMinFee, freeTx |-> s.fSendFreeTransactions]

\* The destructor's settings.setValue calls.
SaveUi(u) ==
    [fFeeSectionMinimized |-> u.minimized, nFeeRadio |-> u.feeRadio,
     nCustomFeeRadio |-> u.customRadio, nSmartFeeSliderPosition |-> u.slider,
     nTransactionFee |-> u.customFee, fPayOnlyMinFee |-> u.minFeeBox,
     fSendFreeTransactions |-> u.freeTx]

\* Custom fee controls left enabled under "pay only the minimum fee".
updateFeeSectionControls_IgnoreMinBox(u) ==
    [smart |-> u.feeRadio = 0, minBox |-> u.feeRadio = 1,
     customEdit |-> u.feeRadio = 1]

updateFeeSectionControls(u) ==
    [smart |-> u.feeRadio = 0, minBox |-> u.feeRadio = 1,
     customEdit |-> u.feeRadio = 1 /\ ~u.minFeeBox]

\* A target off by one: 24 - slider.
updateGlobalFeeVariables_OffByOne(g, u) ==
    IF u.feeRadio = 0
    THEN [g EXCEPT !.nTxConfirmTarget = 24 - ClampTo(u.slider, 0, 24),
                   !.payTxFee = 0,
                   !.fSendFreeTransactions = u.freeTx]
    ELSE [g EXCEPT !.nTxConfirmTarget = 25,
                   !.payTxFee = u.customFee,
                   !.fPayAtLeastCustomFee = (u.customRadio = 1),
                   !.fSendFreeTransactions = u.freeTx]

\* Smart fee: a confirmation target from the slider and no fixed fee.
\* Custom fee: the fee typed, per kilobyte or at least; the target is 25.
updateGlobalFeeVariables(g, u) ==
    IF u.feeRadio = 0
    THEN [g EXCEPT !.nTxConfirmTarget = 25 - ClampTo(u.slider, 0, 24),
                   !.payTxFee = 0,
                   !.fSendFreeTransactions = u.freeTx]
    ELSE [g EXCEPT !.nTxConfirmTarget = 25,
                   !.payTxFee = u.customFee,
                   !.fPayAtLeastCustomFee = (u.customRadio = 1),
                   !.fSendFreeTransactions = u.freeTx]

setMinimumFee(u, m) == [u EXCEPT !.customRadio = 0, !.customFee = m]

-----------------------------------------------------------------------------
(* Actions.                                                                *)

\* The process starts (the wallet sets minTxFee and the globals from its
\* options) and constructs the dialog: migrate the settings, load the
\* controls, minimizeFeeSection.  No signal is connected yet.
Construct ==
    /\ phase = "down"
    /\ LET s == Migrate(settings)
       IN  /\ settings' = s
           /\ ui' = LoadUi(s)
    /\ phase' = "built"
    /\ enabled' = DesignerEnabled
    /\ \E m \in MinFees, t \in StartTargets, f \in StartFees, free \in BOOLEAN :
           /\ minTxFee' = m
           /\ globals' = [nTxConfirmTarget |-> t, payTxFee |-> f,
                          fPayAtLeastCustomFee |-> FALSE,
                          fSendFreeTransactions |-> free]

\* A setModel that connects the signals but never syncs the globals.
SetModel_NoSync ==
    /\ phase = "built"
    /\ phase' = "ready"
    /\ enabled' = updateFeeSectionControls(ui)
    /\ UNCHANGED <<settings, ui, globals, minTxFee>>

\* setModel with a wallet model: connect the fee controls, then
\* updateFeeSectionControls and updateGlobalFeeVariables.
SetModel ==
    /\ phase = "built"
    /\ phase' = "ready"
    /\ enabled' = updateFeeSectionControls(ui)
    /\ globals' = updateGlobalFeeVariables(globals, ui)
    /\ UNCHANGED <<settings, ui, minTxFee>>

\* The user can reach the controls of the fee selection frame, which
\* minimizeFeeSection hides while the section is minimized.
FrameOpen == phase = "ready" /\ ~ui.minimized

on_buttonChooseFee_clicked ==
    /\ phase = "ready" /\ ui.minimized
    /\ ui' = [ui EXCEPT !.minimized = FALSE]
    /\ UNCHANGED <<settings, phase, enabled, globals, minTxFee>>

on_buttonMinimizeFee_clicked ==
    /\ FrameOpen
    /\ ui' = [ui EXCEPT !.minimized = TRUE]
    /\ UNCHANGED <<settings, phase, enabled, globals, minTxFee>>

\* sliderSmartFee valueChanged: updateGlobalFeeVariables.
SlideSmartFee ==
    /\ FrameOpen /\ enabled.smart
    /\ \E p \in SliderPositions \ {ui.slider} :
           /\ ui' = [ui EXCEPT !.slider = p]
           /\ globals' = updateGlobalFeeVariables(globals, ui')
    /\ UNCHANGED <<settings, phase, enabled, minTxFee>>

\* groupFee buttonClicked: updateFeeSectionControls, updateGlobalFeeVariables.
ClickFeeRadio ==
    /\ FrameOpen
    /\ \E r \in {0, 1} :
           /\ ui' = [ui EXCEPT !.feeRadio = r]
           /\ enabled' = updateFeeSectionControls(ui')
           /\ globals' = updateGlobalFeeVariables(globals, ui')
    /\ UNCHANGED <<settings, phase, minTxFee>>

\* groupCustomFee buttonClicked: updateGlobalFeeVariables.
ClickCustomRadio ==
    /\ FrameOpen /\ enabled.customEdit
    /\ \E r \in {0, 1} :
           /\ ui' = [ui EXCEPT !.customRadio = r]
           /\ globals' = updateGlobalFeeVariables(globals, ui')
    /\ UNCHANGED <<settings, phase, enabled, minTxFee>>

\* customFee valueChanged: updateGlobalFeeVariables.
EditCustomFee ==
    /\ FrameOpen /\ enabled.customEdit
    /\ \E v \in Fees \ {ui.customFee} :
           /\ ui' = [ui EXCEPT !.customFee = v]
           /\ globals' = updateGlobalFeeVariables(globals, ui')
    /\ UNCHANGED <<settings, phase, enabled, minTxFee>>

\* checkBoxMinimumFee stateChanged, checked or unchecked: setMinimumFee
\* (whose customFee->setValue runs updateGlobalFeeVariables once more),
\* updateFeeSectionControls, updateGlobalFeeVariables.
ToggleMinimumFee ==
    /\ FrameOpen /\ enabled.minBox
    /\ LET u == setMinimumFee([ui EXCEPT !.minFeeBox = ~@], minTxFee)
       IN  /\ ui' = u
           /\ enabled' = updateFeeSectionControls(u)
           /\ globals' = updateGlobalFeeVariables(globals, u)
    /\ UNCHANGED <<settings, phase, minTxFee>>

\* checkBoxFreeTx stateChanged: updateGlobalFeeVariables.
ToggleFreeTx ==
    /\ FrameOpen
    /\ ui' = [ui EXCEPT !.freeTx = ~@]
    /\ globals' = updateGlobalFeeVariables(globals, ui')
    /\ UNCHANGED <<settings, phase, enabled, minTxFee>>

\* The destructor saves the controls; the process then ends.
Destroy ==
    /\ phase # "down"
    /\ settings' = SaveUi(ui)
    /\ phase' = "down"
    /\ UNCHANGED <<ui, enabled, globals, minTxFee>>

Next ==
    \/ Construct \/ SetModel \/ Destroy
    \/ on_buttonChooseFee_clicked \/ on_buttonMinimizeFee_clicked
    \/ SlideSmartFee \/ ClickFeeRadio \/ ClickCustomRadio \/ EditCustomFee
    \/ ToggleMinimumFee \/ ToggleFreeTx

\* Every step is a user's click or a start or exit of the program: no
\* step is owed, so no fairness is assumed.
Spec == Init /\ [][Next]_vars

-----------------------------------------------------------------------------
(* Properties.                                                             *)

\* Once setModel has run, the wallet's globals are what
\* updateGlobalFeeVariables makes of the controls shown: every way a
\* control changes (a click, a slider move, setMinimumFee's programmatic
\* setChecked and setValue, a restart) is followed by a sync.
GlobalsFollowControls ==
    phase = "ready" => globals = updateGlobalFeeVariables(globals, ui)

\* With a custom fee and "Pay only the minimum fee of <minTxFee>/kB"
\* checked, the wallet pays exactly minTxFee per kilobyte: the custom fee
\* controls are disabled, and the box's state survives restarts.
MinimumFeePaid ==
    phase = "ready" /\ ui.feeRadio = 1 /\ ui.minFeeBox =>
        /\ globals.payTxFee = minTxFee
        /\ ~globals.fPayAtLeastCustomFee

\* A restarted dialog shows the controls its predecessor was destroyed
\* with: the destructor's save and the constructor's migration and load
\* round-trip.  (Only the first start of all finds no nFeeRadio saved.)
RestartRestoresControls ==
    [][phase = "down" /\ phase' = "built" /\ settings.nFeeRadio # Absent
         => ui' = ui]_vars

================================================================================
