\* One -mintxfee for every start of the program; a 0.9 fee of 0 or 3000,
\* the slider at either end of its range.  For coin control: an empty
\* text, an invalid one, a valid address the wallet does not own and one
\* it owns; two outputs to select; the form's disabled line edit.
CONSTANTS
    Absent = Absent
    Fees = {0, 3000}
    MinFees = {1000}
    StartFees = {0}
    StartTargets = {2}
    SliderPositions = {0, 24}
    DEFAULT_TRANSACTION_FEE = 0
    Texts = {"", "x", "u", "k"}
    ValidAddrs = {"u", "k"}
    KnownAddrs = {"k"}
    Coins = {c1, c2}
    NoDestination = NoDestination
    DesignerChangeEnabled = FALSE
SPECIFICATION ControlsSpec
INVARIANTS
    ControlsTypeOK
    DestChangeShown
    GlobalsFollowControls
    MinimumFeePaid
PROPERTIES
    RestartRestoresControls
