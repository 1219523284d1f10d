\* -mintxfee changed between two starts of the program; a 0.9 fee of 0 or 3000,
\* the slider at either end of its range.
CONSTANTS
    Absent = Absent
    Fees = {0, 3000}
    MinFees = {1000, 2000}
    StartFees = {0}
    StartTargets = {2}
    SliderPositions = {0, 24}
    DEFAULT_TRANSACTION_FEE = 0
SPECIFICATION Spec
INVARIANTS
    MinimumFeePaid
