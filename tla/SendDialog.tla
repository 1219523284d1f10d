------------------------------ MODULE SendDialog ------------------------------
(***************************************************************************)
(* SendBreadcrumbsDialog (src/src/qt/sendcoinsdialog.cpp): its list of    *)
(* recipient entries, the send handler with its guard                     *)
(* fNewRecipientAllowed, and the slots that add, remove, clear and fill   *)
(* entries.  All of it runs on the GUI thread, but a handler can start a  *)
(* nested event loop: the wallet unlock dialog, the message boxes of      *)
(* processSendBreadcrumbsReturn and of the confirmation question (modal:  *)
(* only non-user events, such as a payment request arriving, are          *)
(* delivered), and qApp->processEvents() in addEntry (any event).  The    *)
(* handlers waiting in such loops form a stack of frames.                 *)
(*                                                                         *)
(* deleteLater() is modelled by Qt 5's rule: a deferred delete posted by  *)
(* a handler delivered from the loop at depth d runs once control is in a *)
(* loop of depth <= d.  Deleting an entry widget removes it from the      *)
(* layout.                                                                 *)
(***************************************************************************)
EXTENDS Naturals, Sequences, SequencesExt, FiniteSets

CONSTANTS
    EntryIds,         \* SendBreadcrumbsEntry widgets that can be allocated
    Blank,            \* the value of an entry for which isClear() holds
    ValidRecipients,  \* values that entry->validate() accepts
    Values,           \* values a user can type into an entry
    Addresses,        \* addresses setAddress is called with
    Requests,         \* recipients of payment requests (pasteEntry)
    NoEntry,
    MaxNest           \* bound on the depth of nested event loops

VARIABLES
    entries,               \* ui->entries: the widgets in the layout, in order
    val,                   \* the value each entry widget holds
    hidden,                \* entries removeEntry has hidden
    alloc,                 \* entry widgets that exist (not yet deleted)
    created,               \* entry widgets ever constructed
    doomed,                \* posted deleteLater()s: <<entry, loop depth>>
    fNewRecipientAllowed,
    stack                  \* handlers waiting in a nested event loop

vars == <<entries, val, hidden, alloc, created, doomed, fNewRecipientAllowed, stack>>

AllValues == {Blank} \cup Values \cup Addresses \cup Requests

\* Points where a handler waits in a nested loop; the first two are
\* qApp->processEvents(), which also delivers user input.
NonModal == {"pe", "acceptpe"}
Modal == {"unlock", "prepmsg", "confirm", "sendmsg"}

Frame == [h : {"send", "add", "clear", "remove", "setaddr", "paste"},
          pc : NonModal \cup Modal, ent : EntryIds \cup {NoEntry},
          v : AllValues, rcp : Seq(AllValues), lvl : Nat]

Level == Len(stack)
Top == stack[Len(stack)]

\* The event loop sends the posted events, deferred deletes among them,
\* before it dispatches the next event or lets processEvents return.
Settled == \A d \in doomed : d[2] < Level

\* The loop currently running dispatches user input next.
UserInput == Settled /\ IF stack = <<>> THEN TRUE ELSE Top.pc \in NonModal

\* A widget is never constructed at the address of a destroyed one: a
\* stale pointer never aliases a new entry.
FreeIds == EntryIds \ created

Visible == Range(entries) \ hidden

\* entry->getValue() of every entry in the layout, hidden ones included.
ValuesOf(es) == [i \in 1..Len(es) |-> val[es[i]]]

TypeOK ==
    /\ entries \in Seq(EntryIds) /\ IsInjective(entries)
    /\ Range(entries) \subseteq alloc
    /\ val \in [EntryIds -> AllValues]
    /\ hidden \subseteq alloc /\ alloc \subseteq created /\ created \subseteq EntryIds
    /\ doomed \subseteq alloc \X (0..MaxNest)
    /\ fNewRecipientAllowed \in BOOLEAN
    /\ stack \in Seq(Frame) /\ Len(stack) <= MaxNest

Init ==
    \E n \in EntryIds :
        /\ entries = <<n>>
        /\ val = [e \in EntryIds |-> Blank]
        /\ hidden = {}
        /\ alloc = {n}
        /\ created = {n}
        /\ doomed = {}
        /\ fNewRecipientAllowed = TRUE
        /\ stack = <<>>

-----------------------------------------------------------------------------
(* Helpers.                                                                *)

\* A frame: handler h waiting at pc, the entry it holds a pointer to, the
\* value it will set, the recipients of a send, and the depth of the loop
\* that delivered it.
NewFrame(h, pc, ent, v, rcp) ==
    [h |-> h, pc |-> pc, ent |-> ent, v |-> v, rcp |-> rcp, lvl |-> Level]

Push(f) == stack' = Append(stack, f)
Pop == stack' = Front(stack)
SetPc(pc) == stack' = [stack EXCEPT ![Len(stack)].pc = pc]

\* addEntry up to its processEvents: a new cleared entry at the end.
AddEntry(n) ==
    /\ entries' = Append(entries, n)
    /\ alloc' = alloc \cup {n}
    /\ created' = created \cup {n}
    /\ val' = [val EXCEPT ![n] = Blank]

\* deleteLater() on entries by a handler delivered at loop depth lvl.
DeleteLater(es, lvl) == doomed' = doomed \cup {<<e, lvl>> : e \in es}

\* clear(): every entry is taken out of the layout and deleted later, then
\* addEntry.
ClearEntries(n, lvl) ==
    /\ DeleteLater(Range(entries), lvl)
    /\ entries' = <<n>>
    /\ alloc' = alloc \cup {n}
    /\ created' = created \cup {n}
    /\ val' = [val EXCEPT ![n] = Blank]

\* The first entry is the only one and still unused (setAddress, pasteEntry).
ReuseFirst == Len(entries) = 1 /\ val[entries[1]] = Blank

\* WalletModel::SendBreadcrumbsReturn.  As the comment in
\* processSendBreadcrumbsReturn says, prepareTransaction returns every
\* status but TransactionCommitFailed, and sendBreadcrumbs only OK or it.
SendStatusValues == {"OK", "InvalidAddress", "InvalidAmount",
                     "AmountExceedsBalance", "AmountWithFeeExceedsBalance",
                     "DuplicateAddress", "TransactionCreationFailed",
                     "TransactionCommitFailed", "InsaneFee"}
PrepareStatuses == SendStatusValues \ {"TransactionCommitFailed"}
SendStatuses == {"OK", "TransactionCommitFailed"}

\* processSendBreadcrumbsReturn: every status but OK emits message(),
\* which the GUI shows in a modal message box; OK returns at once.
processSendBreadcrumbsReturn(status) == status # "OK"

\* Where the send handler waits once prepareTransaction answered status:
\* in the error's message box, or in the confirmation question.
AfterPrepare(status) ==
    IF processSendBreadcrumbsReturn(status) THEN "prepmsg" ELSE "confirm"

-----------------------------------------------------------------------------
(* on_sendButton_clicked.                                                  *)

\* Collect the recipients; return if one is invalid or there is none.
\* Otherwise lower fNewRecipientAllowed and request the unlock: a locked
\* wallet shows the unlock dialog, else the transaction is prepared at once
\* and either the question or the error message box is shown.
SendClicked ==
    /\ UserInput
    /\ LET rcp == ValuesOf(entries)
       IN  IF rcp = <<>> \/ \E i \in 1..Len(rcp) : rcp[i] \notin ValidRecipients
           THEN UNCHANGED vars
           ELSE /\ Level < MaxNest
                /\ fNewRecipientAllowed' = FALSE
                /\ \E pc \in {"unlock"} \cup {AfterPrepare(st) : st \in PrepareStatuses} :
                       Push(NewFrame("send", pc, NoEntry, Blank, rcp))
                /\ UNCHANGED <<entries, val, hidden, alloc, created, doomed>>

\* An unlock-cancel path that forgets to raise fNewRecipientAllowed.
SendUnlocked_NoReset ==
    /\ stack # <<>> /\ Settled /\ Top.h = "send" /\ Top.pc = "unlock"
    /\ \/ Pop
       \/ \E pc \in {"confirm", "prepmsg"} : SetPc(pc)
    /\ UNCHANGED <<entries, val, hidden, alloc, created, doomed, fNewRecipientAllowed>>


\* The unlock dialog closed: cancelled, or prepareTransaction succeeded
\* (question) or failed (message box).
SendUnlocked ==
    /\ stack # <<>> /\ Settled /\ Top.h = "send" /\ Top.pc = "unlock"
    /\ \/ /\ fNewRecipientAllowed' = TRUE
          /\ Pop
       \/ /\ \E st \in PrepareStatuses : SetPc(AfterPrepare(st))
          /\ UNCHANGED fNewRecipientAllowed
    /\ UNCHANGED <<entries, val, hidden, alloc, created, doomed>>

\* The message box of a failed prepare or send closed.
SendMessageClosed ==
    /\ stack # <<>> /\ Settled /\ Top.h = "send" /\ Top.pc \in {"prepmsg", "sendmsg"}
    /\ fNewRecipientAllowed' = TRUE
    /\ Pop
    /\ UNCHANGED <<entries, val, hidden, alloc, created, doomed>>

\* The question closed: Cancel; Yes and sendBreadcrumbs failed (message
\* box); Yes and it succeeded: accept() clears the dialog.
SendConfirmed ==
    /\ stack # <<>> /\ Settled /\ Top.h = "send" /\ Top.pc = "confirm"
    /\ \/ /\ fNewRecipientAllowed' = TRUE
          /\ Pop
          /\ UNCHANGED <<entries, val, alloc, created, doomed>>
       \/ /\ \E st \in SendStatuses : processSendBreadcrumbsReturn(st)
          /\ SetPc("sendmsg")
          /\ UNCHANGED <<entries, val, alloc, created, doomed, fNewRecipientAllowed>>
       \/ /\ \E st \in SendStatuses : ~processSendBreadcrumbsReturn(st) /\ st = "OK"
          /\ \E n \in FreeIds :
                /\ ClearEntries(n, Top.lvl)
                /\ SetPc("acceptpe")
          /\ UNCHANGED fNewRecipientAllowed
    /\ UNCHANGED hidden

\* accept()'s processEvents returned: the handler ends.
SendAccepted ==
    /\ stack # <<>> /\ Settled /\ Top.h = "send" /\ Top.pc = "acceptpe"
    /\ fNewRecipientAllowed' = TRUE
    /\ Pop
    /\ UNCHANGED <<entries, val, hidden, alloc, created, doomed>>


-----------------------------------------------------------------------------
(* The entry slots.                                                        *)

\* addButton: addEntry, waiting in its processEvents.
AddClicked ==
    /\ UserInput /\ Level < MaxNest
    /\ \E n \in FreeIds :
          /\ AddEntry(n)
          /\ Push(NewFrame("add", "pe", n, Blank, <<>>))
    /\ UNCHANGED <<hidden, doomed, fNewRecipientAllowed>>

\* clearButton: clear(), waiting in addEntry's processEvents.
ClearClicked ==
    /\ UserInput /\ Level < MaxNest
    /\ \E n \in FreeIds :
          /\ ClearEntries(n, Level)
          /\ Push(NewFrame("clear", "pe", n, Blank, <<>>))
    /\ UNCHANGED <<hidden, fNewRecipientAllowed>>

\* addEntry's processEvents returned inside addEntry or clear: nothing left
\* to do but the tab chain and labels.
AddReturned ==
    /\ stack # <<>> /\ Settled /\ Top.h \in {"add", "clear"}
    /\ Pop
    /\ UNCHANGED <<entries, val, hidden, alloc, created, doomed, fNewRecipientAllowed>>

\* An entry's remove button: removeEntry hides it, adds an empty entry if
\* it is the last one in the layout, and deletes it later.
RemoveClicked(e) ==
    /\ UserInput /\ e \in Visible
    /\ hidden' = hidden \cup {e}
    /\ IF Len(entries) = 1
       THEN /\ Level < MaxNest
            /\ \E n \in FreeIds :
                  /\ AddEntry(n)
                  /\ Push(NewFrame("remove", "pe", e, Blank, <<>>))
            /\ UNCHANGED doomed
       ELSE /\ DeleteLater({e}, Level)
            /\ UNCHANGED <<entries, val, alloc, created, stack>>
    /\ UNCHANGED fNewRecipientAllowed

\* removeEntry after its addEntry returned: entry->deleteLater().  On a
\* widget already destroyed meanwhile the call is undefined; the model lets
\* it post nothing (EntryAliveOnResume flags the step).
RemoveReturned ==
    /\ stack # <<>> /\ Settled /\ Top.h = "remove"
    /\ IF Top.ent \in alloc THEN DeleteLater({Top.ent}, Top.lvl)
                            ELSE UNCHANGED doomed
    /\ Pop
    /\ UNCHANGED <<entries, val, hidden, alloc, created, fNewRecipientAllowed>>

\* The user types into, or empties, a visible entry.
EditEntry(e, v) ==
    /\ UserInput /\ e \in Visible
    /\ val' = [val EXCEPT ![e] = v]
    /\ UNCHANGED <<entries, hidden, alloc, created, doomed, fNewRecipientAllowed, stack>>

\* setAddress(address) (user driven) and pasteEntry(rv) (payment requests,
\* delivered by any loop, and returning at once unless
\* fNewRecipientAllowed): fill the first entry if it is the only one and
\* unused, else addEntry and fill the new one after its processEvents.
Fill(h, v) ==
    IF ReuseFirst
    THEN /\ val' = [val EXCEPT ![entries[1]] = v]
         /\ UNCHANGED <<entries, alloc, created, stack>>
    ELSE /\ Level < MaxNest
         /\ \E n \in FreeIds :
               /\ AddEntry(n)
               /\ Push(NewFrame(h, "pe", n, v, <<>>))

\* pasteEntry without the fNewRecipientAllowed check.
PasteEntry_NoGuard(r) ==
    /\ Settled
    /\ Fill("paste", r)
    /\ UNCHANGED <<hidden, doomed, fNewRecipientAllowed>>


SetAddress(a) ==
    /\ UserInput
    /\ Fill("setaddr", a)
    /\ UNCHANGED <<hidden, doomed, fNewRecipientAllowed>>

PasteEntry(r) ==
    /\ Settled
    /\ IF fNewRecipientAllowed THEN Fill("paste", r) ELSE UNCHANGED vars
    /\ UNCHANGED <<hidden, doomed, fNewRecipientAllowed>>

\* addEntry returned inside setAddress or pasteEntry: the entry pointer it
\* returned gets the value, whatever became of the widget meanwhile.
FillReturned ==
    /\ stack # <<>> /\ Settled /\ Top.h \in {"setaddr", "paste"}
    /\ val' = [val EXCEPT ![Top.ent] = Top.v]
    /\ Pop
    /\ UNCHANGED <<entries, hidden, alloc, created, doomed, fNewRecipientAllowed>>

\* A destroyed entry that stays in the layout.
DeferredDelete_KeepInLayout(d) ==
    /\ d \in doomed /\ d[2] >= Level
    /\ alloc' = alloc \ {d[1]}
    /\ hidden' = hidden \ {d[1]}
    /\ doomed' = {x \in doomed : x[1] # d[1]}
    /\ val' = [val EXCEPT ![d[1]] = Blank]
    /\ UNCHANGED <<entries, created, fNewRecipientAllowed, stack>>


\* A posted deferred delete runs: the widget is destroyed and leaves the
\* layout.
DeferredDelete(d) ==
    /\ d \in doomed /\ d[2] >= Level
    /\ entries' = SelectSeq(entries, LAMBDA x : x # d[1])
    /\ alloc' = alloc \ {d[1]}
    /\ hidden' = hidden \ {d[1]}
    /\ doomed' = {x \in doomed : x[1] # d[1]}
    /\ val' = [val EXCEPT ![d[1]] = Blank]
    /\ UNCHANGED <<created, fNewRecipientAllowed, stack>>

Next ==
    \/ SendClicked \/ SendUnlocked \/ SendMessageClosed
    \/ SendConfirmed \/ SendAccepted
    \/ AddClicked \/ ClearClicked \/ AddReturned
    \/ \E e \in EntryIds : RemoveClicked(e)
    \/ RemoveReturned
    \/ \E e \in EntryIds, v \in Values \cup {Blank} : EditEntry(e, v)
    \/ \E a \in Addresses : SetAddress(a)
    \/ \E r \in Requests : PasteEntry(r)
    \/ FillReturned
    \/ \E d \in doomed : DeferredDelete(d)

Spec == Init /\ [][Next]_vars

-----------------------------------------------------------------------------
(* Properties.                                                             *)

\* Every way out of on_sendButton_clicked after it lowered
\* fNewRecipientAllowed raises it again (the resets at lines 262, 279, 319
\* and 334), so payment requests are refused only while a send is running.
FlagRestored ==
    (\A i \in 1..Len(stack) : stack[i].h # "send") => fNewRecipientAllowed

\* accept() after a successful send clears the dialog: every recipient it
\* throws away was one of the recipients just sent; nothing pasted while
\* the send waited in its dialogs is lost.
AcceptClearsOnlySent ==
    [][ ( /\ stack # <<>> /\ Top.h = "send" /\ Top.pc = "confirm"
          /\ Len(stack') = Len(stack) /\ stack'[Len(stack)].pc = "acceptpe" )
        => \A i \in 1..Len(entries) :
               val[entries[i]] \in Range(Top.rcp) \cup {Blank} ]_vars

\* Once no handler runs and no deletion is pending, the dialog shows at
\* least one entry: removeEntry adds an empty one before the last goes.
AtLeastOneEntry ==
    (stack = <<>> /\ doomed = {}) => Visible # {}

================================================================================
