---------------------------- MODULE SendCashFlow ----------------------------
(***************************************************************************)
(* The send flow of SendCashDialog (src/sendcashdialog.cpp).               *)
(*                                                                         *)
(* on_sendButton_clicked runs two nested event loops: the passphrase       *)
(* dialog opened by requestUnlock() when the wallet is locked, and         *)
(* SendConfirmationDialog::exec().  A third one runs inside accept():      *)
(* clear() calls addEntry(), which calls qApp->processEvents().  While a   *)
(* nested loop runs, the dialog's own widgets are blocked by modality, but *)
(* queued signals are still delivered: payment requests from the payment   *)
(* server (handlePaymentRequest) and the confirmation countdown timer.     *)
(* fNewRecipientAllowed is the guard that keeps pasted requests out of the *)
(* form while a send is in progress.                                       *)
(*                                                                         *)
(* A SendCashEntry is reduced to what the dialog tells apart: an entry     *)
(* that isClear() (and so does not validate), one the user filled in that  *)
(* validates or not, and one that holds a pasted payment request.          *)
(***************************************************************************)
EXTENDS Naturals, Sequences, SequencesExt

CONSTANTS
    Requests,         \* payment requests the payment server may deliver
    SendConfirmDelay, \* SEND_CONFIRM_DELAY (sendcashdialog.h:107)
    MaxEntries        \* bound on the number of entries in the form

ASSUME ConstantsAssumption ==
    /\ SendConfirmDelay \in Nat \ {0}
    /\ MaxEntries \in Nat \ {0}
    /\ Requests \cap {"clear", "valid", "invalid"} = {}

VARIABLES
    phase,         \* where on_sendButton_clicked is, "idle" when it is not running
    allowed,       \* fNewRecipientAllowed
    entries,       \* the SendCashEntry widgets of ui->entries, in order
    snapshot,      \* recipients, the list validated when send was clicked
    secDelay,      \* SendConfirmationDialog::secDelay
    walletLocked,  \* the wallet is encrypted and locked
    message,       \* status of the last message emitted by processSendCashReturn
    pending,       \* payment requests not yet delivered
    dropped        \* payment requests pasteEntry returned early on

vars == <<phase, allowed, entries, snapshot, secDelay, walletLocked, message,
          pending, dropped>>

Phases == {"idle", "unlocking", "confirming", "accepting"}

(* WalletModel::StatusCode (walletmodel.h:113-125).                        *)
Status == {"OK", "InvalidAmount", "InvalidAddress", "AmountExceedsBalance",
           "AmountWithFeeExceedsBalance", "DuplicateAddress",
           "TransactionCreationFailed", "TransactionCommitFailed",
           "AbsurdFee", "PaymentRequestExpired"}

(* TransactionCommitFailed comes only from sendCash(), every other failure *)
(* only from prepareTransaction() (sendcashdialog.cpp:544-546).            *)
PrepareStatus == Status \ {"TransactionCommitFailed"}
SendStatus == {"OK", "TransactionCommitFailed"}

EntryKinds == {"clear", "valid", "invalid"} \cup Requests

(* SendCashEntry::validate(): a clear entry has no address and fails.      *)
Validates(e) == e \notin {"clear", "invalid"}

(* The loop of on_sendButton_clicked: after entry i, collected[i] holds   *)
(* entry->getValue() of every entry up to i that validates, in order.      *)
Recipients(es) ==
    LET collected[i \in 0..Len(es)] ==
            IF i = 0 THEN <<>>
            ELSE IF Validates(es[i]) THEN Append(collected[i - 1], es[i])
                 ELSE collected[i - 1]
    IN  collected[Len(es)]

(* setAddress / pasteEntry: replace the only entry if it isClear(), else   *)
(* addEntry() and fill the new one.                                        *)
Paste(es, e) ==
    IF Len(es) = 1 /\ es[1] = "clear" THEN <<e>> ELSE Append(es, e)

CanPaste(es) == (Len(es) = 1 /\ es[1] = "clear") \/ Len(es) < MaxEntries

(* processSendCashReturn: OK emits nothing, every other status a message. *)
Report(s) == message' = IF s = "OK" THEN message ELSE s

(* Back to the event loop from an early return of on_sendButton_clicked.  *)
Abort == /\ allowed' = TRUE
         /\ phase' = "idle"

(* The part of on_sendButton_clicked after a valid unlock context:        *)
(* prepareTransaction, its report, and the confirmation dialog's exec()   *)
(* with the countdown started at SEND_CONFIRM_DELAY.                       *)
Prepare ==
    \E s \in PrepareStatus :
        /\ Report(s)
        /\ IF s = "OK"
              THEN /\ phase' = "confirming"
                   /\ secDelay' = SendConfirmDelay
                   /\ allowed' = FALSE
              ELSE /\ Abort
                   /\ secDelay' = secDelay

Init ==
    /\ phase = "idle"
    /\ allowed = TRUE
    /\ entries = <<"clear">>
    /\ snapshot = <<>>
    /\ secDelay = 0
    /\ walletLocked \in BOOLEAN
    /\ message = "none"
    /\ pending = Requests
    /\ dropped = {}

(* on_sendButton_clicked up to requestUnlock().  With invalid entries or   *)
(* no recipients it returns at once and changes nothing.  A locked wallet  *)
(* opens the passphrase dialog; an unlocked one goes on to prepare.        *)
SendClicked ==
    /\ phase = "idle"
    /\ \A i \in 1..Len(entries) : Validates(entries[i])
    /\ Recipients(entries) # <<>>
    /\ snapshot' = Recipients(entries)
    /\ IF walletLocked
          THEN /\ phase' = "unlocking"
               /\ allowed' = FALSE
               /\ UNCHANGED <<secDelay, message>>
          ELSE Prepare
    /\ UNCHANGED <<entries, walletLocked, pending, dropped>>

(* Mutant: the cancelled-unlock return forgets fNewRecipientAllowed.      *)
UnlockCancelKeepsGate(ok) ==
    /\ phase = "unlocking"
    /\ IF ok THEN Prepare
             ELSE phase' = "idle" /\ UNCHANGED <<allowed, secDelay, message>>
    /\ UNCHANGED <<entries, snapshot, walletLocked, pending, dropped>>

(* The passphrase dialog returns; !ctx.isValid() when it was cancelled.    *)
UnlockAnswered(ok) ==
    /\ phase = "unlocking"
    /\ IF ok THEN Prepare
             ELSE Abort /\ UNCHANGED <<secDelay, message>>
    /\ UNCHANGED <<entries, snapshot, walletLocked, pending, dropped>>

(* Mutant: the timer is stopped at secDelay <= 1 instead of <= 0.         *)
CountDownStopsEarly ==
    /\ phase = "confirming"
    /\ secDelay > 1
    /\ secDelay' = secDelay - 1
    /\ UNCHANGED <<phase, allowed, entries, snapshot, walletLocked, message,
                   pending, dropped>>

(* SendConfirmationDialog::countDown, the 1 s timer: decrement, update     *)
(* the Yes button, stop the timer at zero.                                 *)
CountDown ==
    /\ phase = "confirming"
    /\ secDelay > 0
    /\ secDelay' = secDelay - 1
    /\ UNCHANGED <<phase, allowed, entries, snapshot, walletLocked, message,
                   pending, dropped>>

(* updateYesButton: Yes is enabled once secDelay <= 0.                     *)
YesEnabled == secDelay <= 0

(* exec() returns.  Anything but Yes aborts; Yes calls sendCash(), and on  *)
(* OK accept() clears the form: every entry removed, one clear one added,  *)
(* whose processEvents() is the nested loop of phase "accepting".          *)
ConfirmAnswered(yes) ==
    /\ phase = "confirming"
    /\ yes => YesEnabled
    /\ IF ~yes
          THEN Abort /\ UNCHANGED <<entries, message>>
          ELSE \E s \in SendStatus :
                  /\ Report(s)
                  /\ IF s = "OK"
                        THEN /\ entries' = <<"clear">>
                             /\ phase' = "accepting"
                             /\ allowed' = allowed
                        ELSE Abort /\ UNCHANGED entries
    /\ UNCHANGED <<snapshot, secDelay, walletLocked, pending, dropped>>

(* The end of on_sendButton_clicked: fNewRecipientAllowed = true.          *)
SendFinished ==
    /\ phase = "accepting"
    /\ Abort
    /\ UNCHANGED <<entries, snapshot, secDelay, walletLocked, message,
                   pending, dropped>>

(* Mutant: pasteEntry without its fNewRecipientAllowed check.             *)
PaymentRequestIgnoresGate(r) ==
    /\ r \in pending
    /\ pending' = pending \ {r}
    /\ CanPaste(entries)
    /\ entries' = Paste(entries, r)
    /\ UNCHANGED <<phase, allowed, snapshot, secDelay, walletLocked, message,
                   dropped>>

(* handlePaymentRequest -> pasteEntry, delivered from any event loop.      *)
PaymentRequest(r) ==
    /\ r \in pending
    /\ pending' = pending \ {r}
    /\ IF allowed
          THEN /\ CanPaste(entries)
               /\ entries' = Paste(entries, r)
               /\ UNCHANGED dropped
          ELSE /\ dropped' = dropped \cup {r}
               /\ UNCHANGED entries
    /\ UNCHANGED <<phase, allowed, snapshot, secDelay, walletLocked, message>>

(* The user's own calls, which modality blocks while a dialog is open.     *)

(* setAddress: an address without an amount, which does not validate.     *)
SetAddress ==
    /\ phase = "idle"
    /\ CanPaste(entries)
    /\ entries' = Paste(entries, "invalid")
    /\ UNCHANGED <<phase, allowed, snapshot, secDelay, walletLocked, message,
                   pending, dropped>>

(* The user types into entry i, which then validates or not.              *)
EditEntry(i, k) ==
    /\ phase = "idle"
    /\ entries[i] \in {"clear", "valid", "invalid"}
    /\ entries' = [entries EXCEPT ![i] = k]
    /\ UNCHANGED <<phase, allowed, snapshot, secDelay, walletLocked, message,
                   pending, dropped>>

(* addButton -> addEntry.                                                  *)
AddEntry ==
    /\ phase = "idle"
    /\ Len(entries) < MaxEntries
    /\ entries' = Append(entries, "clear")
    /\ UNCHANGED <<phase, allowed, snapshot, secDelay, walletLocked, message,
                   pending, dropped>>

(* Mutant: removeEntry without the check that adds a fresh last entry.    *)
RemoveEntryDropsLast(i) ==
    /\ phase = "idle"
    /\ entries' = RemoveAt(entries, i)
    /\ UNCHANGED <<phase, allowed, snapshot, secDelay, walletLocked, message,
                   pending, dropped>>

(* removeEntry: the last entry is replaced by a fresh one.                 *)
RemoveEntry(i) ==
    /\ phase = "idle"
    /\ entries' = IF Len(entries) = 1 THEN <<"clear">> ELSE RemoveAt(entries, i)
    /\ UNCHANGED <<phase, allowed, snapshot, secDelay, walletLocked, message,
                   pending, dropped>>

(* clearButton -> clear(), and reject() (Escape) which calls it.           *)
Clear ==
    /\ phase = "idle"
    /\ entries' = <<"clear">>
    /\ UNCHANGED <<phase, allowed, snapshot, secDelay, walletLocked, message,
                   pending, dropped>>

Next ==
    \/ SendClicked
    \/ \E ok \in BOOLEAN : UnlockAnswered(ok)
    \/ CountDown
    \/ \E yes \in BOOLEAN : ConfirmAnswered(yes)
    \/ SendFinished
    \/ \E r \in Requests : PaymentRequest(r)
    \/ SetAddress
    \/ \E i \in 1..Len(entries), k \in {"valid", "invalid"} : EditEntry(i, k)
    \/ AddEntry
    \/ \E i \in 1..Len(entries) : RemoveEntry(i)
    \/ Clear

(* The countdown timer fires while exec() runs, and the code after         *)
(* processEvents() runs when it returns.  The user owes nothing.           *)
Fairness == WF_vars(CountDown) /\ WF_vars(SendFinished)

Spec == Init /\ [][Next]_vars /\ Fairness

-----------------------------------------------------------------------------
TypeOK ==
    /\ phase \in Phases
    /\ allowed \in BOOLEAN
    /\ entries \in Seq(EntryKinds) /\ 1 <= Len(entries) /\ Len(entries) <= MaxEntries
    /\ snapshot \in Seq(EntryKinds)
    /\ secDelay \in 0..SendConfirmDelay
    /\ walletLocked \in BOOLEAN
    /\ message \in Status \cup {"none"}
    /\ pending \subseteq Requests /\ dropped \subseteq Requests

(* fNewRecipientAllowed is false exactly while on_sendButton_clicked runs: *)
(* every one of its four early returns and its end set it back.            *)
RecipientGate == allowed <=> (phase = "idle")

(* While the passphrase or the confirmation dialog is open, the form shows *)
(* exactly the recipients being sent: no payment request delivered in a    *)
(* nested event loop slips into the form without being in the transaction. *)
ShownIsSent ==
    phase \in {"unlocking", "confirming"} => Recipients(entries) = snapshot

(* Once the confirmation dialog is open, its Yes button is eventually      *)
(* enabled unless the dialog is closed first: the countdown reaches zero.  *)
YesEventuallyEnabled ==
    (phase = "confirming") ~> (phase # "confirming" \/ YesEnabled)

(* handlePaymentRequest reports every request as handled, so none should   *)
(* be dropped.                                                             *)
NoRequestDropped == dropped = {}
=============================================================================
