------------------------- MODULE SendCashFlowProofs -------------------------
(***************************************************************************)
(* Proofs that the send flow of SendCashDialog keeps fNewRecipientAllowed *)
(* in step with on_sendButton_clicked, and that the form shows what is    *)
(* being sent while its nested dialogs run.                                *)
(***************************************************************************)
EXTENDS SendCashFlow, SequenceTheorems, WellFoundedInduction, TLAPS

-----------------------------------------------------------------------------
(* The recipients loop of on_sendButton_clicked.                           *)

(* One iteration of the loop: what collected[i] is, given collected.      *)
Collect(es, f, i) ==
    IF i = 0 THEN <<>>
    ELSE IF Validates(es[i]) THEN Append(f[i - 1], es[i]) ELSE f[i - 1]

(* The function the LET of Recipients defines.                             *)
Collected(es) == CHOOSE f : f = [i \in 0..Len(es) |-> Collect(es, f, i)]

(* Recipients is the last value of the loop.                               *)
LEMMA RecipientsIsCollected ==
    ASSUME NEW es
    PROVE  Recipients(es) = Collected(es)[Len(es)]
BY DEF Recipients, Collected, Collect

(* A non-empty set of naturals has a least element.                        *)
LEMMA LeastNat ==
    ASSUME NEW D \in SUBSET Nat, D # {}
    PROVE  \E m \in D : \A y \in D : m <= y
<1>1. PICK x \in D : \A y \in D : ~(<<y, x>> \in OpToRel(<, Nat))
  BY NatLessThanWellFounded, WFMin
<1>2. \A y \in D : ~(y < x)
  BY <1>1 DEF OpToRel
<1>. QED BY <1>2

(* When every entry validates, the prefixes of the entries satisfy the     *)
(* loop's equation: each iteration appends the entry it looks at.          *)
LEMMA PrefixesCollect ==
    ASSUME NEW S, NEW es \in Seq(S), \A i \in 1..Len(es) : Validates(es[i])
    PROVE  LET p == [i \in 0..Len(es) |-> SubSeq(es, 1, i)]
           IN  p = [i \in 0..Len(es) |-> Collect(es, p, i)]
<1> DEFINE p == [i \in 0..Len(es) |-> SubSeq(es, 1, i)]
<1>1. Len(es) \in Nat /\ \A i \in 1..Len(es) : es[i] \in S
  BY LenProperties, ElementOfSeq
<1>2. ASSUME NEW i \in 0..Len(es) PROVE p[i] = Collect(es, p, i)
  <2>1. CASE i = 0
    BY <2>1, SubSeqEmpty DEF Collect
  <2>2. CASE i # 0
    <3>1. i \in 1..Len(es) /\ i - 1 \in 0..Len(es) /\ Validates(es[i])
      BY <1>1, <2>2
    <3>2. Collect(es, p, i) = Append(SubSeq(es, 1, i - 1), es[i])
      BY <3>1, <2>2 DEF Collect
    <3>3. SubSeq(es, 1, i - 1) \in Seq(S) /\ es[i] \in S
      BY <1>1, <3>1, SubSeqProperties
    <3>4. Append(SubSeq(es, 1, i - 1), es[i]) = SubSeq(es, 1, i - 1) \o <<es[i]>>
      BY <3>3, AppendIsConcat
    <3>5. SubSeq(es, 1, i) = SubSeq(es, 1, i - 1) \o <<es[i]>>
      BY <3>1, SubSeqRecursiveSecond
    <3>. QED BY <3>2, <3>4, <3>5
  <2>. QED BY <2>1, <2>2
<1>. QED BY <1>2

(* The loop's equation has one solution: two functions that satisfy it     *)
(* agree at the least index where they would differ.                       *)
LEMMA CollectUnique ==
    ASSUME NEW es, NEW n \in Nat, Len(es) = n, NEW f, NEW g,
           f = [i \in 0..n |-> Collect(es, f, i)],
           g = [i \in 0..n |-> Collect(es, g, i)]
    PROVE  f = g
<1> DEFINE D == {i \in 0..n : f[i] # g[i]}
<1>1. SUFFICES D = {}
  OBVIOUS
<1>2. SUFFICES ASSUME D # {} PROVE FALSE
  OBVIOUS
<1>3. PICK m \in D : \A y \in D : m <= y
  <2>1. D \in SUBSET Nat
    OBVIOUS
  <2>. QED BY <1>2, <2>1, LeastNat
<1>4. f[0] = <<>> /\ g[0] = <<>>
  BY DEF Collect
<1>5. m # 0 /\ m - 1 \in 0..n
  BY <1>3, <1>4
<1>6. f[m - 1] = g[m - 1]
  BY <1>3, <1>5
<1>7. f[m] = Collect(es, f, m) /\ g[m] = Collect(es, g, m)
  BY <1>3
<1>8. Collect(es, f, m) = Collect(es, g, m)
  BY <1>5, <1>6 DEF Collect
<1>. QED BY <1>3, <1>7, <1>8

(* When every entry validates, the loop collects the entries themselves:   *)
(* the recipients sent are exactly the form's entries, in order.           *)
LEMMA AllValidRecipients ==
    ASSUME NEW S, NEW es \in Seq(S), \A i \in 1..Len(es) : Validates(es[i])
    PROVE  Recipients(es) = es
<1> DEFINE p == [i \in 0..Len(es) |-> SubSeq(es, 1, i)]
<1>1. p = [i \in 0..Len(es) |-> Collect(es, p, i)]
  BY PrefixesCollect
<1>2. Collected(es) = [i \in 0..Len(es) |-> Collect(es, Collected(es), i)]
  BY <1>1 DEF Collected
<1>3. Len(es) \in Nat
  BY LenProperties
<1>4. Collected(es) = p
  <2> HIDE DEF p
  <2>. QED BY <1>1, <1>2, <1>3, CollectUnique
<1>5. p[Len(es)] = es
  BY <1>3, SubSeqFull
<1>. QED BY <1>4, <1>5, RecipientsIsCollected

-----------------------------------------------------------------------------

(* removeEntry without its last entry: one entry fewer, each kept.        *)
LEMMA RemoveAtType ==
    ASSUME NEW S, NEW es \in Seq(S), NEW i \in 1..Len(es)
    PROVE  /\ RemoveAt(es, i) \in Seq(S)
           /\ Len(RemoveAt(es, i)) = Len(es) - 1
<1>1. Len(es) \in Nat /\ \A j \in 1..Len(es) : es[j] \in S
  BY LenProperties, ElementOfSeq
<1> DEFINE s1 == SubSeq(es, 1, i - 1)
           s2 == SubSeq(es, i + 1, Len(es))
<1>2. /\ s1 \in Seq(S) /\ Len(s1) = i - 1
      /\ s2 \in Seq(S) /\ Len(s2) = Len(es) - i
  BY <1>1, SubSeqProperties
<1>3. RemoveAt(es, i) = s1 \o s2
  BY DEF RemoveAt
<1> HIDE DEF s1, s2
<1>4. s1 \o s2 \in Seq(S) /\ Len(s1 \o s2) = Len(s1) + Len(s2)
  BY <1>2, ConcatProperties
<1>. QED BY <1>1, <1>2, <1>3, <1>4

(* pasteEntry and setAddress, when the form has room, keep it between one  *)
(* and MaxEntries entries.                                                 *)
LEMMA PasteType ==
    ASSUME NEW es \in Seq(EntryKinds), 1 <= Len(es), Len(es) <= MaxEntries,
           CanPaste(es), NEW e \in EntryKinds
    PROVE  /\ Paste(es, e) \in Seq(EntryKinds)
           /\ 1 <= Len(Paste(es, e)) /\ Len(Paste(es, e)) <= MaxEntries
<1>1. CASE Len(es) = 1 /\ es[1] = "clear"
  <2>1. Paste(es, e) = <<e>>
    BY <1>1 DEF Paste
  <2>2. <<e>> \in Seq(EntryKinds) /\ Len(<<e>>) = 1
    OBVIOUS
  <2>. QED BY <2>1, <2>2, ConstantsAssumption
<1>2. CASE ~(Len(es) = 1 /\ es[1] = "clear")
  <2>1. Paste(es, e) = Append(es, e) /\ Len(es) < MaxEntries
    BY <1>2 DEF Paste, CanPaste
  <2>2. Append(es, e) \in Seq(EntryKinds) /\ Len(Append(es, e)) = Len(es) + 1
    BY AppendProperties
  <2>. QED BY <2>1, <2>2, LenProperties, ConstantsAssumption
<1>. QED BY <1>1, <1>2

(* The inductive invariant: the phase is one of the four, and both        *)
(* properties hold.  ShownIsSent alone is not inductive: a pasted request *)
(* changes the entries unless fNewRecipientAllowed is false, which         *)
(* RecipientGate ties to the phase.                                        *)
IInv == phase \in Phases /\ RecipientGate /\ ShownIsSent

(* The initial state: idle, with fNewRecipientAllowed set.                 *)
LEMMA InitIInv == Init => IInv
BY DEF Init, IInv, Phases, RecipientGate, ShownIsSent

(* The part after a valid unlock context leaves the entries and the        *)
(* snapshot alone, so it keeps the invariant from any state that shows the *)
(* snapshot.                                                               *)
LEMMA PrepareIInv ==
    ASSUME Prepare, Recipients(entries) = snapshot',
           entries' = entries
    PROVE  IInv'
<1>1. PICK s \in PrepareStatus :
          /\ Report(s)
          /\ IF s = "OK"
                THEN /\ phase' = "confirming"
                     /\ secDelay' = SendConfirmDelay
                     /\ allowed' = FALSE
                ELSE /\ Abort
                     /\ secDelay' = secDelay
  BY DEF Prepare
<1>2. CASE s = "OK"
  BY <1>1, <1>2 DEF IInv, Phases, RecipientGate, ShownIsSent
<1>3. CASE s # "OK"
  BY <1>1, <1>3 DEF IInv, Phases, RecipientGate, ShownIsSent, Abort
<1>. QED BY <1>2, <1>3

(* Every step of the dialog keeps the inductive invariant.                 *)
LEMMA NextIInv == IInv /\ [Next]_vars => IInv'
<1> SUFFICES ASSUME IInv, [Next]_vars PROVE IInv'
  OBVIOUS
<1>1. CASE SendClicked
  <2>1. CASE walletLocked
    BY <1>1, <2>1 DEF SendClicked, IInv, Phases, RecipientGate, ShownIsSent
  <2>2. CASE ~walletLocked
    <3>1. Prepare /\ snapshot' = Recipients(entries) /\ entries' = entries
      BY <1>1, <2>2 DEF SendClicked
    <3>. QED BY <3>1, PrepareIInv
  <2>. QED BY <2>1, <2>2
<1>2. CASE \E ok \in BOOLEAN : UnlockAnswered(ok)
  <2>1. PICK ok \in BOOLEAN : UnlockAnswered(ok)
    BY <1>2
  <2>2. phase = "unlocking" /\ entries' = entries /\ snapshot' = snapshot
    BY <2>1 DEF UnlockAnswered
  <2>3. Recipients(entries) = snapshot'
    BY <2>2 DEF IInv, ShownIsSent
  <2>4. CASE ok
    BY <2>1, <2>2, <2>3, <2>4, PrepareIInv DEF UnlockAnswered
  <2>5. CASE ~ok
    BY <2>1, <2>5 DEF UnlockAnswered, Abort, IInv, Phases, RecipientGate, ShownIsSent
  <2>. QED BY <2>4, <2>5
<1>3. CASE CountDown
  BY <1>3 DEF CountDown, IInv, Phases, RecipientGate, ShownIsSent
<1>4. CASE \E yes \in BOOLEAN : ConfirmAnswered(yes)
  <2>1. PICK yes \in BOOLEAN : ConfirmAnswered(yes)
    BY <1>4
  <2>2. phase = "confirming" /\ ~allowed
    BY <2>1 DEF ConfirmAnswered, IInv, RecipientGate
  <2>3. CASE ~yes
    BY <2>1, <2>3 DEF ConfirmAnswered, Abort, IInv, Phases, RecipientGate, ShownIsSent
  <2>4. CASE yes
    <3>1. PICK s \in SendStatus :
             IF s = "OK"
                THEN /\ entries' = <<"clear">>
                     /\ phase' = "accepting"
                     /\ allowed' = allowed
                ELSE Abort /\ UNCHANGED entries
      BY <2>1, <2>4 DEF ConfirmAnswered
    <3>2. CASE s = "OK"
      BY <2>2, <3>1, <3>2 DEF IInv, Phases, RecipientGate, ShownIsSent
    <3>3. CASE s # "OK"
      BY <3>1, <3>3 DEF Abort, IInv, Phases, RecipientGate, ShownIsSent
    <3>. QED BY <3>2, <3>3
  <2>. QED BY <2>3, <2>4
<1>5. CASE SendFinished
  BY <1>5 DEF SendFinished, Abort, IInv, Phases, RecipientGate, ShownIsSent
<1>6. CASE \E r \in Requests : PaymentRequest(r)
  <2>1. PICK r \in Requests : PaymentRequest(r)
    BY <1>6
  <2>2. CASE allowed
    BY <2>1, <2>2 DEF PaymentRequest, IInv, Phases, RecipientGate, ShownIsSent
  <2>3. CASE ~allowed
    BY <2>1, <2>3 DEF PaymentRequest, IInv, Phases, RecipientGate, ShownIsSent
  <2>. QED BY <2>2, <2>3
<1>7. CASE SetAddress
  BY <1>7 DEF SetAddress, IInv, Phases, RecipientGate, ShownIsSent
<1>8. CASE \E i \in 1..Len(entries), k \in {"valid", "invalid"} : EditEntry(i, k)
  BY <1>8 DEF EditEntry, IInv, Phases, RecipientGate, ShownIsSent
<1>9. CASE AddEntry
  BY <1>9 DEF AddEntry, IInv, Phases, RecipientGate, ShownIsSent
<1>10. CASE \E i \in 1..Len(entries) : RemoveEntry(i)
  BY <1>10 DEF RemoveEntry, IInv, Phases, RecipientGate, ShownIsSent
<1>11. CASE Clear
  BY <1>11 DEF Clear, IInv, Phases, RecipientGate, ShownIsSent
<1>12. CASE UNCHANGED vars
  BY <1>12 DEF vars, IInv, Phases, RecipientGate, ShownIsSent
<1>. QED BY <1>1, <1>2, <1>3, <1>4, <1>5, <1>6, <1>7, <1>8, <1>9, <1>10,
            <1>11, <1>12 DEF Next

(* The typing of the dialog holds initially.                               *)
LEMMA InitTypeOK == Init => TypeOK
<1> SUFFICES ASSUME Init PROVE TypeOK
  OBVIOUS
<1>1. <<"clear">> \in Seq(EntryKinds) /\ Len(<<"clear">>) = 1
  BY DEF EntryKinds
<1>2. 1 <= MaxEntries /\ 0 \in 0..SendConfirmDelay
  BY ConstantsAssumption
<1>. QED BY <1>1, <1>2 DEF Init, TypeOK, Phases

(* prepareTransaction keeps the phase, the countdown and the message typed. *)
LEMMA PrepareTypeOK ==
    ASSUME TypeOK, Prepare
    PROVE  /\ phase' \in Phases /\ allowed' \in BOOLEAN
           /\ secDelay' \in 0..SendConfirmDelay
           /\ message' \in Status \cup {"none"}
<1>1. PICK s \in PrepareStatus :
          /\ Report(s)
          /\ IF s = "OK"
                THEN /\ phase' = "confirming"
                     /\ secDelay' = SendConfirmDelay
                     /\ allowed' = FALSE
                ELSE /\ Abort
                     /\ secDelay' = secDelay
  BY DEF Prepare
<1>2. message' \in Status \cup {"none"}
  BY <1>1 DEF Report, PrepareStatus, TypeOK
<1>3. CASE s = "OK"
  <2>1. secDelay' \in 0..SendConfirmDelay
    BY <1>1, <1>3, ConstantsAssumption
  <2>. QED BY <1>1, <1>2, <1>3, <2>1, Zenon DEF Phases
<1>4. CASE s # "OK"
  BY <1>1, <1>2, <1>4 DEF Abort, Phases, TypeOK
<1>. QED BY <1>3, <1>4

(* Every step keeps the entries a sequence of one to MaxEntries entries,   *)
(* the snapshot a sequence, and the countdown within the delay.            *)
LEMMA NextTypeOK == TypeOK /\ [Next]_vars => TypeOK'
<1> SUFFICES ASSUME TypeOK, [Next]_vars PROVE TypeOK'
  OBVIOUS
<1>1. CASE SendClicked
  <2>1. Recipients(entries) = entries
    BY <1>1, AllValidRecipients DEF SendClicked, TypeOK
  <2>2. snapshot' = entries /\ UNCHANGED <<entries, walletLocked, pending, dropped>>
    BY <1>1, <2>1 DEF SendClicked
  <2>3. CASE walletLocked
    BY <1>1, <2>2, <2>3 DEF SendClicked, Phases, TypeOK
  <2>4. CASE ~walletLocked
    BY <1>1, <2>2, <2>4, PrepareTypeOK DEF SendClicked, TypeOK
  <2>. QED BY <2>3, <2>4
<1>2. CASE \E ok \in BOOLEAN : UnlockAnswered(ok)
  BY <1>2, PrepareTypeOK DEF UnlockAnswered, Abort, Phases, TypeOK
<1>3. CASE CountDown
  <2>1. secDelay' \in 0..SendConfirmDelay
    BY <1>3, ConstantsAssumption DEF CountDown, TypeOK
  <2>. QED BY <1>3, <2>1 DEF CountDown, TypeOK
<1>4. CASE \E yes \in BOOLEAN : ConfirmAnswered(yes)
  <2>1. PICK yes \in BOOLEAN : ConfirmAnswered(yes)
    BY <1>4
  <2>2. UNCHANGED <<snapshot, secDelay, walletLocked, pending, dropped>>
    BY <2>1 DEF ConfirmAnswered
  <2>3. CASE ~yes
    BY <2>1, <2>2, <2>3 DEF ConfirmAnswered, Abort, Phases, TypeOK
  <2>4. CASE yes
    <3>1. PICK s \in SendStatus :
             /\ Report(s)
             /\ IF s = "OK"
                   THEN /\ entries' = <<"clear">>
                        /\ phase' = "accepting"
                        /\ allowed' = allowed
                   ELSE Abort /\ UNCHANGED entries
      BY <2>1, <2>4 DEF ConfirmAnswered
    <3>2. message' \in Status \cup {"none"}
      BY <3>1 DEF Report, SendStatus, Status, TypeOK
    <3>3. CASE s = "OK"
      <4>1. <<"clear">> \in Seq(EntryKinds) /\ Len(<<"clear">>) = 1
        BY DEF EntryKinds
      <4>2. 1 <= Len(<<"clear">>) /\ Len(<<"clear">>) <= MaxEntries
        BY <4>1, ConstantsAssumption
      <4>. QED BY <2>2, <3>1, <3>2, <3>3, <4>1, <4>2, Zenon DEF Phases, TypeOK
    <3>4. CASE s # "OK"
      BY <2>2, <3>1, <3>2, <3>4 DEF Abort, Phases, TypeOK
    <3>. QED BY <3>3, <3>4
  <2>. QED BY <2>3, <2>4
<1>5. CASE SendFinished
  BY <1>5 DEF SendFinished, Abort, Phases, TypeOK
<1>6. CASE \E r \in Requests : PaymentRequest(r)
  <2>1. PICK r \in Requests : PaymentRequest(r)
    BY <1>6
  <2>2. CASE allowed
    <3>1. r \in EntryKinds
      BY DEF EntryKinds
    <3>. QED BY <2>1, <2>2, <3>1, PasteType DEF PaymentRequest, TypeOK
  <2>3. CASE ~allowed
    BY <2>1, <2>3 DEF PaymentRequest, TypeOK
  <2>. QED BY <2>2, <2>3
<1>7. CASE SetAddress
  <2>1. "invalid" \in EntryKinds
    BY DEF EntryKinds
  <2>. QED BY <1>7, <2>1, PasteType DEF SetAddress, TypeOK
<1>8. CASE \E i \in 1..Len(entries), k \in {"valid", "invalid"} : EditEntry(i, k)
  <2>1. PICK i \in 1..Len(entries), k \in {"valid", "invalid"} : EditEntry(i, k)
    BY <1>8
  <2>2. k \in EntryKinds
    BY DEF EntryKinds
  <2>. QED BY <2>1, <2>2, ExceptSeq DEF EditEntry, TypeOK
<1>9. CASE AddEntry
  <2>1. "clear" \in EntryKinds
    BY DEF EntryKinds
  <2>. QED BY <1>9, <2>1, AppendProperties, LenProperties, ConstantsAssumption
           DEF AddEntry, TypeOK
<1>10. CASE \E i \in 1..Len(entries) : RemoveEntry(i)
  <2>1. PICK i \in 1..Len(entries) : RemoveEntry(i)
    BY <1>10
  <2>2. CASE Len(entries) = 1
    <3>1. <<"clear">> \in Seq(EntryKinds) /\ Len(<<"clear">>) = 1
      BY DEF EntryKinds
    <3>. QED BY <2>1, <2>2, <3>1 DEF RemoveEntry, TypeOK
  <2>3. CASE Len(entries) # 1
    <3>1. RemoveAt(entries, i) \in Seq(EntryKinds)
          /\ Len(RemoveAt(entries, i)) = Len(entries) - 1
      BY <2>1, RemoveAtType DEF TypeOK
    <3>2. entries' = RemoveAt(entries, i)
      BY <2>1, <2>3 DEF RemoveEntry
    <3>3. /\ entries \in Seq(EntryKinds)
          /\ 1 <= Len(entries) /\ Len(entries) <= MaxEntries
      BY DEF TypeOK
    <3>4. Len(entries) \in Nat
      BY <3>3, LenProperties
    <3>5. 1 <= Len(entries') /\ Len(entries') <= MaxEntries
      BY <2>3, <3>1, <3>2, <3>3, <3>4, ConstantsAssumption
    <3>. QED BY <2>1, <3>1, <3>2, <3>5, Zenon DEF RemoveEntry, TypeOK
  <2>. QED BY <2>2, <2>3
<1>11. CASE Clear
  <2>1. <<"clear">> \in Seq(EntryKinds) /\ Len(<<"clear">>) = 1
    BY DEF EntryKinds
  <2>. QED BY <1>11, <2>1, ConstantsAssumption DEF Clear, TypeOK
<1>12. CASE UNCHANGED vars
  BY <1>12 DEF vars, TypeOK
<1>. QED BY <1>1, <1>2, <1>3, <1>4, <1>5, <1>6, <1>7, <1>8, <1>9, <1>10,
            <1>11, <1>12 DEF Next

(* The dialog's state is always well formed: the form holds one to          *)
(* MaxEntries entries (removeEntry replaces the last one, pasteEntry and   *)
(* addEntry respect the bound), the snapshot is the list of entries        *)
(* validated by the recipients loop, and the countdown stays within        *)
(* SEND_CONFIRM_DELAY.                                                     *)
THEOREM TypeCorrect == Spec => []TypeOK
<1>1. Init => TypeOK
  BY InitTypeOK
<1>2. TypeOK /\ [Next]_vars => TypeOK'
  BY NextTypeOK
<1>. QED BY <1>1, <1>2, PTL DEF Spec

(* fNewRecipientAllowed is false exactly while a send is in progress, for  *)
(* every delay and every bound on the entries.                             *)
THEOREM GateCorrect == Spec => []RecipientGate
<1>1. Init => IInv
  BY InitIInv
<1>2. IInv /\ [Next]_vars => IInv'
  BY NextIInv
<1>3. IInv => RecipientGate
  BY DEF IInv
<1>. QED BY <1>1, <1>2, <1>3, PTL DEF Spec

(* While the passphrase or the confirmation dialog is open, no payment     *)
(* request pasted from a nested event loop changes what the form shows:    *)
(* it shows the recipients validated when send was clicked.                *)
THEOREM ShownIsSentCorrect == Spec => []ShownIsSent
<1>1. Init => IInv
  BY InitIInv
<1>2. IInv /\ [Next]_vars => IInv'
  BY NextIInv
<1>3. IInv => ShownIsSent
  BY DEF IInv
<1>. QED BY <1>1, <1>2, <1>3, PTL DEF Spec

=============================================================================
