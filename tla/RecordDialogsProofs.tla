------------------------ MODULE RecordDialogsProofs ------------------------
(* Proofs about RecordDialogs, for any records and any number of openings. *)
EXTENDS RecordDialogs, FiniteSetTheorems, TLAPS

-----------------------------------------------------------------------------
(* The inductive invariant. *)

\* How the state of the page hangs together with the kind of its dialog.
Page ==
  /\ dlg \in Dialogs
  /\ IsFiniteSet(sends)
  /\ dlg.forgets # "timer" => timers = 0
  /\ dlg.forgets = "close" /\ ~visible => id = New
  /\ dlg.fill = "no" => id = New
  /\ ~dlg.creates => (visible => id # New) /\ \A s \in sends : s.to # New
  /\ dlg.fill # "load" => loads = {}
  /\ dlg.box = "state" => mounted
  /\ dlg.after = "reload" => ~form.edited

\* An edit outlives its dialog only in a form that is not reset on closing.
Resets == (form.edited => visible \/ ~dlg.clears) /\ CancelledEditGone

\* While the save of this opening is under way, loading is on and nothing that
\* belongs to the dialog will switch it off.
Undisturbed == dlg.guards /\ slip \cap {"late", "failed", "early", "refused"} = {}

Spinning ==
  /\ OneSave
  /\ \A s \in sends : s.opening <= opens
  /\ Undisturbed /\ visible =>
       \A s \in sends : s.opening = opens => loading /\ id \notin loads

\* What it takes for a new record to start from other contents than the defaults.
CopyRisks ==
  IF dlg.fill = "load" THEN {"late"}
  ELSE IF dlg.key = "id" THEN {} ELSE {"kept", "timer"}

Copied == slip \cap CopyRisks # {}

Creating ==
  /\ visible /\ id = New => form.base = Blank \/ Copied
  /\ dlg.fill = "load" /\ dlg.creates /\ id = New => form.base = Blank \/ Copied
  /\ dlg.fill = "row" /\ dlg.key = "id" /\ id = New => form.base = Blank
  /\ \A s \in sends : s.to = New => s.base = Blank \/ Copied
  /\ created \subseteq {Blank} \/ Copied

\* What it takes for a record to be stored with other contents than its own.
Risked == slip \cap Exposed # {}

Harmless(base) == dlg.omits /\ base = Blank

\* The form may be submitted for the record: its contents are the record's, will be
\* left out, or the submission is refused or counts as early.
Owned ==
  \/ form.base = id \/ Risked \/ Harmless(form.base)
  \/ dlg.fill = "load" /\ dlg.after = "close" /\ ~dlg.omits /\ id \in loads
  \/ dlg.after = "reload" /\ form.base = Blank

Owning ==
  /\ visible /\ id # New => Owned
  /\ dlg.after = "reload" /\ dlg.clears /\ ~visible => form.base = Blank \/ Risked
  /\ dlg.after = "reload" /\ ~dlg.clears /\ visible => Risked
  /\ \A s \in sends : s.to # New => s.base = s.to \/ Risked \/ Harmless(s.base)
  /\ \A r \in Records : data[r] = r \/ Risked


-----------------------------------------------------------------------------
(* The dialogs. *)

\* How the features of a dialog go together.
Coherent(d) ==
  /\ d.clears => d.on # "id"
  /\ ~d.creates => d.forgets # "timer"
  /\ d.creates => ~d.ownSelf
  /\ d.ownSelf => d.fill = "load"
  /\ d.fill # "load" => d.box # "state" /\ d.after = "close"
  /\ d.key = "id" => d.fill \in {"load", "row"}
  /\ d.after = "reload" => ~d.guards /\ d.asks /\ ~d.omits /\ ~d.creates
  /\ d.after = "reload" => d.box = "state" /\ d.forgets = "never"
  /\ d.fill = "load" /\ d.on = "id" /\ ~d.needsApi => d.forgets = "close"
  /\ d.fill = "load" /\ d.omits => d.on = "any"
  /\ d.fill = "effect" => d.box = "modal" /\ d.on = "open" /\ ~d.creates
  /\ d.fill = "row" => d.on # "any"
  /\ d.fill = "row" /\ d.key = "id" => d.forgets = "close"
  /\ d.wipes = "always" => d.fill = "load" /\ d.after = "close"
  /\ d.box = "state" => d.after = "reload"

\* The fourteen dialogs combine their features in no other way.
LEMMA Features ==
  ASSUME NEW d \in Dialogs
  PROVE  d \in Dialog /\ Coherent(d)
<1> USE DEF Dialog, Coherent, Sheet
<1>1. EditTokenModal \in Dialog /\ Coherent(EditTokenModal)
  BY DEF EditTokenModal
<1>2. EditModelModal \in Dialog /\ Coherent(EditModelModal)
  BY DEF EditModelModal
<1>3. EditVendorModal \in Dialog /\ Coherent(EditVendorModal)
  BY DEF EditVendorModal
<1>4. EditChannelModal \in Dialog /\ Coherent(EditChannelModal)
  BY DEF EditChannelModal
<1>5. EditUserModal \in Dialog /\ Coherent(EditUserModal)
  BY DEF EditUserModal
<1>6. EditRedemptionModal \in Dialog /\ Coherent(EditRedemptionModal)
  BY DEF EditRedemptionModal
<1>7. EditTagModal \in Dialog /\ Coherent(EditTagModal)
  BY DEF EditTagModal
<1>8. AddUserModal \in Dialog /\ Coherent(AddUserModal)
  BY DEF AddUserModal
<1>9. AddEditSubscriptionModal \in Dialog /\ Coherent(AddEditSubscriptionModal)
  BY DEF AddEditSubscriptionModal
<1>10. EditPrefillGroupModal \in Dialog /\ Coherent(EditPrefillGroupModal)
  BY DEF EditPrefillGroupModal
<1>11. CustomOAuthSetting \in Dialog /\ Coherent(CustomOAuthSetting)
  BY DEF CustomOAuthSetting
<1>12. UpdateConfigModal \in Dialog /\ Coherent(UpdateConfigModal)
  BY DEF UpdateConfigModal
<1>13. MultiKeyManageModal \in Dialog /\ Coherent(MultiKeyManageModal)
  BY DEF MultiKeyManageModal
<1>14. OllamaModelModal \in Dialog /\ Coherent(OllamaModelModal)
  BY DEF OllamaModelModal, MultiKeyManageModal
<1> HIDE DEF Dialog, Coherent, Sheet
<1>15. QED
  BY <1>1, <1>2, <1>3, <1>4, <1>5, <1>6, <1>7, <1>8, <1>9, <1>10, <1>11, <1>12, <1>13, <1>14 DEF Dialogs

-----------------------------------------------------------------------------
(* Type correctness. *)

Forms == [base : Contents, edited : BOOLEAN]

\* What rendering the dialog changes.
ShownType ==
  /\ visible \in BOOLEAN /\ id \in Ids /\ mounted \in BOOLEAN /\ api \in BOOLEAN
  /\ loading \in BOOLEAN /\ form \in Forms
  /\ ~mounted => form = Of(Blank) /\ ~visible
  /\ loads \subseteq Records \cup {Self}

\* A form with the contents of a record, or the defaults.
LEMMA OfType ==
  /\ Of(Blank) \in Forms /\ Of(Self) \in Forms
  /\ \A i \in Records : Of(i) \in Forms
  /\ \A i \in Ids : i # New => Of(i) \in Forms
  /\ \A c : Of(c).base = c /\ Of(c).edited = FALSE
BY DEF Of, Forms, Contents, Ids

\* Rendering shows the form so far, the defaults, or the record.
LEMMA EffectForm ==
  ASSUME NEW vis, NEW i, NEW f
  PROVE  Effect(vis, i, f) \in {f, Of(Blank)} \/ (i # New /\ Effect(vis, i, f) = Of(i))
BY DEF Effect

\* Rendering keeps every type.
LEMMA ShowType ==
  ASSUME TypeOK, NEW vis \in BOOLEAN, NEW i \in Ids, NEW old \in Forms,
         NEW spins \in BOOLEAN, Show(vis, i, old, spins)
  PROVE  ShownType'
<1>1. visible' \in BOOLEAN /\ id' \in Ids
  BY DEF Show
<1>2. mounted' \in BOOLEAN /\ api' \in BOOLEAN /\ loading' \in BOOLEAN
  BY DEF Show
<1> DEFINE f == IF mounted /\ FormKey(i) = FormKey(id) THEN old ELSE getInitValues(i)
<1>3. f \in Forms
  BY OfType DEF getInitValues
<1>4. Effect(vis, i, f) \in Forms
  BY <1>3, OfType, EffectForm
<1>5. form' \in {Effect(vis, i, f), f, form}
  BY DEF Show
<1>6. form' \in Forms
  <2> HIDE DEF f
  <2> QED BY <1>3, <1>4, <1>5 DEF TypeOK, Forms
<1>7. ~mounted' => form' = Of(Blank) /\ ~visible'
  BY DEF Show, TypeOK
<1>8. Loads(vis, i) \subseteq Records \cup {Self}
  BY DEF Loads, Ids
<1>9. loads' \subseteq Records \cup {Self}
  BY <1>8 DEF Show, TypeOK
<1>10. QED
  BY <1>1, <1>2, <1>6, <1>7, <1>9 DEF ShownType

\* Saves reach the records and the created ones with contents of their type.
LEMMA StoreType ==
  ASSUME TypeOK, NEW s \in sends, Store(s)
  PROVE  data' \in [Records -> Contents] /\ created' \subseteq Contents
BY DEF TypeOK, Store, Ids

\* Closing the dialog keeps every type.
LEMMA CloseEditType ==
  ASSUME TypeOK, NEW old \in Forms, NEW spins \in BOOLEAN, CloseEdit(old, spins)
  PROVE  ShownType' /\ timers' \in Nat
<1>1. (IF dlg.forgets = "close" THEN New ELSE id) \in Ids
  BY DEF TypeOK, Ids
<1>2. ShownType'
  BY <1>1, ShowType DEF CloseEdit
<1>3. QED
  BY <1>2 DEF CloseEdit, TypeOK

\* A save is sent from a well-typed form, one of two at most.
LEMMA SubmitType ==
  ASSUME TypeOK, Page, submit
  PROVE  /\ sends' \subseteq [to : Ids, base : Contents, opening : 0..MaxOpens, n : 0..1]
         /\ IsFiniteSet(sends')
<1>1. Cardinality(sends) \in Nat
  BY FS_CardinalityType DEF Page
<1>2. Cardinality(sends) \in 0..1
  BY <1>1 DEF submit
<1> DEFINE s == [to |-> id, base |-> form.base, opening |-> opens, n |-> Cardinality(sends)]
<1>3. s \in [to : Ids, base : Contents, opening : 0..MaxOpens, n : 0..1]
  BY <1>2 DEF TypeOK
<1>4. sends' = sends \cup {s}
  BY DEF submit
<1> HIDE DEF s
<1>5. IsFiniteSet(sends \cup {s})
  BY FS_AddElement DEF Page
<1>6. QED
  BY <1>3, <1>4, <1>5 DEF TypeOK

\* Every step keeps every type.
LEMMA TypeStep ==
  ASSUME TypeOK, Page, [Next]_vars
  PROVE  TypeOK'
<1>f. form \in Forms /\ Of(Blank) \in Forms
  BY OfType DEF TypeOK, Forms
<1> DEFINE Rest == /\ UNCHANGED dlg
                   /\ timers' \in Nat /\ fresh' \in BOOLEAN
                   /\ sends' \subseteq [to : Ids, base : Contents, opening : 0..MaxOpens, n : 0..1]
                   /\ data' \in [Records -> Contents] /\ created' \subseteq Contents
                   /\ opens' \in 0..MaxOpens /\ faults' \in 0..MaxFaults /\ slip' \subseteq Slips
<1>t. ShownType' /\ Rest => TypeOK'
  BY DEF TypeOK, ShownType, Forms
<1>u. ShownType
  BY DEF TypeOK, ShownType, Forms
<1>s. {"kept", "first", "same", "timer", "late", "failed", "refused", "over", "early"} \subseteq Slips
  BY DEF Slips
<1>n. MaxOpens \in Nat /\ MaxFaults \in Nat
  BY DialogsAssumption
<1>1. ASSUME NEW i \in Ids, OpenDialog(i) PROVE TypeOK'
  <2>1. ShownType'
    BY <1>1, <1>f, ShowType DEF OpenDialog, TypeOK
  <2>2. slip' \subseteq Slips
    BY <1>1, <1>s DEF OpenDialog, TypeOK
  <2>3. Rest
    BY <1>1, <1>n, <2>2 DEF OpenDialog, TypeOK, server
  <2>4. QED
    BY <1>t, <2>1, <2>3
<1>2. CASE handleCancel
  <2>1. ShownType' /\ timers' \in Nat
    BY <1>2, <1>f, CloseEditType DEF handleCancel, TypeOK
  <2>2. Rest
    BY <1>2, <2>1 DEF handleCancel, TypeOK, server, bounds
  <2>3. QED
    BY <1>t, <2>1, <2>2
<1>3. CASE Edit
  <2>1. form' \in Forms /\ (~mounted' => form' = Of(Blank) /\ ~visible')
    BY <1>3, <1>f DEF Edit, TypeOK, Forms, page
  <2>2. ShownType'
    BY <1>3, <1>u, <2>1 DEF Edit, ShownType, page
  <2>3. Rest
    BY <1>3 DEF Edit, TypeOK, page, server, bounds
  <2>4. QED
    BY <1>t, <2>2, <2>3
<1>4. CASE submit
  <2>1. loading' \in BOOLEAN
    BY <1>4 DEF submit, StartsLoading
  <2>2. ShownType'
    BY <1>4, <1>u, <2>1 DEF submit, ShownType, page
  <2>3. slip' \subseteq Slips
    BY <1>4, <1>s DEF submit, TypeOK
  <2>4. Rest
    BY <1>4, <2>3, SubmitType DEF submit, TypeOK, page, server, bounds
  <2>5. QED
    BY <1>t, <2>2, <2>4
<1>5. ASSUME NEW r \in loads, LoadAnswered(r) \/ LoadRefused(r) \/ LoadLost(r)
      PROVE  TypeOK'
  <2>1. r \in Records \cup {Self}
    BY DEF TypeOK
  <2>2. form' \in {Of(r), form} /\ (~mounted' => form' = Of(Blank) /\ ~visible')
    <3>1. mounted' = mounted /\ visible' = visible
      BY <1>5 DEF LoadAnswered, LoadRefused, LoadLost, page
    <3>2. form' = (IF mounted THEN Of(r) ELSE form) \/ form' = form
      BY <1>5 DEF LoadAnswered, LoadRefused, LoadLost
    <3>3. ~mounted => form = Of(Blank) /\ ~visible
      BY DEF TypeOK
    <3>4. QED
      BY <3>1, <3>2, <3>3
  <2>3. form' \in Forms
    BY <1>f, <2>1, <2>2, OfType
  <2>4. loads' \subseteq Records \cup {Self} /\ loading' \in BOOLEAN
    BY <1>5 DEF LoadAnswered, LoadRefused, LoadLost, TypeOK
  <2>5. ShownType'
    BY <1>5, <1>u, <2>2, <2>3, <2>4 DEF LoadAnswered, LoadRefused, LoadLost, ShownType, page
  <2>6. slip' \subseteq Slips
    BY <1>5, <1>s DEF LoadAnswered, LoadRefused, LoadLost, TypeOK
  <2>7. Rest
    <3>1. UNCHANGED <<dlg, timers, fresh, sends, data, created, opens>>
      BY <1>5 DEF LoadAnswered, LoadRefused, LoadLost, page, server, bounds
    <3>2. faults' \in 0..MaxFaults
      <4>1. faults' = faults \/ (faults < MaxFaults /\ faults' = faults + 1)
        BY <1>5 DEF LoadAnswered, LoadRefused, LoadLost, bounds
      <4>2. faults \in 0..MaxFaults
        BY DEF TypeOK
      <4>3. QED
        BY <1>n, <4>1, <4>2
    <3>3. QED
      BY <2>6, <3>1, <3>2 DEF TypeOK
  <2>8. QED
    BY <1>t, <2>5, <2>7
<1>6. ASSUME NEW s \in sends, SubmitAnswered(s) PROVE TypeOK'
  <2>1. data' \in [Records -> Contents] /\ created' \subseteq Contents
    BY <1>6, StoreType DEF SubmitAnswered
  <2>2. CASE dlg.after = "reload" /\ loads' = loads \cup {s.to} /\ loading' = TRUE
                /\ UNCHANGED <<page, mounted, api, form, slip>>
    <3>1. s.to \in Records
      BY <2>2, Features DEF Page, TypeOK, Ids, Coherent
    <3>2. loads' \subseteq Records \cup {Self}
      BY <2>2, <3>1 DEF TypeOK
    <3>3. ShownType'
      BY <1>u, <2>2, <3>2 DEF ShownType, page
    <3>4. Rest
      BY <1>6, <2>1, <2>2 DEF SubmitAnswered, TypeOK, page, bounds
    <3>5. QED
      BY <1>t, <3>3, <3>4
  <2>3. CASE /\ CloseEdit(IF mounted /\ Wiped(s, TRUE) THEN Of(Blank) ELSE form,
                          loading /\ ~dlg.guards)
             /\ slip' = IF s.opening # opens THEN slip \cup {"over"} ELSE slip
             /\ UNCHANGED dlg
    <3>1. (IF mounted /\ Wiped(s, TRUE) THEN Of(Blank) ELSE form) \in Forms
      BY <1>f
    <3>2. (loading /\ ~dlg.guards) \in BOOLEAN
      OBVIOUS
    <3>3. ShownType' /\ timers' \in Nat
      BY <2>3, <3>1, <3>2, CloseEditType
    <3>4. slip' \subseteq Slips
      BY <2>3, <1>s DEF TypeOK
    <3>5. Rest
      BY <1>6, <2>1, <2>3, <3>3, <3>4 DEF SubmitAnswered, TypeOK, bounds
    <3>6. QED
      BY <1>t, <3>3, <3>5
  <2>4. QED
    BY <1>6, <2>2, <2>3 DEF SubmitAnswered
<1>7. ASSUME NEW s \in sends, SubmitRefused(s) \/ SubmitLost(s) PROVE TypeOK'
  <2>1. data' \in [Records -> Contents] /\ created' \subseteq Contents
    BY <1>7, StoreType DEF SubmitRefused, SubmitLost, TypeOK, server
  <2>2. form' \in {Of(Blank), form} /\ (~mounted' => form' = Of(Blank) /\ ~visible')
    <3>1. mounted' = mounted /\ visible' = visible
      BY <1>7 DEF SubmitRefused, SubmitLost, page
    <3>2. (form' = Of(Blank) /\ mounted) \/ form' = form
      BY <1>7 DEF SubmitRefused, SubmitLost
    <3>3. ~mounted => form = Of(Blank) /\ ~visible
      BY DEF TypeOK
    <3>4. QED
      BY <3>1, <3>2, <3>3
  <2>3. loading' \in BOOLEAN
    BY <1>7 DEF SubmitRefused, SubmitLost, TypeOK
  <2>4. ShownType'
    BY <1>7, <1>f, <1>u, <2>2, <2>3 DEF SubmitRefused, SubmitLost, ShownType, page
  <2>5. slip' \subseteq Slips
    BY <1>7, <1>s DEF SubmitRefused, SubmitLost, TypeOK
  <2>6. Rest
    <3>1. UNCHANGED <<dlg, timers, fresh, opens>> /\ sends' \subseteq sends
      BY <1>7 DEF SubmitRefused, SubmitLost, page, bounds
    <3>2. faults' \in 0..MaxFaults
      <4>1. faults < MaxFaults /\ faults' = faults + 1
        BY <1>7 DEF SubmitRefused, SubmitLost
      <4>2. faults \in 0..MaxFaults
        BY DEF TypeOK
      <4>3. QED
        BY <1>n, <4>1, <4>2
    <3>3. QED
      BY <2>1, <2>5, <3>1, <3>2 DEF TypeOK
  <2>7. QED
    BY <1>t, <2>4, <2>6
<1>8. CASE TimerFires
  <2>1. New \in Ids
    BY DEF Ids
  <2>2. ShownType'
    BY <1>8, <1>f, <2>1, ShowType DEF TimerFires, TypeOK
  <2>3. slip' \subseteq Slips
    BY <1>8, <1>s DEF TimerFires, TypeOK
  <2>4. Rest
    BY <1>8, <2>3 DEF TimerFires, TypeOK, server, bounds
  <2>5. QED
    BY <1>t, <2>2, <2>4
<1>9. CASE Unmount
  <2>1. ShownType'
    BY <1>9, <1>f, <1>u DEF Unmount, ShownType, page
  <2>2. Rest
    BY <1>9 DEF Unmount, TypeOK, page, server, bounds
  <2>3. QED
    BY <1>t, <2>1, <2>2
<1>10. CASE UNCHANGED vars
  BY <1>10 DEF vars, page, server, bounds, TypeOK
<1>11. QED
  BY <1>1, <1>2, <1>3, <1>4, <1>5, <1>6, <1>7, <1>8, <1>9, <1>10
     DEF Next, User, Replies, Browser

-----------------------------------------------------------------------------
(* The page and its dialog. *)

\* An edit survives rendering only in the form that is there, and not when closing
\* resets it.
LEMMA ShowEdited ==
  ASSUME TypeOK, NEW vis \in BOOLEAN, NEW i, NEW old, NEW spins,
         Show(vis, i, old, spins), form'.edited
  PROVE  mounted /\ form' = old /\ (Runs(vis, i) /\ dlg.clears => vis)
<1>1. form.edited => mounted
  BY OfType DEF TypeOK
<1>2. ~getInitValues(i).edited
  BY OfType DEF getInitValues
<1>3. mounted
  BY <1>1, <1>2, OfType, EffectForm DEF Show
<1>4. Effect(vis, i, IF FormKey(i) = FormKey(id) THEN old ELSE getInitValues(i)) = form'
  BY <1>3 DEF Show
<1>5. form' = old
  BY <1>2, <1>4, OfType, EffectForm
<1>6. Runs(vis, i) /\ dlg.clears => vis
  BY <1>4, OfType DEF Effect
<1>7. QED
  BY <1>3, <1>5, <1>6

\* Only a dialog that loads has loads under way.
LEMMA ShowLoads ==
  ASSUME NEW vis, NEW i, NEW old, NEW spins, Show(vis, i, old, spins)
  PROVE  dlg.fill # "load" => loads' = loads
BY DEF Show, Loads

\* Rendering changes these variables and no others.
LEMMA ShowPage ==
  ASSUME TypeOK, NEW vis \in BOOLEAN, NEW i, NEW old, NEW spins, Show(vis, i, old, spins)
  PROVE  visible' = vis /\ id' = i /\ (mounted => mounted')
BY DEF Show, TypeOK

\* The save that succeeded: how the dialog goes on.
SaveCloses(s) ==
  /\ CloseEdit(IF mounted /\ Wiped(s, TRUE) THEN Of(Blank) ELSE form, loading /\ ~dlg.guards)
  /\ slip' = IF s.opening # opens THEN slip \cup {"over"} ELSE slip
  /\ dlg' = dlg /\ dlg.after = "close"

SaveReloads(s) ==
  /\ loads' = loads \cup {s.to} /\ loading' = TRUE
  /\ UNCHANGED <<page, mounted, api, form, slip>> /\ dlg.after = "reload"

\* The answer to a save that succeeded has one of these two effects.
LEMMA SubmitAnsweredCases ==
  ASSUME NEW s \in sends, SubmitAnswered(s)
  PROVE  /\ SaveCloses(s) \/ SaveReloads(s)
         /\ sends' = sends \ {s} /\ Store(s) /\ UNCHANGED <<opens, faults, fresh>>
BY DEF SubmitAnswered, SaveCloses, SaveReloads, bounds

\* The finite set of saves under way stays finite.
LEMMA SendsFinite ==
  ASSUME TypeOK, Page, [Next]_vars
  PROVE  IsFiniteSet(sends')
<1>1. CASE submit
  BY <1>1, SubmitType
<1>2. CASE sends' \subseteq sends
  BY <1>2, FS_Subset DEF Page
<1>3. submit \/ sends' \subseteq sends
  BY DEF Next, User, Replies, Browser, OpenDialog, handleCancel, Edit, LoadAnswered,
     LoadRefused, LoadLost, SubmitAnswered, SubmitRefused, SubmitLost, TimerFires,
     Unmount, vars
<1>4. QED
  BY <1>1, <1>2, <1>3

\* No step changes the dialog, and what went wrong is remembered.
LEMMA Remembered ==
  ASSUME TypeOK, Page, [Next]_vars
  PROVE  dlg' = dlg /\ slip \subseteq slip'
<1>1. ASSUME NEW i \in Ids, OpenDialog(i) PROVE dlg' = dlg /\ slip \subseteq slip'
  BY <1>1 DEF OpenDialog
<1>2. CASE handleCancel \/ Edit \/ submit
  BY <1>2 DEF handleCancel, Edit, submit, page
<1>3. ASSUME NEW r \in loads, LoadAnswered(r) \/ LoadRefused(r) \/ LoadLost(r)
      PROVE  dlg' = dlg /\ slip \subseteq slip'
  BY <1>3 DEF LoadAnswered, LoadRefused, LoadLost, page
<1>4. ASSUME NEW s \in sends, SubmitAnswered(s) PROVE dlg' = dlg /\ slip \subseteq slip'
  BY <1>4, SubmitAnsweredCases DEF SaveCloses, SaveReloads, page
<1>5. ASSUME NEW s \in sends, SubmitRefused(s) \/ SubmitLost(s)
      PROVE  dlg' = dlg /\ slip \subseteq slip'
  BY <1>5 DEF SubmitRefused, SubmitLost, page
<1>6. CASE TimerFires \/ Unmount \/ UNCHANGED vars
  BY <1>6 DEF TimerFires, Unmount, vars, page
<1>7. QED
  BY <1>1, <1>2, <1>3, <1>4, <1>5, <1>6 DEF Next, User, Replies, Browser

\* The part of Page that a step can disturb.
Placed ==
  /\ dlg.forgets # "timer" => timers = 0
  /\ dlg.forgets = "close" /\ ~visible => id = New
  /\ dlg.fill = "no" => id = New
  /\ ~dlg.creates /\ visible => id # New
  /\ ~dlg.creates => \A s \in sends : s.to # New
  /\ dlg.fill # "load" => loads = {}
  /\ dlg.box = "state" => mounted
  /\ dlg.after = "reload" => ~form.edited

\* The state of the page keeps to the kind of its dialog.
LEMMA PageStep ==
  ASSUME TypeOK, Page, [Next]_vars
  PROVE  Page'
<1>d. dlg' = dlg
  BY Remembered
<1>c. Coherent(dlg)
  BY Features DEF Page
<1>p. Placed
  BY DEF Placed, Page
<1>q. SUFFICES Placed'
  BY <1>d, SendsFinite DEF Placed, Page
<1>e. ASSUME NEW vis \in BOOLEAN, NEW i, NEW old, NEW spins, Show(vis, i, old, spins),
             ~old.edited \/ old = form
      PROVE  /\ visible' = vis /\ id' = i /\ (dlg.box = "state" => mounted')
             /\ dlg.fill # "load" => loads' = {}
             /\ dlg.after = "reload" => ~form'.edited
  <2>1. dlg.after = "reload" => ~form'.edited
    BY <1>e, <1>p, ShowEdited DEF Placed
  <2>2. dlg.fill # "load" => loads' = {}
    BY <1>e, <1>p, ShowLoads DEF Placed
  <2>3. visible' = vis /\ id' = i /\ (dlg.box = "state" => mounted')
    BY <1>e, <1>p, ShowPage DEF Placed
  <2>4. QED
    BY <2>1, <2>2, <2>3
<1>f. ASSUME NEW old, NEW spins, CloseEdit(old, spins), ~old.edited \/ old = form,
             sends' \subseteq sends
      PROVE  Placed'
  <2> DEFINE i == IF dlg.forgets = "close" THEN New ELSE id
  <2>1. /\ visible' = FALSE /\ id' = i /\ (dlg.box = "state" => mounted')
        /\ dlg.fill # "load" => loads' = {}
        /\ dlg.after = "reload" => ~form'.edited
    <3>1. Show(FALSE, i, old, spins) /\ FALSE \in BOOLEAN
      BY <1>f DEF CloseEdit
    <3> HIDE DEF i
    <3>2. QED
      BY <1>e, <1>f, <3>1
  <2>2. dlg.forgets # "timer" => timers' = 0
    BY <1>f, <1>p DEF CloseEdit, Placed
  <2>3. QED
    BY <1>d, <1>f, <1>p, <2>1, <2>2 DEF Placed
<1>1. ASSUME NEW i \in Ids, OpenDialog(i) PROVE Placed'
  <2>1. /\ visible' = TRUE /\ id' = i /\ (dlg.box = "state" => mounted')
        /\ dlg.fill # "load" => loads' = {}
        /\ dlg.after = "reload" => ~form'.edited
    BY <1>1, <1>e DEF OpenDialog
  <2>2. timers' = timers /\ sends' = sends
    BY <1>1 DEF OpenDialog
  <2>3. dlg.fill = "no" => i = New
    BY <1>1 DEF OpenDialog
  <2>4. ~dlg.creates => i # New
    BY <1>1 DEF OpenDialog
  <2>5. QED
    BY <1>d, <1>p, <2>1, <2>2, <2>3, <2>4 DEF Placed
<1>2. CASE handleCancel
  BY <1>2, <1>f DEF handleCancel
<1>3. CASE Edit
  BY <1>3, <1>d, <1>p DEF Edit, Placed, page
<1>4. CASE submit
  <2>1. visible
    BY <1>4 DEF submit
  <2>2. /\ UNCHANGED <<visible, id, timers, mounted, form, loads>>
        /\ sends' = sends \cup {[to |-> id, base |-> form.base, opening |-> opens,
                                 n |-> Cardinality(sends)]}
    BY <1>4 DEF submit, page
  <2>3. ~dlg.creates => \A s \in sends' : s.to # New
    BY <1>p, <2>1, <2>2 DEF Placed
  <2>4. QED
    BY <1>d, <1>p, <2>2, <2>3 DEF Placed
<1>5. ASSUME NEW r \in loads, LoadAnswered(r) \/ LoadRefused(r) \/ LoadLost(r)
      PROVE  Placed'
  <2>1. UNCHANGED <<visible, id, timers, mounted, sends>> /\ loads' \subseteq loads
    BY <1>5 DEF LoadAnswered, LoadRefused, LoadLost, page
  <2>2. form' \in {Of(r), form}
    BY <1>5 DEF LoadAnswered, LoadRefused, LoadLost
  <2>3. QED
    BY <1>d, <1>p, <2>1, <2>2, OfType DEF Placed
<1>6. ASSUME NEW s \in sends, SubmitAnswered(s) PROVE Placed'
  <2>1. CASE SaveCloses(s)
    <3> DEFINE old == IF mounted /\ Wiped(s, TRUE) THEN Of(Blank) ELSE form
    <3>1. ~old.edited \/ old = form
      BY OfType
    <3>2. QED
      BY <1>6, <1>f, <2>1, <3>1, SubmitAnsweredCases DEF SaveCloses
  <2>2. CASE SaveReloads(s)
    <3>1. /\ UNCHANGED <<visible, id, timers, mounted, form>> /\ sends' \subseteq sends
          /\ dlg.fill = "load"
      BY <1>6, <1>c, <2>2, SubmitAnsweredCases DEF SaveReloads, page, Coherent
    <3>2. QED
      BY <1>d, <1>p, <3>1 DEF Placed
  <2>3. QED
    BY <1>6, <2>1, <2>2, SubmitAnsweredCases
<1>7. ASSUME NEW s \in sends, SubmitRefused(s) \/ SubmitLost(s) PROVE Placed'
  <2>1. UNCHANGED <<visible, id, timers, mounted, loads>> /\ sends' \subseteq sends
    BY <1>7 DEF SubmitRefused, SubmitLost, page
  <2>2. form' \in {Of(Blank), form}
    BY <1>7 DEF SubmitRefused, SubmitLost
  <2>3. QED
    BY <1>d, <1>p, <2>1, <2>2, OfType DEF Placed
<1>8. CASE TimerFires
  <2>1. dlg.forgets = "timer"
    BY <1>8, <1>p DEF TimerFires, Placed, TypeOK
  <2>2. dlg.creates
    BY <1>c, <2>1 DEF Coherent
  <2>3. /\ visible' = visible /\ id' = New /\ (dlg.box = "state" => mounted')
        /\ dlg.fill # "load" => loads' = {}
        /\ dlg.after = "reload" => ~form'.edited
    BY <1>8, <1>e DEF TimerFires, TypeOK
  <2>4. sends' = sends
    BY <1>8 DEF TimerFires
  <2>5. QED
    BY <1>d, <1>p, <2>1, <2>2, <2>3, <2>4 DEF Placed
<1>9. CASE Unmount
  <2>1. ~form'.edited /\ dlg.box # "state" /\ UNCHANGED <<visible, id, timers, sends, loads>>
    BY <1>9, OfType DEF Unmount, page
  <2>2. QED
    BY <1>d, <1>p, <2>1 DEF Placed
<1>10. CASE UNCHANGED vars
  BY <1>10, <1>p DEF vars, page, Placed
<1>11. QED
  BY <1>1, <1>2, <1>3, <1>4, <1>5, <1>6, <1>7, <1>8, <1>9, <1>10
     DEF Next, User, Replies, Browser

\* The types and the page's state hold in every reachable state.
LEMMA PageHolds == Spec => [](TypeOK /\ Page)
<1>1. Init => TypeOK /\ Page
  <2> SUFFICES ASSUME Init PROVE TypeOK /\ Page
    OBVIOUS
  <2>1. dlg \in Dialog /\ Coherent(dlg)
    BY Features DEF Init
  <2>2. Of(Blank) \in [base : Contents, edited : BOOLEAN] /\ ~Of(Blank).edited
    BY OfType DEF Forms
  <2>3. IsFiniteSet(sends)
    BY FS_EmptySet DEF Init
  <2>4. mounted \in BOOLEAN /\ loading \in BOOLEAN /\ api \in BOOLEAN
    <3>1. mounted = (dlg.box = "state") /\ loading = dlg.ownSelf
      BY DEF Init
    <3>2. dlg.ownSelf \in BOOLEAN
      BY <2>1 DEF Dialog
    <3>3. api \in BOOLEAN
      BY DEF Init
    <3>4. mounted \in BOOLEAN
      BY <3>1
    <3>5. QED
      BY <3>1, <3>2, <3>3, <3>4
  <2>5. loads \subseteq Records \cup {Self} /\ (dlg.fill # "load" => loads = {})
    BY <2>1 DEF Init, Coherent
  <2>6. TypeOK
    <3>1. id \in Ids /\ timers \in Nat /\ opens \in 0..MaxOpens /\ faults \in 0..MaxFaults
      BY DialogsAssumption DEF Init, Ids
    <3>2. /\ data \in [Records -> Contents] /\ created \subseteq Contents
          /\ slip \subseteq Slips
          /\ sends \subseteq [to : Ids, base : Contents, opening : 0..MaxOpens, n : 0..1]
      BY DEF Init, Contents
    <3>3. /\ visible \in BOOLEAN /\ fresh \in BOOLEAN
          /\ form = Of(Blank) /\ ~visible
      BY DEF Init
    <3>4. QED
      BY <2>1, <2>2, <2>4, <2>5, <3>1, <3>2, <3>3 DEF TypeOK
  <2>7. Page
    BY <2>1, <2>2, <2>3, <2>5 DEF Init, Page
  <2>8. QED
    BY <2>6, <2>7
<1>2. TypeOK /\ Page /\ [Next]_vars => (TypeOK /\ Page)'
  BY TypeStep, PageStep
<1>3. QED
  BY <1>1, <1>2, PTL DEF Spec

\* Every reachable state is well typed, for any records and bounds.
THEOREM TypeCorrect == Spec => []TypeOK
BY PageHolds, PTL

-----------------------------------------------------------------------------
(* Cancelled edits. *)

\* Rendering keeps an edit only where the dialog stays open or does not reset.
LEMMA ShowResets ==
  ASSUME TypeOK, Page, Resets, NEW vis \in BOOLEAN, NEW i, NEW old, NEW spins,
         Show(vis, i, old, spins), ~old.edited \/ old = form
  PROVE  form'.edited =>
           /\ mounted /\ form.edited /\ (vis \/ ~dlg.clears)
           /\ ~visible => ~dlg.clears
<1> SUFFICES ASSUME form'.edited
             PROVE  /\ mounted /\ form.edited /\ (vis \/ ~dlg.clears)
                    /\ ~visible => ~dlg.clears
  OBVIOUS
<1>1. mounted /\ form' = old /\ (Runs(vis, i) /\ dlg.clears => vis)
  BY ShowEdited
<1>2. form.edited
  BY <1>1
<1>3. ~visible => ~dlg.clears
  BY <1>2 DEF Resets
<1>4. vis \/ ~dlg.clears
  <2>1. dlg.clears => dlg.on # "id"
    BY Features DEF Page, Coherent
  <2>2. visible /\ ~vis /\ dlg.clears => Runs(vis, i)
    BY <2>1 DEF Runs, TypeOK
  <2>3. QED
    BY <1>1, <1>3, <2>2
<1>5. QED
  BY <1>1, <1>2, <1>3, <1>4

\* A step leaves an edit in a closed dialog, or shows it again, only where closing
\* does not reset the form.
LEMMA ResetsStep ==
  ASSUME TypeOK, Page, Resets, [Next]_vars
  PROVE  Resets'
<1>d. dlg' = dlg /\ slip \subseteq slip'
  BY Remembered
<1>r. /\ form.edited => visible \/ ~dlg.clears
      /\ visible /\ fresh /\ form.edited => ~dlg.clears /\ "kept" \in slip
  BY DEF Resets, CancelledEditGone
<1>q. SUFFICES ASSUME form'.edited
               PROVE  /\ visible' \/ ~dlg.clears
                      /\ visible' /\ fresh' => ~dlg.clears /\ "kept" \in slip'
  BY <1>d DEF Resets, CancelledEditGone
<1>f. ASSUME NEW old, NEW spins, CloseEdit(old, spins), ~old.edited \/ old = form
      PROVE  visible' = FALSE /\ ~dlg.clears
  <2> DEFINE i == IF dlg.forgets = "close" THEN New ELSE id
  <2>1. Show(FALSE, i, old, spins) /\ FALSE \in BOOLEAN
    BY <1>f DEF CloseEdit
  <2> HIDE DEF i
  <2>2. visible' = FALSE
    BY <2>1, ShowPage
  <2>3. ~dlg.clears
    BY <1>f, <1>q, <2>1, ShowResets
  <2>4. QED
    BY <2>2, <2>3
<1>1. ASSUME NEW i \in Ids, OpenDialog(i)
      PROVE  visible' /\ ~dlg.clears /\ "kept" \in slip'
  <2>1. visible' /\ ~visible
    BY <1>1, ShowPage DEF OpenDialog
  <2>2. mounted /\ ~dlg.clears
    BY <1>1, <1>q, <2>1, ShowResets DEF OpenDialog
  <2>3. "kept" \in slip'
    BY <1>1, <2>2 DEF OpenDialog
  <2>4. QED
    BY <2>1, <2>2, <2>3
<1>2. CASE handleCancel
  BY <1>2, <1>f DEF handleCancel
<1>3. CASE Edit
  BY <1>3 DEF Edit, page
<1>4. CASE submit
  BY <1>4, <1>d, <1>r, <1>q DEF submit, page
<1>5. ASSUME NEW r \in loads, LoadAnswered(r) \/ LoadRefused(r) \/ LoadLost(r)
      PROVE  form' = form /\ visible' = visible /\ fresh' = fresh
  <2>1. visible' = visible /\ fresh' = fresh /\ form' \in {Of(r), form}
    BY <1>5 DEF LoadAnswered, LoadRefused, LoadLost, page
  <2>2. QED
    BY <1>q, <2>1, OfType
<1>6. ASSUME NEW s \in sends, SubmitAnswered(s)
      PROVE  \/ visible' = FALSE /\ ~dlg.clears
             \/ form' = form /\ visible' = visible /\ fresh' = fresh
  <2>1. CASE SaveCloses(s)
    <3> DEFINE old == IF mounted /\ Wiped(s, TRUE) THEN Of(Blank) ELSE form
    <3>1. ~old.edited \/ old = form
      BY OfType
    <3>2. QED
      BY <1>f, <2>1, <3>1 DEF SaveCloses
  <2>2. CASE SaveReloads(s)
    BY <1>6, <2>2, SubmitAnsweredCases DEF SaveReloads, page
  <2>3. QED
    BY <1>6, <2>1, <2>2, SubmitAnsweredCases
<1>7. ASSUME NEW s \in sends, SubmitRefused(s) \/ SubmitLost(s)
      PROVE  form' = form /\ visible' = visible /\ fresh' = fresh
  <2>1. visible' = visible /\ fresh' = fresh /\ form' \in {Of(Blank), form}
    BY <1>7 DEF SubmitRefused, SubmitLost, page
  <2>2. QED
    BY <1>q, <2>1, OfType
<1>8. CASE TimerFires
  <2>1. visible' = visible /\ fresh' = fresh
    BY <1>8, ShowPage DEF TimerFires, TypeOK
  <2>2. form.edited
    BY <1>8, <1>q, ShowResets DEF TimerFires, TypeOK
  <2>3. QED
    BY <1>d, <1>r, <2>1, <2>2
<1>9. CASE Unmount
  BY <1>9, <1>q, OfType DEF Unmount
<1>10. CASE UNCHANGED vars
  BY <1>10, <1>d, <1>r, <1>q DEF vars, page
<1>11. QED
  BY <1>d, <1>r, <1>q, <1>1, <1>2, <1>3, <1>4, <1>5, <1>6, <1>7, <1>8, <1>9, <1>10
     DEF Next, User, Replies, Browser

\* A dialog that resets its form on closing never shows a cancelled edit again, for
\* any records, openings and order of answers; another does so only in the form that
\* was still mounted when it was reopened.
THEOREM NoCancelledEdit == Spec => []CancelledEditGone
<1>1. Init => Resets
  BY OfType DEF Init, Resets, CancelledEditGone
<1>2. TypeOK /\ Page /\ Resets /\ [Next]_vars => Resets'
  BY ResetsStep
<1>3. Resets => CancelledEditGone
  BY DEF Resets
<1>4. QED
  BY <1>1, <1>2, <1>3, PageHolds, PTL DEF Spec

-----------------------------------------------------------------------------
(* One save at a time. *)

Distinct == \A s, t \in sends : s # t => s.opening # t.opening

Waiting == \A s \in sends : s.opening = opens => loading /\ id \notin loads

\* Rendering switches loading off for nobody, and loads at most the record shown.
LEMMA ShowSpins ==
  ASSUME TypeOK, NEW i \in Ids, NEW old, NEW spins, Show(visible, i, old, spins)
  PROVE  (spins => loading') /\ loads' \subseteq (loads \cup {i, Self}) \ {New}
<1>1. spins => loading'
  BY DEF Show
<1>2. Loads(visible, i) \subseteq {i, Self} \ {New}
  BY DialogsAssumption DEF Loads
<1>3. New \notin loads
  BY DialogsAssumption DEF TypeOK
<1>4. QED
  BY <1>1, <1>2, <1>3 DEF Show

\* While loading disables the button, the save of this opening keeps it on.
LEMMA SpinningStep ==
  ASSUME TypeOK, Page, Spinning, [Next]_vars
  PROVE  Spinning'
<1>d. dlg' = dlg /\ slip \subseteq slip'
  BY Remembered
<1>u. Undisturbed' => Undisturbed
  BY <1>d DEF Undisturbed
<1>o. /\ Undisturbed => Distinct
      /\ Undisturbed /\ visible => Waiting
      /\ \A s \in sends : s.opening <= opens
  BY DEF Spinning, OneSave, Undisturbed, Distinct, Waiting
<1>n. opens \in Nat /\ \A s \in sends : s.opening \in Nat
  BY DialogsAssumption DEF TypeOK
<1>q. ASSUME \A s \in sends' : s.opening <= opens',
             Undisturbed' => Distinct',
             Undisturbed' /\ visible' => Waiting'
      PROVE  Spinning'
  BY <1>q DEF Spinning, OneSave, Undisturbed, Distinct, Waiting
<1>k. ASSUME sends' \subseteq sends, opens' = opens, Undisturbed' /\ visible' => Waiting'
      PROVE  Spinning'
  <2>1. \A s \in sends' : s.opening <= opens'
    BY <1>k, <1>o
  <2>2. Undisturbed' => Distinct'
    BY <1>k, <1>o, <1>u DEF Distinct
  <2>3. QED
    BY <1>k, <1>q, <2>1, <2>2
<1>c. ASSUME NEW old, NEW spins, CloseEdit(old, spins) PROVE ~visible'
  BY <1>c, ShowPage DEF CloseEdit
<1>1. ASSUME NEW i \in Ids, OpenDialog(i) PROVE Spinning'
  <2>1. sends' = sends /\ opens' = opens + 1
    BY <1>1 DEF OpenDialog
  <2>2. \A s \in sends' : s.opening <= opens' /\ s.opening # opens'
    BY <1>n, <1>o, <2>1
  <2>3. Undisturbed' => Distinct'
    BY <1>o, <1>u, <2>1 DEF Distinct
  <2>4. Waiting'
    BY <2>2 DEF Waiting
  <2>5. QED
    BY <1>q, <2>2, <2>3, <2>4
<1>2. CASE handleCancel
  BY <1>2, <1>c, <1>k DEF handleCancel, bounds
<1>3. CASE Edit
  <2>1. UNCHANGED <<visible, id, sends, opens, loading, loads>>
    BY <1>3 DEF Edit, page, bounds
  <2>2. QED
    BY <1>k, <1>o, <1>u, <2>1 DEF Waiting
<1>4. CASE submit
  <2> DEFINE s == [to |-> id, base |-> form.base, opening |-> opens, n |-> Cardinality(sends)]
  <2>1. /\ sends' = sends \cup {s} /\ UNCHANGED <<visible, id, opens, loads>>
        /\ visible /\ (dlg.guards => ~loading) /\ s.opening = opens
        /\ dlg.guards => loading'
        /\ id \in loads => "early" \in slip'
    BY <1>4 DEF submit, page, bounds, Enabled, StartsLoading
  <2> HIDE DEF s
  <2>2. \A t \in sends' : t.opening <= opens'
    BY <1>n, <1>o, <2>1
  <2>3. ASSUME Undisturbed' PROVE Distinct' /\ Waiting'
    <3>1. dlg.guards /\ id \notin loads
      BY <1>d, <2>1, <2>3 DEF Undisturbed
    <3>2. \A t \in sends : t.opening # opens
      BY <1>o, <1>u, <2>1, <2>3, <3>1 DEF Waiting
    <3>3. Distinct'
      BY <1>o, <1>u, <2>1, <2>3, <3>2 DEF Distinct
    <3>4. Waiting'
      BY <2>1, <3>1 DEF Waiting
    <3>5. QED
      BY <3>3, <3>4
  <2>4. QED
    BY <1>q, <2>2, <2>3
<1>5. ASSUME NEW r \in loads, LoadAnswered(r) \/ LoadRefused(r) \/ LoadLost(r)
      PROVE  Spinning'
  <2>1. UNCHANGED <<visible, id, mounted, sends, opens>>
    BY <1>5 DEF LoadAnswered, LoadRefused, LoadLost, page, bounds
  <2>2. ASSUME Undisturbed', visible' PROVE Waiting'
    <3>1. mounted
      BY <2>1, <2>2 DEF TypeOK
    <3>2. LoadAnswered(r)
      BY <1>5, <1>d, <2>2 DEF LoadRefused, LoadLost, Undisturbed
    <3>3. r = id
      BY <2>2, <3>1, <3>2 DEF LoadAnswered, Undisturbed
    <3>4. \A s \in sends : s.opening # opens
      BY <1>o, <1>u, <2>1, <2>2, <3>3 DEF Waiting
    <3>5. QED
      BY <2>1, <3>4 DEF Waiting
  <2>3. QED
    BY <1>k, <2>1, <2>2
<1>6. ASSUME NEW s \in sends, SubmitAnswered(s) PROVE Spinning'
  <2>1. sends' \subseteq sends /\ opens' = opens
    BY <1>6, SubmitAnsweredCases
  <2>2. CASE SaveCloses(s)
    BY <1>c, <1>k, <2>1, <2>2 DEF SaveCloses
  <2>3. CASE SaveReloads(s)
    <3>1. ~dlg.guards
      BY <2>3, Features DEF SaveReloads, Page, Coherent
    <3>2. QED
      BY <1>d, <1>k, <2>1, <3>1 DEF Undisturbed
  <2>4. QED
    BY <1>6, <2>2, <2>3, SubmitAnsweredCases
<1>7. ASSUME NEW s \in sends, SubmitRefused(s) \/ SubmitLost(s) PROVE Spinning'
  <2>1. sends' \subseteq sends /\ opens' = opens
    BY <1>7 DEF SubmitRefused, SubmitLost
  <2>2. "refused" \in slip'
    BY <1>7 DEF SubmitRefused, SubmitLost
  <2>3. ~Undisturbed'
    BY <2>2 DEF Undisturbed
  <2>4. QED
    BY <1>k, <2>1, <2>3
<1>8. CASE TimerFires
  <2>0. New \in Ids
    BY DEF Ids
  <2>1. /\ UNCHANGED <<sends, opens>> /\ visible' = visible /\ id' = New
        /\ loading => loading'
        /\ New \notin loads'
    BY <1>8, <2>0, ShowSpins, ShowPage, DialogsAssumption DEF TimerFires, TypeOK, bounds
  <2>2. ASSUME Undisturbed', visible' PROVE Waiting'
    BY <1>o, <1>u, <2>1, <2>2 DEF Waiting
  <2>3. QED
    BY <1>k, <2>1, <2>2
<1>9. CASE Unmount
  <2>1. ~visible' /\ UNCHANGED <<sends, opens>>
    BY <1>9 DEF Unmount, page, bounds
  <2>2. QED
    BY <1>k, <2>1
<1>10. CASE UNCHANGED vars
  BY <1>10 DEF vars, page, bounds, Spinning, OneSave, Undisturbed
<1>11. QED
  BY <1>1, <1>2, <1>3, <1>4, <1>5, <1>6, <1>7, <1>8, <1>9, <1>10
     DEF Next, User, Replies, Browser

\* In a dialog whose button loading disables, one opening never has two saves under
\* way, for any records, openings and order of answers, unless a load was answered
\* for another dialog, failed or was overtaken by the save, or a save failed.
THEOREM OneSaveAtATime == Spec => []OneSave
<1>1. Init => Spinning
  BY DEF Init, Spinning, OneSave
<1>2. TypeOK /\ Page /\ Spinning /\ [Next]_vars => Spinning'
  BY SpinningStep
<1>3. Spinning => OneSave
  BY DEF Spinning
<1>4. QED
  BY <1>1, <1>2, <1>3, PageHolds, PTL DEF Spec

-----------------------------------------------------------------------------
(* What records are created from. *)

\* The form, and what is sent for a new record.
NewForm == id = New => form.base = Blank

Drafts == \A s \in sends : s.to = New => s.base = Blank \/ Copied

\* Rendering a dialog that loads for a new record, or one keyed by the record, shows
\* the defaults.
LEMMA ShowNew ==
  ASSUME TypeOK, Page, NEW vis \in BOOLEAN, NEW i, NEW old, NEW spins,
         Show(vis, i, old, spins), i = New,
         id = New => old.base = Blank,
         \/ dlg.fill = "load" /\ dlg.creates
         \/ dlg.fill = "row" /\ dlg.key = "id"
  PROVE  form'.base = Blank
<1> DEFINE f == IF mounted /\ FormKey(i) = FormKey(id) THEN old ELSE getInitValues(i)
<1>b. Of(Blank).base = Blank /\ getInitValues(i).base = Blank
  BY OfType DEF getInitValues
<1>1. id = New => f.base = Blank
  BY <1>b
<1>2. dlg.fill = "row" => f.base = Blank
  BY <1>b, <1>1 DEF FormKey
<1>3. Effect(vis, i, f).base = Blank
  <2>1. CASE id = New \/ dlg.fill = "row"
    <3> HIDE DEF f
    <3> QED BY <1>b, <1>1, <1>2, <2>1, EffectForm
  <2>2. CASE id # New /\ dlg.fill = "load" /\ dlg.creates
    <3>1. ~dlg.ownSelf
      BY <2>2, Features DEF Page, Coherent
    <3>2. Runs(vis, i)
      BY <2>2 DEF Runs
    <3> HIDE DEF f
    <3>3. Effect(vis, i, f) = Of(Blank)
      BY <2>2, <3>1, <3>2 DEF Effect
    <3>4. QED
      BY <1>b, <3>3
  <2>3. QED
    BY <2>1, <2>2
<1>4. ~mounted => form.base = Blank /\ f.base = Blank
  BY <1>b DEF TypeOK
<1>5. form' = Effect(vis, i, f) \/ (~mounted /\ form' \in {f, form})
  BY DEF Show
<1>6. QED
  BY <1>3, <1>4, <1>5

\* The dialogs whose form always shows the defaults while there is no record.
Strict == (dlg.fill = "load" /\ dlg.creates) \/ (dlg.fill = "row" /\ dlg.key = "id")

\* Every step keeps a strict dialog's form at the defaults.
LEMMA StrictStep ==
  ASSUME TypeOK, Page, Strict, NewForm, [Next]_vars, ~Copied'
  PROVE  NewForm'
<1>s. SUFFICES ASSUME id' = New PROVE form'.base = Blank
  BY DEF NewForm
<1>d. dlg' = dlg
  BY Remembered
<1>c. \A x \in slip' : dlg.fill = "load" => x # "late"
  BY <1>d DEF Copied, CopyRisks
<1>f. ASSUME NEW vis \in BOOLEAN, NEW i, NEW old, NEW spins, Show(vis, i, old, spins),
             old.base = Blank \/ old = form
      PROVE  form'.base = Blank
  <2>1. i = New
    BY <1>f, <1>s, ShowPage
  <2>2. id = New => old.base = Blank
    BY <1>f DEF NewForm
  <2>3. QED
    BY <1>f, <2>1, <2>2, ShowNew DEF Strict
<1>g. ASSUME NEW old, NEW spins, CloseEdit(old, spins), old.base = Blank \/ old = form
      PROVE  form'.base = Blank
  <2> DEFINE i == IF dlg.forgets = "close" THEN New ELSE id
  <2>1. Show(FALSE, i, old, spins) /\ FALSE \in BOOLEAN
    BY <1>g DEF CloseEdit
  <2> HIDE DEF i
  <2>2. QED
    BY <1>f, <1>g, <2>1
<1>1. ASSUME NEW i \in Ids, OpenDialog(i) PROVE form'.base = Blank
  BY <1>1, <1>f DEF OpenDialog
<1>2. CASE handleCancel
  BY <1>2, <1>g DEF handleCancel
<1>3. CASE Edit
  BY <1>3, <1>s DEF Edit, NewForm, page, TypeOK
<1>4. CASE submit
  BY <1>4, <1>s DEF submit, NewForm, page
<1>5. ASSUME NEW r \in loads, LoadAnswered(r) \/ LoadRefused(r) \/ LoadLost(r)
      PROVE  form'.base = Blank
  <2>1. id = New /\ r # New
    BY <1>5, <1>s, DialogsAssumption DEF LoadAnswered, LoadRefused, LoadLost, page, TypeOK
  <2>2. dlg.fill = "load"
    BY DEF Page
  <2>3. mounted /\ LoadAnswered(r) => "late" \in slip'
    BY <2>1 DEF LoadAnswered
  <2>4. form' = form
    BY <1>5, <1>c, <2>2, <2>3 DEF LoadAnswered, LoadRefused, LoadLost
  <2>5. QED
    BY <2>1, <2>4 DEF NewForm
<1>6. ASSUME NEW s \in sends, SubmitAnswered(s) PROVE form'.base = Blank
  <2>1. CASE SaveCloses(s)
    <3> DEFINE old == IF mounted /\ Wiped(s, TRUE) THEN Of(Blank) ELSE form
    <3>1. old.base = Blank \/ old = form
      BY OfType
    <3>2. QED
      BY <1>g, <2>1, <3>1 DEF SaveCloses
  <2>2. CASE SaveReloads(s)
    BY <1>s, <2>2 DEF SaveReloads, page, NewForm
  <2>3. QED
    BY <1>6, <2>1, <2>2, SubmitAnsweredCases
<1>7. ASSUME NEW s \in sends, SubmitRefused(s) \/ SubmitLost(s) PROVE form'.base = Blank
  <2>1. id' = id /\ form' \in {Of(Blank), form}
    BY <1>7 DEF SubmitRefused, SubmitLost, page
  <2>2. QED
    BY <1>s, <2>1, OfType DEF NewForm
<1>8. CASE TimerFires
  BY <1>8, <1>f DEF TimerFires, TypeOK
<1>9. CASE Unmount
  BY <1>9, OfType DEF Unmount
<1>10. CASE UNCHANGED vars
  BY <1>10, <1>s DEF vars, page, NewForm
<1>11. QED
  BY <1>1, <1>2, <1>3, <1>4, <1>5, <1>6, <1>7, <1>8, <1>9, <1>10
     DEF Next, User, Replies, Browser

\* In the other dialogs the form is at the defaults when it is shown for a new
\* record, unless it was kept or the timer took the record away.
LEMMA LooseStep ==
  ASSUME TypeOK, Page, dlg.fill # "load", dlg.key # "id", visible => NewForm,
         [Next]_vars, ~Copied'
  PROVE  visible' => NewForm'
<1>s. SUFFICES ASSUME visible', id' = New PROVE form'.base = Blank
  BY DEF NewForm
<1>d. dlg' = dlg
  BY Remembered
<1>c. "kept" \notin slip' /\ "timer" \notin slip'
  BY <1>d DEF Copied, CopyRisks
<1>k. loads = {} /\ dlg.box # "state" /\ dlg.after = "close"
  BY Features DEF Page, Coherent
<1>g. ASSUME NEW old, NEW spins, CloseEdit(old, spins) PROVE FALSE
  BY <1>g, <1>s, ShowPage DEF CloseEdit
<1>1. ASSUME NEW i \in Ids, OpenDialog(i) PROVE form'.base = Blank
  <2>1. ~mounted
    BY <1>1, <1>c, <1>k DEF OpenDialog
  <2>2. i = New
    BY <1>1, <1>s, ShowPage DEF OpenDialog
  <2>3. getInitValues(i) = Of(Blank)
    BY <2>2 DEF getInitValues
  <2>4. form' \in {Effect(TRUE, i, getInitValues(i)), getInitValues(i), form}
    BY <1>1, <2>1 DEF OpenDialog, Show
  <2>5. form' = Of(Blank)
    BY <2>1, <2>2, <2>3, <2>4, EffectForm DEF TypeOK
  <2>6. QED
    BY <2>5, OfType
<1>2. ~handleCancel
  BY <1>g DEF handleCancel
<1>3. CASE Edit
  BY <1>3, <1>s DEF Edit, NewForm, page, TypeOK
<1>4. CASE submit
  BY <1>4, <1>s DEF submit, NewForm, page
<1>6. ASSUME NEW s \in sends, SubmitAnswered(s) PROVE FALSE
  BY <1>6, <1>g, <1>k, SubmitAnsweredCases DEF SaveCloses, SaveReloads
<1>7. ASSUME NEW s \in sends, SubmitRefused(s) \/ SubmitLost(s) PROVE form'.base = Blank
  <2>1. id' = id /\ visible' = visible /\ form' \in {Of(Blank), form}
    BY <1>7 DEF SubmitRefused, SubmitLost, page
  <2>2. QED
    BY <1>s, <2>1, OfType DEF NewForm
<1>8. CASE TimerFires
  <2>1. visible /\ Show(visible, New, form, loading)
    BY <1>8, <1>s, ShowPage DEF TimerFires, TypeOK
  <2>2. id = New
    BY <1>8, <1>c, <2>1 DEF TimerFires
  <2>3. mounted /\ form.base = Blank
    BY <2>1, <2>2 DEF TypeOK, NewForm
  <2>4. form' = Effect(visible, New, form)
    BY <2>1, <2>2, <2>3 DEF Show
  <2>5. QED
    BY <2>3, <2>4, EffectForm, OfType
<1>9. ~Unmount
  BY <1>s DEF Unmount, page
<1>10. CASE UNCHANGED vars
  BY <1>10, <1>s DEF vars, page, NewForm
<1>11. QED
  BY <1>k, <1>1, <1>2, <1>3, <1>4, <1>6, <1>7, <1>8, <1>9, <1>10
     DEF Next, User, Replies, Browser

\* Creating a record starts from the defaults, or something went wrong.
LEMMA CreatingStep ==
  ASSUME TypeOK, Page, Creating, [Next]_vars
  PROVE  Creating'
<1>d. dlg' = dlg /\ slip \subseteq slip'
  BY Remembered
<1>m. Copied => Copied'
  BY <1>d DEF Copied, CopyRisks
<1>p. Page'
  BY PageStep
<1>k. dlg.fill = "row" /\ dlg.key = "id" => ~Copied /\ ~Copied'
  BY <1>d DEF Copied, CopyRisks
<1>1. ASSUME Strict, ~Copied' PROVE NewForm'
  <2>1. NewForm
    BY <1>1, <1>m DEF Creating, Strict, NewForm
  <2>2. QED
    BY <1>1, <2>1, StrictStep
<1>2. ASSUME visible', ~Copied' PROVE NewForm'
  <2>1. CASE Strict
    BY <1>1, <1>2, <2>1
  <2>2. CASE dlg.fill = "load" /\ ~dlg.creates
    BY <1>2, <1>d, <1>p, <2>2 DEF Page, NewForm
  <2>3. CASE dlg.fill # "load" /\ dlg.key # "id"
    <3>1. visible => NewForm
      BY <1>2, <1>m DEF Creating, NewForm
    <3>2. QED
      BY <1>2, <2>3, <3>1, LooseStep
  <2>4. dlg.key = "id" => dlg.fill \in {"load", "row"}
    BY Features DEF Page, Coherent
  <2>5. QED
    BY <2>1, <2>2, <2>3, <2>4 DEF Strict
<1>3. Drafts'
  <2>1. CASE submit
    <3> DEFINE s == [to |-> id, base |-> form.base, opening |-> opens, n |-> Cardinality(sends)]
    <3>1. sends' = sends \cup {s} /\ visible
      BY <2>1 DEF submit
    <3>2. s.to = New => s.base = Blank \/ Copied
      BY <3>1 DEF Creating
    <3> HIDE DEF s
    <3>3. QED
      BY <1>m, <3>1, <3>2 DEF Creating, Drafts
  <2>2. CASE sends' \subseteq sends
    BY <1>m, <2>2 DEF Creating, Drafts
  <2>3. submit \/ sends' \subseteq sends
    BY DEF Next, User, Replies, Browser, OpenDialog, handleCancel, Edit, LoadAnswered,
       LoadRefused, LoadLost, SubmitAnswered, SubmitRefused, SubmitLost, TimerFires,
       Unmount, vars
  <2>4. QED
    BY <2>1, <2>2, <2>3
<1>4. created' \subseteq {Blank} \/ Copied'
  <2>1. created' = created \/ \E s \in sends : Store(s)
    BY DEF Next, User, Replies, Browser, OpenDialog, handleCancel, Edit, submit, LoadAnswered,
       LoadRefused, LoadLost, SubmitAnswered, SubmitRefused, SubmitLost, TimerFires,
       Unmount, vars, server
  <2>2. \A s \in sends : Store(s) => created' = created \/
                                     (s.to = New /\ created' = created \cup {s.base})
    BY DEF Store
  <2>3. created' \subseteq created \cup {Blank} \/ Copied
    BY <2>1, <2>2 DEF Creating
  <2>4. QED
    BY <1>m, <2>3 DEF Creating
<1>5. dlg'.fill = "row" /\ dlg'.key = "id" => NewForm'
  BY <1>1, <1>d, <1>k DEF Strict
<1>6. QED
  BY <1>1, <1>2, <1>3, <1>4, <1>5, <1>d DEF Creating, Strict, NewForm, Drafts

\* A record is created from the defaults and the user's input, for any records,
\* openings and order of answers, unless the dialog is of a kind and the history of a
\* kind that CreatesOwn names.
THEOREM CreationOwn == Spec => []CreatesOwn
<1>1. Init => Creating
  BY OfType DEF Init, Creating
<1>2. TypeOK /\ Page /\ Creating /\ [Next]_vars => Creating'
  BY CreatingStep
<1>3. Creating => CreatesOwn
  BY DEF Creating, CreatesOwn, Copied, CopyRisks
<1>4. QED
  BY <1>1, <1>2, <1>3, PageHolds, PTL DEF Spec

-----------------------------------------------------------------------------
(* What is stored under a record's id. *)

\* What the dialogs are exposed to, kind by kind.
LEMMA ExposedKinds ==
  ASSUME Page
  PROVE  /\ dlg.fill = "load" /\ dlg.after = "close" => "late" \in Exposed
         /\ dlg.fill = "load" /\ dlg.after = "close" /\ ~dlg.omits =>
              "failed" \in Exposed /\ "early" \in Exposed
         /\ dlg.fill = "load" /\ dlg.after = "close" /\ dlg.wipes = "always" =>
              "refused" \in Exposed
         /\ dlg.fill = "load" /\ dlg.after = "close" /\ dlg.needsApi =>
              "first" \in Exposed /\ "same" \in Exposed
         /\ dlg.after = "reload" /\ dlg.clears => "late" \in Exposed
         /\ dlg.after = "reload" /\ ~dlg.clears => "kept" \in Exposed
         /\ dlg.fill = "row" /\ dlg.key # "id" => "kept" \in Exposed
<1>1. Coherent(dlg) /\ dlg \in Dialog
  BY Features DEF Page
<1>2. CASE dlg.fill = "load" /\ dlg.after = "close"
  <2>1. Exposed = {"late"} \cup (IF dlg.omits THEN {} ELSE {"failed", "early"})
                    \cup (IF dlg.wipes = "always" THEN {"refused"} ELSE {})
                    \cup (IF dlg.needsApi THEN {"first", "same"} ELSE {})
    BY <1>2 DEF Exposed
  <2>2. QED
    BY <1>2, <2>1
<1>3. CASE dlg.after = "reload"
  <2>1. dlg.fill = "load"
    BY <1>1, <1>3 DEF Coherent
  <2>2. Exposed = IF dlg.clears THEN {"late"} ELSE {"kept"}
    BY <1>3, <2>1 DEF Exposed
  <2>3. QED
    BY <1>3, <2>1, <2>2
<1>4. CASE dlg.fill # "load" /\ dlg.after = "close"
  BY <1>4 DEF Exposed
<1>5. dlg.after \in {"close", "reload"}
  BY <1>1 DEF Dialog
<1>6. QED
  BY <1>1, <1>2, <1>3, <1>4, <1>5 DEF Coherent

\* Opening the dialog of a record shows the record, or loads it.
LEMMA OpenOwned ==
  ASSUME TypeOK, Page, Owning, NEW i \in Ids, i # New, OpenDialog(i), ~Risked'
  PROVE  Owned'
<1>s. /\ Show(TRUE, i, form, loading) /\ ~visible /\ dlg' = dlg
      /\ visible' = TRUE /\ id' = i /\ dlg.fill # "no"
  BY ShowPage DEF OpenDialog
<1>k. Coherent(dlg) /\ dlg \in Dialog
  BY Features DEF Page
<1>x. Exposed' = Exposed /\ (slip' \cap Exposed = {})
  BY <1>s DEF Exposed, Risked
<1>w. Risked => Risked'
  BY <1>x DEF Risked, OpenDialog
<1> DEFINE f == IF mounted /\ FormKey(i) = FormKey(id) THEN form ELSE getInitValues(i)
<1>f. \/ form' = Effect(TRUE, i, f) /\ (mounted \/ dlg.box # "sheet")
      \/ form' = f /\ ~mounted /\ dlg.box = "sheet"
  BY <1>s DEF Show
<1>r. dlg.on # "id" \/ i # id => Runs(TRUE, i)
  BY <1>s DEF Runs
<1>1. CASE dlg.fill = "load" /\ dlg.after = "close" /\ ~dlg.omits
  <2>1. ("first" \notin slip' /\ "same" \notin slip') \/ ~dlg.needsApi
    BY <1>1, <1>x, ExposedKinds
  <2>2. dlg.needsApi => api
    BY <2>1 DEF OpenDialog
  <2>3. i # id \/ dlg.on # "id"
    <3>1. CASE dlg.needsApi
      BY <1>1, <2>1, <3>1 DEF OpenDialog
    <3>2. CASE ~dlg.needsApi /\ dlg.on = "id"
      <4>1. dlg.forgets = "close"
        BY <1>1, <1>k, <3>2 DEF Coherent
      <4>2. QED
        BY <1>s, <4>1 DEF Page
    <3>3. QED
      BY <3>1, <3>2
  <2>4. i \in Loads(TRUE, i)
    BY <1>1, <1>r, <2>2, <2>3 DEF Loads
  <2>5. i \in loads'
    BY <1>s, <2>4 DEF Show
  <2>6. QED
    BY <1>1, <1>s, <2>5 DEF Owned
<1>2. CASE dlg.fill = "load" /\ dlg.omits
  <2>1. dlg.on = "any"
    BY <1>2, <1>k DEF Coherent
  <2>2. Effect(TRUE, i, f) = Of(Blank)
    <3> HIDE DEF f
    <3>1. Runs(TRUE, i)
      BY <1>r, <2>1
    <3>2. QED
      BY <1>2, <2>1, <3>1 DEF Effect
  <2>3. ~mounted => f = Of(Blank)
    BY <1>2 DEF getInitValues
  <2>4. form'.base = Blank
    BY <1>f, <2>2, <2>3, OfType
  <2>5. QED
    BY <1>2, <1>s, <2>4 DEF Owned, Harmless
<1>3. CASE dlg.after = "reload"
  <2>1. mounted /\ dlg.box = "state" /\ dlg.fill = "load"
    BY <1>3, <1>k DEF Coherent, Page
  <2>2. dlg.clears
    <3>1. ~dlg.clears => "kept" \in slip'
      BY <2>1 DEF OpenDialog
    <3>2. QED
      BY <1>3, <1>x, <3>1, ExposedKinds
  <2>3. form.base = Blank
    BY <1>3, <1>s, <1>w, <2>2 DEF Owning
  <2>4. f.base = Blank /\ form' = Effect(TRUE, i, f)
    BY <1>f, <2>1, <2>3, OfType DEF getInitValues
  <2>5. Effect(TRUE, i, f) \in {f, Of(Blank)}
    BY <2>1 DEF Effect
  <2>6. form'.base = Blank
    BY <2>4, <2>5, OfType
  <2>7. QED
    BY <1>3, <1>s, <2>6 DEF Owned
<1>4. CASE dlg.fill = "effect"
  <2>1. dlg.box = "modal" /\ dlg.on = "open" /\ ~dlg.creates
    BY <1>4, <1>k DEF Coherent
  <2>2. Effect(TRUE, i, f) = Of(i)
    BY <1>4, <1>r, <2>1 DEF Effect
  <2>3. form'.base = i
    BY <1>f, <2>1, <2>2, OfType
  <2>4. QED
    BY <1>s, <2>3 DEF Owned
<1>5. CASE dlg.fill = "row"
  <2>1. dlg.on # "any" /\ dlg.box # "state"
    BY <1>5, <1>k DEF Coherent
  <2>2. getInitValues(i) = Of(i)
    BY <1>5 DEF getInitValues
  <2>3. f = Of(i)
    <3>1. CASE dlg.key = "id"
      <4>1. id = New
        BY <1>5, <1>k, <1>s, <3>1 DEF Coherent, Page
      <4>2. FormKey(i) # FormKey(id)
        BY <3>1, <4>1 DEF FormKey
      <4>3. QED
        BY <2>2, <4>2
    <3>2. CASE dlg.key # "id"
      <4>1. ~mounted
        BY <1>5, <1>x, <2>1, <3>2, ExposedKinds DEF OpenDialog
      <4>2. QED
        BY <2>2, <4>1
    <3>3. QED
      BY <3>1, <3>2
  <2>4. Effect(TRUE, i, f) = f
    BY <1>5, <2>1 DEF Effect
  <2>5. form'.base = i
    BY <1>f, <2>3, <2>4, OfType
  <2>6. QED
    BY <1>s, <2>5 DEF Owned
<1>6. QED
  BY <1>s, <1>k, <1>1, <1>2, <1>3, <1>4, <1>5 DEF Dialog

\* Every step keeps a record's contents in its dialog.
LEMMA OwnedStep ==
  ASSUME TypeOK, Page, Owning, [Next]_vars, visible', id' # New, ~Risked'
  PROVE  Owned'
<1>d. dlg' = dlg /\ slip \subseteq slip'
  BY Remembered
<1>k. Coherent(dlg) /\ dlg \in Dialog
  BY Features DEF Page
<1>x. Exposed' = Exposed /\ slip' \cap Exposed = {} /\ ~Risked
  BY <1>d DEF Exposed, Risked
<1>h. \A b : Harmless(b)' <=> Harmless(b)
  BY <1>d DEF Harmless
<1>o. visible /\ id # New =>
        \/ form.base = id \/ Harmless(form.base)
        \/ dlg.fill = "load" /\ dlg.after = "close" /\ ~dlg.omits /\ id \in loads
        \/ dlg.after = "reload" /\ form.base = Blank
  BY <1>x DEF Owning, Owned
<1>u. ASSUME visible, id' = id, form'.base = form.base, loads \subseteq loads' PROVE Owned'
  BY <1>d, <1>h, <1>o, <1>u DEF Owned
<1>g. ASSUME NEW old, NEW spins, CloseEdit(old, spins) PROVE FALSE
  BY <1>g, ShowPage DEF CloseEdit
<1>1. ASSUME NEW i \in Ids, OpenDialog(i) PROVE Owned'
  <2>1. i # New
    BY <1>1, ShowPage DEF OpenDialog
  <2>2. QED
    BY <1>1, <2>1, OpenOwned
<1>2. ~handleCancel
  BY <1>g DEF handleCancel
<1>3. CASE Edit
  <2>1. form'.base = form.base /\ id' = id /\ loads' = loads /\ visible
    BY <1>3 DEF Edit, page, TypeOK
  <2>2. QED
    BY <1>u, <2>1
<1>4. CASE submit
  BY <1>4, <1>u DEF submit, page
<1>5. ASSUME NEW r \in loads, LoadAnswered(r) PROVE Owned'
  <2>1. visible /\ mounted /\ id' = id /\ id # New /\ form' = Of(r)
    BY <1>5 DEF LoadAnswered, page, TypeOK
  <2>2. r # id => "late" \in slip'
    BY <1>5, <2>1 DEF LoadAnswered
  <2>3. dlg.fill = "load"
    BY DEF Page
  <2>4. "late" \in Exposed
    <3>1. CASE dlg.after = "close"
      BY <2>3, <3>1, ExposedKinds
    <3>2. CASE dlg.after = "reload"
      <4>1. dlg.clears
        BY <1>x, <2>1, <3>2 DEF Owning
      <4>2. QED
        BY <3>2, <4>1, ExposedKinds
    <3>3. QED
      BY <1>k, <3>1, <3>2 DEF Dialog
  <2>5. form'.base = id'
    BY <1>x, <2>1, <2>2, <2>4, OfType
  <2>6. QED
    BY <2>5 DEF Owned
<1>6. ASSUME NEW r \in loads, LoadRefused(r) \/ LoadLost(r) PROVE Owned'
  <2>1. visible /\ id' = id /\ id # New /\ form' = form /\ "failed" \in slip'
    BY <1>6 DEF LoadRefused, LoadLost, page
  <2>2. ~(dlg.fill = "load" /\ dlg.after = "close" /\ ~dlg.omits)
    BY <1>x, <2>1, ExposedKinds
  <2>3. form.base = id \/ Harmless(form.base) \/ (dlg.after = "reload" /\ form.base = Blank)
    BY <1>o, <2>1, <2>2
  <2>4. QED
    BY <1>d, <1>h, <2>1, <2>3 DEF Owned
<1>7. ASSUME NEW s \in sends, SubmitAnswered(s) PROVE Owned'
  <2>1. CASE SaveCloses(s)
    BY <1>g, <2>1 DEF SaveCloses
  <2>2. CASE SaveReloads(s)
    BY <1>u, <2>2 DEF SaveReloads, page
  <2>3. QED
    BY <1>7, <2>1, <2>2, SubmitAnsweredCases
<1>8. ASSUME NEW s \in sends, SubmitRefused(s) \/ SubmitLost(s) PROVE Owned'
  <2>1. visible /\ id' = id /\ loads' = loads /\ "refused" \in slip'
    BY <1>8 DEF SubmitRefused, SubmitLost, page
  <2>2. form' = form \/ Wiped(s, FALSE)
    BY <1>8 DEF SubmitRefused, SubmitLost
  <2>3. ~Wiped(s, FALSE)
    BY <1>k, <1>x, <2>1, ExposedKinds DEF Wiped, Coherent
  <2>4. QED
    BY <1>u, <2>1, <2>2, <2>3
<1>9. ~TimerFires
  BY ShowPage DEF TimerFires, TypeOK
<1>10. ~Unmount
  BY DEF Unmount, page
<1>11. CASE UNCHANGED vars
  BY <1>11, <1>u DEF vars, page
<1>12. QED
  BY <1>1, <1>2, <1>3, <1>4, <1>5, <1>6, <1>7, <1>8, <1>9, <1>10, <1>11
     DEF Next, User, Replies, Browser

\* A list that closing empties is empty while its dialog is closed, and one that it
\* does not empty counts as kept while its dialog is open.
LEMMA ListStep ==
  ASSUME TypeOK, Page, Owning, [Next]_vars, dlg.after = "reload", ~Risked'
  PROVE  /\ dlg.clears /\ ~visible' => form'.base = Blank
         /\ dlg.clears \/ ~visible'
<1>d. dlg' = dlg /\ slip \subseteq slip'
  BY Remembered
<1>k. /\ dlg.box = "state" /\ dlg.forgets = "never" /\ dlg.fill = "load" /\ mounted
      /\ dlg.clears => dlg.on # "id"
  BY Features DEF Page, Coherent
<1>t. timers = 0
  BY <1>k DEF Page
<1>x. Exposed' = Exposed /\ slip' \cap Exposed = {} /\ ~Risked
  BY <1>d DEF Exposed, Risked
<1>o. (dlg.clears /\ ~visible => form.base = Blank) /\ (dlg.clears \/ ~visible)
  BY <1>x DEF Owning
<1>u. ASSUME visible' = visible, form'.base = form.base \/ visible
      PROVE  (dlg.clears /\ ~visible' => form'.base = Blank) /\ (dlg.clears \/ ~visible')
  BY <1>o, <1>u
<1>1. ASSUME NEW i \in Ids, OpenDialog(i) PROVE visible' /\ dlg.clears
  <2>1. visible'
    BY <1>1, ShowPage DEF OpenDialog
  <2>2. ~dlg.clears => "kept" \in slip'
    BY <1>1, <1>k DEF OpenDialog
  <2>3. QED
    BY <1>x, <2>1, <2>2, ExposedKinds
<1>2. ASSUME handleCancel PROVE ~visible' /\ (dlg.clears => form'.base = Blank)
  <2>1. visible /\ Show(FALSE, id, form, loading) /\ FALSE \in BOOLEAN
    BY <1>2, <1>k DEF handleCancel, CloseEdit
  <2>2. ~visible'
    BY <2>1, ShowPage
  <2>3. form' = Effect(FALSE, id, form)
    BY <1>k, <2>1 DEF Show
  <2>4. dlg.clears => Runs(FALSE, id)
    BY <1>k, <2>1 DEF Runs
  <2>5. dlg.clears => form' = Of(Blank)
    BY <2>3, <2>4 DEF Effect
  <2>6. QED
    BY <2>2, <2>5, OfType
<1>3. CASE Edit \/ submit \/ UNCHANGED vars
  BY <1>3, <1>u DEF Edit, submit, vars, page
<1>4. ASSUME NEW r \in loads, LoadAnswered(r) \/ LoadRefused(r) \/ LoadLost(r)
      PROVE  visible' = visible /\ (form'.base = form.base \/ visible \/ ~dlg.clears)
  <2>1. visible' = visible
    BY <1>4 DEF LoadAnswered, LoadRefused, LoadLost, page
  <2>2. ASSUME ~visible, dlg.clears PROVE form' = form
    <3>1. ~LoadAnswered(r)
      BY <1>k, <1>x, <2>2, ExposedKinds DEF LoadAnswered
    <3>2. QED
      BY <1>4, <3>1 DEF LoadRefused, LoadLost
  <2>3. QED
    BY <2>1, <2>2
<1>5. ASSUME NEW s \in sends, SubmitAnswered(s) PROVE form' = form /\ visible' = visible
  BY <1>5, SubmitAnsweredCases DEF SaveCloses, SaveReloads, page
<1>6. ASSUME NEW s \in sends, SubmitRefused(s) \/ SubmitLost(s)
      PROVE  (form'.base = form.base \/ form'.base = Blank) /\ visible' = visible
  BY <1>6, OfType DEF SubmitRefused, SubmitLost, page
<1>7. ~TimerFires /\ ~Unmount
  BY <1>k, <1>t DEF TimerFires, Unmount
<1>8. QED
  BY <1>o, <1>u, <1>1, <1>2, <1>3, <1>4, <1>5, <1>6, <1>7 DEF Next, User, Replies, Browser

\* What is sent for a record, and what is stored, is the record's own.
LEMMA OwningStep ==
  ASSUME TypeOK, Page, Owning, [Next]_vars
  PROVE  Owning'
<1>d. dlg' = dlg /\ slip \subseteq slip'
  BY Remembered
<1>k. Coherent(dlg)
  BY Features DEF Page
<1>m. Risked => Risked'
  BY <1>d DEF Risked, Exposed
<1>h. \A b : Harmless(b)' <=> Harmless(b)
  BY <1>d DEF Harmless
<1>1. visible' /\ id' # New => Owned'
  <2>1. Risked' => Owned'
    BY DEF Owned
  <2>2. QED
    BY <2>1, OwnedStep
<1>2. dlg'.after = "reload" /\ dlg'.clears /\ ~visible' => form'.base = Blank \/ Risked'
  BY <1>d, ListStep
<1>3. dlg'.after = "reload" /\ ~dlg'.clears /\ visible' => Risked'
  BY <1>d, ListStep
<1>4. \A s \in sends' : s.to # New => s.base = s.to \/ Risked' \/ Harmless(s.base)'
  <2>1. CASE submit
    <3> DEFINE s == [to |-> id, base |-> form.base, opening |-> opens, n |-> Cardinality(sends)]
    <3>1. /\ sends' = sends \cup {s} /\ visible /\ s.to = id /\ s.base = form.base
          /\ dlg.asks => form # Of(Blank)
          /\ id \in loads => "early" \in slip'
      BY <2>1 DEF submit
    <3>2. s.to # New => s.base = s.to \/ Risked' \/ Harmless(s.base)
      <4> SUFFICES ASSUME id # New, ~Risked' PROVE form.base = id \/ Harmless(form.base)
        BY <3>1
      <4>1. Owned
        BY <3>1 DEF Owning
      <4>2. ~(dlg.fill = "load" /\ dlg.after = "close" /\ ~dlg.omits /\ id \in loads)
        <5>1. slip' \cap Exposed = {}
          BY <1>d DEF Risked, Exposed
        <5>2. QED
          BY <3>1, <5>1, ExposedKinds
      <4>3. ~(dlg.after = "reload" /\ form.base = Blank)
        <5>1. dlg.after = "reload" => dlg.asks /\ ~form.edited
          BY <1>k DEF Coherent, Page
        <5>2. form.base = Blank /\ ~form.edited => form = Of(Blank)
          BY DEF TypeOK, Of
        <5>3. QED
          BY <3>1, <5>1, <5>2
      <4>4. QED
        BY <1>m, <4>1, <4>2, <4>3 DEF Owned
    <3> HIDE DEF s
    <3>3. QED
      BY <1>h, <1>m, <3>1, <3>2 DEF Owning
  <2>2. CASE sends' \subseteq sends
    BY <1>h, <1>m, <2>2 DEF Owning
  <2>3. submit \/ sends' \subseteq sends
    BY DEF Next, User, Replies, Browser, OpenDialog, handleCancel, Edit, LoadAnswered,
       LoadRefused, LoadLost, SubmitAnswered, SubmitRefused, SubmitLost, TimerFires,
       Unmount, vars
  <2>4. QED
    BY <2>1, <2>2, <2>3
<1>5. \A r \in Records : data'[r] = r \/ Risked'
  <2> SUFFICES ASSUME NEW r \in Records, ~Risked' PROVE data'[r] = r
    OBVIOUS
  <2>1. data[r] = r
    BY <1>m DEF Owning
  <2>2. data' = data \/ \E s \in sends : Store(s)
    BY DEF Next, User, Replies, Browser, OpenDialog, handleCancel, Edit, submit, LoadAnswered,
       LoadRefused, LoadLost, SubmitAnswered, SubmitRefused, SubmitLost, TimerFires,
       Unmount, vars, server
  <2>3. ASSUME NEW s \in sends, Store(s) PROVE data'[r] = r
    <3>1. s.to = New \/ Harmless(s.base) => data' = data
      BY <2>3 DEF Store, Harmless
    <3>2. s.to # New => s.base = s.to \/ Harmless(s.base)
      BY <1>m DEF Owning
    <3>3. data' \in {data, [data EXCEPT ![s.to] = s.base]}
      BY <2>3 DEF Store
    <3>4. QED
      BY <2>1, <3>1, <3>2, <3>3 DEF TypeOK
  <2>4. QED
    BY <2>1, <2>2, <2>3
<1>6. QED
  BY <1>1, <1>2, <1>3, <1>4, <1>5 DEF Owning

\* Every save stores under a record's id what was that record's, for any records,
\* openings and order of answers and for each of the fourteen dialogs, unless the
\* dialog is exposed to what happened.
THEOREM ContentsOwn == Spec => []OwnContents
<1>1. Init => Owning
  <2> SUFFICES ASSUME Init PROVE Owning
    OBVIOUS
  <2>1. form.base = Blank /\ ~visible /\ sends = {}
    BY OfType DEF Init
  <2>2. \A r \in Records : data[r] = r
    BY DEF Init
  <2>3. QED
    BY <2>1, <2>2 DEF Owning
<1>2. TypeOK /\ Page /\ Owning /\ [Next]_vars => Owning'
  BY OwningStep
<1>3. Owning => OwnContents
  BY DEF Owning, OwnContents, Risked
<1>4. QED
  BY <1>1, <1>2, <1>3, PageHolds, PTL DEF Spec
=============================================================================
