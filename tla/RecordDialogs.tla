---------------------------- MODULE RecordDialogs ----------------------------
(***************************************************************************)
(* The edit dialogs of the web console (web/src/components/table/*/modals, *)
(* settings/CustomOAuthSetting).  A page keeps one dialog component for its *)
(* table: `visible` and the record being edited are the page's state, the  *)
(* form lives inside a compat SideSheet or Modal, which unmounts it a      *)
(* moment after the dialog is closed.  Loads and saves are answered at any *)
(* time, also when the dialog has been closed or shows another record, and *)
(* a handler works on whatever form the formApi ref points to by then.     *)
(* The contents of a record are abstract: whose they are, and whether the  *)
(* user has changed them.                                                  *)
(***************************************************************************)
EXTENDS Naturals, FiniteSets

CONSTANTS Records,     \* the records of the table
          New,         \* the id of a record to be created: undefined
          Blank,       \* the defaults of a form; also a form without any values
          Self,        \* the administrator's own account, /api/user/self
          MaxOpens,    \* bound on how often the dialog is opened
          MaxFaults    \* bound on refused or failing requests

ASSUME DialogsAssumption ==
  /\ New \notin Records /\ Blank \notin Records /\ Self \notin Records
  /\ New # Self /\ New # Blank /\ Blank # Self
  /\ MaxOpens \in Nat /\ MaxFaults \in Nat

(***************************************************************************)
(* The dialogs.                                                            *)
(***************************************************************************)
Dialog ==
  [fill    : {"load",      \* a GET when the dialog is opened
              "row",       \* initValues from the row of the table
              "effect",    \* setValues from the row, in an effect
              "no"},       \* nothing: only for new records
   on      : {"open",      \* the effect depends on visible and id, tests visible
              "any",       \* the same without the test
              "id"},       \* on the id alone
   box     : {"sheet",     \* compat SideSheet: mounts its form after the effects
              "modal",     \* compat Modal: before them
              "state"},    \* the contents are component state: never unmounted
   key     : {"none", "mode", "id"},        \* the key of the form
   forgets : {"timer", "close", "never"},   \* when the page drops the id
   wipes   : {"no", "created", "always"},   \* setValues(defaults) after a save
   after   : {"close", "reload"},           \* what a successful save does
   clears  : BOOLEAN,      \* closing resets the form
   catches : BOOLEAN,      \* a rejected request is caught
   guards  : BOOLEAN,      \* loading disables the save button
   asks    : BOOLEAN,      \* refuses to save a form with nothing in it
   omits   : BOOLEAN,      \* fields with nothing in them are not sent
   needsApi : BOOLEAN,     \* loads only if a form has been there before
   ownSelf : BOOLEAN,      \* without an id it loads the administrator's account
   creates : BOOLEAN]

\* The common dialog: a side sheet that loads when it is opened.
Sheet ==
  [fill |-> "load", on |-> "open", box |-> "sheet", key |-> "mode", forgets |-> "timer",
   wipes |-> "no", after |-> "close", clears |-> TRUE, catches |-> TRUE, guards |-> TRUE,
   asks |-> FALSE, omits |-> FALSE, needsApi |-> FALSE, ownSelf |-> FALSE, creates |-> TRUE]

EditTokenModal == [Sheet EXCEPT !.wipes = "always", !.catches = FALSE]
EditModelModal == [Sheet EXCEPT !.wipes = "always"]
EditVendorModal == [Sheet EXCEPT !.box = "modal", !.key = "none", !.forgets = "close"]
EditChannelModal ==
  [Sheet EXCEPT !.forgets = "never", !.catches = FALSE, !.guards = FALSE, !.asks = TRUE]

\* These load when the id changes, whether the dialog is visible or not.
EditUserModal ==
  [Sheet EXCEPT !.on = "id", !.key = "none", !.forgets = "close", !.clears = FALSE,
                !.catches = FALSE, !.ownSelf = TRUE, !.creates = FALSE]
EditRedemptionModal ==
  [Sheet EXCEPT !.on = "id", !.key = "none", !.wipes = "created", !.clears = FALSE,
                !.catches = FALSE, !.needsApi = TRUE]

\* Opening and closing both load the models of the tag.
EditTagModal ==
  [Sheet EXCEPT !.on = "any", !.key = "id", !.forgets = "never", !.omits = TRUE,
                !.creates = FALSE]

AddUserModal ==
  [Sheet EXCEPT !.fill = "no", !.on = "id", !.key = "none", !.forgets = "never",
                !.wipes = "created", !.clears = FALSE, !.catches = FALSE]

\* These show the row of the table.
AddEditSubscriptionModal ==
  [Sheet EXCEPT !.fill = "row", !.key = "id", !.forgets = "close", !.clears = FALSE,
                !.asks = TRUE]
EditPrefillGroupModal == [Sheet EXCEPT !.fill = "row", !.on = "id", !.key = "none",
                                       !.clears = FALSE]
CustomOAuthSetting ==
  [Sheet EXCEPT !.fill = "row", !.on = "id", !.box = "modal", !.key = "none",
                !.forgets = "never", !.clears = FALSE, !.guards = FALSE, !.asks = TRUE]
UpdateConfigModal ==
  [Sheet EXCEPT !.fill = "effect", !.box = "modal", !.key = "none", !.forgets = "never",
                !.omits = TRUE, !.creates = FALSE]

\* These show a list of the record, and act on its entries by index or name.
MultiKeyManageModal ==
  [Sheet EXCEPT !.box = "state", !.key = "none", !.forgets = "never", !.after = "reload",
                !.guards = FALSE, !.asks = TRUE, !.creates = FALSE]
OllamaModelModal == [MultiKeyManageModal EXCEPT !.clears = FALSE]

Dialogs ==
  {EditTokenModal, EditModelModal, EditVendorModal, EditChannelModal, EditUserModal,
   EditRedemptionModal, EditTagModal, AddUserModal, AddEditSubscriptionModal,
   EditPrefillGroupModal, CustomOAuthSetting, UpdateConfigModal, MultiKeyManageModal,
   OllamaModelModal}

VARIABLES
  dlg,       \* the dialog of the page
  visible,   \* showEdit
  id,        \* the id of the record being edited
  timers,    \* closing timers that have not fired
  mounted,   \* whether there is a form
  api,       \* whether formApiRef.current has been set
  form,      \* what the form shows: whose contents, and whether changed
  loading,
  loads,     \* the records whose load is under way: callers of a GET share it
  sends,     \* saves under way
  data,      \* the server's records: whose contents they have
  created,   \* contents of the records created
  opens, faults,
  fresh,     \* history: no edit since the dialog was opened
  slip       \* history: what went wrong so far

page == <<dlg, visible, id, timers>>
server == <<data, created>>
bounds == <<opens, faults>>
vars == <<page, mounted, api, form, loading, loads, sends, server, bounds, fresh, slip>>

Contents == Records \cup {Blank, Self}
Ids == Records \cup {New}
Of(c) == [base |-> c, edited |-> FALSE]

Init ==
  /\ dlg \in Dialogs
  /\ visible = FALSE /\ id = New /\ timers = 0
  /\ mounted = (dlg.box = "state") /\ form = Of(Blank)
  /\ api \in (IF dlg.needsApi THEN BOOLEAN ELSE {FALSE})   \* a form may have been there
  /\ loads = (IF dlg.ownSelf THEN {Self} ELSE {}) /\ loading = dlg.ownSelf /\ sends = {}
  /\ data = [r \in Records |-> r] /\ created = {}
  /\ opens = 0 /\ faults = 0 /\ fresh = TRUE /\ slip = {}

(***************************************************************************)
(* Rendering the dialog with a new visible and id, and its effects.        *)
(***************************************************************************)
\* The key of the form: React makes a new form when it changes.
FormKey(i) ==
  CASE dlg.key = "none" -> "form"
    [] dlg.key = "mode" -> IF i = New THEN "new" ELSE "edit"
    [] dlg.key = "id" -> i

\* Mutant: a new record starts from the row edited last.
getInitValuesLast(i) ==
  CASE dlg.fill # "row" \/ (i = New /\ id = New) -> Of(Blank)
    [] OTHER -> Of(IF i # New THEN i ELSE id)

\* initValues.
getInitValues(i) == IF dlg.fill = "row" /\ i # New THEN Of(i) ELSE Of(Blank)

\* Mutant: opening the dialog runs the effect only if the id has changed.
RunsOnId(vis, i) == i # id \/ (dlg.on # "id" /\ visible /\ ~vis)

\* The effect that fills the form runs.
Runs(vis, i) == i # id \/ (dlg.on # "id" /\ vis # visible)

\* What it loads, if anything.
Loads(vis, i) ==
  IF /\ dlg.fill = "load" /\ Runs(vis, i)
     /\ dlg.on = "open" => vis
     /\ dlg.needsApi => api
  THEN IF i # New THEN {i} ELSE IF dlg.ownSelf THEN {Self} ELSE {}
  ELSE {}

\* Mutant: closing does not reset the form.
EffectKeeps(vis, i, f) ==
  CASE ~Runs(vis, i) \/ (~vis /\ dlg.clears) -> f
    [] vis /\ dlg.fill = "effect" /\ i # New -> Of(i)
    [] dlg.fill = "load" /\ i = New /\ ~dlg.ownSelf -> Of(Blank)
    [] OTHER -> f

\* What it sets at once: the form f it finds may be reset, set to the defaults for
\* a new record, or set from the row.
Effect(vis, i, f) ==
  CASE ~Runs(vis, i) -> f
    [] dlg.on = "any" \/ (~vis /\ dlg.clears) -> Of(Blank)
    [] vis /\ dlg.fill = "effect" /\ i # New -> Of(i)
    [] dlg.fill = "load" /\ i = New /\ ~dlg.ownSelf -> Of(Blank)
    [] OTHER -> f

\* A side sheet mounts its form when the effects of the dialog have run, so that
\* what they set goes to the form before it, which is gone.  (old: the form so far;
\* spins: loading so far.)
Show(vis, i, old, spins) ==
  LET same == mounted /\ FormKey(i) = FormKey(id)
      there == mounted \/ (vis /\ dlg.box # "sheet")
      f == IF same THEN old ELSE getInitValues(i)
  IN  /\ visible' = vis /\ id' = i
      /\ mounted' = (mounted \/ vis)
      /\ api' = (api \/ vis)
      /\ form' = IF there THEN Effect(vis, i, f) ELSE IF vis THEN f ELSE form
      /\ loads' = loads \cup Loads(vis, i)
      /\ loading' = (spins \/ Loads(vis, i) # {})

\* Edit or Add is clicked on the page.  (slip: the form of the last time is still
\* there; no form has ever been there; the id has not changed and the dialog loads
\* when it does.)
OpenDialog(i) ==
  /\ ~visible /\ opens < MaxOpens
  /\ i = New => dlg.creates
  /\ i # New => dlg.fill # "no"
  /\ Show(TRUE, i, form, loading)
  /\ opens' = opens + 1 /\ fresh' = TRUE
  /\ slip' = slip \cup (IF mounted /\ (dlg.box = "state" => ~dlg.clears) THEN {"kept"} ELSE {})
                  \cup (IF api \/ i = New \/ ~dlg.needsApi THEN {} ELSE {"first"})
                  \cup (IF i = id /\ i # New /\ dlg.on = "id" /\ dlg.fill = "load"
                         THEN {"same"} ELSE {})
  /\ UNCHANGED <<dlg, timers, sends, server, faults>>

\* closeEdit: hides the dialog; the page drops the id at once, half a second later,
\* or not at all.
CloseEdit(old, spins) ==
  /\ Show(FALSE, IF dlg.forgets = "close" THEN New ELSE id, old, spins)
  /\ timers' = IF dlg.forgets = "timer" THEN timers + 1 ELSE timers

handleCancel ==
  /\ visible /\ CloseEdit(form, loading)
  /\ UNCHANGED <<dlg, sends, server, bounds, fresh, slip>>

\* The timer of closeEdit is not cleared when the dialog is opened again.
TimerFires ==
  /\ timers > 0 /\ timers' = timers - 1
  /\ Show(visible, New, form, loading)
  /\ slip' = IF visible /\ id # New THEN slip \cup {"timer"} ELSE slip
  /\ UNCHANGED <<dlg, sends, server, bounds, fresh>>

\* The exit animation is over.
Unmount ==
  /\ ~visible /\ mounted /\ dlg.box # "state"
  /\ mounted' = FALSE /\ form' = Of(Blank)
  /\ UNCHANGED <<page, api, loading, loads, sends, server, bounds, fresh, slip>>

Edit ==
  /\ visible /\ dlg.after = "close" /\ ~form.edited
  /\ form' = [form EXCEPT !.edited = TRUE] /\ fresh' = FALSE
  /\ UNCHANGED <<page, mounted, api, loading, loads, sends, server, bounds, slip>>

(***************************************************************************)
(* The answer to a load                                                    *)
(***************************************************************************)
\* Mutant: the contents are kept for a form that is not there.
LoadAnsweredKept(r) ==
  /\ r \in loads /\ loads' = loads \ {r}
  /\ form' = Of(r) /\ loading' = FALSE
  /\ UNCHANGED <<page, mounted, api, sends, server, bounds, fresh, slip>>

\* loadToken, loadUser, ...: whatever form is there is given the contents.  (slip:
\* it is not the dialog of that record any more.)
LoadAnswered(r) ==
  /\ r \in loads /\ loads' = loads \ {r}
  /\ form' = IF mounted THEN Of(r) ELSE form
  /\ loading' = FALSE
  /\ slip' = IF mounted /\ (~visible \/ r # id) THEN slip \cup {"late"} ELSE slip
  /\ UNCHANGED <<page, mounted, api, sends, server, bounds, fresh>>

LoadRefused(r) ==
  /\ r \in loads /\ loads' = loads \ {r} /\ faults < MaxFaults
  /\ loading' = FALSE
  /\ faults' = faults + 1 /\ slip' = slip \cup {"failed"}
  /\ UNCHANGED <<page, mounted, api, form, sends, server, opens, fresh>>

\* Mutant: a caught rejection leaves loading on.
LoadLostStuck(r) ==
  /\ r \in loads /\ loads' = loads \ {r} /\ faults < MaxFaults
  /\ faults' = faults + 1 /\ slip' = slip \cup {"failed"}
  /\ UNCHANGED <<page, mounted, api, form, loading, sends, server, opens, fresh>>

\* A rejection nobody catches leaves loading on.
LoadLost(r) ==
  /\ r \in loads /\ loads' = loads \ {r} /\ faults < MaxFaults
  /\ loading' = IF dlg.catches THEN FALSE ELSE loading
  /\ faults' = faults + 1 /\ slip' = slip \cup {"failed"}
  /\ UNCHANGED <<page, mounted, api, form, sends, server, opens, fresh>>

(***************************************************************************)
(* Saving                                                                  *)
(***************************************************************************)
Enabled == dlg.guards => ~loading

\* Mutant: a save does not set loading.
StartsLoadingNot == UNCHANGED loading

StartsLoading == loading' = (loading \/ dlg.guards)

\* The save button: the form's contents under the record's id.  (slip: its own load
\* is not answered yet.)
submit ==
  /\ visible /\ Enabled /\ Cardinality(sends) < 2
  /\ dlg.asks => form # Of(Blank)
  /\ sends' = sends \cup {[to |-> id, base |-> form.base, opening |-> opens,
                           n |-> Cardinality(sends)]}
  /\ StartsLoading
  /\ slip' = IF id \in loads THEN slip \cup {"early"} ELSE slip
  /\ UNCHANGED <<page, mounted, api, form, loads, server, bounds, fresh>>

\* The server's side of a save: the record with that id, or a new one, is given the
\* fields that were sent.
Store(s) ==
  \/ s.to = New /\ created' = created \cup {s.base} /\ UNCHANGED data
  \/ /\ s.to # New /\ UNCHANGED created
     /\ data' = IF s.base = Blank /\ dlg.omits THEN data ELSE [data EXCEPT ![s.to] = s.base]

\* setValues(getInitValues()) at the end of submit.
Wiped(s, ok) == dlg.wipes = "always" \/ (dlg.wipes = "created" /\ s.to = New /\ ok)

\* The save succeeded: the table is refreshed and the dialog, whichever record it
\* shows by now, closed; a list is loaded again, for the record of the save.
\* (Several tokens created by one submission count as one: when one was made the
\* submission has succeeded, whatever became of the others.)
SubmitAnswered(s) ==
  /\ s \in sends /\ sends' = sends \ {s} /\ Store(s)
  /\ \/ /\ dlg.after = "reload"
        /\ loads' = loads \cup {s.to} /\ loading' = TRUE
        /\ UNCHANGED <<page, mounted, api, form, slip>>
     \/ /\ dlg.after = "close"
        /\ CloseEdit(IF mounted /\ Wiped(s, TRUE) THEN Of(Blank) ELSE form,
                     loading /\ ~dlg.guards)
        /\ slip' = IF s.opening # opens THEN slip \cup {"over"} ELSE slip
        /\ UNCHANGED dlg
  /\ UNCHANGED <<bounds, fresh>>

\* The server refuses: a message; some dialogs set their form back to the defaults.
SubmitRefused(s) ==
  /\ s \in sends /\ sends' = sends \ {s} /\ faults < MaxFaults
  /\ form' = IF mounted /\ Wiped(s, FALSE) THEN Of(Blank) ELSE form
  /\ loading' = IF dlg.guards THEN FALSE ELSE loading
  /\ faults' = faults + 1 /\ slip' = slip \cup {"refused"}
  /\ UNCHANGED <<page, mounted, api, loads, server, opens, fresh>>

\* No answer: the save may have reached the server.
SubmitLost(s) ==
  /\ s \in sends /\ sends' = sends \ {s} /\ faults < MaxFaults
  /\ Store(s) \/ UNCHANGED server
  /\ form' = IF mounted /\ dlg.catches /\ Wiped(s, FALSE) THEN Of(Blank) ELSE form
  /\ loading' = IF dlg.guards /\ dlg.catches THEN FALSE ELSE loading
  /\ faults' = faults + 1 /\ slip' = slip \cup {"refused"}
  /\ UNCHANGED <<page, mounted, api, loads, opens, fresh>>

User == (\E i \in Ids : OpenDialog(i)) \/ handleCancel \/ Edit \/ submit
Replies ==
  \/ \E r \in loads : LoadAnswered(r) \/ LoadRefused(r) \/ LoadLost(r)
  \/ \E s \in sends : SubmitAnswered(s) \/ SubmitRefused(s) \/ SubmitLost(s)
Browser == TimerFires \/ Unmount

Next == User \/ Replies \/ Browser

Spec == Init /\ [][Next]_vars

\* Every request is answered or fails, and timers fire.
Fairness ==
  /\ \A r \in Records \cup {Self} : WF_vars(LoadAnswered(r) \/ LoadRefused(r) \/ LoadLost(r))
  /\ WF_vars(\E s \in sends : SubmitAnswered(s) \/ SubmitRefused(s) \/ SubmitLost(s))
  /\ WF_vars(TimerFires) /\ WF_vars(Unmount)

FairSpec == Spec /\ Fairness

(***************************************************************************)
(* Properties                                                              *)
(***************************************************************************)
Slips == {"kept", "first", "same", "timer", "late", "failed", "refused", "over", "early"}

\* The type invariant; a form that is not there shows nothing.
TypeOK ==
  /\ dlg \in Dialog /\ visible \in BOOLEAN /\ id \in Ids /\ timers \in Nat
  /\ mounted \in BOOLEAN /\ api \in BOOLEAN /\ loading \in BOOLEAN /\ fresh \in BOOLEAN
  /\ form \in [base : Contents, edited : BOOLEAN]
  /\ ~mounted => form = Of(Blank) /\ ~visible
  /\ loads \subseteq Records \cup {Self}
  /\ sends \subseteq [to : Ids, base : Contents, opening : 0..MaxOpens, n : 0..1]
  /\ data \in [Records -> Contents] /\ created \subseteq Contents
  /\ opens \in 0..MaxOpens /\ faults \in 0..MaxFaults /\ slip \subseteq Slips


\* What it takes for a dialog to save contents that are not the record's own.
Exposed ==
  CASE dlg.fill = "load" /\ dlg.after = "close" ->
         {"late"} \cup (IF dlg.omits THEN {} ELSE {"failed", "early"})
           \cup (IF dlg.wipes = "always" THEN {"refused"} ELSE {})
           \cup (IF dlg.needsApi THEN {"first", "same"} ELSE {})
    [] dlg.after = "reload" -> IF dlg.clears THEN {"late"} ELSE {"kept"}
    [] dlg.fill = "row" /\ dlg.key # "id" -> {"kept"}
    [] OTHER -> {}

\* A save stores under a record's id what was that record's before the user changed
\* it, never another record's contents nor the defaults (submit sends whatever the
\* form holds under the id of the page).  A dialog that loads needs a late or failed
\* load, or a save before the load, to go wrong, the token and model dialogs also a
\* refused save, the redemption dialog its first opening or a second one of the same
\* code; the tag dialog, which omits empty fields, needs a late load, and a dialog keyed
\* by the row's id never does.
OwnContents == \A r \in Records : data[r] = r \/ slip \cap Exposed # {}

\* A record is created from the defaults and the user's own input, not as a copy of a
\* record edited before, unless a late load filled the form, or a dialog without a
\* key was reopened with its old form or lost its id to the timer of an earlier
\* closing.
CreatesOwn ==
  created \subseteq {Blank}
    \/ slip \cap (IF dlg.fill = "load" THEN {"late"}
                 ELSE IF dlg.key = "id" THEN {} ELSE {"kept", "timer"}) # {}

\* A dialog that resets its form on closing never shows, when it is opened again, an
\* edit that was cancelled; the others do so only while the old form is still mounted.
CancelledEditGone ==
  visible /\ fresh /\ form.edited => ~dlg.clears /\ "kept" \in slip

\* Where loading disables the button, one opening has one save under way (two would
\* create two records), unless an answer to another request switched loading off.
OneSave ==
  dlg.guards /\ slip \cap {"late", "failed", "early", "refused"} = {} =>
    \A s, t \in sends : s # t => s.opening # t.opening

\* A dialog that catches its errors stops spinning, whatever becomes of the requests
\* and however often it is closed and opened meanwhile.
SpinnerEnds == dlg.catches /\ loading ~> ~loading
=============================================================================
