----------------------------- MODULE OptionForms -----------------------------
(***************************************************************************)
(* The settings pages of the web console (web/src/pages/Setting and        *)
(* components/settings).  A screen holds two pages that share one container*)
(* (OperationSetting, ModelSetting, ...).  A page keeps three copies of an *)
(* option: what its form shows, what its component state holds (inputs),   *)
(* and the baseline it compares with; the container has a fourth and the   *)
(* server the fifth.  A save is one PUT per option; a successful one makes *)
(* the container read all options again and hand them to every page.       *)
(* Options are abstract: a page has at most a text option, a second text   *)
(* option, a switch and a hidden option, one that no read hands to it,     *)
(* which stand for the fields of their kind.                               *)
(***************************************************************************)
EXTENDS Naturals, FiniteSets

CONSTANTS MaxClicks,   \* bound on the user's edits and saves
          MaxFaults    \* bound on refused or failing requests

ASSUME FormsAssumption == MaxClicks \in Nat /\ MaxFaults \in Nat

Nil == 2      \* what the server stores for a PUT without a value: the text "<nil>"
Unset == 3    \* a field the component state does not have (undefined)
Value == 0..1
Blank == 0    \* what a form shows for an option that it was not given
Fields == {"text", "text2", "switch", "hidden"}
Slots == 1..2

(***************************************************************************)
(* The pages.  edit: how a change reaches the component state; sends: what *)
(* a save sends; checks: whether a reply is looked into; after: what a     *)
(* success does; loads: when the options of the container are taken over;  *)
(* keeps: whether a hidden option stays as it is then, or turns blank.     *)
(***************************************************************************)
Page == [fields : SUBSET Fields,
         edit   : {"onChange", "onValueChange", "getValues", "state"},
         sends  : {"changed", "all", "one", "list", "gateway", "stripe", "creem", "system"},
         checks : {"none", "success"},
         after  : {"refresh", "baseline", "keep"},
         loads  : {"options", "value", "mount", "never"},
         inTurn : BOOLEAN,
         keeps  : BOOLEAN]

\* The common form: compare with the baseline, one PUT per change, all at once;
\* a reply is only tested for being there.
CompareForm(fields) ==
  [fields |-> fields, edit |-> "onChange", sends |-> "changed", checks |-> "none",
   after |-> "refresh", loads |-> "options", inTurn |-> FALSE, keeps |-> FALSE]

NoPage == CompareForm({})

\* The defaults of its container, OPERATION_DEFAULTS, lack three of its options.
SettingsGeneral == [CompareForm({"text", "switch", "hidden"}) EXCEPT !.keeps = TRUE]
SettingsSensitiveWords == CompareForm({"text", "switch"})
SettingsLog == CompareForm({"switch"})
SettingsCreditLimit == CompareForm({"switch"})
SettingsCheckin == CompareForm({"switch"})
SettingsDrawing == CompareForm({"switch"})
SettingsDataDashboard == CompareForm({"text", "switch"})
SettingClaudeModel == CompareForm({"text", "switch"})
SettingGeminiModel == CompareForm({"text", "switch"})
SettingGlobalModel == CompareForm({"text", "switch"})
SettingGrokModel == CompareForm({"switch"})
SettingsChannelAffinity == CompareForm({"text", "switch"})
SettingsChats == CompareForm({"text"})
SettingsPerformance == CompareForm({"text", "switch"})

\* These look into every reply.
SettingsRequestRateLimit == [CompareForm({"text", "switch"}) EXCEPT !.checks = "success"]
GroupRatioSettings == [CompareForm({"text", "switch"}) EXCEPT !.checks = "success"]
ModelRatioSettings == [CompareForm({"text", "switch"}) EXCEPT !.checks = "success"]

\* This moves the baseline itself when the save succeeds; the server hides its key.
SettingModelDeployment == [CompareForm({"hidden", "switch"}) EXCEPT !.after = "baseline"]

\* Reads the form itself, and so sees switches and numbers.
SettingsMonitoring ==
  [CompareForm({"text", "switch"}) EXCEPT !.edit = "getValues", !.after = "baseline"]

\* One option, held in component state and sent whole.
StatePage(fields) ==
  [CompareForm(fields) EXCEPT !.edit = "state", !.sends = "all", !.checks = "success"]

SettingsHeaderNavModules == StatePage({"text"})
SettingsSidebarModulesAdmin == StatePage({"text"})
ModelPricingEditor == StatePage({"text", "text2"})

\* The lists of the dashboard, each with a switch for its panel: either is taken over
\* only when its own option changed.
ListPage == [StatePage({"text", "switch"}) EXCEPT !.loads = "value", !.sends = "list"]
SettingsAPIInfo == ListPage
SettingsAnnouncements == ListPage
SettingsFAQ == ListPage
SettingsUptimeKuma == ListPage

\* Pages that load for themselves, send their options one after the other and
\* never refresh.  The first looks for its options in an array by name, finds
\* none and always starts from the defaults.
SettingsBedrockBetaFlags ==
  [StatePage({"text", "text2"}) EXCEPT !.after = "keep", !.loads = "never", !.inTurn = TRUE]
SettingsDistillation ==
  [StatePage({"text", "text2"}) EXCEPT !.checks = "none", !.after = "keep", !.loads = "mount",
                                       !.inTurn = TRUE]

\* Payment pages: the form reports changes through onValueChange, and the server
\* hides their keys.
SettingsGeneralPayment == [StatePage({"text"}) EXCEPT !.edit = "onValueChange"]
PaymentPage(fields, sends) ==
  [StatePage(fields) EXCEPT !.edit = "onValueChange", !.sends = sends, !.after = "baseline"]
SettingsPaymentGateway == PaymentPage({"text", "switch", "hidden"}, "gateway")
SettingsPaymentGatewayStripe == PaymentPage({"text", "switch", "hidden"}, "stripe")
SettingsPaymentGatewayCreem == PaymentPage({"hidden", "switch"}, "creem")

\* Screens of their own (without the keys of SystemSetting).
SystemSetting ==
  [StatePage({"text", "text2", "switch"})
     EXCEPT !.edit = "onValueChange", !.sends = "system", !.checks = "none",
            !.after = "keep", !.loads = "mount"]
OtherSetting ==
  [StatePage({"text", "switch"})
     EXCEPT !.edit = "onChange", !.sends = "one", !.checks = "none",
            !.after = "keep", !.loads = "mount"]

(***************************************************************************)
(* The containers: which pages share a read of the options.                *)
(***************************************************************************)
OperationSetting ==
  {SettingsGeneral, SettingsHeaderNavModules, SettingsSidebarModulesAdmin,
   SettingsSensitiveWords, SettingsLog, SettingsMonitoring, SettingsCreditLimit,
   SettingsCheckin, SettingsBedrockBetaFlags, SettingsDistillation}
ModelSetting ==
  {SettingGlobalModel, SettingsChannelAffinity, SettingGeminiModel, SettingClaudeModel,
   SettingGrokModel}
DashboardSetting ==
  {SettingsDataDashboard, SettingsAnnouncements, SettingsAPIInfo, SettingsFAQ,
   SettingsUptimeKuma}
PaymentSetting ==
  {SettingsGeneralPayment, SettingsPaymentGateway, SettingsPaymentGatewayStripe,
   SettingsPaymentGatewayCreem}
RatioSetting == {ModelRatioSettings, GroupRatioSettings, ModelPricingEditor}
ChatsSetting == {SettingsChats}
DrawingSetting == {SettingsDrawing}
RateLimitSetting == {SettingsRequestRateLimit}
PerformanceSetting == {SettingsPerformance}
ModelDeploymentSetting == {SettingModelDeployment}

Shared == {OperationSetting, ModelSetting, DashboardSetting, PaymentSetting, RatioSetting}
Single == ChatsSetting \cup DrawingSetting \cup RateLimitSetting \cup PerformanceSetting
            \cup ModelDeploymentSetting \cup {SystemSetting, OtherSetting}

\* Every page beside one of its siblings, or alone.
Beside(C) == {<<p, CHOOSE q \in C : q # p>> : p \in C}
Screens == (UNION {Beside(C) : C \in Shared}) \cup {<<p, NoPage>> : p \in Single}

VARIABLES
  page,     \* the pages on the screen
  shown,    \* what the form shows
  inputs,   \* the component state
  base,     \* inputsRow / originInputs / savedValuesRef
  dirty,    \* hasChanges of the list pages
  options,  \* the container's copy
  store,    \* the server's options
  saves,    \* saves under way
  get,      \* the GET of the options under way, at most one: callers share it
            \* (heals: the pages no request of which failed since it was answered)
  told,     \* the last message of each page
  clicks, faults,
  hurt,     \* history: a save or a read failed since the form was last filled
  joined    \* history: the last refresh joined a GET answered earlier

ui == <<shown, inputs, base, dirty, options, told>>
history == <<hurt, joined>>
vars == <<page, ui, store, saves, get, clicks, faults, history>>

Of(p) == page[p].fields
Quiet == saves = {} /\ get.way = "none"

\* What a read of the options gives a page: the server skips the keys that end in
\* Token, Secret, Key, secret or api_key, OperationSetting those it has no default for.
Given(p) == [f \in Of(p) |-> IF f = "hidden" THEN Blank ELSE store[p][f]]

NoGet == [way |-> "none", snap |-> [p \in Slots |-> [f \in Of(p) |-> 0]], heals |-> {}]

Init ==
  /\ page \in Screens
  /\ store = [p \in Slots |-> [f \in Of(p) |-> 1]]
  /\ shown = [p \in Slots |-> [f \in Of(p) |-> IF page[p].loads = "never" THEN 0 ELSE Given(p)[f]]]
  /\ inputs = shown /\ base = shown
  /\ options = [p \in Slots |-> Given(p)]
  /\ dirty = [p \in Slots |-> FALSE]
  /\ saves = {} /\ get = NoGet
  /\ told = [p \in Slots |-> "nothing"]
  /\ hurt = [p \in Slots |-> FALSE]
  /\ joined = FALSE
  /\ clicks = 0 /\ faults = 0

(***************************************************************************)
(* Editing                                                                 *)
(***************************************************************************)

\* compat/Form: Input, TextArea, Select and Checkbox call the page's onChange,
\* Switch and InputNumber do not.  (The text areas of OtherSetting do, without
\* the event its handler reads the field's name from: they are its "switch".)
Wired(p) == IF page[p].edit = "onChange" THEN Of(p) \ {"switch"} ELSE Of(p)

\* compat/Form, setValue: onValueChange is given the changed field first, and the
\* payment and system pages take it for all of them.
handleFormChange(p, f, v) == [g \in Of(p) |-> IF g = f THEN v ELSE Unset]

NewInputs(p, f, v) ==
  IF page[p].edit = "onValueChange" THEN handleFormChange(p, f, v)
  ELSE IF f \in Wired(p) THEN [inputs[p] EXCEPT ![f] = v]
  ELSE inputs[p]

\* handleFieldChange: the user changes a field.
Edit(p, f) ==
  /\ clicks < MaxClicks /\ f \in Of(p)
  /\ page[p].sends \in {"system", "list"} => f # "switch"
  /\ \E v \in Value \ {shown[p][f]} :
       /\ shown' = [shown EXCEPT ![p][f] = v]
       /\ inputs' = [inputs EXCEPT ![p] = NewInputs(p, f, v)]
  /\ dirty' = [dirty EXCEPT ![p] = TRUE]
  /\ told' = [told EXCEPT ![p] = "nothing"]
  /\ clicks' = clicks + 1
  /\ UNCHANGED <<page, base, options, store, saves, get, faults, history>>

(***************************************************************************)
(* What a save sends, from the component state i and the baseline b        *)
(***************************************************************************)

compareObjects(i, b) == {f \in DOMAIN i : i[f] # b[f]}

\* Mutant: undefined is stored as such.
SentRaw(i, F) == [f \in F |-> i[f]]

\* A PUT whose value is undefined carries none, and the server keeps "<nil>".
Sent(i, F) == [f \in F |-> IF i[f] = Unset THEN Nil ELSE i[f]]

\* A key is sent if there is one.
Key(i) == {f \in DOMAIN i : f = "hidden" /\ i[f] \notin {Blank, Unset}}

\* StripePriceId is sent unless empty, the numbers unless undefined, the switch
\* if it changed.
submitStripeSetting(i, b) ==
  Sent(i, {"text"} \cup Key(i) \cup {f \in {"switch"} : i[f] # Unset /\ i[f] # b[f]})

\* Test mode is always sent, and undefined means off.
submitCreemSetting(i) ==
  [f \in {"switch"} \cup Key(i) |-> IF i[f] = Unset THEN 0 ELSE i[f]]

\* submitSMTP, submitGitHubOAuth and the like: what differs from originInputs.
submitSystem(i, b) == Sent(i, compareObjects(i, b) \ {"switch"})

\* The fields one press of a save button sends; "one" has a button per field.
Payloads(p) ==
  LET i == inputs[p]  b == base[p]
  IN  CASE page[p].sends = "changed" -> {Sent(i, compareObjects(i, b))}
        [] page[p].sends = "all" -> {Sent(i, Of(p))}
        [] page[p].sends = "one" -> {Sent(i, {f}) : f \in Of(p)}
        [] page[p].sends = "list" -> {Sent(i, {"text"})}
        [] page[p].sends = "gateway" -> {Sent(i, (Of(p) \ {"hidden"}) \cup Key(i))}
        [] page[p].sends = "stripe" -> {submitStripeSetting(i, b)}
        [] page[p].sends = "creem" -> {submitCreemSetting(i)}
        [] page[p].sends = "system" -> {submitSystem(i, b)}

\* submitPayAddress: a group ratio or method list that is undefined is no JSON.
Refuses(p) ==
  page[p].sends = "gateway" /\ \E f \in Of(p) \ {"hidden"} : inputs[p][f] = Unset

\* The save button of a list is disabled while hasChanges is not set.
Enabled(p) == page[p].loads = "value" => dirty[p]

Start(p, sent) ==
  /\ saves' = saves \cup {[slot |-> p, id |-> clicks, sent |-> sent, closure |-> inputs[p],
                           res |-> [f \in DOMAIN sent |-> "wait"], ended |-> FALSE]}
  /\ told' = [told EXCEPT ![p] = "nothing"]

\* onSubmit: nothing changed, a refusal before any request, or one PUT per option.
Save(p) ==
  /\ clicks < MaxClicks /\ Of(p) # {} /\ Enabled(p)
  /\ clicks' = clicks + 1
  /\ \/ /\ Refuses(p)
        /\ told' = [told EXCEPT ![p] = "error"]
        /\ UNCHANGED saves
     \/ /\ ~Refuses(p)
        /\ \E sent \in Payloads(p) :
             \/ /\ DOMAIN sent = {}
                /\ told' = [told EXCEPT ![p] = "unchanged"]
                /\ UNCHANGED saves
             \/ DOMAIN sent # {} /\ Start(p, sent)
  /\ UNCHANGED <<page, shown, inputs, base, dirty, options, store, get, faults, history>>

\* handleCheckboxChange: a checkbox of SystemSetting is saved as it is clicked.
\* The form has dropped the other fields from inputs; the handler's closure has not.
Toggle(p) ==
  /\ clicks < MaxClicks /\ page[p].sends = "system"
  /\ clicks' = clicks + 1
  /\ LET v == 1 - shown[p]["switch"]
     IN  /\ shown' = [shown EXCEPT ![p]["switch"] = v]
         /\ inputs' = [inputs EXCEPT ![p] = handleFormChange(p, "switch", v)]
         /\ Start(p, [f \in {"switch"} |-> v])
  /\ UNCHANGED <<page, base, dirty, options, store, get, faults, history>>

\* handleToggleEnabled: the switch of a list's panel is saved as it is clicked, and
\* moves when the save has succeeded.
ToggleEnabled(p) ==
  /\ clicks < MaxClicks /\ page[p].sends = "list"
  /\ clicks' = clicks + 1
  /\ \E v \in Value \ {shown[p]["switch"]} : Start(p, [f \in {"switch"} |-> v])
  /\ UNCHANGED <<page, shown, inputs, base, dirty, options, store, get, faults, history>>

(***************************************************************************)
(* The server                                                              *)
(***************************************************************************)
\* UpdateOption: checked first, saved to the database and the option map, and
\* only then parsed: a value may be refused and yet kept.  A request may also
\* fail on its way there or back.
Outcomes == [res : {"ok"}, kept : {TRUE}] \cup [res : {"refused", "lost"}, kept : BOOLEAN]

Waits(s) == {f \in DOMAIN s.res : s.res[f] = "wait"}
Lost(s) == \E f \in DOMAIN s.res : s.res[f] = "lost"

\* A page that sends in turn sends the next option when the one before is answered.
Due(s) ==
  IF page[s.slot].inTurn /\ "text" \in Waits(s) THEN {"text"}
  ELSE IF page[s.slot].inTurn /\ Lost(s) THEN {}
  ELSE Waits(s)

UpdateOption(s, f) ==
  /\ f \in Due(s)
  /\ \E o \in Outcomes :
       /\ o.res # "ok" => faults < MaxFaults
       /\ faults' = IF o.res = "ok" THEN faults ELSE faults + 1
       /\ store' = IF o.kept THEN [store EXCEPT ![s.slot][f] = s.sent[f]] ELSE store
       /\ saves' = (saves \ {s}) \cup
            IF s.ended /\ Waits(s) = {f} THEN {} ELSE {[s EXCEPT !.res[f] = o.res]}
  /\ get' = IF s.ended THEN [get EXCEPT !.heals = @ \ {s.slot}] ELSE get
  /\ UNCHANGED <<page, ui, clicks, history>>

(***************************************************************************)
(* The end of a save                                                       *)
(***************************************************************************)
Fails(s) ==
  \/ Lost(s)
  \/ page[s.slot].checks = "success" /\ \E f \in DOMAIN s.res : s.res[f] = "refused"

\* Mutant: a save leaves the options unread.
RefreshNot == UNCHANGED <<get, joined>>

\* onRefresh: reads the options, or joins the read under way.
Refresh ==
  /\ get' = IF get.way = "none" THEN [NoGet EXCEPT !.way = "asked"] ELSE get
  /\ joined' = (get.way = "served")

\* Promise.all is settled: every PUT has been answered or one has failed.  Those
\* still under way go on.
Settled(s) == ~s.ended /\ (Due(s) = {} \/ Lost(s))
Leave(s) == saves' = (saves \ {s}) \cup
              IF Due(s) = {} THEN {} ELSE {[s EXCEPT !.ended = TRUE]}

\* The save is that of a list's switch.
ByPanel(s) == page[s.slot].sends = "list" /\ "switch" \in DOMAIN s.sent

SaveFails(s) ==
  /\ Settled(s) /\ Fails(s) /\ Leave(s)
  /\ told' = [told EXCEPT ![s.slot] = "error"]
  /\ dirty' = IF Lost(s) \/ ByPanel(s) THEN dirty ELSE [dirty EXCEPT ![s.slot] = FALSE]
  /\ hurt' = [hurt EXCEPT ![s.slot] = TRUE]
  /\ get' = [get EXCEPT !.heals = @ \ {s.slot}]
  /\ UNCHANGED <<page, shown, inputs, base, options, store, clicks, faults, joined>>

\* SystemSetting stops at a refused checkbox; for other refusals it reports both.
Stops(s) == page[s.slot].sends = "system" /\ "switch" \in DOMAIN s.res
              /\ s.res["switch"] = "refused"

SystemStops(s) ==
  /\ Settled(s) /\ ~Fails(s) /\ Stops(s) /\ Leave(s)
  /\ told' = [told EXCEPT ![s.slot] = "error"]
  /\ UNCHANGED <<page, shown, inputs, base, dirty, options, store, get, clicks, faults, history>>

SaveSucceeds(s) ==
  LET p == s.slot IN
  /\ Settled(s) /\ ~Fails(s) /\ ~Stops(s) /\ Leave(s)
  /\ told' = [told EXCEPT ![p] = "saved"]
  /\ dirty' = IF ByPanel(s) THEN dirty ELSE [dirty EXCEPT ![p] = FALSE]
  /\ shown' = IF ByPanel(s) THEN [shown EXCEPT ![p]["switch"] = s.sent["switch"]] ELSE shown
  /\ base' = IF page[p].after = "baseline" THEN [base EXCEPT ![p] = s.closure] ELSE base
  /\ inputs' = IF page[p].sends \in {"system", "one"}
               THEN [inputs EXCEPT ![p] = [f \in Of(p) |->
                       IF f \in DOMAIN s.sent THEN s.sent[f]
                       ELSE IF page[p].sends = "one" THEN inputs[p][f] ELSE s.closure[f]]]
               ELSE inputs
  /\ IF page[p].after = "keep" THEN UNCHANGED <<get, joined>> ELSE Refresh
  /\ UNCHANGED <<page, options, store, clicks, faults, hurt>>

(***************************************************************************)
(* The read of the options                                                 *)
(***************************************************************************)
GetOptions ==
  /\ get.way = "asked"
  /\ get' = [way |-> "served", snap |-> [p \in Slots |-> Given(p)], heals |-> Slots]
  /\ UNCHANGED <<page, ui, store, saves, clicks, faults, history>>

\* Mutant: a list is taken over with every read.
TakesAlways(p) == IF page[p].loads \in {"options", "value"} THEN Of(p) ELSE {}

\* The options a page is given, or told that they are blank.
Handed(p) == IF page[p].keeps THEN Of(p) \ {"hidden"} ELSE Of(p)

\* The effects of a page on the options it is given: which fields it takes over.
Takes(p) ==
  CASE page[p].loads = "options" -> Handed(p)
    [] page[p].loads = "value" -> {f \in Of(p) : get.snap[p][f] # options[p][f]}
    [] OTHER -> {}

\* A form is filled as a whole: what it was not given comes from the component state.
Filled(x) ==
  [p \in Slots |-> [f \in Of(p) |->
     IF f \in Takes(p) THEN get.snap[p][f]
     ELSE IF page[p].loads = "options" THEN inputs[p][f] ELSE x[p][f]]]

Fills(p) == page[p].loads \in {"options", "value"}

\* Mutant: the read does not reach the form.
getOptionsUnshown ==
  /\ get.way = "served"
  /\ options' = get.snap
  /\ inputs' = Filled(inputs) /\ base' = Filled(base)
  /\ hurt' = [p \in Slots |-> IF ~Fills(p) \/ p \notin get.heals THEN hurt[p]
                              ELSE \E s \in saves : s.slot = p /\ s.ended]
  /\ get' = NoGet
  /\ UNCHANGED <<page, shown, store, saves, dirty, told, clicks, faults, joined>>

getOptions ==
  /\ get.way = "served"
  /\ options' = get.snap
  /\ shown' = Filled(shown) /\ inputs' = Filled(inputs) /\ base' = Filled(base)
  /\ hurt' = [p \in Slots |-> IF ~Fills(p) \/ p \notin get.heals THEN hurt[p]
                              ELSE \E s \in saves : s.slot = p /\ s.ended]
  /\ get' = NoGet
  /\ UNCHANGED <<page, store, saves, dirty, told, clicks, faults, joined>>

\* The read fails: the message is shown and everything stays as it is.
GetFails ==
  /\ get.way # "none" /\ faults < MaxFaults
  /\ get' = NoGet /\ faults' = faults + 1
  /\ hurt' = [p \in Slots |-> TRUE]
  /\ UNCHANGED <<page, ui, store, saves, clicks, joined>>

Next ==
  \/ \E p \in Slots, f \in Fields : Edit(p, f)
  \/ \E p \in Slots : Save(p) \/ Toggle(p) \/ ToggleEnabled(p)
  \/ \E s \in saves : SaveFails(s) \/ SystemStops(s) \/ SaveSucceeds(s)
  \/ \E s \in saves, f \in Fields : UpdateOption(s, f)
  \/ GetOptions \/ getOptions \/ GetFails

Spec == Init /\ [][Next]_vars

(***************************************************************************)
(* Properties                                                              *)
(***************************************************************************)
PerField(S) == UNION {[F -> S] : F \in SUBSET Fields}

\* The type invariant; the undefined of a form never becomes a shown or a stored
\* value, a baseline never holds one but where the page puts its inputs there.
TypeOK ==
  /\ page \in [Slots -> Page]
  /\ \A p \in Slots :
       /\ shown[p] \in [Of(p) -> Value \cup {Nil}] /\ store[p] \in [Of(p) -> Value \cup {Nil}]
       /\ options[p] \in [Of(p) -> Value \cup {Nil}]
       /\ inputs[p] \in [Of(p) -> Value \cup {Nil, Unset}]
       /\ base[p] \in [Of(p) -> Value \cup {Nil, Unset}]
  /\ \A s \in saves : DOMAIN s.sent \subseteq Of(s.slot) /\ s.sent \in PerField(Value \cup {Nil})
  /\ dirty \in [Slots -> BOOLEAN] /\ get.way \in {"none", "asked", "served"}
  /\ told \in [Slots -> {"nothing", "saved", "error", "unchanged"}]
  /\ clicks \in 0..MaxClicks /\ faults \in 0..MaxFaults

Refreshes(p) == page[p].after # "keep"

\* compareObjects decides what is sent by the baseline, so a baseline that is not
\* the server's value loses an edit.  When nothing is under way it is what the server
\* gives, blank for a key it hides, unless a request failed since it was set or the
\* refresh was shared with an earlier read.  (SettingsGeneral makes a baseline of what
\* is typed into an option that its container drops: of those nothing is said.)
BaselineTrue ==
  Quiet /\ ~joined =>
    \A p \in Slots : Refreshes(p) /\ page[p].sends = "changed" /\ ~hurt[p] =>
       \A f \in Handed(p) : base[p][f] = Given(p)[f]

\* After the message that it was saved, a page filled by its container shows what the
\* server gives once nothing is under way: its value also where it refused one the
\* page took for saved, and a blank where it keeps a key to itself.  (A list edited
\* during its save may keep the edit with the save button switched off.)
SavedIsShown ==
  Quiet /\ ~joined =>
    \A p \in Slots : told[p] = "saved" /\ page[p].loads = "options" /\ ~hurt[p] =>
       \A f \in Handed(p) : shown[p][f] = Given(p)[f]

\* An unsaved list keeps its edits through every refresh that the saves of the other
\* page and its own switch cause: while no save of it is under way, no request of it
\* has failed and the container holds its stored list, only the user changes it.
ListEditsSurvive ==
  [][\A p \in Slots :
       /\ page[p].loads = "value" /\ (\A s \in saves : s.slot # p)
       /\ ~joined /\ ~hurt[p] /\ options[p]["text"] = store[p]["text"]
       /\ clicks' = clicks
       => shown'[p]["text"] = shown[p]["text"]]_vars
=============================================================================
