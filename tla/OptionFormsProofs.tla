------------------------- MODULE OptionFormsProofs -------------------------
(* Proofs about OptionForms, for any number of clicks and failing requests. *)
EXTENDS OptionForms, TLAPS

-----------------------------------------------------------------------------
(* The inductive invariant. *)

Kept == Value \cup {Nil}           \* what the server may hold
Held == Value \cup {Nil, Unset}    \* what component state may hold

\* One value of V for every option of every page.
Fits(x, V) ==
  /\ x = [p \in Slots |-> x[p]]
  /\ \A p \in Slots : x[p] \in [Of(p) -> V]

\* The state of the pages.
Formed ==
  /\ page \in Screens
  /\ Fits(shown, Kept) /\ Fits(store, Kept) /\ Fits(options, Kept)
  /\ Fits(inputs, Held) /\ Fits(base, Held)
  /\ \A p \in Slots : page[p].sends = "system" => shown[p] \in [Of(p) -> Value]
  /\ \A p \in Slots : page[p].keeps => inputs[p] \in [Of(p) -> Kept]

\* The rest of the type invariant.
Counted ==
  /\ dirty \in [Slots -> BOOLEAN] /\ hurt \in [Slots -> BOOLEAN]
  /\ told \in [Slots -> {"nothing", "saved", "error", "unchanged"}]
  /\ clicks \in 0..MaxClicks /\ faults \in 0..MaxFaults

\* A save under way belongs to a page and carries options of it.
Sound(s) ==
  /\ s = [slot |-> s.slot, id |-> s.id, sent |-> s.sent, closure |-> s.closure,
          res |-> s.res, ended |-> s.ended]
  /\ s.slot \in Slots /\ s.ended \in BOOLEAN
  /\ DOMAIN s.sent \subseteq Of(s.slot)
  /\ s.sent \in [DOMAIN s.sent -> Kept]
  /\ s.closure \in [Of(s.slot) -> Held]
  /\ s.res \in [DOMAIN s.sent -> {"wait", "ok", "refused", "lost"}]

\* A read under way has been answered with options of the pages.
Read ==
  /\ get = [way |-> get.way, snap |-> get.snap, heals |-> get.heals]
  /\ get.way \in {"none", "asked", "served"} /\ get.heals \subseteq Slots
  /\ Fits(get.snap, Kept)

\* A save of the page is under way and not yet ended.
Pending(p) == \E s \in saves : s.slot = p /\ ~s.ended

\* The values agree with what a read gives, for the options the page is handed.
Agrees(x, p) == \A f \in Handed(p) : x[f] = Given(p)[f]

\* A page the container fills is either up to date or about to be brought so: by its
\* own save, which ends in a refresh, or by the read under way.
Current(p) ==
  /\ (\E s \in saves : s.slot = p /\ s.ended) => hurt[p]
  /\ get.way = "served" => p \in get.heals \/ hurt[p]
  /\ get.way = "served" /\ p \in get.heals /\ ~joined => get.snap[p] = Given(p) \/ Pending(p)
  /\ get.way = "none" /\ ~joined /\ ~hurt[p] /\ page[p].loads = "options" =>
       Agrees(base[p], p) \/ Pending(p)
  /\ get.way = "none" /\ ~joined /\ ~hurt[p] /\ page[p].loads = "options"
       /\ told[p] = "saved" => Agrees(shown[p], p) \/ Pending(p)

AllSound == \A s \in saves : Sound(s)
Typed == Formed /\ Counted /\ AllSound /\ Read
AllCurrent == \A p \in Slots : Fills(p) => Current(p)


-----------------------------------------------------------------------------
(* The pages. *)

\* How the features of a page go together.
Coherent(q) ==
  /\ q \in Page
  /\ q.loads = "options" => q.after # "keep" /\ ~q.inTurn /\ q.sends \notin {"system", "list"}
  /\ q.sends = "changed" => q.loads = "options"
  /\ q.sends = "list" <=> q.loads = "value"
  /\ q.sends = "list" => q.fields = {"text", "switch"} /\ q.after # "keep" /\ ~q.inTurn
  /\ q.sends = "system" => q.fields = {"text", "text2", "switch"} /\ q.loads = "mount"
  /\ q.sends = "stripe" => q.fields = {"text", "switch", "hidden"}
  /\ q.sends = "creem" => q.fields = {"hidden", "switch"}
  /\ q.keeps => q.loads = "options" /\ q.sends = "changed" /\ q.edit = "onChange"

\* The shapes the pages are made of.
LEMMA Shapes ==
  ASSUME NEW F \in SUBSET Fields
  PROVE  /\ Coherent(CompareForm(F))
         /\ Coherent([CompareForm(F) EXCEPT !.checks = "success"])
         /\ Coherent([CompareForm(F) EXCEPT !.after = "baseline"])
         /\ Coherent([CompareForm(F) EXCEPT !.edit = "getValues", !.after = "baseline"])
         /\ Coherent([CompareForm(F) EXCEPT !.keeps = TRUE])
         /\ Coherent(StatePage(F))
<1>1. Coherent(CompareForm(F))
  BY DEF Coherent, CompareForm, Page
<1>2. Coherent([CompareForm(F) EXCEPT !.checks = "success"])
  BY DEF Coherent, CompareForm, Page
<1>3. Coherent([CompareForm(F) EXCEPT !.after = "baseline"])
  BY DEF Coherent, CompareForm, Page
<1>4. Coherent([CompareForm(F) EXCEPT !.edit = "getValues", !.after = "baseline"])
  BY DEF Coherent, CompareForm, Page
<1>5. Coherent(StatePage(F))
  BY DEF Coherent, CompareForm, StatePage, Page
<1>6. Coherent([CompareForm(F) EXCEPT !.keeps = TRUE])
  BY DEF Coherent, CompareForm, Page
<1>7. QED
  BY <1>1, <1>2, <1>3, <1>4, <1>5, <1>6

\* Every page of the console.
LEMMA PagesCoherent ==
  /\ \A q \in OperationSetting \cup ModelSetting \cup DashboardSetting : Coherent(q)
  /\ \A q \in PaymentSetting \cup RatioSetting \cup Single : Coherent(q)
  /\ Coherent(NoPage)
<1>f. /\ {} \in SUBSET Fields /\ {"text"} \in SUBSET Fields /\ {"switch"} \in SUBSET Fields
      /\ {"text", "switch"} \in SUBSET Fields /\ {"text", "text2"} \in SUBSET Fields
      /\ {"text", "switch", "hidden"} \in SUBSET Fields /\ {"hidden", "switch"} \in SUBSET Fields
  BY DEF Fields
<1>o. Coherent(SettingsBedrockBetaFlags) /\ Coherent(SettingsDistillation)
  BY DEF SettingsBedrockBetaFlags, SettingsDistillation, Coherent, StatePage, CompareForm,
         Page, Fields
<1>1. \A q \in OperationSetting : Coherent(q)
  BY <1>f, <1>o, Shapes DEF OperationSetting, SettingsGeneral, SettingsHeaderNavModules,
     SettingsSidebarModulesAdmin, SettingsSensitiveWords, SettingsLog, SettingsMonitoring,
     SettingsCreditLimit, SettingsCheckin
<1>2. \A q \in ModelSetting : Coherent(q)
  BY <1>f, Shapes DEF ModelSetting, SettingGlobalModel, SettingsChannelAffinity,
     SettingGeminiModel, SettingClaudeModel, SettingGrokModel
<1>l. Coherent(ListPage)
  BY DEF ListPage, Coherent, StatePage, CompareForm, Page, Fields
<1>3. \A q \in DashboardSetting : Coherent(q)
  BY <1>f, <1>l, Shapes DEF DashboardSetting, SettingsDataDashboard, SettingsAnnouncements,
     SettingsAPIInfo, SettingsFAQ, SettingsUptimeKuma
<1>p. /\ Coherent(SettingsGeneralPayment) /\ Coherent(SettingsPaymentGateway)
      /\ Coherent(SettingsPaymentGatewayStripe) /\ Coherent(SettingsPaymentGatewayCreem)
  <2> USE DEF Coherent, StatePage, CompareForm, Page, Fields
  <2>1. Coherent(SettingsGeneralPayment)
    BY DEF SettingsGeneralPayment
  <2>2. Coherent(SettingsPaymentGateway)
    BY DEF SettingsPaymentGateway, PaymentPage
  <2>3. Coherent(SettingsPaymentGatewayStripe)
    BY DEF SettingsPaymentGatewayStripe, PaymentPage
  <2>4. Coherent(SettingsPaymentGatewayCreem)
    BY DEF SettingsPaymentGatewayCreem, PaymentPage
  <2>5. QED
    BY <2>1, <2>2, <2>3, <2>4
<1>4. \A q \in PaymentSetting : Coherent(q)
  BY <1>p DEF PaymentSetting
<1>5. \A q \in RatioSetting : Coherent(q)
  BY <1>f, Shapes DEF RatioSetting, ModelRatioSettings, GroupRatioSettings, ModelPricingEditor
<1>s. Coherent(SystemSetting) /\ Coherent(OtherSetting)
  <2>1. Coherent(SystemSetting)
    BY DEF Coherent, StatePage, CompareForm, Page, Fields, SystemSetting
  <2>2. Coherent(OtherSetting)
    BY DEF Coherent, StatePage, CompareForm, Page, Fields, OtherSetting
  <2>3. QED
    BY <2>1, <2>2
<1>6. \A q \in Single : Coherent(q)
  BY <1>f, <1>s, Shapes DEF Single, ChatsSetting, DrawingSetting, RateLimitSetting,
     PerformanceSetting, ModelDeploymentSetting, SettingsChats, SettingsDrawing,
     SettingsRequestRateLimit, SettingsPerformance, SettingModelDeployment
<1>7. Coherent(NoPage)
  BY <1>f, Shapes DEF NoPage
<1>8. QED
  BY <1>1, <1>2, <1>3, <1>4, <1>5, <1>6, <1>7

\* Every container has a sibling for each of its pages.
LEMMA Siblings ==
  ASSUME NEW C \in Shared, NEW p \in C
  PROVE  (CHOOSE q \in C : q # p) \in C
<1>1. \E a, b \in C : a # b
  <2>1. CASE C = OperationSetting
    <3>1. SettingsLog # SettingsGeneral
      BY DEF SettingsLog, SettingsGeneral, CompareForm
    <3>2. QED
      BY <2>1, <3>1 DEF OperationSetting
  <2>2. CASE C = ModelSetting
    <3>1. SettingGrokModel # SettingGlobalModel
      BY DEF SettingGrokModel, SettingGlobalModel, CompareForm
    <3>2. QED
      BY <2>2, <3>1 DEF ModelSetting
  <2>3. CASE C = DashboardSetting
    <3>1. SettingsDataDashboard # SettingsFAQ
      BY DEF SettingsDataDashboard, SettingsFAQ, ListPage, StatePage, CompareForm
    <3>2. QED
      BY <2>3, <3>1 DEF DashboardSetting
  <2>4. CASE C = PaymentSetting
    <3>1. SettingsPaymentGateway # SettingsPaymentGatewayStripe
      BY DEF SettingsPaymentGateway, SettingsPaymentGatewayStripe, PaymentPage, StatePage,
             CompareForm
    <3>2. QED
      BY <2>4, <3>1 DEF PaymentSetting
  <2>5. CASE C = RatioSetting
    <3>1. ModelRatioSettings # ModelPricingEditor
      BY DEF ModelRatioSettings, ModelPricingEditor, StatePage, CompareForm
    <3>2. QED
      BY <2>5, <3>1 DEF RatioSetting
  <2>6. QED
    BY <2>1, <2>2, <2>3, <2>4, <2>5 DEF Shared
<1>2. QED
  BY <1>1

\* Both pages of every screen are coherent.
LEMMA ScreenPages ==
  ASSUME NEW c \in Screens
  PROVE  c \in [Slots -> Page] /\ \A p \in Slots : Coherent(c[p])
<1>1. \E a, b : c = <<a, b>> /\ Coherent(a) /\ Coherent(b)
  <2>1. CASE \E a \in Single : c = <<a, NoPage>>
    BY <2>1, PagesCoherent
  <2>2. CASE \E C \in Shared : c \in Beside(C)
    <3>1. PICK C \in Shared : c \in Beside(C)
      BY <2>2
    <3>2. PICK a \in C : c = <<a, CHOOSE q \in C : q # a>>
      BY <3>1 DEF Beside
    <3>3. \A q \in C : Coherent(q)
      BY PagesCoherent DEF Shared
    <3>4. QED
      BY <3>2, <3>3, Siblings
  <2>3. QED
    BY <2>1, <2>2 DEF Screens
<1>2. QED
  BY <1>1 DEF Slots, Coherent

-----------------------------------------------------------------------------
(* Type correctness. *)

\* The numbers that stand for values.
LEMMA Values ==
  /\ Value \subseteq Kept /\ Kept \subseteq Held /\ Nil \in Kept /\ Unset \in Held
  /\ \A v \in Held : v # Unset => v \in Kept
  /\ 0 \in Value /\ 1 \in Value /\ \A v \in Value : 1 - v \in Value
BY DEF Value, Kept, Held, Nil, Unset

\* The pages on the screen stay there.
LEMMA PageFixed ==
  ASSUME [Next]_vars
  PROVE  page' = page
BY DEF Next, Edit, Save, Toggle, ToggleEnabled, SaveFails, SystemStops, SaveSucceeds, UpdateOption,
       GetOptions, getOptions, GetFails, vars

\* Every page on the screen is coherent.
LEMMA PageAt ==
  ASSUME Formed, NEW p \in Slots
  PROVE  Coherent(page[p]) /\ Of(p) \subseteq Fields
BY ScreenPages DEF Formed, Coherent, Page, Of

\* Setting one page's values.
LEMMA FitsUpdate ==
  ASSUME NEW x, NEW V, Fits(x, V), NEW p \in Slots, NEW v \in [Of(p) -> V]
  PROVE  Fits([x EXCEPT ![p] = v], V)
BY DEF Fits

\* Setting one option.
LEMMA FitsField ==
  ASSUME NEW x, NEW V, Fits(x, V), NEW p \in Slots, NEW f \in Of(p), NEW v \in V
  PROVE  Fits([x EXCEPT ![p][f] = v], V)
<1>1. [x[p] EXCEPT ![f] = v] \in [Of(p) -> V]
  BY DEF Fits
<1>2. QED
  BY <1>1, FitsUpdate

\* The invariant is about the same pages after a step.
LEMMA NextTyped ==
  ASSUME page' = page, Formed,
         Fits(shown', Kept), Fits(store', Kept), Fits(options', Kept),
         Fits(inputs', Held), Fits(base', Held),
         \A p \in Slots : page[p].sends = "system" => shown'[p] \in [Of(p) -> Value],
         \A p \in Slots : page[p].keeps => inputs'[p] \in [Of(p) -> Kept],
         \A s \in saves' : Sound(s)
  PROVE  Formed' /\ AllSound'
<1>1. \A p : Of(p)' = Of(p)
  BY DEF Of
<1>2. Formed'
  BY <1>1 DEF Formed, Fits
<1>3. AllSound'
  BY <1>1 DEF AllSound, Sound
<1>4. QED
  BY <1>2, <1>3

\* The user edits a field.
LEMMA EditTyped ==
  ASSUME Typed, NEW p \in Slots, NEW f \in Fields, Edit(p, f)
  PROVE  Typed'
<1>1. PICK v \in Value : /\ shown' = [shown EXCEPT ![p][f] = v]
                         /\ inputs' = [inputs EXCEPT ![p] = NewInputs(p, f, v)]
  BY DEF Edit
<1>2. f \in Of(p) /\ v \in Kept /\ v \in Held
  BY Values DEF Edit
<1>3. Fits(shown', Kept)
  BY <1>1, <1>2, FitsField DEF Typed, Formed
<1>4. NewInputs(p, f, v) \in [Of(p) -> Held]
  <2>1. handleFormChange(p, f, v) \in [Of(p) -> Held]
    BY <1>2, Values DEF handleFormChange
  <2>2. inputs[p] \in [Of(p) -> Held]
    BY DEF Typed, Formed, Fits
  <2>3. [inputs[p] EXCEPT ![f] = v] \in [Of(p) -> Held]
    BY <1>2, <2>2
  <2>4. QED
    BY <2>1, <2>2, <2>3 DEF NewInputs
<1>5. Fits(inputs', Held)
  BY <1>1, <1>4, FitsUpdate DEF Typed, Formed
<1>6. \A o \in Slots : page[o].sends = "system" => shown'[o] \in [Of(o) -> Value]
  <2> SUFFICES ASSUME NEW o \in Slots, page[o].sends = "system"
               PROVE  shown'[o] \in [Of(o) -> Value]
    OBVIOUS
  <2>1. shown[o] \in [Of(o) -> Value]
    BY DEF Typed, Formed
  <2>2. shown'[o] = IF o = p THEN [shown[o] EXCEPT ![f] = v] ELSE shown[o]
    BY <1>1 DEF Typed, Formed, Fits
  <2>3. QED
    BY <2>1, <2>2
<1>k. \A o \in Slots : page[o].keeps => inputs'[o] \in [Of(o) -> Kept]
  <2> SUFFICES ASSUME NEW o \in Slots, page[o].keeps PROVE inputs'[o] \in [Of(o) -> Kept]
    OBVIOUS
  <2>1. inputs[o] \in [Of(o) -> Kept] /\ page[o].edit # "onValueChange"
    BY PageAt DEF Typed, Formed, Coherent
  <2>2. inputs'[o] = IF o = p THEN NewInputs(p, f, v) ELSE inputs[o]
    BY <1>1 DEF Typed, Formed, Fits
  <2>3. o = p => NewInputs(p, f, v) \in {inputs[o], [inputs[o] EXCEPT ![f] = v]}
    BY <2>1 DEF NewInputs
  <2>4. [inputs[o] EXCEPT ![f] = v] \in [Of(o) -> Kept]
    BY <2>1, <1>2
  <2>5. QED
    BY <2>1, <2>2, <2>3, <2>4
<1>7. Formed' /\ AllSound'
  BY <1>3, <1>5, <1>6, <1>k, NextTyped DEF Typed, Formed, AllSound, Edit
<1>8. Counted'
  BY FormsAssumption DEF Typed, Counted, Edit, history
<1>9. Read'
  BY DEF Typed, Read, Fits, Edit, Of
<1>10. QED
  BY <1>7, <1>8, <1>9 DEF Typed

\* A save carries options of the page: those that differ from the baseline, all of
\* them, one of them, or those its kind of page picks.
LEMMA PayloadFits ==
  ASSUME Formed, NEW p \in Slots, NEW sent \in Payloads(p)
  PROVE  DOMAIN sent \subseteq Of(p) /\ sent \in [DOMAIN sent -> Kept]
<1>i. inputs[p] \in [Of(p) -> Held]
  BY DEF Formed, Fits
<1>c. Coherent(page[p])
  BY PageAt
<1>s. ASSUME NEW F \in SUBSET Of(p), sent = Sent(inputs[p], F)
      PROVE  DOMAIN sent \subseteq Of(p) /\ sent \in [DOMAIN sent -> Kept]
  <2>1. \A f \in F : (IF inputs[p][f] = Unset THEN Nil ELSE inputs[p][f]) \in Kept
    BY <1>i, Values
  <2>2. QED
    BY <1>s, <2>1 DEF Sent
<1>d. compareObjects(inputs[p], base[p]) \subseteq Of(p)
  BY <1>i DEF compareObjects
<1>k. Key(inputs[p]) \subseteq Of(p)
  BY <1>i DEF Key
<1>1. CASE page[p].sends = "changed"
  BY <1>1, <1>s, <1>d DEF Payloads
<1>2. CASE page[p].sends = "all"
  BY <1>2, <1>s DEF Payloads
<1>8. CASE page[p].sends = "gateway"
  BY <1>8, <1>s, <1>k DEF Payloads
<1>9. CASE page[p].sends = "list"
  <2>1. {"text"} \subseteq Of(p)
    BY <1>9, <1>c DEF Coherent, Of
  <2>2. QED
    BY <1>9, <2>1, <1>s DEF Payloads
<1>3. CASE page[p].sends = "one"
  <2>1. PICK f \in Of(p) : sent = Sent(inputs[p], {f})
    BY <1>3 DEF Payloads
  <2>2. QED
    BY <2>1, <1>s
<1>4. CASE page[p].sends = "stripe"
  <2>1. Of(p) = {"text", "switch", "hidden"}
    BY <1>4, <1>c DEF Coherent, Of
  <2>2. sent = submitStripeSetting(inputs[p], base[p])
    BY <1>4 DEF Payloads
  <2>3. QED
    BY <2>1, <2>2, <1>s, <1>k DEF submitStripeSetting
<1>5. CASE page[p].sends = "creem"
  <2>1. Of(p) = {"hidden", "switch"}
    BY <1>5, <1>c DEF Coherent, Of
  <2>2. sent = submitCreemSetting(inputs[p])
    BY <1>5 DEF Payloads
  <2>3. \A f \in Of(p) : (IF inputs[p][f] = Unset THEN 0 ELSE inputs[p][f]) \in Kept
    BY <1>i, Values
  <2>4. {"switch"} \cup Key(inputs[p]) \subseteq Of(p)
    BY <2>1, <1>k
  <2>5. QED
    BY <2>2, <2>3, <2>4 DEF submitCreemSetting
<1>6. CASE page[p].sends = "system"
  <2>1. sent = Sent(inputs[p], compareObjects(inputs[p], base[p]) \ {"switch"})
    BY <1>6 DEF Payloads, submitSystem
  <2>2. QED
    BY <2>1, <1>s, <1>d
<1>7. QED
  BY <1>1, <1>2, <1>3, <1>4, <1>5, <1>6, <1>8, <1>9, <1>c DEF Coherent, Page

\* A save that starts is a save of its page.
LEMMA StartSound ==
  ASSUME Typed, NEW p \in Slots, NEW sent, Start(p, sent),
         DOMAIN sent \subseteq Of(p), sent \in [DOMAIN sent -> Kept]
  PROVE  /\ \A s \in saves' : Sound(s)
         /\ told' \in [Slots -> {"nothing", "saved", "error", "unchanged"}]
<1> DEFINE new == [slot |-> p, id |-> clicks, sent |-> sent, closure |-> inputs[p],
                   res |-> [f \in DOMAIN sent |-> "wait"], ended |-> FALSE]
<1>1. saves' = saves \cup {new}
  BY DEF Start
<1>2. inputs[p] \in [Of(p) -> Held]
  BY DEF Typed, Formed, Fits
<1>3. Sound(new)
  BY <1>2 DEF Sound
<1>4. told' \in [Slots -> {"nothing", "saved", "error", "unchanged"}]
  BY DEF Start, Typed, Counted
<1> HIDE DEF new
<1>5. QED
  BY <1>1, <1>3, <1>4 DEF Typed, AllSound

\* The save button.
LEMMA SaveTyped ==
  ASSUME Typed, NEW p \in Slots, Save(p)
  PROVE  Typed'
<1>u. /\ UNCHANGED <<page, shown, inputs, base, dirty, options, store, get, faults, hurt>>
      /\ clicks < MaxClicks /\ clicks' = clicks + 1
  BY DEF Save, history
<1>1. /\ \A s \in saves' : Sound(s)
      /\ told' \in [Slots -> {"nothing", "saved", "error", "unchanged"}]
  <2>1. CASE saves' = saves /\ \E m \in {"error", "unchanged"} : told' = [told EXCEPT ![p] = m]
    BY <2>1 DEF Typed, AllSound, Counted
  <2>2. CASE \E sent \in Payloads(p) : Start(p, sent)
    BY <2>2, PayloadFits, StartSound DEF Typed
  <2>3. QED
    BY <2>1, <2>2 DEF Save
<1>2. Formed' /\ AllSound'
  BY <1>u, <1>1, NextTyped DEF Typed, Formed
<1>3. Counted'
  BY <1>u, <1>1, FormsAssumption DEF Typed, Counted
<1>4. Read'
  BY <1>u DEF Typed, Read, Fits, Of
<1>5. QED
  BY <1>2, <1>3, <1>4 DEF Typed

\* A checkbox of the system page.
LEMMA ToggleTyped ==
  ASSUME Typed, NEW p \in Slots, Toggle(p)
  PROVE  Typed'
<1> DEFINE v == 1 - shown[p]["switch"]
<1>u. /\ UNCHANGED <<page, base, dirty, options, store, get, faults, hurt>>
      /\ clicks < MaxClicks /\ clicks' = clicks + 1
      /\ page[p].sends = "system"
      /\ shown' = [shown EXCEPT ![p]["switch"] = v]
      /\ inputs' = [inputs EXCEPT ![p] = handleFormChange(p, "switch", v)]
      /\ Start(p, [f \in {"switch"} |-> v])
  BY DEF Toggle, history
<1>o. "switch" \in Of(p)
  BY <1>u, PageAt DEF Typed, Coherent, Of, Fields
<1>v. v \in Value /\ v \in Kept /\ v \in Held
  <2>1. shown[p]["switch"] \in Value
    BY <1>u, <1>o DEF Typed, Formed
  <2>2. QED
    BY <2>1, Values
<1> HIDE DEF v
<1>1. Fits(shown', Kept)
  BY <1>u, <1>v, <1>o, FitsField DEF Typed, Formed
<1>2. Fits(inputs', Held)
  <2>1. handleFormChange(p, "switch", v) \in [Of(p) -> Held]
    BY <1>v, Values DEF handleFormChange
  <2>2. QED
    BY <1>u, <2>1, FitsUpdate DEF Typed, Formed
<1>3. \A o \in Slots : page[o].sends = "system" => shown'[o] \in [Of(o) -> Value]
  <2> SUFFICES ASSUME NEW o \in Slots, page[o].sends = "system"
               PROVE  shown'[o] \in [Of(o) -> Value]
    OBVIOUS
  <2>1. shown[o] \in [Of(o) -> Value]
    BY DEF Typed, Formed
  <2>2. shown'[o] = IF o = p THEN [shown[o] EXCEPT !["switch"] = v] ELSE shown[o]
    BY <1>u DEF Typed, Formed, Fits
  <2>3. QED
    BY <2>1, <2>2, <1>v
<1>4. /\ \A s \in saves' : Sound(s)
      /\ told' \in [Slots -> {"nothing", "saved", "error", "unchanged"}]
  <2> DEFINE sent == [f \in {"switch"} |-> v]
  <2>1. DOMAIN sent \subseteq Of(p) /\ sent \in [DOMAIN sent -> Kept] /\ Start(p, sent)
    BY <1>u, <1>o, <1>v
  <2> HIDE DEF sent
  <2>2. QED
    BY <2>1, StartSound
<1>k. \A o \in Slots : page[o].keeps => inputs'[o] \in [Of(o) -> Kept]
  <2> SUFFICES ASSUME NEW o \in Slots, page[o].keeps PROVE inputs'[o] \in [Of(o) -> Kept]
    OBVIOUS
  <2>1. inputs[o] \in [Of(o) -> Kept] /\ o # p
    BY <1>u, PageAt DEF Typed, Formed, Coherent
  <2>2. QED
    BY <1>u, <2>1 DEF Typed, Formed, Fits
<1>5. Formed' /\ AllSound'
  BY <1>u, <1>1, <1>2, <1>3, <1>4, <1>k, NextTyped DEF Typed, Formed
<1>6. Counted'
  BY <1>u, <1>4, FormsAssumption DEF Typed, Counted
<1>7. Read'
  BY <1>u DEF Typed, Read, Fits, Of
<1>8. QED
  BY <1>5, <1>6, <1>7 DEF Typed

\* The switch of a list's panel.
LEMMA ToggleEnabledTyped ==
  ASSUME Typed, NEW p \in Slots, ToggleEnabled(p)
  PROVE  Typed'
<1>u. /\ UNCHANGED <<page, shown, inputs, base, dirty, options, store, get, faults, hurt>>
      /\ clicks < MaxClicks /\ clicks' = clicks + 1
      /\ page[p].sends = "list"
  BY DEF ToggleEnabled, history
<1>1. PICK v \in Value : Start(p, [f \in {"switch"} |-> v])
  BY DEF ToggleEnabled
<1>2. "switch" \in Of(p) /\ v \in Kept
  BY <1>u, PageAt, Values DEF Typed, Coherent, Of
<1>3. /\ \A s \in saves' : Sound(s)
      /\ told' \in [Slots -> {"nothing", "saved", "error", "unchanged"}]
  <2> DEFINE sent == [f \in {"switch"} |-> v]
  <2>1. DOMAIN sent \subseteq Of(p) /\ sent \in [DOMAIN sent -> Kept] /\ Start(p, sent)
    BY <1>1, <1>2
  <2> HIDE DEF sent
  <2>2. QED
    BY <2>1, StartSound
<1>4. Formed' /\ AllSound'
  BY <1>u, <1>3, NextTyped DEF Typed, Formed
<1>5. Counted'
  BY <1>u, <1>3, FormsAssumption DEF Typed, Counted
<1>6. Read'
  BY <1>u DEF Typed, Read, Fits, Of
<1>7. QED
  BY <1>4, <1>5, <1>6 DEF Typed

\* What the saves still wait for are options they carry.
LEMMA DueCarried ==
  ASSUME NEW s, Sound(s)
  PROVE  Due(s) \subseteq Waits(s) /\ Waits(s) \subseteq DOMAIN s.sent
BY DEF Due, Waits, Sound

\* The server answers a PUT, or does not.
LEMMA UpdateOptionTyped ==
  ASSUME Typed, NEW s \in saves, NEW f \in Fields, UpdateOption(s, f)
  PROVE  Typed'
<1>u. /\ UNCHANGED <<page, shown, inputs, base, dirty, options, told, clicks, hurt>>
      /\ get' = IF s.ended THEN [get EXCEPT !.heals = @ \ {s.slot}] ELSE get
  BY DEF UpdateOption, ui, history
<1>s. Sound(s)
  BY DEF Typed, AllSound
<1>f. f \in DOMAIN s.sent /\ f \in Of(s.slot) /\ s.slot \in Slots /\ s.sent[f] \in Kept
  BY <1>s, DueCarried DEF UpdateOption, Sound
<1>1. PICK o \in Outcomes :
        /\ o.res # "ok" => faults < MaxFaults
        /\ faults' = IF o.res = "ok" THEN faults ELSE faults + 1
        /\ store' = IF o.kept THEN [store EXCEPT ![s.slot][f] = s.sent[f]] ELSE store
        /\ saves' = (saves \ {s}) \cup
             IF s.ended /\ Waits(s) = {f} THEN {} ELSE {[s EXCEPT !.res[f] = o.res]}
  BY DEF UpdateOption
<1>2. o.res \in {"ok", "refused", "lost"}
  BY DEF Outcomes
<1>3. Fits(store', Kept)
  BY <1>1, <1>f, FitsField DEF Typed, Formed
<1>4. \A t \in saves' : Sound(t)
  <2>1. Sound([s EXCEPT !.res[f] = o.res])
    BY <1>s, <1>2, <1>f DEF Sound
  <2>2. QED
    BY <1>1, <2>1 DEF Typed, AllSound
<1>5. Formed' /\ AllSound'
  BY <1>u, <1>3, <1>4, NextTyped DEF Typed, Formed
<1>6. Counted'
  BY <1>u, <1>1, FormsAssumption DEF Typed, Counted
<1>7. Read'
  BY <1>u DEF Typed, Read, Fits, Of
<1>8. QED
  BY <1>5, <1>6, <1>7 DEF Typed

\* One field of a save changes.
LEMMA SetEnded ==
  ASSUME NEW a, NEW b, NEW c, NEW d, NEW e, NEW g, NEW v
  PROVE  [[slot |-> a, id |-> b, sent |-> c, closure |-> d, res |-> e, ended |-> g]
            EXCEPT !.ended = v] =
           [slot |-> a, id |-> b, sent |-> c, closure |-> d, res |-> e, ended |-> v]
OBVIOUS

\* What is left of a save that has ended.
LEMMA LeaveSound ==
  ASSUME Typed, NEW s \in saves, Leave(s)
  PROVE  \A t \in saves' : Sound(t)
<1>s. Sound(s)
  BY DEF Typed, AllSound
<1> DEFINE t == [s EXCEPT !.ended = TRUE]
<1>1. Sound(t)
  <2>1. t = [slot |-> s.slot, id |-> s.id, sent |-> s.sent, closure |-> s.closure,
             res |-> s.res, ended |-> TRUE]
    <3>1. \A v : [s EXCEPT !.ended = v] =
                 [slot |-> s.slot, id |-> s.id, sent |-> s.sent, closure |-> s.closure,
                  res |-> s.res, ended |-> v]
      BY <1>s, SetEnded DEF Sound
    <3>2. QED
      BY <3>1, Zenon
  <2> HIDE DEF t
  <2>2. QED
    BY <1>s, <2>1 DEF Sound
<1>2. QED
  BY <1>1 DEF Leave, Typed, AllSound

\* A save that fails or stops.
LEMMA SaveFailsTyped ==
  ASSUME Typed, NEW s \in saves, SaveFails(s) \/ SystemStops(s)
  PROVE  Typed'
<1>u. /\ UNCHANGED <<page, shown, inputs, base, options, store, clicks, faults>>
      /\ Leave(s)
      /\ told' = [told EXCEPT ![s.slot] = "error"]
      /\ dirty' = dirty \/ dirty' = [dirty EXCEPT ![s.slot] = FALSE]
      /\ hurt' = hurt \/ hurt' = [hurt EXCEPT ![s.slot] = TRUE]
      /\ get' = get \/ get' = [get EXCEPT !.heals = @ \ {s.slot}]
  BY DEF SaveFails, SystemStops, history
<1>1. Formed' /\ AllSound'
  BY <1>u, LeaveSound, NextTyped DEF Typed, Formed
<1>2. Counted'
  BY <1>u DEF Typed, Counted
<1>3. Read'
  <2>1. get'.way = get.way /\ get'.snap = get.snap /\ get'.heals \subseteq get.heals
        /\ get' = [way |-> get'.way, snap |-> get'.snap, heals |-> get'.heals]
    BY <1>u DEF Typed, Read
  <2>2. QED
    BY <1>u, <2>1 DEF Typed, Read, Fits, Of
<1>4. QED
  BY <1>1, <1>2, <1>3 DEF Typed

\* A read that has been asked for, and none.
LEMMA Unread ==
  /\ Fits(NoGet.snap, Kept)
  /\ [NoGet EXCEPT !.way = "asked"] = [way |-> "asked", snap |-> NoGet.snap, heals |-> {}]
  /\ NoGet = [way |-> "none", snap |-> NoGet.snap, heals |-> {}]
<1>1. 0 \in Kept
  BY Values
<1>2. NoGet.snap = [p \in Slots |-> [f \in Of(p) |-> 0]]
  BY DEF NoGet
<1>3. Fits(NoGet.snap, Kept)
  BY <1>1, <1>2 DEF Fits
<1>4. [NoGet EXCEPT !.way = "asked"] = [way |-> "asked", snap |-> NoGet.snap, heals |-> {}]
  <2>1. ASSUME NEW a PROVE [[way |-> "none", snap |-> a, heals |-> {}] EXCEPT !.way = "asked"]
                           = [way |-> "asked", snap |-> a, heals |-> {}]
    OBVIOUS
  <2>2. QED
    BY <2>1, <1>2 DEF NoGet
<1>5. NoGet = [way |-> "none", snap |-> NoGet.snap, heals |-> {}]
  BY DEF NoGet
<1>6. QED
  BY <1>3, <1>4, <1>5

\* A save that succeeds.
LEMMA SaveSucceedsTyped ==
  ASSUME Typed, NEW s \in saves, SaveSucceeds(s)
  PROVE  Typed'
<1> DEFINE p == s.slot
           kept == [f \in Of(p) |->
                      IF f \in DOMAIN s.sent THEN s.sent[f]
                      ELSE IF page[p].sends = "one" THEN inputs[p][f] ELSE s.closure[f]]
<1>u. /\ UNCHANGED <<page, options, store, clicks, faults, hurt>>
      /\ Leave(s)
      /\ told' = [told EXCEPT ![p] = "saved"]
      /\ dirty' = dirty \/ dirty' = [dirty EXCEPT ![p] = FALSE]
      /\ base' = base \/ base' = [base EXCEPT ![p] = s.closure]
      /\ inputs' = inputs \/ inputs' = [inputs EXCEPT ![p] = kept]
      /\ get' = get \/ get' = [NoGet EXCEPT !.way = "asked"]
  BY DEF SaveSucceeds, Refresh
<1>v. /\ shown' = IF ByPanel(s) THEN [shown EXCEPT ![p]["switch"] = s.sent["switch"]] ELSE shown
      /\ inputs' = inputs \/ page[p].sends \in {"system", "one"}
  BY DEF SaveSucceeds
<1>s. Sound(s) /\ p \in Slots /\ s.closure \in [Of(p) -> Held]
  BY DEF Typed, AllSound, Sound
<1>k. kept \in [Of(p) -> Held]
  <2>1. \A f \in DOMAIN s.sent : s.sent[f] \in Held
    BY <1>s, Values DEF Sound
  <2>2. \A f \in Of(p) : inputs[p][f] \in Held /\ s.closure[f] \in Held
    BY <1>s DEF Typed, Formed, Fits
  <2>3. QED
    BY <2>1, <2>2
<1> HIDE DEF kept, p
<1>1. Fits(base', Held)
  BY <1>u, <1>s, FitsUpdate DEF Typed, Formed
<1>2. Fits(inputs', Held)
  BY <1>u, <1>s, <1>k, FitsUpdate DEF Typed, Formed
<1>f. Fits(shown', Kept)
  <2>1. CASE ByPanel(s)
    <3>1. "switch" \in Of(p) /\ s.sent["switch"] \in Kept
      BY <2>1, <1>s DEF ByPanel, Sound, p
    <3>2. QED
      BY <2>1, <3>1, <1>v, <1>s, FitsField DEF Typed, Formed
  <2>2. CASE ~ByPanel(s)
    BY <2>2, <1>v DEF Typed, Formed
  <2>3. QED
    BY <2>1, <2>2
<1>y. \A o \in Slots : page[o].sends = "system" => shown'[o] \in [Of(o) -> Value]
  <2> SUFFICES ASSUME NEW o \in Slots, page[o].sends = "system"
               PROVE  shown'[o] \in [Of(o) -> Value]
    OBVIOUS
  <2>1. shown[o] \in [Of(o) -> Value]
    BY DEF Typed, Formed
  <2>2. ByPanel(s) => o # p
    BY DEF ByPanel, p
  <2>3. shown'[o] = shown[o]
    BY <2>2, <1>v, <1>s DEF Typed, Formed, Fits
  <2>4. QED
    BY <2>1, <2>3
<1>x. \A o \in Slots : page[o].keeps => inputs'[o] \in [Of(o) -> Kept]
  <2> SUFFICES ASSUME NEW o \in Slots, page[o].keeps PROVE inputs'[o] \in [Of(o) -> Kept]
    OBVIOUS
  <2>1. inputs[o] \in [Of(o) -> Kept] /\ page[o].sends = "changed"
    BY PageAt DEF Typed, Formed, Coherent
  <2>2. inputs'[o] = inputs[o]
    BY <2>1, <1>u, <1>v, <1>s DEF Typed, Formed, Fits
  <2>3. QED
    BY <2>1, <2>2
<1>3. Formed' /\ AllSound'
  BY <1>u, <1>1, <1>2, <1>f, <1>y, <1>x, LeaveSound, NextTyped DEF Typed, Formed
<1>4. Counted'
  BY <1>u DEF Typed, Counted
<1>5. Read'
  BY <1>u, Unread DEF Typed, Read, Fits, Of
<1>6. QED
  BY <1>3, <1>4, <1>5 DEF Typed

\* What a read gives are values of the server, or blanks.
LEMMA GivenKept ==
  ASSUME Fits(store, Kept), NEW p \in Slots
  PROVE  Given(p) \in [Of(p) -> Kept]
<1>1. Blank \in Kept
  BY Values DEF Blank
<1>2. \A f \in Of(p) : store[p][f] \in Kept
  BY DEF Fits
<1>3. QED
  BY <1>1, <1>2 DEF Given

\* The server reads the options.
LEMMA GetOptionsTyped ==
  ASSUME Typed, GetOptions
  PROVE  Typed'
<1>1. Formed' /\ AllSound'
  BY NextTyped DEF GetOptions, ui, Typed, Formed, AllSound
<1>2. Counted'
  BY DEF GetOptions, ui, history, Typed, Counted
<1>3. Read'
  <2> DEFINE given == [p \in Slots |-> Given(p)]
  <2>1. get' = [way |-> "served", snap |-> given, heals |-> Slots] /\ page' = page
    BY DEF GetOptions
  <2>2. Fits(given, Kept)
    <3>1. \A p \in Slots : Given(p) \in [Of(p) -> Kept]
      BY GivenKept DEF Typed, Formed
    <3>2. QED
      BY <3>1 DEF Fits
  <2> HIDE DEF given
  <2>3. QED
    BY <2>1, <2>2 DEF Read, Fits, Of
<1>4. QED
  BY <1>1, <1>2, <1>3 DEF Typed

\* The pages are filled from the answer, and where they were not handed an option from
\* the component state.
LEMMA FilledFits ==
  ASSUME Typed, NEW x, NEW V, Fits(x, V), Kept \subseteq V
  PROVE  Fits(Filled(x), V)
<1>1. \A p \in Slots : \A f \in Of(p) : get.snap[p][f] \in V /\ x[p][f] \in V
  BY DEF Typed, Read, Fits
<1>2. ASSUME NEW p \in Slots, NEW f \in Of(p), page[p].loads = "options", f \notin Takes(p)
      PROVE  inputs[p][f] \in V
  <2>1. page[p].keeps
    BY <1>2 DEF Takes, Handed
  <2>2. inputs[p] \in [Of(p) -> Kept]
    BY <2>1 DEF Typed, Formed
  <2>3. QED
    BY <2>2
<1>3. QED
  BY <1>1, <1>2 DEF Filled, Fits

\* The answer to the read arrives.
LEMMA getOptionsTyped ==
  ASSUME Typed, getOptions
  PROVE  Typed'
<1>u. /\ UNCHANGED <<page, store, saves, dirty, told, clicks, faults>>
      /\ options' = get.snap
      /\ shown' = Filled(shown) /\ inputs' = Filled(inputs) /\ base' = Filled(base)
      /\ get' = NoGet
  BY DEF getOptions
<1>h. hurt' \in [Slots -> BOOLEAN]
  <2>1. hurt \in [Slots -> BOOLEAN]
    BY DEF Typed, Counted
  <2>2. \A p \in Slots : (IF ~Fills(p) \/ p \notin get.heals THEN hurt[p]
                          ELSE \E s \in saves : s.slot = p /\ s.ended) \in BOOLEAN
    BY <2>1
  <2>3. QED
    BY <2>2 DEF getOptions
<1>1. /\ Fits(shown', Kept) /\ Fits(inputs', Held) /\ Fits(base', Held)
  BY <1>u, FilledFits, Values DEF Typed, Formed
<1>2. Fits(options', Kept)
  BY <1>u DEF Typed, Read, Fits
<1>3. \A p \in Slots : page[p].sends = "system" => shown'[p] \in [Of(p) -> Value]
  <2> SUFFICES ASSUME NEW p \in Slots, page[p].sends = "system"
               PROVE  shown'[p] \in [Of(p) -> Value]
    OBVIOUS
  <2>1. Takes(p) = {} /\ page[p].loads # "options"
    BY PageAt DEF Typed, Coherent, Takes
  <2>2. shown'[p] = [f \in Of(p) |-> shown[p][f]]
    BY <1>u, <2>1 DEF Filled
  <2>3. QED
    BY <2>2 DEF Typed, Formed
<1>k. \A p \in Slots : page[p].keeps => inputs'[p] \in [Of(p) -> Kept]
  <2> SUFFICES ASSUME NEW p \in Slots, page[p].keeps PROVE inputs'[p] \in [Of(p) -> Kept]
    OBVIOUS
  <2>1. inputs[p] \in [Of(p) -> Kept] /\ get.snap[p] \in [Of(p) -> Kept]
    BY DEF Typed, Formed, Read, Fits
  <2>2. \A f \in Of(p) : (IF f \in Takes(p) THEN get.snap[p][f]
                          ELSE IF page[p].loads = "options" THEN inputs[p][f]
                          ELSE inputs[p][f]) \in Kept
    BY <2>1
  <2>3. QED
    BY <1>u, <2>2 DEF Filled
<1>4. Formed' /\ AllSound'
  BY <1>u, <1>1, <1>2, <1>3, <1>k, NextTyped DEF Typed, Formed, AllSound
<1>5. Counted'
  BY <1>u, <1>h DEF Typed, Counted
<1>6. Read'
  BY <1>u, Unread DEF Typed, Read, Fits, Of
<1>7. QED
  BY <1>4, <1>5, <1>6 DEF Typed

\* The read fails.
LEMMA GetFailsTyped ==
  ASSUME Typed, GetFails
  PROVE  Typed'
<1>u. /\ UNCHANGED <<page, shown, inputs, base, dirty, options, told, store, saves, clicks>>
      /\ faults < MaxFaults /\ get' = NoGet /\ faults' = faults + 1
      /\ hurt' = [p \in Slots |-> TRUE]
  BY DEF GetFails, ui
<1>1. Formed' /\ AllSound'
  BY <1>u, NextTyped DEF Typed, Formed, AllSound
<1>2. Counted'
  BY <1>u, FormsAssumption DEF Typed, Counted
<1>3. Read'
  BY <1>u, Unread DEF Typed, Read, Fits, Of
<1>4. QED
  BY <1>1, <1>2, <1>3 DEF Typed

\* Every step.
LEMMA TypedStep == Typed /\ [Next]_vars => Typed'
<1> SUFFICES ASSUME Typed, [Next]_vars PROVE Typed'
  OBVIOUS
<1>1. CASE \E p \in Slots, f \in Fields : Edit(p, f)
  BY <1>1, EditTyped
<1>2. CASE \E p \in Slots : Save(p) \/ Toggle(p) \/ ToggleEnabled(p)
  BY <1>2, SaveTyped, ToggleTyped, ToggleEnabledTyped
<1>3. CASE \E s \in saves : SaveFails(s) \/ SystemStops(s) \/ SaveSucceeds(s)
  BY <1>3, SaveFailsTyped, SaveSucceedsTyped
<1>4. CASE \E s \in saves, f \in Fields : UpdateOption(s, f)
  BY <1>4, UpdateOptionTyped
<1>5. CASE GetOptions \/ getOptions \/ GetFails
  BY <1>5, GetOptionsTyped, getOptionsTyped, GetFailsTyped
<1>6. CASE UNCHANGED vars
  <2>1. UNCHANGED <<page, shown, inputs, base, dirty, options, told, store, saves, get, clicks,
                    faults, hurt>>
    BY <1>6 DEF vars, ui, history
  <2>2. Formed' /\ AllSound'
    BY <2>1, NextTyped DEF Typed, Formed, AllSound
  <2>3. Counted' /\ Read'
    BY <2>1 DEF Typed, Counted, Read, Fits, Of
  <2>4. QED
    BY <2>2, <2>3 DEF Typed
<1>7. QED
  BY <1>1, <1>2, <1>3, <1>4, <1>5, <1>6 DEF Next

\* The start.
LEMMA InitTyped == Init => Typed
<1> SUFFICES ASSUME Init PROVE Typed
  OBVIOUS
<1>1. 0 \in Kept /\ 1 \in Kept /\ 0 \in Held /\ 1 \in Held
  BY Values
<1>2. Formed
  <2>1. Fits(store, Kept) /\ \A p \in Slots : store[p] \in [Of(p) -> Value]
    BY <1>1, Values DEF Init, Fits
  <2>2. \A p \in Slots : Given(p) \in [Of(p) -> Value]
    BY <2>1, Values DEF Given, Blank
  <2>3. \A p \in Slots : shown[p] \in [Of(p) -> Value]
    BY <2>2, Values DEF Init
  <2>4. \A p \in Slots : options[p] \in [Of(p) -> Value]
    BY <2>2 DEF Init
  <2>5. shown = [p \in Slots |-> shown[p]] /\ options = [p \in Slots |-> options[p]]
    BY DEF Init
  <2>6. Fits(shown, Kept) /\ Fits(shown, Held) /\ Fits(options, Kept)
    BY <2>3, <2>4, <2>5, Values DEF Fits
  <2>7. \A p \in Slots : shown[p] \in [Of(p) -> Kept]
    BY <2>6 DEF Fits
  <2>8. QED
    BY <2>1, <2>3, <2>6, <2>7 DEF Init, Formed
<1>3. Counted
  BY FormsAssumption DEF Init, Counted
<1>4. AllSound
  BY DEF Init, AllSound
<1>5. Read
  BY Unread DEF Init, Read
<1>6. QED
  BY <1>2, <1>3, <1>4, <1>5 DEF Typed

\* The settings pages keep their types: no undefined field is shown or stored, and a
\* PUT carries only options of its page, whatever mixture of clicks, answers and
\* refreshes led there.
THEOREM TypeCorrect == Spec => []TypeOK
<1>1. Typed => TypeOK
  <2> SUFFICES ASSUME Typed PROVE TypeOK
    OBVIOUS
  <2>1. page \in [Slots -> Page]
    BY ScreenPages DEF Typed, Formed
  <2>2. \A p \in Slots :
          /\ shown[p] \in [Of(p) -> Value \cup {Nil}] /\ store[p] \in [Of(p) -> Value \cup {Nil}]
          /\ options[p] \in [Of(p) -> Value \cup {Nil}]
          /\ inputs[p] \in [Of(p) -> Value \cup {Nil, Unset}]
          /\ base[p] \in [Of(p) -> Value \cup {Nil, Unset}]
    BY DEF Typed, Formed, Fits, Kept, Held
  <2>3. \A s \in saves : DOMAIN s.sent \subseteq Of(s.slot)
                         /\ s.sent \in PerField(Value \cup {Nil})
    <3> SUFFICES ASSUME NEW s \in saves
                 PROVE  DOMAIN s.sent \subseteq Of(s.slot) /\ s.sent \in PerField(Value \cup {Nil})
      OBVIOUS
    <3>1. Sound(s)
      BY DEF Typed, AllSound
    <3>2. DOMAIN s.sent \in SUBSET Fields
      BY <3>1, PageAt DEF Sound, Typed
    <3>3. QED
      BY <3>1, <3>2 DEF Sound, PerField, Kept
  <2>4. QED
    BY <2>1, <2>2, <2>3 DEF Typed, Counted, Read, TypeOK
<1>2. QED
  BY <1>1, InitTyped, TypedStep, PTL DEF Spec

-----------------------------------------------------------------------------
(* Pages the container fills are current. *)

\* What a read would give, and what a page is handed, depend on its options only.
LEMMA GivenSame ==
  ASSUME NEW p \in Slots, page' = page, store'[p] = store[p]
  PROVE  Given(p)' = Given(p)
BY DEF Given, Of

LEMMA HandedSame ==
  ASSUME page' = page, NEW p \in Slots
  PROVE  Handed(p)' = Handed(p) /\ Of(p)' = Of(p)
BY DEF Handed, Of

\* A step that is not about the page: its copies, its read and its failures are as
\* before, and no save of it disappears or ends.
LEMMA Apart ==
  ASSUME NEW p \in Slots, Current(p), page' = page,
         hurt'[p] = hurt[p], base'[p] = base[p], store'[p] = store[p],
         told'[p] = "saved" => told[p] = "saved" /\ shown'[p] = shown[p],
         get'.way = get.way, get'.snap = get.snap, p \in get'.heals <=> p \in get.heals,
         joined' = joined,
         \A s \in saves : s.slot = p => s \in saves',
         \A s \in saves' : s.slot = p /\ s.ended => s \in saves
  PROVE  Current(p)'
<1>1. Pending(p) => Pending(p)'
  BY DEF Pending
<1>g. Given(p)' = Given(p) /\ Handed(p)' = Handed(p)
  BY GivenSame, HandedSame
<1>2. (\E s \in saves' : s.slot = p /\ s.ended) => hurt'[p]
  BY DEF Current
<1>3. /\ get'.way = "served" => p \in get'.heals \/ hurt'[p]
      /\ get'.way = "served" /\ p \in get'.heals /\ ~joined'
           => get'.snap[p] = Given(p)' \/ Pending(p)'
  BY <1>1, <1>g DEF Current
<1>a. /\ Agrees(base[p], p) => Agrees(base[p], p)'
      /\ shown'[p] = shown[p] /\ Agrees(shown[p], p) => Agrees(shown[p], p)'
  BY <1>g DEF Agrees
<1>4. /\ get'.way = "none" /\ ~joined' /\ ~hurt'[p] /\ page'[p].loads = "options"
           => Agrees(base[p], p)' \/ Pending(p)'
      /\ get'.way = "none" /\ ~joined' /\ ~hurt'[p] /\ page'[p].loads = "options"
           /\ told'[p] = "saved" => Agrees(shown[p], p)' \/ Pending(p)'
  BY <1>1, <1>a DEF Current
<1>5. QED
  BY <1>2, <1>3, <1>4 DEF Current

\* A failure of the page leaves it marked, whatever else the step did.
LEMMA Marked ==
  ASSUME NEW p \in Slots, hurt'[p], get'.way = "served" => p \notin get'.heals
  PROVE  Current(p)'
BY DEF Current

\* Edits and the save buttons.
LEMMA ClickCurrent ==
  ASSUME Typed, AllCurrent, NEW p \in Slots, Fills(p),
         NEW q \in Slots,
         (\E f \in Fields : Edit(q, f)) \/ Save(q) \/ Toggle(q) \/ ToggleEnabled(q)
  PROVE  Current(p)'
<1>c. Current(p)
  BY DEF AllCurrent
<1>1. UNCHANGED <<page, hurt, base, store, get, joined>>
  BY DEF Edit, Save, Toggle, ToggleEnabled, history
<1>2. told'[p] = "saved" => told[p] = "saved" /\ shown'[p] = shown[p]
  <2>t. told \in [Slots -> {"nothing", "saved", "error", "unchanged"}]
    BY DEF Typed, Counted
  <2>1. CASE p = q
    BY <2>1, <2>t DEF Edit, Save, Toggle, ToggleEnabled, Start
  <2>2. CASE p # q
    <3>1. /\ \/ shown' = shown
             \/ \E f, v : shown' = [shown EXCEPT ![q][f] = v]
          /\ \E m : told' = [told EXCEPT ![q] = m]
      BY DEF Edit, Save, Toggle, ToggleEnabled, Start
    <3>2. shown'[p] = shown[p]
      BY <2>2, <3>1 DEF Typed, Formed, Fits
    <3>3. QED
      BY <2>2, <2>t, <3>1, <3>2
  <2>3. QED
    BY <2>1, <2>2
<1>3. \A s \in saves : s \in saves'
  BY DEF Edit, Save, Toggle, ToggleEnabled, Start
<1>4. \A s \in saves' : s.ended => s \in saves
  BY DEF Edit, Save, Toggle, ToggleEnabled, Start
<1>5. QED
  BY <1>c, <1>1, <1>2, <1>3, <1>4, Apart

\* A PUT is answered.
LEMMA UpdateOptionCurrent ==
  ASSUME Typed, AllCurrent, NEW p \in Slots, Fills(p),
         NEW s \in saves, NEW f \in Fields, UpdateOption(s, f)
  PROVE  Current(p)'
<1>c. Current(p)
  BY DEF AllCurrent
<1>s. Sound(s) /\ s.slot \in Slots
  BY DEF Typed, AllSound, Sound
<1>u. /\ UNCHANGED <<page, hurt, base, shown, told, joined>>
      /\ get' = IF s.ended THEN [get EXCEPT !.heals = @ \ {s.slot}] ELSE get
  BY DEF UpdateOption, ui, history
<1>g. /\ get'.way = get.way /\ get'.snap = get.snap
      /\ get'.heals = IF s.ended THEN get.heals \ {s.slot} ELSE get.heals
  BY <1>u DEF Typed, Read
<1>1. PICK o \in Outcomes :
        /\ store' = IF o.kept THEN [store EXCEPT ![s.slot][f] = s.sent[f]] ELSE store
        /\ saves' = (saves \ {s}) \cup
             IF s.ended /\ Waits(s) = {f} THEN {} ELSE {[s EXCEPT !.res[f] = o.res]}
  BY DEF UpdateOption
<1> DEFINE t == [s EXCEPT !.res[f] = o.res]
<1>t. t.slot = s.slot /\ t.ended = s.ended
  BY <1>s DEF Sound
<1>2. saves' \subseteq (saves \ {s}) \cup {t} /\ saves \ {s} \subseteq saves'
      /\ (~s.ended => t \in saves')
  BY <1>1
<1> HIDE DEF t
<1>3. CASE s.slot # p
  <2>1. store'[p] = store[p]
    BY <1>1, <1>3 DEF Typed, Formed, Fits
  <2>2. p \in get'.heals <=> p \in get.heals
    BY <1>3, <1>g
  <2>3. \A r \in saves : r.slot = p => r \in saves'
    BY <1>2, <1>3
  <2>4. \A r \in saves' : r.slot = p /\ r.ended => r \in saves
    BY <1>2, <1>3, <1>t
  <2>5. QED
    BY <1>c, <1>u, <1>g, <2>1, <2>2, <2>3, <2>4, Apart
<1>4. CASE s.slot = p /\ s.ended
  <2>1. hurt[p]
    BY <1>4, <1>c DEF Current
  <2>2. QED
    BY <2>1, <1>u, <1>g, <1>4, Marked
<1>5. CASE s.slot = p /\ ~s.ended
  <2>1. Pending(p)'
    BY <1>5, <1>2, <1>t DEF Pending
  <2>2. (\E r \in saves' : r.slot = p /\ r.ended) => \E r \in saves : r.slot = p /\ r.ended
    BY <1>5, <1>2, <1>t
  <2>3. (\E r \in saves' : r.slot = p /\ r.ended) => hurt'[p]
    BY <2>2, <1>u, <1>c DEF Current
  <2>4. get'.way = "served" => p \in get'.heals \/ hurt'[p]
    BY <1>5, <1>u, <1>g, <1>c DEF Current
  <2>5. QED
    BY <2>1, <2>3, <2>4 DEF Current
<1>6. QED
  BY <1>3, <1>4, <1>5

\* A save of another page leaves the saves of this one alone.
LEMMA LeaveApart ==
  ASSUME Typed, NEW p \in Slots, NEW s \in saves, s.slot # p, Leave(s)
  PROVE  /\ \A r \in saves : r.slot = p => r \in saves'
         /\ \A r \in saves' : r.slot = p => r \in saves
<1>1. [s EXCEPT !.ended = TRUE].slot = s.slot
  BY DEF Typed, AllSound, Sound
<1>2. QED
  BY <1>1 DEF Leave

\* A save fails or stops.
LEMMA SaveFailsCurrent ==
  ASSUME Typed, AllCurrent, NEW p \in Slots, Fills(p),
         NEW s \in saves, SaveFails(s) \/ SystemStops(s)
  PROVE  Current(p)'
<1>c. Current(p)
  BY DEF AllCurrent
<1>s. Sound(s) /\ s.slot \in Slots
  BY DEF Typed, AllSound, Sound
<1>u. /\ UNCHANGED <<page, base, shown, store, joined>>
      /\ Leave(s)
      /\ told' = [told EXCEPT ![s.slot] = "error"]
  BY DEF SaveFails, SystemStops, history
<1>f. SaveFails(s) => /\ hurt' = [hurt EXCEPT ![s.slot] = TRUE]
                      /\ get'.way = get.way /\ get'.snap = get.snap
                      /\ get'.heals = get.heals \ {s.slot}
  BY DEF SaveFails, Typed, Read
<1>o. SystemStops(s) => hurt' = hurt /\ get' = get /\ page[s.slot].sends = "system"
  BY DEF SystemStops, Stops, history
<1>h. hurt \in [Slots -> BOOLEAN]
  BY DEF Typed, Counted
<1>1. CASE s.slot # p
  <2>1. /\ hurt'[p] = hurt[p] /\ get'.way = get.way /\ get'.snap = get.snap
        /\ p \in get'.heals <=> p \in get.heals
    BY <1>1, <1>f, <1>o, <1>h, <1>s
  <2>2. told'[p] = "saved" => told[p] = "saved" /\ shown'[p] = shown[p]
    BY <1>1, <1>u DEF Typed, Counted
  <2>3. QED
    BY <1>c, <1>u, <1>1, <2>1, <2>2, LeaveApart, Apart
<1>2. CASE s.slot = p
  <2>1. SaveFails(s)
    BY <1>2, <1>o, PageAt DEF Coherent, Typed, Fills
  <2>2. hurt'[p] /\ p \notin get'.heals
    BY <1>2, <2>1, <1>f, <1>h
  <2>3. QED
    BY <2>2, Marked
<1>3. QED
  BY <1>1, <1>2

\* A save succeeds: the page that refreshes is about to be read again.
LEMMA SaveSucceedsCurrent ==
  ASSUME Typed, AllCurrent, NEW p \in Slots, Fills(p),
         NEW s \in saves, SaveSucceeds(s)
  PROVE  Current(p)'
<1>c. Current(p)
  BY DEF AllCurrent
<1>s. Sound(s) /\ s.slot \in Slots
  BY DEF Typed, AllSound, Sound
<1>u. /\ UNCHANGED <<page, store, hurt>>
      /\ shown' = shown \/ \E v : shown' = [shown EXCEPT ![s.slot]["switch"] = v]
      /\ Leave(s) /\ Settled(s) /\ ~Fails(s)
      /\ told' = [told EXCEPT ![s.slot] = "saved"]
      /\ base' = base \/ base' = [base EXCEPT ![s.slot] = s.closure]
      /\ IF page[s.slot].after = "keep" THEN UNCHANGED <<get, joined>> ELSE Refresh
  BY DEF SaveSucceeds
<1>e. \A r \in saves' : r.slot = p /\ r.ended => r \in saves
  <2>1. CASE s.slot # p
    BY <2>1, <1>u, LeaveApart
  <2>2. CASE s.slot = p
    <3>1. Due(s) = {}
      BY <1>u DEF Settled, Fails
    <3>2. QED
      BY <1>u, <3>1 DEF Leave
  <2>3. QED
    BY <2>1, <2>2
<1>1. CASE Refresh
  <2>1. /\ get'.way = "asked" \/ (get' = get /\ get.way # "none")
        /\ get'.way = "served" => get' = get /\ joined'
    BY <1>1 DEF Refresh, NoGet, Typed, Read
  <2>2. get'.way # "none"
    BY <2>1
  <2>3. (\E r \in saves' : r.slot = p /\ r.ended) => hurt'[p]
    BY <1>e, <1>u, <1>c DEF Current
  <2>4. get'.way = "served" => p \in get'.heals \/ hurt'[p]
    BY <2>1, <1>u, <1>c DEF Current
  <2>5. QED
    BY <2>1, <2>2, <2>3, <2>4 DEF Current
<1>2. CASE page[s.slot].after = "keep" /\ s.slot # p
  <2>1. /\ base'[p] = base[p] /\ get' = get /\ joined' = joined
        /\ told'[p] = told[p] /\ shown'[p] = shown[p]
    BY <1>2, <1>u DEF Typed, Counted, Formed, Fits
  <2>2. QED
    BY <1>c, <1>u, <1>2, <2>1, LeaveApart, Apart
<1>3. QED
  BY <1>1, <1>2, <1>u, PageAt DEF Coherent, Typed, Fills

\* The read of the options.
LEMMA ReadCurrent ==
  ASSUME Typed, AllCurrent, NEW p \in Slots, Fills(p),
         GetOptions \/ getOptions \/ GetFails
  PROVE  Current(p)'
<1>c. Current(p)
  BY DEF AllCurrent
<1>1. CASE GetOptions
  <2>1. /\ UNCHANGED <<page, saves, hurt, store>>
        /\ get' = [way |-> "served", snap |-> [q \in Slots |-> Given(q)], heals |-> Slots]
    BY <1>1 DEF GetOptions, ui, history
  <2>2. get'.way = "served" /\ get'.snap[p] = Given(p) /\ p \in get'.heals
    BY <2>1
  <2>3. Given(p)' = Given(p)
    BY <2>1, GivenSame
  <2>4. (\E s \in saves' : s.slot = p /\ s.ended) => hurt'[p]
    BY <1>c, <2>1 DEF Current
  <2>5. QED
    BY <2>2, <2>3, <2>4 DEF Current
<1>2. CASE getOptions
  <2>u. /\ UNCHANGED <<page, saves, store, told, joined>>
        /\ get.way = "served" /\ get' = NoGet
        /\ shown' = Filled(shown) /\ base' = Filled(base)
        /\ hurt'[p] = IF p \notin get.heals THEN hurt[p]
                      ELSE \E s \in saves : s.slot = p /\ s.ended
    BY <1>2 DEF getOptions
  <2>w. get'.way = "none"
    BY <2>u DEF NoGet
  <2>g. Given(p)' = Given(p) /\ Handed(p)' = Handed(p)
    BY <2>u, GivenSame, HandedSame
  <2>2. page[p].loads = "options" =>
          \A f \in Handed(p) : shown'[p][f] = get.snap[p][f] /\ base'[p][f] = get.snap[p][f]
    <3> SUFFICES ASSUME page[p].loads = "options", NEW f \in Handed(p)
                 PROVE  shown'[p][f] = get.snap[p][f] /\ base'[p][f] = get.snap[p][f]
      OBVIOUS
    <3>1. f \in Of(p) /\ f \in Takes(p)
      BY DEF Takes, Handed
    <3>2. QED
      BY <3>1, <2>u DEF Filled
  <2>3. (\E s \in saves' : s.slot = p /\ s.ended) => hurt'[p]
    BY <2>u, <1>c DEF Current
  <2>4. ~hurt'[p] => p \in get.heals
    BY <2>u, <1>c DEF Current
  <2>5. ~joined' /\ ~hurt'[p] => get.snap[p] = Given(p) \/ Pending(p)'
    BY <2>u, <2>4, <1>c DEF Current, Pending
  <2>6. ~joined' /\ ~hurt'[p] /\ page[p].loads = "options" =>
          (Agrees(base[p], p)' /\ Agrees(shown[p], p)') \/ Pending(p)'
    BY <2>2, <2>5, <2>g DEF Agrees
  <2>7. QED
    BY <2>w, <2>3, <2>6, <2>u DEF Current
<1>3. CASE GetFails
  <2>1. hurt'[p] /\ get'.way = "none"
    BY <1>3 DEF GetFails, NoGet
  <2>2. QED
    BY <2>1, Marked
<1>4. QED
  BY <1>1, <1>2, <1>3

\* Every step.
LEMMA CurrentStep == Typed /\ AllCurrent /\ [Next]_vars => AllCurrent'
<1> SUFFICES ASSUME Typed, AllCurrent, [Next]_vars,
                    NEW p \in Slots, Fills(p)'
             PROVE  Current(p)'
  BY DEF AllCurrent
<1>p. Fills(p)
  BY PageFixed DEF Fills
<1>1. CASE \E q \in Slots, f \in Fields : Edit(q, f)
  BY <1>1, <1>p, ClickCurrent
<1>2. CASE \E q \in Slots : Save(q) \/ Toggle(q) \/ ToggleEnabled(q)
  BY <1>2, <1>p, ClickCurrent
<1>3. CASE \E s \in saves : SaveFails(s) \/ SystemStops(s) \/ SaveSucceeds(s)
  BY <1>3, <1>p, SaveFailsCurrent, SaveSucceedsCurrent
<1>4. CASE \E s \in saves, f \in Fields : UpdateOption(s, f)
  BY <1>4, <1>p, UpdateOptionCurrent
<1>5. CASE GetOptions \/ getOptions \/ GetFails
  BY <1>5, <1>p, ReadCurrent
<1>6. CASE UNCHANGED vars
  <2>1. UNCHANGED <<page, shown, base, told, store, saves, get, hurt, joined>>
    BY <1>6 DEF vars, ui, history
  <2>2. Current(p)
    BY <1>p DEF AllCurrent
  <2>3. QED
    BY <2>1, <2>2, Apart
<1>7. QED
  BY <1>1, <1>2, <1>3, <1>4, <1>5, <1>6 DEF Next

\* The start: every page the container fills shows what the server gives.
LEMMA InitCurrent == Init => AllCurrent
<1> SUFFICES ASSUME Init, NEW p \in Slots, Fills(p) PROVE Current(p)
  BY DEF AllCurrent
<1>1. saves = {} /\ get.way = "none" /\ told[p] = "nothing"
  BY DEF Init, NoGet
<1>2. base[p] = [f \in Of(p) |-> Given(p)[f]]
  BY DEF Init, Fills
<1>3. Agrees(base[p], p)
  BY <1>2 DEF Agrees, Handed
<1>4. QED
  BY <1>1, <1>3 DEF Current

\* onSubmit sends what differs from the baseline.  On every page that compares, the
\* baseline is what the server gives whenever nothing is under way, blank for a key it
\* hides, unless a request failed since it was set or the refresh joined a read
\* answered earlier: no other interleaving of saves, late answers and refreshes of the
\* two pages loses an edit of an option that the page is handed.
THEOREM BaselineFollows == Spec => []BaselineTrue
<1>1. Typed /\ AllCurrent => BaselineTrue
  <2> SUFFICES ASSUME Typed, AllCurrent, Quiet, ~joined,
                      NEW p \in Slots, page[p].sends = "changed", ~hurt[p]
               PROVE  Agrees(base[p], p)
    BY DEF BaselineTrue, Agrees
  <2>1. page[p].loads = "options"
    BY PageAt DEF Typed, Coherent
  <2>2. Current(p) /\ ~Pending(p)
    BY <2>1 DEF AllCurrent, Quiet, Pending, Fills
  <2>3. QED
    BY <2>1, <2>2 DEF Current, Quiet
<1>2. QED
  BY <1>1, InitTyped, InitCurrent, TypedStep, CurrentStep, PTL DEF Spec

\* After the message that it was saved, a page the container fills shows what the
\* server gives as soon as nothing is under way, under the same exceptions.
THEOREM SavedShown == Spec => []SavedIsShown
<1>1. Typed /\ AllCurrent => SavedIsShown
  <2> SUFFICES ASSUME Typed, AllCurrent, Quiet, ~joined,
                      NEW p \in Slots, told[p] = "saved", page[p].loads = "options", ~hurt[p]
               PROVE  Agrees(shown[p], p)
    BY DEF SavedIsShown, Agrees
  <2>1. Current(p) /\ ~Pending(p)
    BY DEF AllCurrent, Quiet, Pending, Fills
  <2>2. QED
    BY <2>1 DEF Current, Quiet
<1>2. QED
  BY <1>1, InitTyped, InitCurrent, TypedStep, CurrentStep, PTL DEF Spec

-----------------------------------------------------------------------------
(* Lists. *)

\* The answer of a read that a list takes: while no save of it is under way and none of
\* its requests has failed it is the stored list, however long the answer took.
LEMMA ListRead ==
  ASSUME Typed, AllCurrent, NEW p \in Slots, page[p].loads = "value", getOptions,
         \A s \in saves : s.slot # p, ~joined, ~hurt[p],
         options[p]["text"] = store[p]["text"]
  PROVE  shown'[p]["text"] = shown[p]["text"]
<1>1. Current(p) /\ ~Pending(p) /\ get.way = "served"
  BY DEF AllCurrent, Fills, Pending, getOptions
<1>2. get.snap[p] = Given(p)
  BY <1>1 DEF Current
<1>3. "text" \in Of(p)
  BY PageAt DEF Typed, Coherent, Of
<1>4. get.snap[p]["text"] = store[p]["text"]
  BY <1>2, <1>3 DEF Given
<1>5. "text" \notin Takes(p)
  BY <1>4 DEF Takes
<1>6. QED
  BY <1>3, <1>5 DEF getOptions, Filled

\* An unsaved list keeps its edits through every refresh that the saves of the other
\* page and its own switch cause.  That needs the whole history of the read: an answer
\* given before the list was stored reaches it only marked as shared or failed.
THEOREM ListEditsKept == Spec => ListEditsSurvive
<1> DEFINE Survives ==
      \A p \in Slots :
        /\ page[p].loads = "value" /\ (\A s \in saves : s.slot # p)
        /\ ~joined /\ ~hurt[p] /\ options[p]["text"] = store[p]["text"]
        /\ clicks' = clicks
        => shown'[p]["text"] = shown[p]["text"]
<1>1. Typed /\ AllCurrent /\ [Next]_vars => [Survives]_vars
  <2> SUFFICES ASSUME Typed, AllCurrent, Next, NEW p \in Slots, page[p].loads = "value",
                      \A s \in saves : s.slot # p, ~joined, ~hurt[p],
                      options[p]["text"] = store[p]["text"], clicks' = clicks
               PROVE  shown'[p]["text"] = shown[p]["text"]
    OBVIOUS
  <2>1. CASE getOptions
    BY <2>1, ListRead
  <2>2. CASE GetFails
    BY <2>2 DEF GetFails, ui
  <2>3. CASE \E q \in Slots : (\E f \in Fields : Edit(q, f)) \/ Save(q) \/ Toggle(q)
                             \/ ToggleEnabled(q)
    <3>1. clicks' = clicks + 1
      BY <2>3 DEF Edit, Save, Toggle, ToggleEnabled
    <3>2. clicks \in Nat
      BY FormsAssumption DEF Typed, Counted
    <3>3. QED
      BY <3>1, <3>2
  <2>4. CASE \E s \in saves : SaveFails(s) \/ SystemStops(s)
    BY <2>4 DEF SaveFails, SystemStops
  <2>5. CASE \E s \in saves : SaveSucceeds(s)
    <3>1. PICK s \in saves : SaveSucceeds(s)
      BY <2>5
    <3>2. s.slot # p
      OBVIOUS
    <3>3. shown' = shown \/ \E v : shown' = [shown EXCEPT ![s.slot]["switch"] = v]
      BY <3>1 DEF SaveSucceeds
    <3>4. QED
      BY <3>2, <3>3 DEF Typed, Formed, Fits
  <2>6. CASE \E s \in saves, f \in Fields : UpdateOption(s, f)
    BY <2>6 DEF UpdateOption, ui
  <2>7. CASE GetOptions
    BY <2>7 DEF GetOptions, ui
  <2>8. QED
    BY <2>1, <2>2, <2>3, <2>4, <2>5, <2>6, <2>7 DEF Next
<1> HIDE DEF Survives
<1>2. Spec => [][Survives]_vars
  BY <1>1, InitTyped, InitCurrent, TypedStep, CurrentStep, PTL DEF Spec
<1>3. QED
  BY <1>2 DEF ListEditsSurvive, Survives
=============================================================================
