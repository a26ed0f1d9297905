------------------------ MODULE DashboardControlProofs -------------------------
(***************************************************************************)
(* Theorems about DashboardControl, for any symbols, any number of         *)
(* refreshes and saves under way at once, and any number of versions.      *)
(***************************************************************************)
EXTENDS DashboardControl, TLAPS

-------------------------------------------------------------------------------
(* Editing one field.                                                      *)

LEMMA FieldsAndValues ==
    ASSUME NEW field \in Fields, NEW value, value \in Values[field]
    PROVE  \/ field = "mode" /\ value \in Modes
           \/ field = "place" /\ value \in BOOLEAN
           \/ field = "symbols" /\ value \in SUBSET Symbols
  BY DashboardAssumption DEF Fields, Values

\* A configuration with another value in one field is one of the same version.
LEMMA EditedField ==
    ASSUME NEW c \in Configurations, NEW field \in Fields, NEW value, value \in Values[field]
    PROVE  /\ [c EXCEPT ![field] = value] \in Configurations
           /\ [c EXCEPT ![field] = value].version = c.version
           /\ \A other \in Fields \ {field} : [c EXCEPT ![field] = value][other] = c[other]
<1>1. CASE field = "mode" /\ value \in Modes
  BY <1>1 DEF Configurations, Fields, Values
<1>2. CASE field = "place" /\ value \in BOOLEAN
  BY <1>2 DEF Configurations, Fields, Values
<1>3. CASE field = "symbols" /\ value \in SUBSET Symbols
  BY <1>3 DEF Configurations, Fields, Values
<1> QED
  BY <1>1, <1>2, <1>3, FieldsAndValues

-------------------------------------------------------------------------------
(* The register.                                                           *)

\* The configuration in force is the one of the newest version.
LEMMA StoredIsNewest ==
    ASSUME TypeOK
    PROVE  /\ Len(log) \in DOMAIN log /\ Stored = log[Len(log)]
           /\ Stored \in Configurations /\ Stored.version = Len(log)
  BY DEF TypeOK, Stored

\* Versions are never taken back.
LEMMA Appended ==
    ASSUME TypeOK, NEW c \in Configurations,
           c.version = Stored.version + 1, log' = Append(log, c)
    PROVE  /\ log' \in Seq(Configurations) \ {<<>>}
           /\ \A v \in DOMAIN log' : log'[v].version = v
           /\ \A v \in DOMAIN log : v \in DOMAIN log' /\ log'[v] = log[v]
           /\ Len(log') = Len(log) + 1 /\ Len(log') \in DOMAIN log' /\ Stored' = c
  BY StoredIsNewest DEF TypeOK, Stored

\* What was read or sent of the register stays true of it.
LEMMA OldVersionsStay ==
    ASSUME TypeOK, NEW c \in Configurations,
           c.version = Stored.version + 1, log' = Append(log, c)
    PROVE  /\ \A d \in Configurations : InLog(d) => (InLog(d))'
           /\ \A save : Follows(save) => (Follows(save))'
  BY Appended DEF InLog, Follows, Register!Confirmed

\* Every step leaves the register alone or adds the successor of its newest
\* version.
LEMMA RegisterSteps ==
    ASSUME TypeOK, [Next]_vars
    PROVE  \/ UNCHANGED log
           \/ \E c \in Configurations :
                 c.version = Stored.version + 1 /\ log' = Append(log, c)
<1>1. CASE \E s \in Saves : ServerStores(s)
  BY <1>1 DEF ServerStores, At, Register!Update, TypeOK, Saving, Idle
<1>2. CASE \E field \in Fields : \E value \in Values[field] : OtherOperator(field, value)
  <2>1. PICK field \in Fields : \E value \in Values[field] : OtherOperator(field, value)
    BY <1>2
  <2>0. PICK value \in Values[field] : OtherOperator(field, value)
    BY <2>1
  <2> DEFINE next == [Stored EXCEPT ![field] = value, !.version = @ + 1]
  <2>2. Len(log) < MaxVersion /\ log' = Append(log, next)
    BY <2>0 DEF OtherOperator
  <2> DEFINE edited == [Stored EXCEPT ![field] = value]
  <2>3. edited \in Configurations /\ edited.version = Stored.version
    BY StoredIsNewest, EditedField
  <2>4. next = [edited EXCEPT !.version = Stored.version + 1]
    <3>1. CASE field = "mode"
      BY <3>1, <2>3, StoredIsNewest DEF Configurations
    <3>2. CASE field = "place"
      BY <3>2, <2>3, StoredIsNewest DEF Configurations
    <3>3. CASE field = "symbols"
      BY <3>3, <2>3, StoredIsNewest DEF Configurations
    <3> QED
      BY <3>1, <3>2, <3>3, FieldsAndValues
  <2>5. next \in Configurations /\ next.version = Stored.version + 1
    <3>1. Stored.version + 1 \in 1..MaxVersion
      <4>1. Len(log) \in Nat /\ MaxVersion \in Nat
        BY DashboardAssumption DEF TypeOK
      <4>2. Stored.version = Len(log) /\ Len(log) < MaxVersion
        BY <2>0, StoredIsNewest DEF OtherOperator
      <4> QED
        BY <4>1, <4>2
    <3> HIDE DEF next, edited
    <3> QED
      BY <2>3, <2>4, <3>1 DEF Configurations
  <2> QED
    BY <2>2, <2>5
<1> QED
  BY <1>1, <1>2 DEF Next, vars, Render, Refresh, ServeControl, RefreshAnswered, RefreshFails,
     ToggleSettings, Edit, Submit, ServerRefuses, SaveFails, AddToWatchlist, SaveAnswered, Select

\* So what was read or sent of the register stays true of it.
LEMMA RegisterGrows ==
    ASSUME TypeOK, [Next]_vars
    PROVE  /\ log' \in Seq(Configurations) \ {<<>>} /\ \A v \in DOMAIN log' : log'[v].version = v
           /\ \A c \in Configurations : InLog(c) => (InLog(c))'
           /\ \A save : Follows(save) => (Follows(save))'
           /\ \A v \in DOMAIN log : v \in DOMAIN log'
<1>1. CASE UNCHANGED log
  BY <1>1 DEF TypeOK, InLog, Follows, Register!Confirmed
<1>2. CASE \E c \in Configurations : c.version = Stored.version + 1 /\ log' = Append(log, c)
  BY <1>2, Appended, OldVersionsStay
<1> QED
  BY <1>1, <1>2, RegisterSteps

-------------------------------------------------------------------------------
(* What the dashboard shows.                                               *)

ViewOK ==
    /\ configuration \in {None} \cup Configurations
    /\ selectedSymbol \in {None} \cup Symbols
    /\ settingsOpen \in BOOLEAN
    /\ form \in {None} \cup Forms
    /\ SelectedIsWatched
    /\ DraftInv

\* A render that starts the draft anew makes it one of the configuration shown.
LEMMA FreshDraft ==
    ASSUME configuration' \in {None} \cup Configurations, settingsOpen' \in BOOLEAN,
           form' = FreshForm(configuration', settingsOpen')
    PROVE  form' \in {None} \cup Forms /\ DraftInv'
  BY DashboardAssumption DEF FreshForm, Forms, DraftInv

\* Keeping the selection, or falling back, selects a symbol of the watch list.
LEMMA SelectionKept ==
    ASSUME TypeOK, configuration' \in Configurations,
           selectedSymbol' \in KeepSelected(configuration')
    PROVE  selectedSymbol' \in {None} \cup Symbols /\ SelectedIsWatched'
  BY DEF TypeOK, KeepSelected, SelectedIsWatched, Configurations

\* No step leaves a symbol selected that is not watched, or a draft that is not
\* one of the configuration shown.
LEMMA ViewSteps ==
    ASSUME DashboardInv, [Next]_vars
    PROVE  ViewOK'
<1> USE DEF DashboardInv
<1>1. ASSUME UNCHANGED view PROVE ViewOK'
  BY <1>1 DEF ViewOK, view, TypeOK, SelectedIsWatched, DraftInv
<1>2. CASE Render \/ ToggleSettings
  BY <1>2, FreshDraft DEF ViewOK, Render, ToggleSettings, TypeOK, SelectedIsWatched
<1>3. ASSUME NEW r \in Refreshes, RefreshAnswered(r) PROVE ViewOK'
  <2>1. configuration' \in Configurations
    BY <1>3 DEF RefreshAnswered, TypeOK, Idle, Reading
  <2> QED
    BY <1>3, <2>1, FreshDraft, SelectionKept DEF ViewOK, RefreshAnswered, TypeOK
<1>4. ASSUME ShowError PROVE ViewOK'
  <2>1. CASE form' = form
    BY <1>1, <1>4, <2>1 DEF ShowError, view
  <2>2. CASE form' = FreshForm(configuration, settingsOpen)
    BY <1>4, <2>2, FreshDraft DEF ShowError, ViewOK, TypeOK, SelectedIsWatched
  <2> QED
    BY <1>4, <2>1, <2>2 DEF ShowError
<1>5. ASSUME NEW field \in Fields, NEW value, value \in Values[field], Edit(field, value)
      PROVE  ViewOK'
  <2>1. form \in Forms /\ form' = [draft |-> [form.draft EXCEPT ![field] = value],
                                   edits |-> form.edits \cup {field}]
    BY <1>5 DEF Edit, TypeOK
  <2>2. form' \in Forms /\ form'.draft.version = form.draft.version
    BY <1>5, <2>1, EditedField DEF Forms
  <2>3. \A other \in Fields \ form'.edits :
          other \notin form.edits /\ form'.draft[other] = form.draft[other]
    BY <1>5, <2>1, EditedField DEF Forms
  <2> QED
    BY <1>5, <2>1, <2>2, <2>3 DEF Edit, ViewOK, TypeOK, SelectedIsWatched, DraftInv
<1>6. ASSUME NEW symbol \in Symbols, Select(symbol) PROVE ViewOK'
  BY <1>6, FreshDraft DEF Select, ViewOK, TypeOK, SelectedIsWatched
<1>7. ASSUME NEW s \in Saves, NEW r \in Refreshes, SaveAnswered(s, r) PROVE ViewOK'
  <2>1. configuration' \in Configurations /\ settingsOpen' \in BOOLEAN
    BY <1>7 DEF SaveAnswered, SavesInv, TypeOK, At
  <2>2. selectedSymbol' \in {None} \cup Symbols /\ SelectedIsWatched'
    <3>1. CASE selectedSymbol' \in KeepSelected(configuration')
      BY <2>1, <3>1, SelectionKept
    <3>2. CASE selectedSymbol' \in configuration'.symbols
      BY <2>1, <3>2 DEF SelectedIsWatched, Configurations
    <3> QED
      BY <1>7, <3>1, <3>2 DEF SaveAnswered, SelectAfterSave
  <2> QED
    BY <1>7, <2>1, <2>2, FreshDraft DEF SaveAnswered, ViewOK
<1> QED
  BY <1>1, <1>2, <1>3, <1>4, <1>5, <1>6, <1>7
     DEF Next, vars, Refresh, ServeControl, RefreshFails, Submit, ServerStores, ServerRefuses,
         SaveFails, AddToWatchlist, OtherOperator

\* The configuration shown is a version of the register.
LEMMA ShownSteps ==
    ASSUME DashboardInv, [Next]_vars, configuration' # None
    PROVE  (InLog(configuration))'
<1> USE DEF DashboardInv, ShownInv
<1>1. PICK c \in Configurations : configuration' = c /\ InLog(c)
  <2>1. CASE UNCHANGED configuration
    BY <2>1 DEF TypeOK
  <2>2. ASSUME NEW r \in Refreshes, RefreshAnswered(r)
        PROVE  configuration' \in Configurations /\ InLog(configuration')
    BY <2>2 DEF RefreshAnswered, TypeOK, Idle, Reading
  <2>3. ASSUME NEW s \in Saves, NEW r \in Refreshes, SaveAnswered(s, r)
        PROVE  configuration' \in Configurations /\ InLog(configuration')
    BY <2>3 DEF SaveAnswered, SavesInv, TypeOK, InLog
  <2> QED
    BY <2>1, <2>2, <2>3
       DEF Next, vars, view, Render, Refresh, ServeControl, RefreshFails, ShowError, ToggleSettings,
           Edit, Submit, ServerStores, ServerRefuses, SaveFails, AddToWatchlist, Select, OtherOperator
<1>2. \A d \in Configurations : InLog(d) => (InLog(d))'
  BY RegisterGrows
<1> QED
  BY <1>1, <1>2 DEF InLog

\* So is what a refresh brings.
LEMMA ReadSteps ==
    ASSUME DashboardInv, [Next]_vars
    PROVE  /\ reads' \in [Refreshes -> {Idle} \cup Reading]
           /\ \A r \in Refreshes : reads'[r].pc = "answered" => (InLog(reads[r].control))'
<1> USE DEF DashboardInv, ShownInv
<1>1. \A c \in Configurations : InLog(c) => (InLog(c))'
  BY RegisterGrows
<1>2. ASSUME UNCHANGED reads
      PROVE  /\ reads' \in [Refreshes -> {Idle} \cup Reading]
             /\ \A r \in Refreshes : reads'[r].pc = "answered" => (InLog(reads[r].control))'
  BY <1>1, <1>2 DEF TypeOK, Reading, Idle, InLog
<1>3. ASSUME NEW q \in Refreshes, NEW x \in {Idle, [pc |-> "sent"]},
             reads' = [reads EXCEPT ![q] = x]
      PROVE  /\ reads' \in [Refreshes -> {Idle} \cup Reading]
             /\ \A r \in Refreshes : reads'[r].pc = "answered" => (InLog(reads[r].control))'
  BY <1>1, <1>3 DEF TypeOK, Reading, Idle, InLog
<1>4. ASSUME NEW q \in Refreshes, ServeControl(q)
      PROVE  /\ reads' \in [Refreshes -> {Idle} \cup Reading]
             /\ \A r \in Refreshes : reads'[r].pc = "answered" => (InLog(reads[r].control))'
  <2>1. Stored \in Configurations /\ InLog(Stored)
    BY StoredIsNewest DEF InLog
  <2>2. (InLog(Stored))' /\ Stored' = Stored
    BY <1>4, <2>1 DEF InLog, ServeControl, Stored
  <2> QED
    BY <1>1, <1>4, <2>1, <2>2 DEF ServeControl, TypeOK, Reading, Idle, InLog
<1> QED
  BY <1>2, <1>3, <1>4
     DEF Next, vars, Render, Ask, Refresh, RefreshAnswered, RefreshFails, ToggleSettings, Edit,
         Submit, ServerStores, ServerRefuses, SaveAnswered, SaveFails, AddToWatchlist, Select,
         OtherOperator

-------------------------------------------------------------------------------
(* Saves under way.                                                        *)

\* What submit sends is an edit of the version shown, confirmed by the prompts.
LEMMA SubmitFollows ==
    ASSUME DashboardInv, NEW s \in Saves, Submit(s)
    PROVE  saves'[s] \in Saving /\ saves'[s].pc = "sent" /\ Follows(saves'[s])
<1> USE DEF DashboardInv
<1>1. PICK consent \in Answers :
        Send(s, [pc |-> "sent", to |-> [form.draft EXCEPT !.version = configuration.version + 1],
                 consent |-> consent, edits |-> form.edits, declined |-> Declines(consent),
                 preferred |-> None, closes |-> TRUE])
  BY DEF Submit
<1>2. /\ form \in Forms /\ configuration \in Configurations /\ InLog(configuration)
      /\ configuration.version < MaxVersion
  BY DEF Submit, TypeOK, ShownInv, DraftInv
<1> DEFINE to == [form.draft EXCEPT !.version = configuration.version + 1]
<1>3. to \in Configurations /\ to.version - 1 = configuration.version
  BY <1>2, DashboardAssumption DEF Forms, Configurations
<1>4. \A field \in Fields : to[field] = form.draft[field]
  BY <1>2 DEF Forms, Configurations, Fields, Values
<1>5. consent \in Consents /\ Declines(consent) \in BOOLEAN
  BY <1>1, <1>2 DEF Answers, Consents, Declines, EnteringLive, EnablingAuto, Forms, Configurations
<1>6. ~Declines(consent) => Register!Confirmed(configuration, to, consent)
  BY <1>1, <1>4 DEF Answers, Declines, EnteringLive, EnablingAuto, Register!Confirmed, Fields, Values
<1>7. saves'[s] = [pc |-> "sent", to |-> to, consent |-> consent, edits |-> form.edits,
                   declined |-> Declines(consent), preferred |-> None, closes |-> TRUE]
  BY <1>1 DEF Send, TypeOK
<1>8. saves'[s] \in Saving /\ saves'[s].pc = "sent"
  BY <1>2, <1>3, <1>5, <1>7 DEF Saving, Forms
<1>9. Follows(saves'[s])
  <2>1. \A field \in Fields \ form.edits : to[field] = configuration[field]
    BY <1>4 DEF DraftInv, Submit
  <2> HIDE DEF to
  <2>2. configuration.version \in DOMAIN log /\ log[configuration.version] = configuration
    BY <1>2 DEF InLog
  <2> QED
    BY <1>3, <1>6, <1>7, <2>1, <2>2 DEF Follows
<1> QED
  BY <1>8, <1>9

\* A symbol added to the watch list needs no confirmation and removes none.
LEMMA AdditionFollows ==
    ASSUME DashboardInv, NEW s \in Saves, NEW symbol \in Symbols, AddToWatchlist(s, symbol)
    PROVE  saves'[s] \in Saving /\ saves'[s].pc = "sent" /\ Follows(saves'[s])
<1> USE DEF DashboardInv
<1> DEFINE to == [configuration EXCEPT !.symbols = @ \cup {symbol}, !.version = @ + 1]
<1>1. configuration \in Configurations /\ InLog(configuration)
  BY DEF AddToWatchlist, TypeOK, ShownInv
<1>2. /\ saves'[s] = [pc |-> "sent", to |-> to,
                      consent |-> [live |-> FALSE, automation |-> "none"],
                      edits |-> {"symbols"}, declined |-> FALSE,
                      preferred |-> symbol, closes |-> FALSE]
      /\ to.version <= MaxVersion
  BY DEF AddToWatchlist, Send, TypeOK
<1>3. /\ to \in Configurations /\ to.version - 1 = configuration.version
      /\ to.mode = configuration.mode /\ to.place = configuration.place
      /\ configuration.symbols \subseteq to.symbols
  <2>1. configuration.version \in 1..MaxVersion /\ MaxVersion \in Nat
    BY <1>1, DashboardAssumption DEF Configurations
  <2>2. to.version = configuration.version + 1 /\ to.symbols = configuration.symbols \cup {symbol}
    BY <1>1 DEF Configurations
  <2>3. to.version \in 1..MaxVersion
    BY <1>2, <2>1, <2>2
  <2>4. to.mode = configuration.mode /\ to.place = configuration.place
    BY <1>1 DEF Configurations
  <2>5. to \in Configurations
    BY <1>1, <2>2, <2>3, <2>4 DEF Configurations
  <2> QED
    BY <2>1, <2>2, <2>4, <2>5
<1>4. saves'[s] \in Saving /\ saves'[s].pc = "sent"
  <2>1. [live |-> FALSE, automation |-> "none"] \in Consents
    BY DEF Consents
  <2>2. {"symbols"} \subseteq Fields
    BY DEF Fields, Values
  <2> HIDE DEF to
  <2> QED
    BY <1>2, <1>3, <2>1, <2>2 DEF Saving
<1>5. Follows(saves'[s])
  <2> HIDE DEF to
  <2>1. \A field \in Fields \ {"symbols"} : to[field] = configuration[field]
    BY <1>3, FieldsAndValues DEF Fields, Values
  <2>2. Register!Confirmed(configuration, to, [live |-> FALSE, automation |-> "none"])
    BY <1>1, <1>3 DEF Register!Confirmed, Configurations
  <2> QED
    BY <1>1, <1>2, <1>3, <2>1, <2>2 DEF Follows, InLog
<1> QED
  BY <1>4, <1>5

\* Which save a step changes, and how.
LEMMA SaveChanges ==
    ASSUME DashboardInv, [Next]_vars
    PROVE  \/ UNCHANGED saves
           \/ \E s \in Saves, x \in {Idle} \cup Saving :
                /\ saves' = [saves EXCEPT ![s] = x]
                /\ x.pc = "sent" => Follows(x)
                /\ x.pc = "stored" => x.version \in DOMAIN log'
<1> USE DEF DashboardInv
<1>1. ASSUME NEW s \in Saves, Submit(s) \/ \E symbol \in Symbols : AddToWatchlist(s, symbol)
      PROVE  \E x \in {Idle} \cup Saving :
               /\ saves' = [saves EXCEPT ![s] = x]
               /\ x.pc = "sent" => Follows(x)
               /\ x.pc = "stored" => x.version \in DOMAIN log'
  <2>1. saves'[s] \in Saving /\ saves'[s].pc = "sent" /\ Follows(saves'[s])
    BY <1>1, SubmitFollows, AdditionFollows
  <2>2. saves' = [saves EXCEPT ![s] = saves'[s]]
    BY <1>1 DEF Submit, AddToWatchlist, Send, TypeOK
  <2> QED
    BY <2>1, <2>2
<1>2. ASSUME NEW s \in Saves, ServerStores(s)
      PROVE  \E x \in {Idle} \cup Saving :
               /\ saves' = [saves EXCEPT ![s] = x]
               /\ x.pc = "sent" => Follows(x)
               /\ x.pc = "stored" => x.version \in DOMAIN log'
  <2> DEFINE x == [pc |-> "stored", version |-> Len(log'),
                   preferred |-> saves[s].preferred, closes |-> saves[s].closes]
  <2>1. saves' = [saves EXCEPT ![s] = x] /\ saves[s] \in Saving /\ saves[s].pc = "sent"
    BY <1>2 DEF ServerStores, At, TypeOK, Idle
  <2>2. Len(log') \in DOMAIN log' /\ Len(log') \in 1..MaxVersion
    <3>1. saves[s].to \in Configurations
      BY <2>1 DEF Saving
    <3>2. saves[s].to.version = Stored.version + 1 /\ log' = Append(log, saves[s].to)
      BY <1>2 DEF ServerStores, Register!Update
    <3> QED
      BY <3>1, <3>2, Appended, StoredIsNewest DEF Configurations
  <2>3. x \in Saving
    BY <2>1, <2>2 DEF Saving
  <2>4. x.pc = "stored" /\ x.version = Len(log')
    OBVIOUS
  <2> HIDE DEF x
  <2> QED
    BY <2>1, <2>2, <2>3, <2>4
<1>3. ASSUME NEW s \in Saves, ServerRefuses(s) \/ SaveFails(s) \/ \E r \in Refreshes : SaveAnswered(s, r)
      PROVE  \E x \in {Idle} \cup Saving :
               /\ saves' = [saves EXCEPT ![s] = x]
               /\ x.pc = "sent" => Follows(x)
               /\ x.pc = "stored" => x.version \in DOMAIN log'
  BY <1>3 DEF ServerRefuses, SaveFails, SaveAnswered, Saving, Idle
<1> QED
  BY <1>1, <1>2, <1>3
     DEF Next, vars, Render, Refresh, ServeControl, RefreshAnswered, RefreshFails, ToggleSettings,
         Edit, Select, OtherOperator

\* A save under way stays an edit of the version it was made from.
LEMMA SaveSteps ==
    ASSUME DashboardInv, [Next]_vars
    PROVE  saves' \in [Saves -> {Idle} \cup Saving] /\ SavesInv'
<1> USE DEF DashboardInv
<1>1. saves' \in [Saves -> {Idle} \cup Saving]
  BY SaveChanges DEF TypeOK
<1>2. ASSUME NEW s \in Saves, saves'[s].pc = "sent" PROVE (Follows(saves[s]))'
  <2>1. Follows(saves'[s])
    BY <1>2, SaveChanges DEF SavesInv, At, TypeOK
  <2>2. PICK save : save = saves'[s] /\ Follows(save)
    BY <2>1
  <2>3. (Follows(save))'
    BY <2>2, RegisterGrows
  <2> QED
    BY <2>2, <2>3 DEF Follows, Register!Confirmed
<1>3. ASSUME NEW s \in Saves, saves'[s].pc = "stored" PROVE saves'[s].version \in DOMAIN log'
  BY <1>3, SaveChanges, RegisterGrows DEF SavesInv, At, TypeOK
<1> QED
  BY <1>1, <1>2, <1>3 DEF SavesInv, At

-------------------------------------------------------------------------------
(* The theorems.                                                           *)

\* Types, the selection, and of which version of the register every copy is, in
\* the dashboard and under way.
THEOREM Invariant == Spec => []DashboardInv
<1>1. Init => DashboardInv
  <2> SUFFICES ASSUME Init PROVE DashboardInv
    OBVIOUS
  <2>1. log \in Seq(Configurations) \ {<<>>} /\ \A v \in DOMAIN log : log[v].version = v
    BY DashboardAssumption DEF Init
  <2>2. TypeOK
    BY <2>1 DEF Init, TypeOK
  <2>3. SelectedIsWatched /\ ShownInv /\ DraftInv /\ SavesInv
    BY DEF Init, SelectedIsWatched, ShownInv, DraftInv, SavesInv, Idle, At
  <2> QED
    BY <2>2, <2>3 DEF DashboardInv
<1>2. DashboardInv /\ [Next]_vars => DashboardInv'
  <2> SUFFICES ASSUME DashboardInv, [Next]_vars PROVE DashboardInv'
    OBVIOUS
  <2>1. TypeOK'
    BY RegisterGrows, ViewSteps, ReadSteps, SaveSteps DEF DashboardInv, TypeOK, ViewOK
  <2>2. SelectedIsWatched' /\ DraftInv'
    BY ViewSteps DEF ViewOK
  <2>3. ShownInv'
    BY ShownSteps, ReadSteps DEF ShownInv
  <2> QED
    BY <2>1, <2>2, <2>3, SaveSteps DEF DashboardInv
<1> QED
  BY <1>1, <1>2, PTL DEF Spec

\* The confirmations the browser asks for are those the server will ask for.
THEOREM Prompts == Spec => []PromptsMatchServer
<1>1. DashboardInv => PromptsMatchServer
  <2> SUFFICES ASSUME DashboardInv, NEW s \in Saves, At(s, "sent"),
                      saves[s].to.version = Stored.version + 1, ~saves[s].declined
               PROVE  Register!Confirmed(Stored, saves[s].to, saves[s].consent)
    BY DEF PromptsMatchServer
  <2>1. Follows(saves[s])
    BY DEF DashboardInv, SavesInv
  <2>2. log[saves[s].to.version - 1] = Stored
    BY StoredIsNewest DEF DashboardInv, TypeOK
  <2> QED
    BY <2>1, <2>2 DEF Follows
<1> QED
  BY <1>1, Invariant, PTL

\* No save takes back what another operator has changed.
THEOREM NothingOverwritten == Spec => NoLostUpdate
<1> DEFINE Stores(s) ==
        At(s, "sent") /\ At(s, "stored")' =>
            /\ \A field \in Fields \ saves[s].edits : Stored'[field] = Stored[field]
            /\ saves[s].preferred # None => Stored.symbols \subseteq Stored'.symbols
<1>1. ASSUME DashboardInv, Next, NEW s \in Saves PROVE Stores(s)
  <2> SUFFICES ASSUME At(s, "sent"), At(s, "stored")'
               PROVE  /\ \A field \in Fields \ saves[s].edits : Stored'[field] = Stored[field]
                      /\ saves[s].preferred # None => Stored.symbols \subseteq Stored'.symbols
    OBVIOUS
  <2>1. ServerStores(s)
    <3>1. ASSUME UNCHANGED saves PROVE FALSE
      BY <3>1 DEF At
    <3>2. ASSUME NEW t \in Saves, NEW x, x.pc # "stored", saves' = [saves EXCEPT ![t] = x]
          PROVE  FALSE
      BY <1>1, <3>2 DEF At, DashboardInv, TypeOK
    <3>3. ASSUME NEW t \in Saves, ServerStores(t), t # s PROVE FALSE
      BY <1>1, <3>3 DEF ServerStores, At, DashboardInv, TypeOK
    <3>4. ASSUME NEW t \in Saves, Submit(t) \/ \E symbol \in Symbols : AddToWatchlist(t, symbol)
          PROVE  FALSE
      BY <3>2, <3>4 DEF Submit, AddToWatchlist, Send
    <3>5. ASSUME NEW t \in Saves,
                 ServerRefuses(t) \/ SaveFails(t) \/ \E r \in Refreshes : SaveAnswered(t, r)
          PROVE  FALSE
      BY <3>2, <3>5 DEF ServerRefuses, SaveFails, SaveAnswered, Idle
    <3> QED
      BY <1>1, <3>1, <3>3, <3>4, <3>5
         DEF Next, Render, Refresh, ServeControl, RefreshAnswered, RefreshFails, ToggleSettings, Edit,
             Select, OtherOperator
  <2>2. saves[s].to \in Configurations
    BY <1>1 DEF At, DashboardInv, TypeOK, Saving, Idle
  <2>3. saves[s].to.version = Stored.version + 1 /\ log' = Append(log, saves[s].to)
    BY <2>1 DEF ServerStores, Register!Update
  <2>4. Stored' = saves[s].to
    BY <1>1, <2>2, <2>3, Appended DEF DashboardInv
  <2>5. log[saves[s].to.version - 1] = Stored
    BY <1>1, <2>3, StoredIsNewest DEF DashboardInv, TypeOK
  <2> QED
    BY <1>1, <2>4, <2>5 DEF DashboardInv, SavesInv, Follows
<1>2. DashboardInv /\ [Next]_vars => [\A s \in Saves : Stores(s)]_vars
  BY <1>1
<1> QED
  BY <1>2, Invariant, PTL DEF Spec, NoLostUpdate
===============================================================================
