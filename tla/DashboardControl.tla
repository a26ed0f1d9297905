--------------------------- MODULE DashboardControl ---------------------------
(***************************************************************************)
(* The configuration in the browser (App, SettingsDrawer and Watchlist of  *)
(* src/frontend/src/main.jsx): one dashboard that refreshes, edits and     *)
(* saves a configuration which other operators change as well.  The server *)
(* is the register that ControlPlane implements.                           *)
(*                                                                         *)
(* Each request is under way on its own: answers come in any order, late,  *)
(* or not at all.                                                          *)
(***************************************************************************)
EXTENDS Naturals, Sequences, FiniteSets

CONSTANTS
    Symbols,
    Default,     \* the configuration before the first update
    None,
    Refreshes,   \* bound: refreshes under way at once
    Saves,       \* bound: saves under way at once
    WatchLists,  \* bound: the watch lists an operator enters
    MaxEdits,    \* bound: fields edited in one draft
    MaxVersion   \* bound: versions the register may reach

Modes == {"paper", "live"}

\* The fields an operator edits.  "place" stands for automatic orders; symbols
\* for every field that needs no confirmation.
Values == [mode |-> Modes, place |-> BOOLEAN, symbols |-> WatchLists]
Fields == DOMAIN Values
Configurations == [mode : Modes, place : BOOLEAN, symbols : SUBSET Symbols,
                   version : 1..MaxVersion]
Consents == [live : BOOLEAN, automation : Modes \cup {"none"}]

ASSUME DashboardAssumption ==
    /\ MaxVersion \in Nat \ {0} /\ WatchLists \subseteq SUBSET Symbols
    /\ Default \in Configurations /\ Default.version = 1
    /\ None \notin Symbols \cup Configurations

VARIABLES
    log,            \* the configurations of the register, the last one in force
    configuration,  \* the configuration the dashboard shows, None before the first
    selectedSymbol,
    settingsOpen,
    form,           \* the drawer's draft, and which of its fields were edited
    reads,          \* refreshes under way
    saves           \* PUT requests under way

view == <<configuration, selectedSymbol, settingsOpen, form>>
vars == <<log, view, reads, saves>>

Stored == log[Len(log)]
Register == INSTANCE ConfigurationRegister WITH store <- Stored

Idle == [pc |-> "idle"]
Forms == [draft : Configurations, edits : SUBSET Fields]
Reading == [pc : {"sent"}] \cup [pc : {"answered"}, control : Configurations]
Saving ==
    [pc : {"sent"}, to : Configurations, consent : Consents, declined : BOOLEAN,
     edits : SUBSET Fields, preferred : Symbols \cup {None}, closes : BOOLEAN]
    \cup [pc : {"stored"}, version : 1..MaxVersion,
          preferred : Symbols \cup {None}, closes : BOOLEAN]
    \cup [pc : {"refused"}]

TypeOK ==
    /\ log \in Seq(Configurations) \ {<<>>} /\ \A v \in DOMAIN log : log[v].version = v
    /\ configuration \in {None} \cup Configurations
    /\ selectedSymbol \in {None} \cup Symbols
    /\ settingsOpen \in BOOLEAN
    /\ form \in {None} \cup Forms
    /\ reads \in [Refreshes -> {Idle} \cup Reading]
    /\ saves \in [Saves -> {Idle} \cup Saving]

Init ==
    /\ log = <<Default>>
    /\ configuration = None
    /\ selectedSymbol = None
    /\ settingsOpen = FALSE
    /\ form = None
    /\ reads = [r \in Refreshes |-> Idle]
    /\ saves = [s \in Saves |-> Idle]

-------------------------------------------------------------------------------
(* Rendering.                                                              *)

\* Mutant: a draft under edit outlives a change of the configuration.
KeptForm(c, open) ==
    IF ~open \/ c = None THEN None
    ELSE IF form # None THEN form ELSE [draft |-> c, edits |-> {}]

\* App hands the drawer a configuration object of its own at every render, so
\* every render of App starts the draft anew and drops what was edited.
FreshForm(c, open) ==
    IF open /\ c # None THEN [draft |-> c, edits |-> {}] ELSE None

\* The symbol stays selected while it is watched; else the first one is.
KeepSelected(c) ==
    IF selectedSymbol \in c.symbols THEN {selectedSymbol}
    ELSE IF c.symbols = {} THEN {None} ELSE c.symbols

\* Setting an error text renders App, unless it is the text already shown.
ShowError ==
    /\ form' \in {form, FreshForm(configuration, settingsOpen)}
    /\ UNCHANGED <<configuration, selectedSymbol, settingsOpen>>

\* App renders for a reason of the chart: a live tick, a series, a switch.
Render ==
    /\ form' = FreshForm(configuration, settingsOpen)
    /\ UNCHANGED <<log, configuration, selectedSymbol, settingsOpen, reads, saves>>

-------------------------------------------------------------------------------
(* refresh: when the page is opened, every 30 seconds and after a save.    *)

Ask(r) == reads[r] = Idle /\ reads' = [reads EXCEPT ![r] = [pc |-> "sent"]]

Refresh(r) == Ask(r) /\ UNCHANGED <<log, view, saves>>

ServeControl(r) ==
    /\ reads[r].pc = "sent"
    /\ reads' = [reads EXCEPT ![r] = [pc |-> "answered", control |-> Stored]]
    /\ UNCHANGED <<log, view, saves>>

\* Mutant: the configuration is read once, then only the snapshot.
RefreshSnapshotOnly(r) ==
    /\ reads[r].pc = "answered"
    /\ LET control == reads[r].control
       IN  /\ configuration' = IF configuration = None THEN control ELSE configuration
           /\ selectedSymbol' \in KeepSelected(configuration')
           /\ form' = FreshForm(configuration', settingsOpen)
    /\ reads' = [reads EXCEPT ![r] = Idle]
    /\ UNCHANGED <<log, settingsOpen, saves>>

\* All six answers are there.
RefreshAnswered(r) ==
    /\ reads[r].pc = "answered"
    /\ LET control == reads[r].control
       IN  /\ configuration' = control
           /\ selectedSymbol' \in KeepSelected(control)
           /\ form' = FreshForm(control, settingsOpen)
    /\ reads' = [reads EXCEPT ![r] = Idle]
    /\ UNCHANGED <<log, settingsOpen, saves>>

\* One of the six fails, and with it the refresh.
RefreshFails(r) ==
    /\ reads[r] # Idle
    /\ ShowError
    /\ reads' = [reads EXCEPT ![r] = Idle]
    /\ UNCHANGED <<log, saves>>

-------------------------------------------------------------------------------
(* The operator.                                                           *)

ToggleSettings ==
    /\ settingsOpen' = ~settingsOpen
    /\ form' = FreshForm(configuration, settingsOpen')
    /\ UNCHANGED <<log, configuration, selectedSymbol, reads, saves>>

\* update, updateStrategy, updateRisk: only the drawer renders.
Edit(field, value) ==
    /\ form # None
    /\ Cardinality(form.edits \cup {field}) <= MaxEdits
    /\ form' = [draft |-> [form.draft EXCEPT ![field] = value],
                edits |-> form.edits \cup {field}]
    /\ UNCHANGED <<log, configuration, selectedSymbol, settingsOpen, reads, saves>>

EnteringLive == form.draft.mode = "live" /\ configuration.mode # "live"

\* Mutant: a change of mode does not ask again for the orders it takes along.
EnablingAutoOnce == form.draft.place /\ ~configuration.place
EnablingAuto ==
    form.draft.place /\ (~configuration.place \/ form.draft.mode # configuration.mode)

\* The operator types what each prompt asks for, or declines.
Answers ==
    [live : IF EnteringLive THEN BOOLEAN ELSE {FALSE},
     automation : IF EnablingAuto THEN {form.draft.mode, "none"} ELSE {"none"}]
Declines(consent) ==
    \/ EnteringLive /\ ~consent.live
    \/ EnablingAuto /\ consent.automation = "none"

\* request("/control", PUT): expected_version is the one before to.version.
Send(s, request) ==
    /\ saves[s] = Idle
    /\ request.to.version <= MaxVersion
    /\ saves' = [saves EXCEPT ![s] = request]

\* submit: the prompts block the page until they are answered.
Submit(s) ==
    /\ form # None
    /\ configuration.version < MaxVersion
    /\ \E consent \in Answers :
         Send(s, [pc |-> "sent", to |-> [form.draft EXCEPT !.version = configuration.version + 1],
                  consent |-> consent, edits |-> form.edits, declined |-> Declines(consent),
                  preferred |-> None, closes |-> TRUE])
    /\ UNCHANGED <<log, view, reads>>

\* addToWatchlist: a known symbol is selected, another one is saved at once.
AddToWatchlist(s, symbol) ==
    /\ configuration # None
    /\ symbol \notin configuration.symbols
    /\ Send(s, [pc |-> "sent",
                to |-> [configuration EXCEPT !.symbols = @ \cup {symbol}, !.version = @ + 1],
                consent |-> [live |-> FALSE, automation |-> "none"],
                edits |-> {"symbols"}, declined |-> FALSE,
                preferred |-> symbol, closes |-> FALSE])
    /\ UNCHANGED <<log, view, reads>>

Select(symbol) ==
    /\ configuration # None
    /\ symbol \in configuration.symbols \ {selectedSymbol}
    /\ selectedSymbol' = symbol
    /\ form' = FreshForm(configuration, settingsOpen)
    /\ UNCHANGED <<log, configuration, settingsOpen, reads, saves>>

-------------------------------------------------------------------------------
(* The server, and the end of a save.                                      *)

At(s, pc) == saves[s].pc = pc

\* update_configuration stores what follows the current version, confirmed.
ServerStores(s) ==
    /\ At(s, "sent")
    /\ log' = Append(log, saves[s].to)
    /\ Register!Update(saves[s].to, saves[s].consent)
    /\ saves' = [saves EXCEPT ![s] =
                    [pc |-> "stored", version |-> Len(log'),
                     preferred |-> saves[s].preferred, closes |-> saves[s].closes]]
    /\ UNCHANGED <<view, reads>>

\* A conflict, a missing confirmation, an invalid field or a failure.
ServerRefuses(s) ==
    /\ At(s, "sent")
    /\ saves' = [saves EXCEPT ![s] = [pc |-> "refused"]]
    /\ UNCHANGED <<log, view, reads>>

\* Bound: another operator changes one field at a time, and confirms.
OtherOperator(field, value) ==
    /\ Len(log) < MaxVersion
    /\ Stored[field] # value
    /\ log' = Append(log, [Stored EXCEPT ![field] = value, !.version = @ + 1])
    /\ Register!Update(Stored', [live |-> TRUE, automation |-> Stored'.mode])
    /\ UNCHANGED <<view, reads, saves>>

\* Mutant: the selection is left alone when a save is answered.
KeepAnySelected(s, next) ==
    IF saves[s].preferred \in next.symbols THEN {saves[s].preferred} ELSE {selectedSymbol}

SelectAfterSave(s, next) ==
    IF saves[s].preferred \in next.symbols THEN {saves[s].preferred} ELSE KeepSelected(next)

\* The answer is shown at once, and everything is read again.
SaveAnswered(s, r) ==
    /\ At(s, "stored")
    /\ configuration' = log[saves[s].version]
    /\ selectedSymbol' \in SelectAfterSave(s, configuration')
    /\ settingsOpen' = (settingsOpen /\ ~saves[s].closes)
    /\ form' = FreshForm(configuration', settingsOpen')
    /\ Ask(r)
    /\ saves' = [saves EXCEPT ![s] = Idle]
    /\ UNCHANGED log

\* A refusal, or an answer that never comes: also of a save that is stored.
SaveFails(s) ==
    /\ saves[s] # Idle
    /\ ~At(s, "sent")
    /\ ShowError
    /\ saves' = [saves EXCEPT ![s] = Idle]
    /\ UNCHANGED <<log, reads>>

Next ==
    \/ Render
    \/ \E r \in Refreshes : Refresh(r) \/ ServeControl(r) \/ RefreshAnswered(r) \/ RefreshFails(r)
    \/ ToggleSettings
    \/ \E field \in Fields : \E value \in Values[field] :
         Edit(field, value) \/ OtherOperator(field, value)
    \/ \E s \in Saves : Submit(s) \/ ServerStores(s) \/ ServerRefuses(s) \/ SaveFails(s)
    \/ \E s \in Saves, symbol \in Symbols : AddToWatchlist(s, symbol)
    \/ \E s \in Saves, r \in Refreshes : SaveAnswered(s, r)
    \/ \E symbol \in Symbols : Select(symbol)

\* The timer fires, requests end, and a refresh that is repeated forever is
\* served and answered now and then.
Fairness ==
    /\ \A r \in Refreshes : /\ WF_vars(Refresh(r))
                            /\ SF_vars(ServeControl(r))
                            /\ WF_vars(RefreshAnswered(r) \/ RefreshFails(r))
                            /\ SF_vars(RefreshAnswered(r))
    /\ \A s \in Saves : /\ WF_vars(ServerStores(s) \/ ServerRefuses(s))
                        /\ WF_vars(SaveFails(s) \/ \E r \in Refreshes : SaveAnswered(s, r))

Spec == Init /\ [][Next]_vars /\ Fairness

-------------------------------------------------------------------------------
(* Properties.                                                             *)

\* What a save stores differs from the configuration it replaces in fields the
\* operator edited only, although the draft, the version sent with it and the
\* register change independently: nobody's change is lost.  A symbol added to
\* the watch list removes none.
NoLostUpdate ==
    [][\A s \in Saves : At(s, "sent") /\ At(s, "stored")' =>
         /\ \A field \in Fields \ saves[s].edits : Stored'[field] = Stored[field]
         /\ saves[s].preferred # None => Stored.symbols \subseteq Stored'.symbols]_vars

\* An operator who answers every prompt has confirmed what the server asks of
\* this very change: the prompts of the browser and the rules of the server,
\* applied to configurations read at different times, agree.
PromptsMatchServer ==
    \A s \in Saves :
        /\ At(s, "sent")
        /\ saves[s].to.version = Stored.version + 1
        /\ ~saves[s].declined
        => Register!Confirmed(Stored, saves[s].to, saves[s].consent)

InLog(c) == c.version \in DOMAIN log /\ log[c.version] = c

\* What the dashboard shows, and what a refresh brings, are versions of the
\* register.
ShownInv ==
    /\ configuration # None => InLog(configuration)
    /\ \A r \in Refreshes : reads[r].pc = "answered" => InLog(reads[r].control)

\* A draft has the version and the untouched fields of the configuration shown.
DraftInv ==
    form # None =>
        /\ configuration # None /\ settingsOpen
        /\ form.draft.version = configuration.version
        /\ \A field \in Fields \ form.edits : form.draft[field] = configuration[field]

\* A save under way is an edit of one version of the register, confirmed unless
\* the operator declined.
Follows(save) ==
    LET base == log[save.to.version - 1]
    IN  /\ save.to.version - 1 \in DOMAIN log
        /\ \A field \in Fields \ save.edits : save.to[field] = base[field]
        /\ save.preferred # None => base.symbols \subseteq save.to.symbols
        /\ ~save.declined => Register!Confirmed(base, save.to, save.consent)

SavesInv ==
    \A s \in Saves :
        /\ At(s, "sent") => Follows(saves[s])
        /\ At(s, "stored") => saves[s].version \in DOMAIN log

\* The selected symbol, whose chart and ticks are loaded, is one of the watch
\* list on screen, whoever removes symbols from it.
SelectedIsWatched ==
    configuration # None =>
        \/ selectedSymbol \in configuration.symbols
        \/ configuration.symbols = {} /\ selectedSymbol = None

\* The inductive invariant: types, the selection, and of which version of the
\* register each copy in the browser and under way is.
DashboardInv == TypeOK /\ SelectedIsWatched /\ ShownInv /\ DraftInv /\ SavesInv

\* When nobody changes the configuration any more (versions are bounded), the
\* dashboard ends up showing it for good, although an older answer may
\* overtake a newer one, saves fail, and the broker's part of a refresh may
\* fail again and again.
QuietStoreIsShown == <>[](configuration = Stored)
===============================================================================
