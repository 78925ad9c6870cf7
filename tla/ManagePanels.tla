----------------------------- MODULE ManagePanels -----------------------------
(***************************************************************************)
(* The management panels of the console: LLM providers, limits, themes and *)
(* tokens.  A page of the console holds one of them, its section.          *)
(*                                                                         *)
(* A panel is drawn from what the page last had from the server, and every *)
(* drawing makes new inputs: what was typed and not sent is gone.  Saves   *)
(* and toggles do not wait for each other.  The providers and limits take  *)
(* the new settings from the answer to a save, the themes and tokens ask   *)
(* for the whole list again.                                               *)
(*                                                                         *)
(* The settings of a section are a function from its items to records; the *)
(* body of a PATCH is a record with some of their fields.  The ordinary    *)
(* fields of the providers are two here, a number, interval, and a text,   *)
(* model; those of the limits are budget, and of the texts of a theme only *)
(* the measurement id, ga.  The messages, copy buttons and views of a      *)
(* theme's options are left out.                                           *)
(***************************************************************************)
EXTENDS Integers, FiniteSets

CONSTANTS
    Sections,       \* the sections that are opened
    Default,        \* the theme with the reference 0
    Themes,         \* the other themes
    Tokens, None,
    MaxCalls,       \* bound: calls one starts
    MaxEdits        \* bound: inputs edited in one drawing of a panel

ASSUME ManagePanelsAssumption ==
    /\ Sections \subseteq {"providers", "limits", "themes", "tokens"}
    /\ Default \notin Themes /\ None \notin Tokens /\ MaxCalls \in Nat \ {0} /\ MaxEdits \in Nat

VARIABLES
    section,    \* the section of this page
    server,     \* the settings the server has
    version,    \* how many writes it has done since the page was opened
    page,       \* what the page holds and shows
    calls,      \* calls under way; stage says how far the server is
    made,       \* calls started
    missed      \* history: an answer was lost or overtaken

panelVars == <<section, server, version, page, calls, made, missed>>

-----------------------------------------------------------------------------
(* Settings and forms of a section s, and what a form sends                *)

Items(s) ==
    CASE s \in {"providers", "limits"} -> {"config"}
      [] s = "themes" -> Themes \cup {Default}
      [] s = "tokens" -> Tokens

Settings(s) ==
    CASE s = "providers" -> [interval: {"zero", "default", "own"}, model: {"", "default", "own"},
                                key: {"none", "old", "new"}]
      [] s = "limits" -> [budget: {"default", "own"}]
      [] s = "themes" -> [ga: {"", "own"}, is_public: BOOLEAN,
                                collaborator: BOOLEAN, presentation: BOOLEAN]
      [] s = "tokens" -> [revoked: BOOLEAN]

\* A key is cleared when its delete button was pressed (dataset.cleared).  The row
\* of a token has no input, but it may have a button that revokes it.
Form(s) ==
    CASE s = "providers" -> [interval: {"", "default", "own"}, model: {"", "default", "own"},
                                key: {"", "new"}, cleared: BOOLEAN]
      [] s = "limits" -> [budget: {"", "default", "own"}]
      [] s = "themes" -> Settings(s)
      [] s = "tokens" -> [revoke: BOOLEAN]

NewTheme == [ga |-> "", is_public |-> TRUE, collaborator |-> TRUE, presentation |-> FALSE]

OrDefault(v) == IF v = "" THEN "default" ELSE v

\* The stored key is never in the form; a zero and an empty text are drawn as the
\* default (||).
renderProviderManagerDOM(d) ==
    [interval |-> IF d.interval = "zero" THEN "default" ELSE d.interval, model |-> OrDefault(d.model),
     key |-> "", cleared |-> FALSE]

renderLimitManagerDOM(d) == d
renderThemeManagerDOM(d) == d
renderTokenManagerDOM(d) == [revoke |-> ~d.revoked]

Drawn(s, d) ==
    CASE s = "providers" -> renderProviderManagerDOM(d)
      [] s = "limits" -> renderLimitManagerDOM(d)
      [] s = "themes" -> renderThemeManagerDOM(d)
      [] s = "tokens" -> renderTokenManagerDOM(d)

\* An emptied measurement id is sent as null.
SentTheme(i, f) ==
    LET boxes == DOMAIN f \ IF i = Default THEN {"collaborator"} ELSE {} IN
    [x \in boxes |-> IF x = "ga" /\ f[x] = "" THEN "null" ELSE f[x]]

\* Mutant: an empty key box sends that there is no key.
Sent_EmptyKey(s, i, f) ==
    CASE s = "providers" ->
            LET v == OrDefault(f.interval) IN
            IF f.key # "" THEN [interval |-> v, model |-> f.model, api_key |-> f.key]
            ELSE [interval |-> v, model |-> f.model, api_key |-> "", clear_api_key |-> TRUE]
      [] s = "limits" -> [budget |-> OrDefault(f.budget)]
      [] s = "themes" -> SentTheme(i, f)

\* An emptied number is sent as the default, an emptied text as it is.
Sent(s, i, f) ==
    CASE s = "providers" ->
            LET v == OrDefault(f.interval) IN
            IF f.key # "" THEN [interval |-> v, model |-> f.model, api_key |-> f.key]
            ELSE IF f.cleared THEN [interval |-> v, model |-> f.model, clear_api_key |-> TRUE]
            ELSE [interval |-> v, model |-> f.model]
      [] s = "limits" -> [budget |-> OrDefault(f.budget)]
      [] s = "themes" -> SentTheme(i, f)

\* What the server makes of the settings d when it is sent the fields of set.
\* update_config looks at clear_api_key only if there is an api_key.
update_config(d, set) ==
    [interval |-> set.interval, model |-> set.model,
     key |-> IF "api_key" \notin DOMAIN set THEN d.key
             ELSE IF set.api_key # "" THEN set.api_key
             ELSE IF "clear_api_key" \in DOMAIN set THEN "none" ELSE d.key]

\* A null is a field that is not given.
update_theme(d, set) ==
    [x \in DOMAIN d |-> IF x \in DOMAIN set /\ (x = "ga" => set.ga # "null") THEN set[x] ELSE d[x]]

Stored(s, d, set) ==
    CASE s = "providers" -> update_config(d, set)
      [] s = "limits" -> set
      [] s = "themes" -> update_theme(d, set)

-----------------------------------------------------------------------------
(* What the page's functions make of the page p                            *)

\* render...ManagerDOM: new inputs, closed forms, no result of a test.
Draw(p) == [p EXCEPT !.shown = "panel", !.form = [i \in DOMAIN p.has |-> Drawn(section, p.has[i])],
                     !.edited = {}, !.open = {}, !.test = "none"]

\* Mutant: the new settings are kept and not drawn.
Take_Undrawn(p, c) == [p EXCEPT !.has = c.got, !.seen = c.version, !.shown = "panel"]

Take(p, c) == Draw([p EXCEPT !.has = c.got, !.seen = c.version])

Loading(p) == [p EXCEPT !.shown = "loading", !.test = "none"]

NoCall == [n |-> 0, op |-> "get", item |-> None, set |-> <<>>, edits |-> {}, gone |-> {}, base |-> 0,
           live |-> TRUE, stage |-> "sent", got |-> <<>>, version |-> 0]

\* A result that is written for inputs drawn before is not seen.
Detached(C) == {[c EXCEPT !.live = (c.op # "test")] : c \in C}

Get(n) == {[NoCall EXCEPT !.n = n]}

NewPage == [shown |-> "loading", has |-> <<>>, seen |-> 0, form |-> <<>>, edited |-> {},
            open |-> {}, fresh |-> None, test |-> "none"]

PanelsInit ==
    /\ section \in Sections
    /\ \E I \in SUBSET Items(section) :
        /\ section = "themes" => Default \in I
        /\ section \in {"providers", "limits"} => I = Items(section)
        /\ IF section = "themes"
           THEN \E ga \in [I -> {"", "own"}] : server =
                    [i \in I |-> [NewTheme EXCEPT !.ga = ga[i], !.collaborator = (i # Default)]]
           ELSE server \in [I -> {d \in Settings(section) : section = "providers" => d.key # "new"}]
    /\ page = NewPage /\ version = 0 /\ calls = Get(0) /\ made = 0 /\ missed = FALSE

-----------------------------------------------------------------------------
(* What one does                                                           *)

Panel == page.shown = "panel"
Asked == UNCHANGED <<section, server, version, missed>>

Send(p, c) ==
    /\ made < MaxCalls /\ made' = made + 1
    /\ calls' = calls \cup {[c EXCEPT !.n = made + 1]}
    /\ page' = p /\ Asked

Idle == UNCHANGED <<calls, made>> /\ Asked

showThemeEditForm(t) ==
    /\ Panel /\ section = "themes" /\ t \in DOMAIN page.has
    /\ page' = [page EXCEPT !.open = IF t \in @ THEN @ \ {t} ELSE @ \cup {t}] /\ Idle

\* One types into an input, or sets a box.
Edit(i, x) ==
    /\ Panel /\ i \in DOMAIN page.form /\ x \in DOMAIN page.form[i]
    /\ \/ section \in {"providers", "limits"} /\ x # "cleared"
       \/ section = "themes" /\ i \in page.open /\ (i = Default => x # "collaborator")
    /\ Cardinality(page.edited \cup {<<i, x>>}) <= MaxEdits
    /\ \E f \in Form(section) :
        /\ \A y \in DOMAIN f \ {x} : f[y] = page.form[i][y]
        /\ page' = [page EXCEPT !.form[i] = f, !.edited = @ \cup {<<i, x>>}]
    /\ Idle

clearApiKeyInput ==
    /\ Panel /\ section = "providers" /\ page.has["config"].key # "none"
    /\ page' = [page EXCEPT !.form["config"] = [@ EXCEPT !.key = "", !.cleared = TRUE],
                            !.edited = @ \cup {<<"config", "key">>}]
    /\ Idle

testProviderConnection ==
    /\ Panel /\ section = "providers"
    /\ Send([page EXCEPT !.test = "running"], [NoCall EXCEPT !.op = "test"])

Change(i, set, edits, gone) ==
    Send(page, [NoCall EXCEPT !.op = "save", !.item = i, !.set = set, !.edits = edits, !.gone = gone,
                              !.base = page.seen])

Edits(i) == {x \in {"interval", "model", "key", "budget"} \cup DOMAIN NewTheme : <<i, x>> \in page.edited}

Save(i) ==
    LET f == page.form[i] IN
    Change(i, Sent(section, i, f), Edits(i),
           {x \in Edits(i) : \/ x = "key" /\ f.key = "" /\ f.cleared
                             \/ x = "ga" /\ f.ga = ""})

saveProviderSettings == Panel /\ section = "providers" /\ Save("config")
saveLimitSettings == Panel /\ section = "limits" /\ Save("config")
resetLimitSettings ==
    Panel /\ section = "limits" /\ Change("config", [budget |-> "default"], {"budget"}, {})

updateThemeFromUI(t) == Panel /\ section = "themes" /\ t \in page.open /\ Save(t)

\* The button holds the value it sends: the opposite of the one it was drawn for.
toggleTheme(t, x) ==
    /\ Panel /\ section = "themes" /\ t \in DOMAIN page.has /\ (t = Default => x # "collaborator")
    /\ Change(t, [y \in {x} |-> ~page.has[t][x]], {x}, {})

createThemeFromUI ==
    Panel /\ section = "themes" /\ Send(page, [NoCall EXCEPT !.op = "create", !.set = NewTheme])

deleteThemeFromUI(t) ==
    /\ Panel /\ section = "themes" /\ t \in DOMAIN page.has \ {Default}
    /\ Send(page, [NoCall EXCEPT !.op = "delete", !.item = t])

createApiToken ==
    Panel /\ section = "tokens" /\ Send(page, [NoCall EXCEPT !.op = "mint"])

revokeApiToken(k) ==
    /\ Panel /\ section = "tokens" /\ k \in DOMAIN page.form /\ page.form[k].revoke
    /\ Send(page, [NoCall EXCEPT !.op = "revoke", !.item = k])

\* The section is opened anew; only when nothing is under way (a bound).
initAdminSection ==
    /\ calls = {} /\ page' = NewPage /\ calls' = Get(0)
    /\ version' = 0 /\ missed' = FALSE /\ UNCHANGED <<section, server, made>>

-----------------------------------------------------------------------------
(* The server                                                              *)

Done(c, i) ==
    calls' = (calls \ {c}) \cup {[NoCall EXCEPT !.n = c.n, !.op = c.op, !.live = c.live, !.item = i,
                                     !.stage = "done", !.got = server', !.version = version']}

Writes(c, i, s) == server' = s /\ version' = version + 1 /\ Done(c, i)

\* The server's settings with those of a new item.
With(i, d) == [j \in DOMAIN server \cup {i} |-> IF j = i THEN d ELSE server[j]]

ServerDoes(c) ==
    /\ c.stage = "sent" /\ UNCHANGED <<section, page, made, missed>>
    /\ \/ c.op \in {"get", "test"} /\ UNCHANGED <<server, version>> /\ Done(c, c.item)
       \/ c.op = "save" /\ c.item \in DOMAIN server
          /\ Writes(c, c.item, [server EXCEPT ![c.item] = Stored(section, @, c.set)])
       \/ c.op = "create" /\ \E t \in Themes \ DOMAIN server : Writes(c, t, With(t, c.set))
       \/ c.op = "delete" /\ c.item \in DOMAIN server
          /\ Writes(c, c.item, [i \in DOMAIN server \ {c.item} |-> server[i]])
       \/ c.op = "mint" /\ \E k \in Tokens \ DOMAIN server : Writes(c, k, With(k, [revoked |-> FALSE]))
       \/ c.op = "revoke" /\ c.item \in DOMAIN server /\ ~server[c.item].revoked
          /\ Writes(c, c.item, [server EXCEPT ![c.item].revoked = TRUE])

-----------------------------------------------------------------------------
(* Answers                                                                 *)

Answered(c, p, more) ==
    /\ page' = p
    /\ calls' = (IF p.test = "none" THEN Detached(calls \ {c}) ELSE calls \ {c}) \cup more
    /\ UNCHANGED <<section, server, version, made>>

Overtaken(c) == missed' = (missed \/ c.version < page.seen)
Unheard(c) == missed' = (missed \/ c.stage = "done")

\* Mutant: a list that cannot be had is asked for again.
GetFails_Again(c) ==
    c.op = "get" /\ Answered(c, page, Get(c.n)) /\ missed' = TRUE

\* After a revocation the old list is drawn over the error.
GetFails(c) ==
    /\ c.op = "get" /\ missed' = TRUE
    /\ Answered(c, IF c.item = None THEN [page EXCEPT !.shown = "error"] ELSE Draw(page), {})

GetAnswered(c) ==
    c.op = "get" /\ c.stage = "done" /\ Answered(c, Take(page, c), {}) /\ Overtaken(c)

SettingsAnswered(c) ==
    /\ c.op = "save" /\ section # "themes" /\ c.stage = "done"
    /\ Answered(c, Take(page, c), {}) /\ Overtaken(c)

\* Refused or not answered: the inputs are drawn again from the old settings.
SettingsFail(c) ==
    c.op = "save" /\ section # "themes" /\ Answered(c, Draw(page), {}) /\ Unheard(c)

\* Mutant: the list is not asked for again.
ThemeAnswered_NoList(c) ==
    /\ section = "themes" /\ c.op \in {"save", "create", "delete"} /\ c.stage = "done"
    /\ Answered(c, page, {}) /\ UNCHANGED missed

ThemeAnswered(c) ==
    /\ section = "themes" /\ c.op \in {"save", "create", "delete"} /\ c.stage = "done"
    /\ Answered(c, Loading(page), Get(c.n)) /\ UNCHANGED missed

\* An alert; what is drawn stays.
ThemeFails(c) ==
    section = "themes" /\ c.op \in {"save", "create", "delete"} /\ Answered(c, page, {}) /\ Unheard(c)

MintAnswered(c) ==
    /\ c.op = "mint" /\ c.stage = "done" /\ UNCHANGED missed
    /\ Answered(c, Loading([page EXCEPT !.fresh = c.item]), Get(c.n))

RevokeAnswered(c) ==
    /\ c.op = "revoke" /\ c.stage = "done" /\ UNCHANGED missed
    /\ Answered(c, Loading(page), {[g EXCEPT !.item = c.item] : g \in Get(c.n)})

TokenFails(c) == c.op \in {"mint", "revoke"} /\ Answered(c, Draw(page), {}) /\ Unheard(c)

TestAnswered(c) ==
    /\ c.op = "test" /\ UNCHANGED missed
    /\ Answered(c, IF c.live THEN [page EXCEPT !.test = "answered"] ELSE page, {})

Answers(c) ==
    \/ GetFails(c) \/ GetAnswered(c) \/ SettingsAnswered(c) \/ SettingsFail(c)
    \/ ThemeAnswered(c) \/ ThemeFails(c) \/ MintAnswered(c) \/ RevokeAnswered(c) \/ TokenFails(c)
    \/ TestAnswered(c)

-----------------------------------------------------------------------------

User ==
    \/ \E i \in DOMAIN page.form : \E x \in DOMAIN page.form[i] : Edit(i, x)
    \/ clearApiKeyInput \/ testProviderConnection \/ initAdminSection
    \/ saveProviderSettings \/ saveLimitSettings \/ resetLimitSettings \/ createThemeFromUI \/ createApiToken
    \/ \E t \in Themes \cup {Default} :
        \/ showThemeEditForm(t) \/ updateThemeFromUI(t) \/ deleteThemeFromUI(t)
        \/ \E x \in {"is_public", "collaborator", "presentation"} : toggleTheme(t, x)
    \/ \E k \in Tokens : revokeApiToken(k)

PanelsNext == User \/ \E c \in calls : ServerDoes(c) \/ Answers(c)

\* Every call is answered or fails.
PanelsSpec == PanelsInit /\ [][PanelsNext]_panelVars /\ WF_panelVars(\E c \in calls : Answers(c))

-----------------------------------------------------------------------------
(* Properties                                                              *)

PanelsTypeOK ==
    /\ section \in Sections
    /\ DOMAIN server \subseteq Items(section) /\ server \in [DOMAIN server -> Settings(section)]
    /\ page.shown \in {"loading", "panel", "error"} /\ page.test \in {"none", "running", "answered"}
    /\ DOMAIN page.has \subseteq Items(section) /\ page.has \in [DOMAIN page.has -> Settings(section)]
    /\ DOMAIN page.form = DOMAIN page.has /\ page.form \in [DOMAIN page.form -> Form(section)]
    /\ page.open \subseteq DOMAIN page.form /\ {e[1] : e \in page.edited} \subseteq DOMAIN page.form
    /\ page.fresh \in Tokens \cup {None} /\ page.seen \in 0..version
    /\ made \in 0..MaxCalls /\ Cardinality(calls) <= MaxCalls + 1 /\ missed \in BOOLEAN

\* Once nothing is under way, the panel shows what the server has, whatever was
\* saved and toggled at the same time, unless an answer was lost or overtaken by
\* a later one (save...Settings, toggleTheme..., createApiToken, revokeApiToken).
PanelIsServer == page.shown = "panel" /\ calls = {} /\ ~missed => page.has = server

\* A field of a provider that is stored as one value and drawn as another.
DrawnAsDefault(x, d) == (x = "interval" /\ d[x] = "zero") \/ (x = "model" /\ d[x] = "")

\* A form sends all of its inputs.  If nothing was written since its panel was
\* drawn, the save changes only what was edited in it: no key is lost, no toggle
\* undone, no other item touched.  The providers have two exceptions, a stored zero
\* and a text stored empty: they are drawn as the default, so the next save sends
\* and stores that (render...DOM, save...Settings, updateThemeFromUI).
SaveChangesOnlyEdits ==
    [][\A c \in calls : c.op = "save" /\ c.stage = "sent" /\ c.base = version
                        /\ version' # version /\ c \notin calls' =>
            \A i \in DOMAIN server : \A x \in DOMAIN server[i] :
                \/ server'[i][x] = server[i][x]
                \/ i = c.item /\ (x \in c.edits \/ DrawnAsDefault(x, server[i]))]_panelVars

\* What was emptied in a form and saved is gone from the server: a deleted key
\* of a provider (clearApiKeyInput) and the measurement id of a theme
\* (docs/design/THEME_FQDN_REVERSE_PROXY_DESIGN.md:136).
EmptiedIsGone ==
    [][\A c \in calls : c.op = "save" /\ c.stage = "sent" /\ version' # version /\ c \notin calls' =>
            \A x \in c.gone : server'[c.item][x] \in {"none", ""}]_panelVars

\* A panel that loads is drawn or shows an error.
PanelComesBack == page.shown = "loading" ~> page.shown # "loading"
===============================================================================
