# A verification project for claire

claire is a personal knowledge base. Messages (URLs, files, texts) arrive by a
Telegram bot or an HTTP API; each is fetched, stored as a document, read by a
language model, and turned into entities and relations of a graph. One reads the
graph in a web client, which also administers the server, and a syndication page
connects the knowledge base to accounts on federated networks.

This directory holds TLA+ models of the parts whose order of events is hard to get
right, TLC runs that check them on small instances, and TLAPS proofs for all
instances. `PROJECT.json` lists the components, the runs, the mutants, the source
lines of every definition, the findings, the hazards and the theorems.

All paths below are relative to `src/src/claire/` unless they start with `src/`.

## Contents

| Module | Models | Builds on |
|---|---|---|
| `Library` | the tables of one theme and the helpers of `store/db.py` that commit | standard modules |
| `Ingest` | jobs: the pipeline, re-extraction, intake, replay, recovery, manual retry, crashes | `Library` |
| `Purge` | `purge_document_cascade`, `heal_graph`, `untombstone`, their crashes | `Library` |
| `KnowledgeBase` | all of it over one database; the properties | `Ingest`, `Purge`, `RetryPolicy` |
| `RetryPolicy` | abstract specification: what recovery owes a message | `Naturals` |
| `IngestDesk` | one tab of the web client while jobs run: streams, polls, graph loads, cockpit | |
| `DocumentList` | the list of documents: search boxes, three kinds of search, bookmarks, hidden documents, the check box that hides, themes, the right to write | |
| `Inspector` | the panel beside the graph, the reader, the popup, isolated nodes, paths, the collection | |
| `Presentations` | the tab with a document's slides: generating, polling, showing, sharing, and the changes of documents behind it | |
| `ManagePanels` | the console's panels of providers, limits, themes and API tokens, and the server's side of them | |
| `FediClient` | the client of the fediverse: posts, accounts, relations | |
| `KnowledgeInbox` | the inbox of the syndication page and what is published from it | |
| `SyndicationView` | what the syndication page's two tabs show, the links between them, and the clicks made before the page is drawn for a new theme | |
| `SyndicationLive` | the syndication page over the server's theme databases | |
| `MC...` | constants and symmetry for a run of the module they name | the module, `TLC` |
| `KnowledgeBaseProofs`, `DocumentListProofs`, `InspectorProofs`, `PresentationsProofs`, `KnowledgeInboxProofs`, `SyndicationViewProofs` | the theorems and their proofs | the module they name, `TLAPS` |
| `DeskPanelsProofs` | the same for the desk and the console's panels | `IngestDesk`, `ManagePanels`, `TLAPS` |
| `LiveClientProofs` | the same for the live page and the client | `SyndicationLive`, `FediClient`, `TLAPS` |

## The system and its parts

### On the server

* **Theme database** (`store/db.py`). One SQLite file with `documents`, `raw_inbox` (one
  row per message: status, document_id, attempts, next_retry_at, error),
  `purged_tombstones`, `entities` and `relations` with the ids of their sources,
  `extractions`, two queues, snapshots, shares. Correct when rows and documents agree, no
  accepted document is forgotten and purged things do not return.
* **Ingest pipeline** (`ingest/pipeline.py`, `ingest/service.py`). A job writes its inbox
  row, fetches, screens tombstones, passes three dedup gates (same hash, same URL,
  near-identical body), stores or updates a document, extracts with the model, resolves
  entities, may enqueue a one-hop expansion, and writes the final status. Hard: the steps
  are minutes apart and each sees the database as it is by then.
* **Recovery** (`recover_failed`, `replay_failed`, `retry_inbox`). Reads rows, closes the
  connection and works from that snapshot with bounded attempts and backoff. Correct when
  every failed row settles and none is tried more often than the cap.
* **Purge, heal, untombstone** (`store/db.py`, `cli.py`). A sequence of commits that takes
  a document, all that names it and its files away and marks its fingerprint, while jobs
  run.
* **Refresh queue**, **expand queue and merge**, **entity resolution**, **OAuth**,
  **sessions, invitations, OIDC**, **server tier** (limits and budgets), **raw artifacts**,
  **active-job files**, **themes, accounts and the service pool**, **fetchers**, **model
  providers**, **search**, **rendering**, **HTTP and MCP routes**, **Telegram bot**,
  **bundles and telemetry**. See "Not modelled".

Several containers (`bot`, `api`, `recover-loop`, `refresh-loop`, `expand-loop`) and the
commands of an operator work on one file at the same time. There are no messages between
them, and nothing but the file's locks orders them: most helpers of `store/db.py` commit
before they return, documents carry no UNIQUE constraint on URL or hash, and no lock spans
a job.

### In the browser

JavaScript runs one callback at a time; between two callbacks anything may have changed.
The scripts are in `static/js/`.

* **Ingest desk** (`app.js`). State: the stream of the tab's own job, the poll timer and
  what it follows, the suspended graph, the middle view, the cockpit. Correct when polling
  never dies, a stream that ends in any of its five ways leaves nothing behind, and the
  graph comes back.
* **Document list and searches** (`app.js`). State: the loaded documents and their flags,
  two search boxes, a debounce timer, `currentSearchSeq`, the results, the marks in the
  graph, the check box that hides a document. Correct when only the last search counts and
  the list follows the documents.
* **Inspector and reader** (`app.js`, `reader.js`). State: one panel that everything writes
  over, the active and the read document, popup, isolated node, path mode, collected nodes.
  Correct when late answers do not write over other things and what is offered is allowed.
* **Presentations tab** (`reader.js`, and behind it `presentation/service.py`). State:
  `presPollTargetId` and a timer shared by all documents, one frame, one button, one share
  box, and whether a document has slides, which the list and the document held both say.
  Correct when the button writes what the tab offers and does not stay at work.
* **Console panels** (`manage_panels.js`, `console_admin.js`, and behind them `api/server.py`,
  `provider_manager.py`, `ingest_limit_manager.py`, `store/theme.py`). State: settings last
  received, inputs drawn from them. Correct when a save changes what was edited and the
  panel shows what the server has.
* **Syndication page** (`syndication_app.js`, `syndication_client.js`,
  `syndication_peers.js`, `syndication_live.js`). A prototype that plays the server's part
  for the federated networks, and a live page over the server's databases. State per
  theme: items, entities, posts, accounts, relations, feeds; selections of two tabs; syncs
  under way.
* **Graph engine** (`graph/`), **settings pages and the console of syndication**,
  **vendored scripts**. See "Not modelled".

The parts of the page share the globals of one document. `IngestDesk` reloads the list and
the graph; the list's session (`setAccessScope`) is the inspector's; the inspector's active
document is the one the slides are of; the inbox becomes posts of the client and both lead
to one another. Each module keeps what its properties need of its neighbours and leaves
open when they act: `whoami`, `RefreshList`, expired sessions and theme changes come at any
time.

## State and actions

### Knowledge base

`Library` keeps `docs` (per document id: absent, live or purged, with URL and body),
`graph` (pairs document, body that were extracted *and* resolved), `cited` (ids that
entities and relations name as sources), `tombs`, `inbox` and `expandq`. `Ingest` adds one
`job` and one `batch` (the snapshot it works from) per worker; `Purge` one record per
operator command. A body stands for its `content_hash`; similarity and bundling are
relations given as constants, because the gates only ask whether they hold.

Document ids are uuid4 in the code: an id is never used again, so a purged id stays
`purged`. Inbox ids are AUTOINCREMENT: `log_inbox` takes the least absent row.

An action ends where the code commits or begins a slow call. Reads and decisions between
two such points are one action, with these exceptions, each a step of its own: the screen,
each dedup gate, the update and the insert of the pipeline; the reading of ids and the
pruning of `heal_graph`; the reading, the merge rollback and the deleting transaction of a
purge.

| Action | Code |
|---|---|
| `Submit` | `ingest` up to `log_inbox`, and `_reject_ingest` for policy errors |
| `ListFailed`, `Replay` | `replay_failed`: reads, then a new row per payload |
| `Claim`, `TakeNext`, `RecoverRecord` | `recover_failed`: snapshot, branch on document_id, `record_recovery_attempt` |
| `Retry`, `RetryRecord` | `retry_inbox` |
| `Load` | `_retry_extract` |
| `Fetch` .. `Finish` | the pipeline in the order of its code |
| `BackoffElapses` | `next_retry_at` passes |
| `PurgeBegin` .. `HealPrune` | `purge_document_cascade`, `heal_graph` (also `doctor --heal`) |
| `Untombstone` | `remove_tombstones` of any set a target or pattern may select |
| `Crash`, `PurgeCrash` | the process dies, or an exception nobody catches; the database stays |

Failures the code catches are alternatives of the step where they arise. `job[w].held`, the
tombstones in force without a break since a job began, is a history variable.

`RetryPolicy` is the abstract specification: a message is accepted, answered once, and an
error is tried again at most `Budget` times until it settles or is given up. The refinement
maps a row's status to a phase and `MaxAttempts - attempts` to the tries left.

### Pages

In the web client's modules the page is one record (or a few variables), an operator named
like a JavaScript function maps that record to the next one, and an action applies those
functions the way a click, a timer or an answer does. So the code's nesting of calls
(`switchKnowledgeTheme` resets the workspace, which overtakes searches, leaves the reader
and draws the list) is a composition of operators, and all of it is one step. A request
is kept as an element of a set or bag with what the page remembers in it (a sequence
number, the document it was for), and an answer carries what the server had when the
request reached it: loads and syncs have a step for that.

| Module | Clicks, keys and timers | Requests under way | Deliberate abstractions |
|---|---|---|---|
| `IngestDesk` | submit, re-ingest, regenerate, view changes, poll timer, timer of the second | stream, statistics, graph loads | of the server only which jobs run; whether counters differ is left open |
| `DocumentList` | typing, Enter, closing results, toggles of views, hidden and pinned, the check box of a document's panel, theme change | searches (sent, then a body to read), toggles, loads, `whoami` | order, days, scores; a result is the set of its documents; a document is read and drawn in one step |
| `Inspector` | nodes, documents, popup timers, isolation, path ends, collecting, purging, home, Escape | nodes, popups, documents, reader, polls, synthesis, research, statistics | texts, camera, menus, dialogs; any node is a node of any document |
| `Presentations` | tab, documents of the list and of the picker, home, theme, generate, share | POSTs, polling chains, links, one document for the panel | messages, slide numbers, printing |
| `ManagePanels` | edits, saves, toggles, create, delete, mint, revoke, test, opening a section | one record per call, whose stage says how far the server is | a number and a text stand for the fields of the providers, one field for those of the limits; messages and copy buttons |
| `FediClient` | every handler that changes posts, accounts or relations | none: handlers run to their end | filters, polls, bookmarks; likes count the way boosts do |
| `KnowledgeInbox` | sending to the inbox, feeds, ingest, tags, typed entities, publish, import, reshare, retract, reload | syncs of a theme | texts; items stand for URLs |
| `SyndicationView` | tabs, themes, feeds, filters, items, posts, searches, links, reload | the sync after which a theme is drawn (`late`, `Redraw`) | which items and posts there are is fixed |
| `SyndicationLive` | themes, read marks, selecting, ingest, dispatch, reload | syncs, read marks, forms | settings, filters, pins |

`ManagePanels` has the server in it too: `update_config`, `update_theme` and the token
routes say what a body of fields does to the stored settings. `Presentations` has the
background tasks of `presentation/service.py` as the status route reports them
(`ServerStarts`, `ServerEnds`, `ServerRefuses`): a task waits its turn, and until then the
status of an earlier try is still told. In the other page modules the server only answers,
refuses or stores.

Three places where the page's state and what one sees part are kept apart on purpose.
`changeTheme` of the syndication page changes the state at once and draws only after two
awaits: while `late` holds, the rows, links and boxes of the former theme can be clicked and
act on the new theme's state. A document's check box is set by the one who clicks it and
sent as it stands, not as the list has the document. Whether a document has slides changes
in the list behind the open tab, which only some of the changes draw again.

## Runs

Every `pass` run explores its whole state space. Time is on two workers.

| Run | Properties | Instance and bounds | Distinct states, time |
|---|---|---|---|
| `purge` | `StoreRespectsTombstones` | 1 row, 2 documents, 1 URL, 2 bodies; an intake that may die, a manual retrier, an operator who purges, heals and untombstones; symmetry | 0.37 M, 10 s |
| `liveness` | `EveryDocumentAccounted`, `ExhaustedIsFailed`, `KeepsFairRetryPolicy` | 2 rows, 2 documents, 2 URLs, 3 bodies (one near to both others, one URL bundling the other); an intake that also replays, the recovery loop, 2 attempts | 0.54 M, 45 s |
| `desk` | `PollingSurvives`, `StreamAccounted`, `BlankOnlyWhileRegenerating`, `DeskSettles` | an own job and one of another client in another theme; 1 request for statistics besides the timer's poll, 1 load of the graph | 0.55 M, 55 s |
| `doclist` | `ListFollowsDocuments`, `FlagsSettle`, `LastSearchWins` | 2 themes with a document each, 1 text, the hidden flag, of one document, 3 calls, the views of the graph and the reader | 1.8 M, 75 s |
| `inspector` | `ControlsTrue`, `PopupIsOwn`, `LoadingIsAsked`, `LateDocsAreActive` | 2 documents, 2 nodes, 2 calls beside those that follow from them (the links back to a document or node are followed when nothing is under way); symmetry | 0.84 M, 30 s |
| `presentations` | `WorkIsUnderWay`, `ButtonWritesOffer`, `KnownSlidesExist`, `GenerationEnds` | 2 documents, 2 presses, 1 poll a chain, 1 document for the panel under way | 1.0 M, 100 s |
| `console` | `PanelsTypeOK`, `PanelIsServer`, `SaveChangesOnlyEdits`, `PanelComesBack` | each of the four sections, 2 themes, 2 tokens, 2 calls, 1 edit | 1.2 M, 110 s |
| `synd_client` | `ClientTypeOK`, `BoostsCounted`, `ReadOnlyStaysSilent` | 2 accounts of one server, 2 authors, 3 posts, public and private theme | 90 s |
| `synd_inbox` | `TypeOK`, `OneItemPerUrl`, `EntitiesNeedDocuments`, `DocumentsStayHome`, `BooksBalance`, `RetractionRespected` | 2 themes, 2 items in all, 3 posts a theme, 4 URLs, 3 accounts (one without quotes, one of another protocol), 1 publication whose public page is a document of the other theme, an entity in the database of the first, 1 reshare, 1 sync | 0.68 M, 90 s |
| `view` | `ShownIsOwn`, `TimelineExists`, `SearchCanBeLeft`, `LinkShowsTarget` | 2 themes, 3 accounts, 3 items, 4 posts (one a reply), 2 publications of a user, 3 feeds, the text filter | 0.24 M, 65 s |
| `live` | `ThemesStayApart`, `SelectedIsAsked`, `ReadReachesServer`, `LoadingEnds` | 2 themes, 3 documents of which 2 are stored at first, 2 syncs under way | 0.68 M, 95 s |
| `console_emptied` | `EmptiedIsGone` (violated) | themes section, 1 call, 1 edit | 1 s |

What the properties say, in short; the modules state each next to the code it is about.

* `StoreRespectsTombstones`: no job stores what a tombstone forbade all the time since the
  job began. `EveryDocumentAccounted`: a live document's body is in the graph, or in the
  hands of a job, or a failed row names it. `ExhaustedIsFailed`: a row that used up its
  attempts is failed for good. `KeepsFairRetryPolicy`: the refinement, with its fairness.
* `PollingSurvives`: a poll is scheduled or under way. `StreamAccounted`: the page is busy
  exactly as long as its stream lives. `BlankOnlyWhileRegenerating`: the graph is not left
  suspended. `DeskSettles`: when all jobs are over the page stops following and spinning.
* `LastSearchWins`: results and marks are taken from the last search only, and not if
  something was typed or entered since that ends it; the variable `latest` is the search
  started last, or none once such a thing has happened. `ListFollowsDocuments`: the list is
  drawn from what the page holds. `FlagsSettle`: with no toggle under way the flags are the
  server's, except for the documents in `muddled`: those of which a toggle met another or a
  load, or lost its answer, and those whose check box asked for what was there already and
  failed, since the refusal then turns the flag over (`app.js:3957`).
* `LateDocsAreActive`: a late document does not take another's panel. `ControlsTrue`: no
  write buttons for a reader, the buttons and notices tell the state. `PopupIsOwn`,
  `LoadingIsAsked`: what is open or loading is so for a reason.
* `WorkIsUnderWay`: the button at work, or the box that says a link is being made, has a
  call or a chain that counts. `ButtonWritesOffer`: the button acts on the chosen document
  and the tab offers slides of the one it was drawn for, and these are one.
  `KnownSlidesExist`: no slides are believed that the server does not have.
  `GenerationEnds`: the two-minute timeout.
* `PanelIsServer`: at rest a panel shows what the server has unless an answer was lost or
  overtaken. `SaveChangesOnlyEdits`: a save from an up-to-date panel changes what was
  edited, and else only a zero or an empty text that was drawn as the default
  (`DrawnAsDefault`). `PanelComesBack`: loading ends.
* `BoostsCounted`, `ReadOnlyStaysSilent`: boosts are counted once by whatever way; an
  account without write scopes says and hides nothing. `OneItemPerUrl`: a second item for a
  URL comes from the form or from the import of a publication only, which ask nobody.
  `EntitiesNeedDocuments`: a name becomes an entity from the database or in the document of
  an ingested item, never by standing among the tags of one in the inbox.
  `DocumentsStayHome`, `BooksBalance`, `RetractionRespected`: documents in their theme,
  counts that agree with the books, withdrawn publications left alone.
* `ShownIsOwn`, `TimelineExists`, `SearchCanBeLeft`, `LinkShowsTarget`: once the page is
  drawn for its theme nothing of another theme is shown and the timeline exists, whatever
  was clicked before; a search does not remember a search; a link drawn for the shown theme
  shows its target whatever filtered it. While `late` holds, the first two are false in the
  code and not claimed.
* `ThemesStayApart`, `SelectedIsAsked`, `ReadReachesServer`, `LoadingEnds`: lists hold
  documents of their theme, the reader's text is there or asked for, read marks get sent,
  loading ends.

The types are a property of a run where a mutant can break them and they say more than
where a value is from: of `console` (a form stands for an item the page has), `synd_client`
(scopes and relations are of accounts the theme has) and `synd_inbox` (a post knows no item
that is not there). The other modules' types are proved.

### Why the bounds are enough

Two of a kind are what overtaking, mixing up and leaving for another need: two themes, two
documents, two nodes, two presses of a button, two syncs. A third call lets a search meet
a toggle and a load (`doclist`), a third post lets a post be boosted, published and
answered (`synd_client`). `MaxAttempts = 2` has a first failure, a failure at the cap and
one beyond if the code allowed it; two rows let a replay or duplicate follow a message, two
bodies of a URL are an in-place update, three bodies are near in a chain. `doclist` leaves
bookmarks out of the instance and keeps the hidden flag, which has all of a bookmark's
steps, also takes documents off the list and has the check box; the flags of one of the two
documents change (`Changed`), the other is there to be loaded and searched. It leaves out the
view of the stream, too, whose search box only keeps its text until another view takes it up.
In `synd_inbox` the database of one theme has an entity and that of the other a document,
which are the two things an answer may bring. The one filter of `view` is the text's: it
draws the list alone, and the others draw the page, as any click does. The bounds count what one starts; what the
page starts by itself (a panel's document after an expired session, the next poll, a
panel's new list) is not bounded by them. One poll a chain is enough in `presentations`: a
chain can be asked, answered or lost, go on, be overtaken, stopped and run out of its time;
more polls repeat this. Only `attempts` and the counters of the
syndication pages are unbounded in the code.

Deadlock is checked in all runs but three. `purge` and `liveness` stop when all messages
are handled and nobody sends or purges anything, `synd_client` when all posts are made and
their handlers have nothing left to change: these are ends of a session, not of the
program.

Symmetry is used in `purge` (documents, bodies, URLs and intakes, which are only compared)
and `inspector` (documents and nodes), never with a leads-to property.

### Fairness

* `liveness`: a worker that has a job goes on (fetches and model calls have timeouts and
  their errors are caught); the recovery loop comes back for due rows and for its batch
  (`cli.py` `cmd_recover_loop` sleeps an interval and catches every exception); a backoff
  ends. Nobody has to send, replay, retry, purge or crash.
* `desk`: the poll timer fires; polls are answered, and not refused for ever (strong
  fairness, because other callbacks come in between). A poll that fails each time shows
  nothing about jobs, so `DeskSettles` could not hold without it.
* `presentations`, `live`, `console`: a request is answered or fails, as `fetch` does.
  Which of the two, and in which order, is open.
* The other runs have safety properties only and no fairness.

### Mutants

Every property of a passing run has a mutant: an operator `X_Something` beside the
definition `X` it would replace, a bug this code could have had (a dropped comparison with
the sequence number, a flag that is not reset, a list that is not drawn again), for which
TLC finds the property violated with the same configuration.

## What is proved

For every value of the constants that satisfies the named assumptions of its module.

* **`KnowledgeBaseProofs`.** `TypeCorrect`: the inductive `TypeInv`
  adds to `TypeOK` that live documents have a URL and body, existing rows a URL, and a job
  or purge the fields its step uses; without these an action could write `None` into a
  tombstone. `AttemptsStayBounded`: with at most one recoverer no row is tried more than
  `MaxAttempts` times. The counter is incremented without a look at its value, so
  `AttemptsInv` adds `RowsInHand`: the rows of a batch and of its job differ and each has
  attempts left. With two recoverers each may pass the cap by one. `TombstonesRespected`:
  by `HeldInv`, a job's `held` tombstones are in force and none matches a job past the screen.
  The other three say what TLC checks on two rows for any number of them, with the
  hypotheses of that run, which are needed: one recoverer, no manual retries.
  `ExhaustedRowsFail`: `FollowInv` adds that a job of the recovery loop has the attempts of
  its row in hand, that no two intakes write one row, and what a job may be about to write.
  `RecoveryKeepsPolicy` (no purges either, but crashes): from these, every step is a step of
  `RetryPolicy` or leaves what senders are owed. `NoDocumentForgotten` (neither purges nor
  crashes): by `KeptInv` each live document's body is in the graph, being extracted, or
  kept by a row that will be retried; `KeptStep` asks of a step only what it does
  to its own document and row.
* **`DeskPanelsProofs`, the desk.** `TypeCorrect`, `PollingNeverStops`, `StreamsAccounted`,
  `GraphNeverLeftBlank`. The three invariants with the types are inductive together; each
  action has a step in which every one of them is shown for every way a stream or poll ends.
* **`DeskPanelsProofs`, the panels.** `PanelsTyped`, `PanelAtRest`, `SavesChangeOnlyEdits`.
  Neither property is inductive: `PanelIsServer` speaks of rest only, and what a save changes
  was settled when its form was drawn. The argument goes by versions. The server's writes
  are numbered; `page.seen` is the last one the page heard of, and an answer carries the
  number it was made at. `PanelsInv` says that page and answers have what the server had at
  their number (`Loaded`, `CallTrue`); that what was not marked as edited is as drawn
  (`FormTrue`), so that a save sent from a current panel changes its edits only
  (`OnlyEdits`, kept until the server writes); and that, if nothing was missed, either the
  page is current or an answer made after the last write, or a question the server has not
  answered, is under way (`Current`). With no call under way only the first is left, which
  is `PanelIsServer`. The four sections enter through lemmas about what their forms draw,
  send and store (`DrawnTyped`, `SentTyped`, `SentEdits`). TLC checked `PanelsInv` on the
  instance of `console` before it was proved.
* **`DocumentListProofs`.** `TypeCorrect`, `ListIsCurrent`, `LastSearch`, `FlagsAgree`. The page's
  functions are shown to keep `Fits` (types, a live search has the number the counter
  stands at, the list is current) and to be `Calm` (take no results or marks but those there
  were); an action composes such functions. Between a change of documents and the drawing
  the page is `Loose` only, which is why `Fits` alone does not compose. Only
  `SearchRead` is not calm, and there the live search is the last one. That only the latest
  is live is kept with `Silent`: what ends a search leaves none live. `FlagInv`, for
  `FlagsAgree`, says what a toggle under way owes: it is the document's only one, the page
  shows its value, the server has it once it is done or if it asks for no change, and every
  list of documents on its way, being read before or after, has the server's flags unless
  its document is `muddled`. Of the check box it needs nothing, as a toggle is whatever it
  sends.
* **`InspectorProofs`.** `TypeCorrect`, `ControlsAreTrue`, `PopupsAreOwn`,
  `LateDocuments`, `LoadingsAreAsked`. `Fits` joins the types, the controls and the popup
  with what they lack to be inductive: a node's panel is that of `page.node`, or
  `toggleNodeIsolation` would leave its button as it is. Functions that write over the panel need less before them (`Rest`) than
  they give. The calls are a bag, whose members are requests; `Asked` says that what the
  panel and the reader wait for is one of them, and is kept by every function for itself.
* **`PresentationsProofs`.** `TypeCorrect`, `WorkStaysUnderWay`, `OffersAreWritten`,
  `SlidesExist`. Each invariant is inductive with the types: a step that takes away a
  call or a chain that counts puts another in its place or ends the work; a step that draws
  the tab draws the chosen document or no offer, and one that chooses another draws it or
  finds the tab closed; a mark is set from what the server has, and it keeps what it has.
* **`SyndicationViewProofs`.** `TypeCorrect`, `NothingForeignIsShown`, `TimelinesExist`,
  `SearchesCanBeLeft`, `LinksLand`. `TimelineExists` and that no search is remembered are
  inductive with the types and what drawing leaves: a page that is not late is drawn for
  its tab and theme, an account of another theme is hidden by the inbox, a shown post is of
  the theme (`PageIsDrawn`, `AccountIsHidden`, `PostIsOwn`). Drawing makes an account, a
  timeline and a post of the theme out of whatever was clicked (`SelectionEnsured`,
  `PostKept`), and that gives `ShownIsOwn`. The selection's functions choose the newest of a
  set, which exists by well-founded induction over the naturals (`LeastExists`). A link's step is shown to end
  on its target, since drawing keeps a timeline there is and a post of the theme. That
  takes two assumptions on the page's data: no post is in a column of the kind that manages
  an account nor is that an account's first, and the replies of a thread end
  (`ViewAssumption`, `ThreadAssumption`).
* **`LiveClientProofs`, the live page.** `TypeCorrect`, `ThemesApart`, `ReadMarksReach`,
  `SelectionIsAsked`. An answer is as good as what the server read, so the invariant speaks
  of the bag of answers too: they hold documents of their theme, and what they say was seen
  the server has marked. For `SelectionIsAsked`, `Asks` says whose sync or answer will ask
  for the selected document.
* **`LiveClientProofs`, the client.** `ClientTyped`, `BoostsAreCounted`, `ReadOnlyIsSilent`. A
  handler asks the scopes of the account a post is shown by, or of one the author's posts
  are found at, and then acts in the name of an author. `PostAtHome` makes that the same
  account: every post is shown by a connected account, and one's own by the account that
  wrote it. Each action is shown to keep the invariant and to be `Silent`, one lemma per way
  to act.
* **`KnowledgeInboxProofs`.** `TypeCorrect`, `UrlsAreTheirItems`, `EntitiesAreDocumented`,
  `DocumentsAtHome`, `ImportForEveryCopy`, `BooksAreBalanced`, `RetractedStaysUnsent`. Every
  way into the inbox gives items that extend those there (`Extends`), and each new one
  `Fits` among those before it: another URL unless it is from the form or a publication, the
  one copy of its publication, a document of this theme only. `Becoming` shows once that
  this suffices, and every action is shown to do it. Nothing is assumed of the URLs: a
  publication's public page may be a document of any theme, a link, or a post's.
  `BooksAreBalanced` is `BooksBalance` in full. A sum over themes and modes
  cannot be reasoned about here as a fold, which needs an induction over data; so the
  property counts the acts in the books as a set (`Entries`: the n-th act of a mode in a
  theme's book), and `BooksLogged` shows that logging an act adds as many entries as it adds
  to the counts. Its second half, one import for every copy, is `ImportForEveryCopy`.

Every safety property of a passing run is stated by a theorem, the refinement's safety part
included. Only model-checked are liveness and the fair refinement (`DeskSettles`,
`GenerationEnds`, `LoadingEnds`, `PanelComesBack`, `KeepsFairRetryPolicy`), which need
fairness and ENABLED and are out of the prover's reach.

## Where code and documents disagree

The run `console_emptied` shows one: emptying a theme's measurement id and saving keeps it,
because the form sends `null` and the server takes that for a field that is not given;
`src/docs/design/THEME_FQDN_REVERSE_PROXY_DESIGN.md:136` says an empty string removes it.

Others the models allow, without a run of their own:

* A job that dies between insert and final status leaves a document that re-ingest answers
  duplicate, its extraction lost (`liveness.cfg` with `Crashable = {loop}` violates
  `EveryDocumentAccounted`).
* A purge is not atomic: merges are undone in commits before its transaction. A job past
  the screen may store what was purged meanwhile. `heal_graph` prunes with ids it read
  before. Two jobs with one URL may make two documents. Rows that an untombstone frees are
  `pending`, which no loop reads. A failed manual retry turns an exhausted row back into
  an error (`Retriers = {manual}` in `liveness.cfg` violates `ExhaustedIsFailed`).
* A poll that finds a followed job ended takes over the statistics without refreshing the
  graph, so that the next poll sees no change either.
* An account of a theme made private later, or cloned into a private one, keeps
  `canPublish` (`syndication_app.js:120`; `src/docs/design/SYNDICATION_ENDPOINT_DESIGN.md:125`).
* `syndication_client.js:8` says that tags become entities only when an item is ingested; the
  reader of an ingested item adds a typed name to the entities without ingesting
  (`AddEntity`, `syndication_app.js:898`), also one that never becomes an entity otherwise.
  `EntitiesNeedDocuments` says what is left of the sentence: every entity is the database's
  or is in the document of an ingested item.
* Deleting a provider's stored key has no effect: `clear_api_key` is only looked at where
  an `api_key` is sent, and the form sends one or the other
  (`manage_panels.js:189`, `provider_manager.py:333`).

## Known gaps of the code that no property covers

These were met while modelling. They are not claimed to hold, and the properties above are
stated so that they do not depend on them.

* *List.* Search results survive a change of the theme until they are closed. Emptying the
  box leaves a pending search alive. A result list closed between the headers and the body
  of the next search comes back. Late documents of the former theme replace the new theme's
  list. A toggle whose answer is lost after the server applied it is shown undone. A refused
  hide sets the check box to what was asked for; the next click asks for what the server has,
  and if that is refused as well the page's flag is turned over (`muddled`).
* *Inspector.* Answers for nodes, syntheses and research write over a document's panel.
  Purging the document that is loading leaves the loading message. Editing a title and
  sharing use the reader's document, which need not be the panel's.
* *Slides.* Two presses whose POSTs pass each other end the newer chain; a chain that was
  stopped while it waited for an answer comes back to life if its document is asked for
  again (`presPollTargetId` names a document, not a chain). A share link that comes late is
  written into the next document's box. The last answer of a chain may show its slides in
  the frame of a document chosen meanwhile, and the links beside the frame are then those of
  the chosen one. The list and the document held are replaced behind the open tab without
  drawing it, so an offer may stay for slides that are known to exist. A new try reads the
  failure of the earlier one while its task waits its turn, and gives up.
* *Console.* A zero for an interval or retries is drawn and sent as the default; a text that
  was emptied is stored empty, drawn as the default, and stored as that by the next save. A form
  drawn before another page's write overwrites it. A draw after a failed answer drops what
  was typed. Of two minted tokens the first one's value is never seen.
* *Client.* Muting and blocking act for the account that received any post of the author,
  so the post one blocks from may stay. Some keys do not look at restricted and
  scheduled posts, and act on the first visible entry if the selected is not in the list.
  Deleting a reply leaves its count. Own posts share one URL per server, so the second finds
  the first's item.
* *Inbox.* The subscription form adds items without a look for duplicates, and an import
  without a look whether the publication's page is an item already. After a reload
  feeds are there whose items are not. A cloned theme shares item numbers with its original.
* *Syndication page.* Until the syncs of a theme change are back, the former theme's rows,
  links and search box act on the new theme: a click selects an item or feed of the former
  theme, a link to one of its posts switches the tab and selects nothing, and a search
  remembers no timeline to go back to.
* *Live page.* A sync that read the database earlier overwrites newer read marks. Another
  theme's sync clears the loading flag. Quick pins may be stored out of order.

## Not modelled

* **Refresh queue, expand queue and merge**: only `enqueue_expand` is in `Library`. Both
  work over the same tables and would be modules over `Library` like `Purge`.
* **Entity resolution**: needs entities, aliases and observations; `graph` is its
  abstraction, and `PurgeRollback` what an undone merge takes from it.
* **OAuth, sessions, invitations, OIDC, server tier, artifacts, active-job files, service
  pool**: separate from the modelled state. Most are a transaction each; job slots and the
  pool appear as a job that may be refused.
* **Fetchers, model providers, search, rendering, bot dialogues, bundles, telemetry,
  operations scripts**: they compute or format, or are remote; `Fetch` and `Extract` allow
  their results and errors.
* **Graph engine and drawing**: numbers on a canvas; no decision of the other parts waits
  for it.
* **Settings pages, console of syndication, login dialog, identity providers**: forms
  around one request each, of the shape of the panels that are modelled.
* **Vendored scripts and the API reference**: third-party code.

Within the modelled parts: `ingest_composite` (a message made of several ends in `ingest`),
`replay-failed --limit` (it drops the tail of a batch), files and VACUUM of a purge, titles
and metadata; in `SyndicationView` read marks, check boxes, menus, the order of the list,
fonts and layout, the tab in the URL, the creation of a tag's column, and posts that are
notifications only; in `SyndicationLive` settings, filters, pins and the list of
dispatches; in `ManagePanels` the inputs of the form for a new theme (the new theme is a
fixed one), blank names, the expiry of tokens and the panel's read-only variant; in
`Inspector` texts, camera, menus of nodes, dialogs, transcripts and the browser's history.
A page of the console is modelled with one client that writes at a time; theme references
are taken to be unique.

## Plan

1. The queues: `RefreshQueue` and `ExpandQueue` over `Library`, against an abstract work
   queue in which a mark is never lost.
2. Proofs for each new module, beginning with its type and the invariant its run checks.
3. Settings, filters and pins of the live page; the console of syndication.
4. Entity resolution with `graph` as its refinement mapping; authorization against an
   abstract single-use token; the server tier's ledger and slots.
