# MIP RUM — verification project

TLA+ models of the protocols of MIP RUM, checked by TLC on small instances, and theorems about them
checked by TLAPS for every value of the constants. Definitions keep the names of the source, which
is largely in French; comments are in English. `PROJECT.json` maps every definition that models code
to its lines.

## 1. The system

MIP RUM is a real user monitoring platform. SDKs (web, mobile) and OpenTelemetry agents send OTLP to
a **collector**, which writes to **PostgreSQL**, at once or through a landing queue. A **scheduler**
aggregates, detects and purges on three cadences; a **notifier** delivers the alerts and watches the
scheduler; a **console** and a read **API** show the data and carry out erasures. The parts hardly
call one another: they meet in the database, where rows, row locks, advisory locks and the database
clock are all the coordination there is. On the devices the SDKs have memory that may vanish,
storage that may tear, and a network that may lose answers.

### Inventory

| Component | State | Operations | Interacts through | Hard behaviour | What makes it correct |
|---|---|---|---|---|---|
| Scheduler lease (`jobs/bail.mjs`, `jobs/ordonnanceur.mjs`) | one row of `scheduler_lease` per cadence | take, give back, abandon, around a job | database, its `now()` | runs that overstay, lost answers, kills, holders that come back under the same name; the row is also the heartbeat | one run in time at most; the heartbeat moves for a success only; a success is never forgotten |
| Alert delivery (`lib/dispatch-alerts.mjs`) | `alert_delivery` | reserve a line, post, mark, skip | database row lock; webhooks and Resend | transaction open during a POST, deliverers that die or lose it, replays, acknowledgement at any time | one deliverer per line, exact counts, "delivered" is true, every line settled |
| Ingestion and erasure (`privacy-barriere`, `ingest-differe`, `pg-ingest`, `queries-dsar`, `migration-v81`) | barriers, `rum_session`, its dependent tables, `ingest_raw` | deposit, direct write, drain, erase a visitor or an identity | advisory lock of the application | a batch received before an erasure and written after it; a candidate read without lock; a login in mid-visit | nothing erased comes back; others lose nothing; erasure is complete |
| Mobile SDK (`rum-mobile`) | queue, consent gate, causal window, flush, records on the device | collect, consent, refuse, flush, save, boot | storage (async), collector (HTTP) | every `await` on the storage is a place where consent, a kill or another coroutine comes in | nothing of a revoked epoch; nothing lost in silence; no lease left; no orphan |
| Durable record (`persist.ts`) | two slots and a manifest | write, erase, read | device storage, not atomic | kill inside a `setItem`, reads and writes that fail, coroutines that overlap | what is read is whole, and the last record unless a named event befell it |
| Watch of the scheduler (`veille-ordonnanceur.mjs`), verdict on cadences | episode rows, lease rows | open, alert, close an episode | lease rows | state read, then acted on, by several notifiers | one alert per episode; no verdict from a deadline |
| Web SDK (`rum-sdk`) | retry file, session, consent, buffer | persist, resend, renew | `localStorage` shared by tabs | several tabs, unload in mid-flight | roots before effects; a refusal that holds; one session |
| Service kit (`loop.mjs`, `lifecycle.mjs`) | loop and shutdown state | start, turn, stop; drain, close | process signals | stop during a turn, shutdown while a connection stays open | shutdown ends, after the last turn |
| Backfills (`lib/backfills`) | job row, checkpoint | claim, batch, pause, fail, resume | database | worker dies between batch and checkpoint | no row twice, none skipped |
| Migrator (`db/migrate.mjs`) | registry of migrations | plan, apply, pre-deploy on another connection | advisory lock | two migrators, a file half applied | each file once, in order |
| Ingestion deadlines (`ingest-un-ar`, v109/v111) | budget of the request | one round trip, fallback | database | commit with unknown outcome | an acknowledged batch is stored |
| Issues (`error-grouping`, `error-issue-workflow`, `migration-v74`) and symbolication | `rum_error`, `error_issue` and its aliases | attach a batch, reopen; resolve, ignore, comment; purge, erase | row locks, lock of the application, revision of an issue | a batch that judges an issue while a user resolves it; retention and erasure under both | users decide of what they saw and keep the last word; no regression missed; bounds cover the rows |
| Console API (`console-api`) | sessions, throttling counters | sign in, count, block, revoke | database | replicas that share counters | blocked means blocked |
| OTLP decoding, scrubbing, network guard, GeoIP, source maps, statistics | none | pure functions, single statements | — | limits and encodings | tests reach them |
| Screens, MCP tools, extension, services, scripts, infrastructure | none of their own | wiring and reads | — | — | — |

`PROJECT.json` lists the components with their files and status, and 40 hazards, each at the line
where it bites with the properties that watch it, or the reason why none does yet.

## 2. Modules and the code they model

| Module | Models | Extended by |
|---|---|---|
| `SchedulerLease` | the lease row, its three statements, `executerSousBail` | `MCSchedulerLease`, `SchedulerWatch`; proved in `SchedulerWatch_proof` |
| `WatchPromise` | abstract: what the watch promises to whoever receives alerts | instantiated by `SchedulerWatch` |
| `SchedulerWatch` | the passes of the notifiers, composed with the lease row they read | `MCSchedulerWatch`, `SchedulerWatch_proof` |
| `DeliveryPromise` | abstract: what the outbox promises to a reader of `alert_delivery` | instantiated by `AlertDelivery` |
| `AlertDelivery` | `dispatchOnce`, its transactions and failures | `MCAlertDelivery`, `AlertDelivery_proof` |
| `PrivacyIngest` | ingestion, landing queue and erasures of one application | `MCPrivacyIngest`, `PrivacyIngest_proof` |
| `MobileSdk` | queue, consent gate, window, flush, coroutines of the mobile SDK | `MCMobileSdk`; proved in `ClientSdk_proof` |
| `MobileStore` | the durable record, at the grain of one storage operation | `MCMobileStore`; proved in `ClientSdk_proof` |
| `WebRetry` | the sending path of the web SDK and the file its tabs share | `MCWebRetry`; proved in `ClientSdk_proof` |
| `BackfillRunner` | planning, batches, pause, failure and resumption of a backfill | `MCBackfillRunner`, `BackfillRunner_proof` |
| `ServiceLifecycle` | boot, loops, connections, drain, close and exit of a process | `MCServiceLifecycle`, `ServiceLifecycle_proof` |
| `MigrationPromise` | abstract: what the migrator promises to a reader of `schema_migration` | instantiated by `Migrator` |
| `Migrator` | registry, baseline, pre-deployment of indexes, transactions of files | `MCMigrator`, `Migrator_proof` |
| `IssueWorkflow` | issues of grouped errors: batches, decisions of users, retention, erasure | `MCIssueWorkflow`, `IssueWorkflow_proof` |

`ClientSdk_proof` holds the proofs of the three client modules. It extends them together, which is
why the specifications of `MobileStore` and `WebRetry` are called `StoreSpec` and `WebSpec`, their
type invariants `StoreTypeOK` and `WebTypeOK`, and so on; they share no variable.

**SchedulerLease.** `holder` and `expires_at` are the columns of the row, `now` the database clock.
`etat` is where each process is in `executerSousBail`, `battement` the `battementPrecedent` it keeps
in a local variable. One action per statement and outcome: `Prendre` (the upsert of
`prendreBailDetaille`), `PrendrePerdu` (granted, but the answer is lost), `Aboutir`/`Echouer` (the
job), `Rendre`/`Abandonner` (the two give-backs, with their `where holder`), `NonRendu` (the
give-back fails), `Mourir`/`Redemarrer` (the whole process, its three loops together, coming back
under the same holder). The other variables are history.

**SchedulerWatch.** It extends `SchedulerLease`, whose steps the scheduler takes, with its own
`InitVeille`, `NextVeille` and `SpecVeille`; `fenetres` holds the rows of `collecte_fenetre`, each
with its alert. A pass is one statement that reads (`Lire`: the row, the open episode, its alert)
and then acts on what was read, in one to three more (`Ouvrir` or `Reprendre`, `Alerter`, `Fermer`),
outside any transaction: `pas[v]` is the next one and `vu[v]` what the pass keeps. `Rater` is a pass
that fails between two statements.

**AlertDelivery.** `status`, `attempts` are columns, `echu` says the backoff has elapsed, `verrou`
is the row lock of an open transaction, `etape`/`pris`/`issue` the locals of `dispatchOnce`.
`Reserver` is `for update skip locked`; `Solder`, `Poster`, `Repondre`, `Marquer` the branches of
`livrer`. `Couper` is a connection cut while the POST goes on: the lock goes and the deliverer does
not know; `EchouerEcriture` is when it finds out; `Tomber` a death. Receivers are external: a
webhook counts calls; Resend remembers in `cles` the idempotency keys it has seen and drops an
e-mail whose key it knows. The key is the code's (`Cle`: the line, not the attempt), and the
property that an e-mail arrives once rests on it.

**PrivacyIngest.** `verrou` is the advisory lock of the application, `barrieres`
`privacy_erasure_barrier`, `ancres` `rum_session`, `enfants` every other table with the session each
row was written under, `file` `ingest_raw`. `tx[p]` is what a process is doing and how far it is:
`attend` (before `verrouillerApps`), `tient`, then `filtre` for a write or a drain (it has read the
barriers) or `releve` for an erasure (it has found the sessions). Reading under the lock and
committing are two steps, so the lock has work to do; `Couper` undoes a transaction at either.
`Filtre` is `filtrerLot`, `Fusion` and `Insertion` the conflict clauses of the inserts, `ClesTenues`
the foreign keys, `FileFiltree` the SQL function `privacy_filtrer_file`.

**MobileSdk.** An action is the code between two `await`s. `taches` holds every coroutine waiting on
the storage (boot, end of a refusal, save), any number at a time; `flush` the one flush in progress.
`file`, `refusees`, `fenetre`, `etat`/`epoque` are the fields of `EventQueue`, `FenetreCausale` and
`ConsentGate`; `ident` and `disque` the two records on the device. `Tuer` kills the process: memory
goes, the device stays.

**MobileStore.** `manifeste` and `emplacements` are the three keys; `ecrivain` where each coroutine
is in `ecrireEnregistrement` or `effacerEnregistrement`, and the manifest it read. Coroutines
overlap, as nothing in the SDK keeps a save from an erasure or from another save. Every operation
may fail: a manifest that cannot be read is taken for a missing one (`SansManifeste`), so that the
save writes the first slot, active or not; a write that fails is given up; an erasure that fails
goes unnoticed. A kill in the middle of a `setItem` leaves a slot or the manifest truncated. `seul`,
`aveugle`, `finis`, `dernier` and `incertain` are history.

**WebRetry.** `fichier` and `tombes` are two keys of `localStorage`; the other variables are per
tab, named for what they are in `otel.ts` and `retry.ts`: `tampon` and `attente` the batch
processor, `vols` the exports sent and not answered, `abandonnees` the roots given up
(`revokedRootsMemory`), `ouvertes` the actions whose effects may still name them. No lock covers a
key, so each access to it is a step: a callback reads in the step that begins it and writes in later
ones, `etape[o]` being what it has still to write with the file it has in hand. `Rejouer` clears the
file that `replayRetryQueue` has read, `EcrireFichier` writes the file that `appendRetry` has made
of the one it read, `Marquer` writes the roots given up; in between the other tabs read and write
the same keys, and two that load together send the same spans again. A tab runs one callback at a
time (`Commencer`) and may go in the middle of one (`Quitter`). A read or a write that fails is not
reported. A span is a root or the effect of one, the pair between which the SDK promises an order. A
failed export may have been received. `presses`, `refuses` and `doubles` are history.

**BackfillRunner.** `etat`, `bornes`, `point`, `written` are columns of `backfill_run`; `sources`
the tables read, with `prochain` their sequences and `enVol` the write transaction not committed
yet: ids are drawn before the commit, which is what the reconciliation phase is for. `trav[w]` is
where a worker is: claim, re-reading of the state, batch under the ingestion lock (`verrou`), commit
of rows and checkpoint together. `Effacer` is an erasure between two batches.

**ServiceLifecycle.** `etat`, `crochets`, `enVol`, `drainLance`, `delaiAtteint`, `forcee` are the
fields of the lifecycle of `lifecycle.mjs`; `micro`, `minuterie`, `tours`, `arretees` the state of
each loop of `loop.mjs`; `serveur`, `actives`, `inactives` what Node knows of the connections,
`requetes` the handlers that run, which outlive their connection. Signals and uncaught errors come
at any time, during the boot too.

**IssueWorkflow.** `lignes` and `issueDe` are the rows of `rum_error` and their `issue_id`,
`issues`, `alias` and `avis` the tables `error_issue*`. `lot`, `purge` and `triage[u]` are the
transactions of a batch, of retention and of a user: `lot.etape` is the next statement of a batch,
from the first reads (`Recevoir`, `Chercher`) to the bounds and the verdict on each issue
(`Finaliser`, `Juger`); `lot.tient` and `lot.brouillon` are the rows it has locked and their new
versions, which the commit (`Valider`) shows to the others. `Libre` is what an update of an issue
waits for. `ecran[u]` is what a user read before deciding.

**Migrator.** `registre` is `schema_migration`, `index` what `pg_index` says of the index of each
pre-deployment script, `session`/`prises` and `transaction` the advisory lock, held by a backend and
not by a process: behind a pooler the backend changes between statements. `pc[m]` is the next
statement of `m`, from the baseline to the registry line of the last file. `anciens[m]` are the
statements a `CREATE INDEX CONCURRENTLY` waits for, those blocked on the lock included.

## 3. Runs

Deadlock is checked where the system never stops (`lease`, `watch`, `store`, `privacy`,
`lifecycle`); it is not in `delivery`, `mobile`, `backfill`, `webretry`, `migrator` and `issues`,
where everything ends up settled, collected, completed or applied. `lease`, `lifecycle` and `store`
leave `TypeOK` to the proofs; `delivery`, whose other properties read every variable, does not
repeat it.

| Run | Question and answer | Bounds, and why they are enough |
|---|---|---|
| `lease` | Can two runs of a job be in time together, can the heartbeat lie, can a success be forgotten? No (`Exclusion`, `BattementExact`, `SuccesJamaisOublie`). | three processes: one overstays, one takes over, one comes later. The clock lets a lease be taken, expire, be taken again and expire again. A lease row is independent of the others; one job. |
| `watch` | Is each silence told once, and only if it took place (`UneAlerteParSilence`, the refinement of `WatchPromise`)? Do episodes overlap (`FenetresDisjointes`), and do they follow the scheduler in the end (`VeilleSuit`)? | one process of the scheduler and two notifiers (replicas, or both ends of a changeover); the clock runs to 8, room for two silences; three episodes; one pass that fails half way. No tick outlasts its lease here (section 6 otherwise). |
| `delivery` | Who may post what, how often; what does a settled line prove; does an e-mail arrive twice; is every line settled? The four safety properties hold, and `AlertDelivery` implements `DeliveryPromise`, liveness included. | two lines of different channels, one an escalation; two deliverers, one without e-mail configuration; two attempts, so that first, repeat and last attempt differ; two crashes or cuts, so that a repair can itself fail. |
| `mobile` | Nothing of a revoked epoch, nothing lost in silence, no lease left, no orphan but one per root that aged: in memory (`LienVivant`, `EpoqueCourante`) and with a durable queue over two lives and writes that fail (`RienDeTu`, `BailDuLot`). | `MCMontages`, two configurations taken as initial states. `EnMemoire`: consent pending, then granted or refused at any time; four events, one a root, a queue of three (two while pending) and batches of two, so that a root is evicted, expires (the current root of the window included) or is refused while a batch is leased. `Durable`: two events, two lives, two coroutines at a time; reads succeed, see section 6 for reads that fail. |
| `store` | Saves that overlap, fail or are killed anywhere: is what is read the last record completed (`DerniereEcriture`), and is it always whole (`LectureEntiere`)? The second yes; the first unless one of four named events befell the record since a save ran alone to its end. | two coroutines, which save or erase; six records, the slots alternating with period two; every read, write and erasure may fail; a kill may truncate both kinds of key. |
| `privacy` | Two processes write, queue, drain and erase: nothing erased comes back (`RienNeRevient`, `RienDuSujet`) and nobody else loses a row (`AutresIntacts`). | two people, one of whom logs in during the visit, a batch of both, logs, replays, an identified error without session; two batches in the queue, two attempts, enforced barriers. Two processes are enough for the lock: every conflict is between two transactions. |
| `privacy_agent` | refutes `RienDuSujet` | see section 6 |
| `backfill` | Once a run is completed, is every row of its window projected, the rows in flight at its planning included (`Complet`)? Is a row examined twice in a phase (`SansDoublon`)? Does an erased row come back (`RienDeRessuscite`)? | one run, one worker, two sources of two ids each and batches of one: the checkpoint stops inside a source, between two sources and between two phases. One failure or death, anywhere. One worker at a time (`Serie`); see section 6 for two. |
| `lifecycle` | Does the pool outlive the work (`FermetureApresTravail`), and does the process exit whatever hangs (`Sortie`)? Both, when the drain ends in time for the first. | two loops, one whose first turn is immediate and one delayed; two clients, so that one connection is busy while the other is kept alive. |
| `webretry` | Does an effect reach the server before its root, linked to it (`EnfantApresRacine`)? Does something the user refused come back to the file or to a batch (`RefusTient`)? Neither does, but for what was at once in the file and in a tab's batches. | two tabs, whose accesses to the storage interleave; two actions of which one has an effect; a file of two spans and batches of two, so that it overflows as a third comes; one attempt, two page loads, two failures (of exports or of the storage), one withdrawal. |
| `issues` | Does a user decide of the status they saw (`DecisionSurLeVu`), and keep the last word (`StatutHumain`)? Is a regression missed (`RegressionVue`)? Do the bounds of an issue cover its rows (`BornesCouvrent`)? The answers are the good ones. | one key under two old fingerprints of different statuses; two batches, one of a release deployed later; two users who resolve, ignore or comment, one decision per issue besides those of the system (`MaxRevision`); two issues, so that one is purged and created again; a retention of one unit in four. |
| `migrator` | Does `Migrator` implement `MigrationPromise`: files in order and once, none marked that the schema lacks, and every migrator ends (`PromesseTenue`)? Does an index found ready stay so (`IndexVivant`)? | two migrators, three files, an index on the third, a baseline at the second: a base is created, adopted, or taken in the middle. Three launches and one death: one that dies, one that waits for it and one that comes back. A pooler of two backends. |

Every bound is a constant with `Max` in its name (`MaxNow`, `MaxPannes`, `MaxFenetres`, `MaxDepots`,
`MaxTaches`, `MaxVies`, `MaxEcritures`, `MaxId`, `MaxPages`, `MaxEchecs`, `MaxRefus`,
`MaxLancements`, `MaxMorts`, `MaxHorloge`, `MaxIssues`, `MaxRevision`, and `N` for the events, lines
or files); `MaxTentatives`, `MAX_ATTEMPTS`, `Tentatives`, `VerrouEssais`, `Taille`, `MaxFile`,
`MaxAttente`, `MaxLot`, `MaxRetry` and `MaxBatch` are constants of the code, made small. No run has
a state constraint; `lease`, `webretry` and `issues`, which check nothing of liveness, permute their
processes, their tabs and their users.

Each property of a passing run has a mutant in `PROJECT.json`: a plausible bug in one mapped
definition, written just before it, with which TLC finds the property violated.

### Fairness

* `AlertDelivery`, `DeliveryPromise`: `WF(Avancer(w))` for each deliverer: the loop of `livreur.mjs`
  passes again and again, whatever the last pass did, and a POST is bounded by a timeout, so no step
  waits for ever. `WF(Echoir(d))`: the backoff is a comparison with the database clock. Nobody has
  to insert or acknowledge, and crashes and cuts have none: they are bounded by `MaxPannes`, as
  liveness is only promised when they stop. Starvation of one line by smaller ids is not assumed
  away: it cannot last, since a line that fails leaves the selection until its backoff.
* `SchedulerWatch`: `WF(Minute)`, time passes, and `WF` of each notifier's statements: the loop
  passes every minute and a statement is bounded by a timeout of two seconds. The scheduler has no
  fairness: it is what is watched.
* `ServiceLifecycle`: `WF` of the drain, which ends by itself or by its deadline (`Drainer`,
  `DelaiDrain`), of `Fermer` and of the timer of the forced exit (`SortieForcee`): a callback that
  is due runs. Turns, requests and the end of the pool have none and may last for ever; `Sortie`
  holds all the same, because the forced exit has its own timer.
* `Migrator`: `WF(Avancer(m))`: a statement ends, by `lock_timeout`, by the deadlock detector or by
  itself, and a lock that is free is granted. Launches and deaths have none.

## 4. Proofs

| Theorem | Statement | Module |
|---|---|---|
| `LeaseTypeCorrect` | `Spec => []TypeOK` | `SchedulerWatch_proof` |
| `LeaseExclusion` | `Spec => []Exclusion` | `SchedulerWatch_proof` |
| `HeartbeatExact` | `Spec => []BattementExact` | `SchedulerWatch_proof` |
| `SuccessKept` | `Spec => []SuccesJamaisOublie` | `SchedulerWatch_proof` |
| `TypeCorrect` | `SpecVeille => []TypeVeille` | `SchedulerWatch_proof` |
| `EpisodesDisjoint` | two notifiers at most, ticks bounded by their lease: `SpecVeille => []FenetresDisjointes` | `SchedulerWatch_proof` |
| `OneAlertPerSilence` | the same: `SpecVeille => UneAlerteParSilence`, the refinement of `WatchPromise` | `SchedulerWatch_proof` |
| `AttemptsExact` | `Spec => []CompteExact` | `AlertDelivery_proof` |
| `OnePostAtATime` | `Spec => []UnSeulEnVol` | `AlertDelivery_proof` |
| `AcknowledgementStops` | `Spec => []AcquittementArrete` | `AlertDelivery_proof` |
| `DeliveredWasReceived` | `Spec => []LivreEstRecu` | `AlertDelivery_proof` |
| `OutboxPromise` | `Spec => Promesse!Surete` | `AlertDelivery_proof` |
| `TypeCorrect` | `Spec => []TypeOK` | `ClientSdk_proof` |
| `CurrentEpoch` | `Spec => []EpoqueCourante` | `ClientSdk_proof` |
| `NothingSilent` | `Spec => []RienDeTu` | `ClientSdk_proof` |
| `LeaseOfBatch` | first life, or a storage that does not fail: `Spec => [](Prudent => BailDuLot)` | `ClientSdk_proof` |
| `LiveLinks` | queue in memory, first life or sound storage, batches smaller than the queue: `Spec => [](... => LienVivant)` | `ClientSdk_proof` |
| `LastWriteRead` | `StoreSpec => []DerniereEcriture`, whatever overlaps, fails or is truncated | `ClientSdk_proof` |
| `WholeRecordRead` | `StoreSpec => []LectureEntiere` | `ClientSdk_proof` |
| `WebTypeCorrect` | `WebSpec => []WebTypeOK` | `ClientSdk_proof` |
| `RootsFirst` | `WebSpec => []EnfantApresRacine` | `ClientSdk_proof` |
| `RefusalHolds` | `WebSpec => []RefusTient` | `ClientSdk_proof` |
| `TypeCorrect` | `Spec => []TypeOK`, foreign keys and lock included | `PrivacyIngest_proof` |
| `NothingComesBack` | no row claims another session: `Spec => RienNeRevient` | `PrivacyIngest_proof` |
| `OthersKept` | no row claims another session: `Spec => []AutresIntacts` | `PrivacyIngest_proof` |
| `ErasedForGood` | the same, keyed rows come with their session's line and a session is of one person: `Spec => []RienDuSujet` | `PrivacyIngest_proof` |
| `TypeCorrect` | `Spec => []TypeOK` | `BackfillRunner_proof` |
| `NothingRevived` | `Spec => []RienDeRessuscite` | `BackfillRunner_proof` |
| `NoHole` | `Spec => []Complet` | `BackfillRunner_proof` |
| `CountExact` | the journal counts the rows written: `written[r] = Cardinality(ecrites[r])`, always | `BackfillRunner_proof` |
| `NoRowTwice` | one worker at a time: `Spec => []SansDoublon` | `BackfillRunner_proof` |
| `TypeCorrect` | `Spec => []TypeOK` | `ServiceLifecycle_proof` |
| `ClosedAfterWork` | `Spec => []FermetureApresTravail` | `ServiceLifecycle_proof` |
| `RegistryPromise` | the baseline setting does not outlive the creation of a base: `Spec => Promesse!Surete` | `Migrator_proof` |
| `TypeCorrect` | `Spec => []TypeOK` | `Migrator_proof` |
| `IndexStaysValid` | `Spec => []IndexVivant` | `Migrator_proof` |
| `TypeCorrect` | `Spec => []TypeOK`, one issue per key included | `IssueWorkflow_proof` |
| `BoundsCover` | `Spec => []BornesCouvrent` | `IssueWorkflow_proof` |
| `RegressionSeen` | no client ahead of the database: `Spec => []RegressionVue` | `IssueWorkflow_proof` |
| `RegressionWithinAdvance` | any advance: what is missed is later than the resolution by the advance at most | `IssueWorkflow_proof` |
| `HumanDecisionStands` | `Spec => StatutHumain` | `IssueWorkflow_proof` |
| `DecisionOnWhatWasSeen` | `Spec => []DecisionSurLeVu` | `IssueWorkflow_proof` |

All constants are arbitrary, under the named assumptions of each module (durations are positive,
"nobody" is not a process, clients send well-typed rows); the bounds of the models are arbitrary
too.

*The lease.* `Exclusion` is not inductive: nothing in it says why a second process cannot take the
row. The invariant adds that a process in time is the holder of its row and that the row carries the
deadline it was granted; a take needs a date in the past, which then is the deadline of nobody in
time. A process that overstays is no longer covered, and its late give-back meets the clause on the
holder. For the heartbeat, the invariant relates the row, given back or held, to the history of
successes and unreturned deadlines, and says that what a run remembers (`battement`) is what the row
said when it was taken. The watch needs this invariant, and its proofs follow in the same module.

*The watch.* A pass acts on a row it read before, so what it read must still be true of something.
The row itself goes back: a take puts its date in the future, a failed run puts the old date back.
What does not go back is `Repere`, its date or, while it is held, the date a give-back would leave.
This is where the first hypothesis comes in (`~Deborde`): a tick that runs is over or dead before
its lease runs out (`ALHeure`), hence a deadline that was read as a return is never taken back. So
an episode, once closed, stays behind `Repere` (`Episodes`), a silence that was read took place even
if the tick has come back since (`Passages`), and what is opened next starts later (`Suite`). The
difficult case is a pass that has read a silence and has not opened its episode yet. `Ouvreurs`:
either every episode is still closed, before the silence it read; or the other notifier has opened
one since, and has had its pass of the minute, so that nobody is left to close it and the insertion
finds it. With a third notifier somebody is (section 6): the second hypothesis, `Deux`, is that
there are two at most. Each step of the watch then is a step or a stutter of `WatchPromise`.

*The outbox.* Everything rests on what the row lock protects. `Tenue`: while the transaction of a
deliverer lives, its line is still unsettled and carries the count that was read, so what it posts
and then writes adds one attempt to the right number. A cut breaks `Tenue` for one deliverer and
nothing else: `Orphelins` bounds the deliverers that post without their lock by the cuts that took
place, which is what `UnSeulEnVol` says. `Retardataires`: a POST that comes after the
acknowledgement uses up a reservation made before it, and no new one can be made. `Temoins`: a
deliverer that concludes "delivered" was answered by the receiver. `Timbres`: what an e-mail's
receiver has had is counted by the keys it has seen, and a line has one key whatever the attempt.
The step simulation of `DeliveryPromise` (`OutboxPromise`) then has one case per action.

*The mobile queue.* `MobileSdk.TypeOK` and `RienDeTu` need little more than the types and that what
is held, stored or counted was collected (`Cadre`, `EnTete`, `EnVol`, `Appareil`); the work is in
the queue's operators. Each is shown to follow one of three shapes: `Suit` (entries leave, and every
one of them is counted), `Rejoint` (entries come in too), `Garde` (`Suit`, leases aside); an action
is then a shape and what it does to the rest. `Restaurer` folds `Pousser` over the record read back:
that its fold has the shape `Rejoint` is an induction over the prefixes. `EpoqueCourante` needs
`SansReprise`: with the queue in memory no coroutine brings old events back.

`BailDuLot` is about the answer of a batch that comes after a revocation or after an epoch adopted
from the device (`index.ts:658`): the flush then drops the answer without touching the leases, so
there must be none left. `Bail`: the leased entries are those of the batch in flight, and it flies
in the epoch of the gate. A revocation empties the queue as it moves the epoch; `Horloge` says that
a batch of the current epoch flies under a consent, and that no coroutine carries an epoch ahead of
the gate's. What remains is an epoch read from the device: `Rattrapage` says that the device is
ahead of the gate only before the boot of this life has read it, when no flush can be under way,
since it waits for that boot. This is where `Prudent` comes in, as hypothesis and in the invariant:
in the first life nothing was stored by another one, and on a storage that does not fail the boot
reads what was written. Section 6 shows both ways in which a later life on a failing storage breaks
it; the code has no guard there.

`LienVivant` needs `Attaches`, which ties the causal window to the queue: the current root is in the
queue, received, or known as refused, so that the next effect is linked to it only when it is not
refused. An entry expires at any time, the current root like another: it is dropped by the push of
an effect whose link was checked just before, and that effect enters linked to nothing. The root is
then known as refused (`perimes \cap refusees`), so the next effects lose their link: an aged root
lets in one linked event at most, which is what `LienVivant` says and what `Attaches` carries. With
`MaxLot < MaxFile` some entry of a full queue is not leased (`Bail` bounds the leases by one batch),
so the one evicted is older than the one that enters; with the defaults of the code
(`BATCH_MAX_EVENTS` is 64, `maxEvents` 500) the hypothesis holds; an application may set a lower
`maxEvents`, and section 6 shows a queue of one. With a durable queue the property is false (section
6).

*The record.* `DerniereEcriture` says nothing of a write in progress. `StoreIInv` adds `Copie` (the
manifest read by a coroutine that was alone since, and could read it, is still the one on the
device, hence the slot it writes is not the active one), `Actif` (unless `incertain`, the active
slot holds the last record) and `Sommes` (a fingerprint in a manifest, on the device or in hand, is
that of a record written to the end, or of the one being written: a record given up is known to
none, which is also why what is read is whole). Neither theorem has a hypothesis. `incertain` is not
one in disguise: it is set by the four events the comment of the property names, each of which the
code allows and section 6 shows to break the unconditioned statement, and a save that runs alone to
its end clears it.

*The file of the web SDK.* `EnfantApresRacine` speaks of what the server has; what makes it true is
the order of what is still to leave. `WebIInv` says it of each tab, in `EnOrdre`: an effect that is
linked in a batch sent has its root in the same batch or passed already; in a batch that waits, in
that batch, one before it, one sent, or among the roots given up; in the buffer, or still to come
from an action that is open, the same one place later. A root is passed (`Passees`) once received,
or once a hidden page has sent it without waiting, or when the action belongs to `doubles`. Sending
a batch unlinks the effects of the roots given up, an answer that fails gives up those of the batch,
and the lemmas on `Delier` and `appendRetry` say what a file keeps: `EnChaine` is the same order for
a file, the one on the device (`Chaine`), one a tab has read and not put back in its buffer yet, one
it has made and not written yet. Nothing is said of a span being in one place: two tabs that read
before either clears hold the same spans, and so do a tab and the file. What has to be known is
`Lieux`: a span that is both in the file and in a tab's batches belongs to an action of `doubles`,
the exception of the property. `Nes` says that a root is produced before its effect. `RefusTient` is
`Bilan`: what any tab holds, in batches or as a file in hand, and what the file holds was produced
and not refused; a withdrawal refuses only what no other tab holds. No bound is used: tabs, actions,
page loads, failures and withdrawals are as many as one likes.

*Ingestion.* What matters is what a transaction has read under the lock and not committed yet.
`Promis` says what it may rely on until then: the rows it kept are admitted by the barriers in
force, the batch it drains is still there to be tried, the sessions it found are exactly those of
its subject. It lasts because the lock has one holder and only the holder commits (lemmas `Avance`
and `Finit`, which serve every action). A commit then adds admitted rows only. The foreign keys
survive an erasure because the anchors it deletes are those of the sessions it found, whose rows go
with them. `SansReprise` (no row claims another session) is a hypothesis: without it the theorem is
false (section 6). What an erasure takes from others and what it leaves behind need more.
`Lectures`: what a transaction has read is exactly what it would read now, so an erasure judged at
its commit is judged as at its reading. `Provenance`: every stored row, key and barrier on a session
comes from a row some client sent. `Protegees`: under enforced barriers a row with a key, stored or
queued, has its session's line with it, or its session is barred; erasing the subject finds the
session and takes the row. `ErasedForGood` has three hypotheses, and each is needed: `SansReprise`;
`Accompagnees`, which `flattenOtlp` guarantees for the web and mobile SDKs and not for the agent
(run `privacy_agent`); and `UnSujet`, a session is of one person, which a logout and a login in the
same session break (section 6). `AutresIntacts` needs the first one only.

*The backfill.* `LotJuste`: from the reading of a batch to its commit the lock keeps the sources as
they were read, hence what is written is what a reading would find; an erased row is not written
back (`NothingRevived`). A place in the sources stands for the rows passed (`Complets`): behind a
checkpoint, and behind the place a worker has reached, every expected row that is still there is
projected; a run that reaches the end is complete, whatever workers died, and however many of them
work on the run. `Comptes` keeps the journal: a row is written once. `NoRowTwice` needs one
execution at a time on a run (`Serie`), which the code leaves to the operator (section 6): then the
worker is at the checkpoint and what was examined is behind it (`KInv`).

*The shutdown.* `FermetureApresTravail` looks at the moment the pool is ended; what makes it true is
what happened from the start of the drain. `IInv` says who will drain what: `Ordre` (what each stage
of the lifecycle has behind it), `Inscrits` (until the drain is launched every loop and the server
wait among the hooks), `BouclesArretees` (from then on a loop is stopped and its turn is in flight),
`ServeurAttendu` (so is a server that may still hold a connection) and `PlusRien` (closing in time,
there is nothing left). A drain that ran out of time is the case the property excludes.

*The registry.* The theorem is a refinement: each step of any number of migrators, killed or
launched again anywhere and on any connections, is a step or a stutter of `MigrationPromise`. `IInv`
says what lasts of what a migrator has read: `Plan` (what it has not to apply is in the registry,
which only grows), `Memoire` (the registry is what the schema has, but for the files of an adopted
base, marked before the first one is applied) and `Tenue` (a backend serves one migrator, the one in
a transaction holds the lock, and the file it found missing is missing until it commits). `Etalon`
is where the hypothesis comes in: a baseline meant for another base is looked at once, by the first
launch, on an empty base; without it the baseline marks files the base never had (section 6).
`TypeOK` has its own invariant, since it says that locks and transactions are those of backends at
work: in `CInv` a backend serves one migrator, and whoever is in a transaction is the only one.
`IndexStaysValid` is about what happens outside any transaction, between the reading of an index and
its rebuilding: in `VInv` whoever changes an index holds the lock, by its session or its
transaction, so that what a builder read of the index lasts until it acts. It holds for direct
sessions, as `IndexVivant` says; behind a pooler it does not.

*The issues.* `DecisionSurLeVu` speaks of a row that is locked; what makes it true is what happened
between the reading and the lock. `IInv` orders the versions of an issue: what a screen shows, what
is committed, what a batch has not committed yet (`Ecrans`, `Brouillons`: each follows the one
before, which means that its revision is not lower and that the status is the same under the same
revision). The order lasts because every operation that changes a status moves the revision (lemmas
`EtendueSuit`, `RouverteSuit`, `DecideeSuit`) and new bounds change neither (`ReconcilieeSuit`).
`Tires` and `Creations` say that identifiers are drawn in order, hence that a screen left open on a
deleted issue never meets another one under the same identifier, and `Verrous` that nobody else
holds what a user is deciding of. No bound is used: an issue, a user or a batch more changes
nothing.

The data rest on a second invariant, `DInv`. What is committed depends on what the batch has decided
and not written: `Heritages` says that a version it holds covers the committed one and inherits its
status, its source and its resolution, unless a row of its own has reopened it. The judgement of a
row (`RangsDuLot`) was made of a version read without a lock; it lasts until the commit because a
decision of a user leaves the bounds alone and is dated later than all they cover (`Temps`), so it
can only resolve after the row. `RangsCommis` is what the commit then leaves: bounds that cover
their rows (`BoundsCover`), and no missed regression. Here the clock of the clients matters: with
`Avance = 0` nothing is missed (`RegressionSeen`); in general what is missed is later than the
resolution by `Avance` at most (`RegressionWithinAdvance`). `StatutHumain` is read off the three
actions that write a committed status: a decision, a commit, which inherits, and an erasure, which
keeps the status.

Model-checked only: what is temporal, `Sortie`, `VeilleSuit`, and the `Vivacite` of
`DeliveryPromise` and `MigrationPromise`, since liveness under fairness and `ENABLED` are out of the
prover's reach. Every invariant that a passing run checks is proved, under the hypotheses the table
names. The induction theorems of the library take an operator and cannot be used; where a fold had
to be reasoned about (`Restaurer`), the induction is made on a set, that of the prefixes for which
the claim holds, by the well-foundedness of the naturals (`Recurrence`). What `Restaurer` computes
beyond the shape `Rejoint`, the order of the entries it keeps, is not proved. No module uses a
recursive operator.

## 5. What the models leave out

* *Data*: payloads, fingerprints, scrubbing, symbolication, addresses, statistics. A row is its
  kind, its keys and the session it names; an event is a number.
* *MobileSdk*: the bound in bytes, the stamping of the visitor on events already queued, shutdown
  and a second `init`, the collectors; the bound `RACINES_REFUSEES_MAX` on the refused roots
  remembered (`index.ts:515`), never reached by so few roots; a wall clock set back (an entry ages
  at any time, and does not become young again).
* *MobileStore*: what a storage that replaces a value in one step would change; the decoding of a
  record.
* *AlertDelivery*: payloads and signatures, the time budget of a pass (a pass that stops early only
  leaves lines to the next one). The acknowledgement of an event, which reaches its sibling lines in
  one statement (`queries-v2.ts:585`), is taken line by line. Resend keeps a key for 24 hours
  (`resend.mjs:21`), longer than the attempts last; in the model, for ever.
* *SchedulerLease*: `/ready`, the dead-man signal, the published cadence; the steps of a job, which
  run one after the other.
* *SchedulerWatch*: the message of an alert and its deliveries. A pass takes eight seconds at most,
  against a cadence in minutes: the clock stands still while one runs, and a notifier makes one per
  unit. The published cadence is fixed during a run.
* *PrivacyIngest*: several applications in one request and "all"; changing the mode of the barriers
  and their expiry; the caches of which schema is present; the one-round-trip path, whose fallback
  is what is modelled; erasing a session or a whole application; an account identity, which is
  erased as a user's; the loss of the queue, an unlogged table, in a crash of the database. A commit
  whose outcome is unknown is the choice between the commit and `Couper`, followed by a client that
  sends again. Which due batch the drain takes is left open.
* *WebRetry*: the deadline of the file is found due or not by a page load; sampling, replay and the
  session; the bound in bytes of the file (`RETRY_MAX_BYTES`), which evicts as the bound in spans
  does; the bound of 200 on the roots given up (`retry.ts:91`), which only roots without number
  would reach. A withdrawal is taken to succeed in removing the file. Consent belongs to a page: a
  tab that has already taken the file may write back spans another tab's user has refused, so
  `RefusTient` leaves out what another tab holds; a page that is being hidden sends without waiting
  for the order, which `EnfantApresRacine` excepts as the code does.
* *BackfillRunner*: the other kinds of backfill, which differ by their SQL; the gates of the
  planner; progress as shown on screens.
* *ServiceLifecycle*: metrics, routing, the settings of the pool, the log.
* *Migrator*: the ordinary statements of a pre-deployment script, which are idempotent; the check
  that both connections see one database; reading and cutting SQL files. The marks of a baseline,
  one autocommit insert per file (`migrate.mjs:798`), are one step.
* *IssueWorkflow*: some consecutive statements are one step: the reads of `Chercher`, between which
  retention may commit, to the same effect as after them; the creations and inserts of `Ecrire`;
  what follows the lock in `Verrouiller`. How keys and fingerprints are computed; assignees,
  activity and audit, which are written with the status; errors beyond the bound of groups read per
  batch; deployments recorded while it runs; tickets and the sending of the notices. An issue
  created while another transaction creates it does not occur under the lock of the application.
  Timestamps up to five minutes ahead are accepted by `otlp.mjs:356`; `Avance` is 0 in the run. With
  `Avance = 1` a row may be dated after a resolution that followed it, and `RegressionVue`, which
  goes by the dates, no longer means what it says; `RegressionWithinAdvance` says what remains, for
  any advance. The clock starts at 1 or later, 0 being the absence of a resolution.
* The rest of the inventory, for the reasons given per component in `PROJECT.json`: most of the
  repository's lines are screens, queries for them, schema, tests and conversions, which keep no
  state between two steps.

## 6. Disagreements between the code and its documents

One is a run with its counterexample. **An agent without session** (`privacy_agent`;
`queries-dsar.ts:451`): events of an agent carry the identity and no session; erasing the identity
reaches rows without session in `rum_error` only.

TLC refutes the following too, on configurations that have no run of their own; the constants are
given for whoever wants to see the trace.

*Mobile SDK.* `Durable` is the configuration of `MCMobileSdk`; the fields named replace its own.

* `EpoqueCourante` (`index.ts:777`): `bootstrapIdentite` checks the epoch before it reads the
  durable queue, not after; a refusal in between, and the events of before it enter the purged
  queue, which `queue.ts:62` says cannot be. `Durable`, and the property without its condition on
  `montage.persistant`.
* `RepriseComplete` (`index.ts:726`): `sauvegarderSiDurable` does not wait for the boot, and an
  empty queue is saved by erasing the record: what was to be resumed is lost if the application
  leaves the foreground early. `Durable`.
* `RefusSansVisiteur` (`index.ts:771`): a refusal while the identifier is being read leaves a
  visitor in memory. `Durable` with `racines |-> {1}, maxFile |-> 3`.
* `LienVivant` with consent granted from the start (`index.ts:573`): a root evicted by its own push
  is not yet known as refused when its effects arrive. `EnMemoire` with `racines |-> {2},
  perissables |-> {}, maxFile |-> 1, depart |-> "granted"`.
* `LienVivant` with a durable queue (`persist.ts:309`): a root that is too old is left out of what
  is read back, and the effects restored keep their link to it. `Durable` with `n |-> 3, racines |->
  {1}, perissables |-> {1}, maxFile |-> 3, maxLot |-> 1`.
* `LienVivant` with no exception for a root that aged (`index.ts:522`, `queue.ts:129`): the link of
  an effect is checked before the push; the push of this very effect finds the root too old and
  drops it, and the effect enters with its link, against « UN ENFANT NE SURVIT PAS À SA RACINE ».
  `EnMemoire`.
* `BailDuLot` with reads that fail in a second life (`index.ts:658`): a gate that takes over a
  stored epoch changes epoch under a flush, whose batch stays leased. `Durable` with `lectureFragile
  |-> TRUE`.
* `BailDuLot` with writes that fail and three lives (`index.ts:746`): the user refuses before the
  boot has read a device two revocations ahead, and the write of the refusal fails; a flush waits
  for that refusal and not for the boot, consent comes back, and the boot then adopts the stored
  epoch under the batch in flight. `Durable` with `n |-> 1, maxTaches |-> 3, maxVies |-> 3`.
* `EvictionDuPlusAncien` with a durable queue (`queue.ts:247`): restored events enter behind newer
  ones, and order of arrival is what eviction looks at. `Durable` with `n |-> 3`.
* `ToujoursLisible` (`persist.ts:116`) with `Ecrivains = {w1}, Dechirables = {}, MaxEcritures = 3`:
  a read of the manifest that fails is taken for a missing one, so the save writes slot 0, the
  active one, before the manifest; cut there, or given up, it leaves a manifest that matches no
  slot, or only the older one (`persist.ts:164`, `203`). Two saves that overlap do the same, and a
  truncated manifest loses the record although both slots are whole.
* `DerniereEcriture` without `~incertain`: on the constants of `store`, by each of the four events
  its comment names.

*Ingestion and erasure.*

* `EffacementComplet` (`queries-dsar.ts:618`) with `Signaux <- Visites` and three sessions:
  `dsarErase` bars the sessions it finds in the queue but erases under the stored ones only; the log
  of a queued session stays. For an identity, the same when the login is still in the queue.
* `FileEcrivable` (`migration-v81.sql:355`) with `Mode = "off"`: the session line of the visitor
  leaves the queued batch of two people and its pages stay; they have no session to refer to, and
  the batch fails until it is given up, with the other person's rows.
* `RienNeRevient` with a backend error that claims a session (`rattacherSessions`,
  `pg-ingest.mjs:200`): an anchor stored before the login has no hash, survives the erasure of the
  identity, and is claimed although its session is barred.

* `RienDuSujet` without `UnSujet`, for two batches of one session `s1`, the session's line and a
  page of identity `h1`, then the line again and an event of `h2`, and `Sujets = {<<"user", h2>>}`:
  one person logs out and another in, the line keeps the first identity it had (`otlp.mjs:1707`),
  and the erasure of the second reaches rows through the line only (`queries-dsar.ts:458`).

*Issues.* `RattachementVivant` (`migration-v82.sql:282`) on the constants of `issues`: a batch reads
the identifier of an issue, retention deletes the issue, the batch commits rows that name it; no
foreign key (`migration-v72.sql:197`) and no lock keeps the two apart, and the rows show under no
issue. « Une issue n'est purgée qu'après toutes ses occurrences », says `migration-v72.sql:198`;
`migration-v81.sql:577` keeps the lock of the application out of the purge because a writer «
n'écrit que des lignes postérieures à la coupure » (line 580), « une course qui n'existe pas » (line
582). The rows are later than the cutoff; the issue they go to is not.

*Scheduler and its watch.*

* A deadline that runs out without a give-back is read as a heartbeat: `BattementExact` counts it
  (`derniereDette`), as the comment "LIMITE CONNUE" of `bail.mjs:122` concedes. Hence a scheduler
  that dies in each of its ticks is never told silent.
* `UneAlerteParSilence` with `Deborde = TRUE` (`veille-ordonnanceur.mjs:110`): a tick that outlasts
  its lease, then fails, gives the row its old heartbeat back after its deadline was read as a
  return; the same silence is told twice, against « UN ÉPISODE = UNE FENÊTRE = UNE ALERTE. » (line
  29).
* With three notifiers (`Veilleurs` of three, `MaxNow = 5`, `MaxPannes = 0`) episodes may overlap
  and `UneAlerteParSilence` is violated: two of them read the silence, the tick comes back, one
  opens the episode and alerts, the third closes it, the second then finds none open (`SQL_OUVRIR`,
  `veille-ordonnanceur.mjs:153`), opens it again and tells the same silence twice. A return that no
  pass sees leaves the episode open into the next silence, which then has no alert of its own. A
  slower cadence, once published, closes an episode with no tick.

*Backfills.* `UnSeulTravailleur` (`runner.mjs:228`) with two workers, two runs, `NbSegments=1,
MaxId=3, MaxPannes=2, Serie=FALSE`: the passage to running asks nothing of the state of the run,
although « Le refus vient de la BASE » (line 235) holds for two runs and not for one taken twice. A
pause followed at once by a resumption revives the worker that had not seen the pause; a completed
run may go back to running.

*Service kit.* A client that leaves during the drain takes its connection away and not its handler,
which still runs when the pool is ended (`lifecycle.mjs:18`): `FermetureApresTravail` with `requetes
= {}` in place of `actives = {}` is violated.

*Web SDK.* The counter of attempts (`retry.ts:340`) counts the failed batches of the shared file
since it was last cleared, and a replay clears it (`retry.ts:297`); lines 53 and 197 (« Tentatives
déjà faites sur ce contenu ») say it counts those of the content.

* Two tabs that load together send the same spans again (`retry.ts:292`), and a tab that writes the
  file it has made of the one it read brings back spans another has taken (`retry.ts:339`): that a
  span is in one place at most is refuted on the constants of `webretry`.
* `EnfantApresRacine` without `doubles`: a tab appends to the file another is sending again,
  eviction leaves an effect in front of its root, the file is then cut between the two
  (`RETRY_MAX_SPANS` is 100, `MAX_BATCH` 64) and the effect is sent first, against « pour qu'un
  enfant ne dépasse jamais sa racine ». Two actions, `MaxRetry = 4, MaxBatch = 2, MaxTentatives = 3,
  MaxPages = 3, MaxEchecs = 3, MaxRefus = 0`.
* `RefusTient` if a withdrawal in one tab refused what another has just read and not put in its
  buffer yet (`Charge` in place of `Tenus` in `Retracter`): that tab puts it back.

*Migrator.*

* `PromesseTenue` with `BaselineOubliee = TRUE` and `Liaisons = {"directe"}` (`migrate.mjs:798`):
  the guard of the baseline lets through a base being created by another migrator, and marks files
  it never had.
* `AucunIndexMort` with `Liaisons = {"directe", "aucune"}` (`migrate.mjs:856`): `exigerIndexValides`
  reads the index outside the lock; another migrator drops and rebuilds it before the file is
  registered.
* `Promesse!Vivacite` with `Liaisons = {"pooler"}`: behind a pooler nothing betrays, the unlock
  falls on another backend than the lock; every later migrator waits for ever. Two that share that
  backend hold it both, as it is re-entrant.
* The fingerprints are said to be compared « sous le verrou » (`migrate.mjs:643`); the baseline
  writes its own without it.

## 7. Plan

Done: (1) `SchedulerLease`; (2) `AlertDelivery` against `DeliveryPromise`; (3) `MobileSdk` and
`MobileStore`; (4) `PrivacyIngest`; (5) `SchedulerWatch` against `WatchPromise`; (6) `WebRetry`; (7)
`ServiceLifecycle`; (8) `BackfillRunner`; (9) `Migrator` against `MigrationPromise`; (10)
`IssueWorkflow`. All have their safety proved. A dozen runs stay readable, so a module to come takes
the place of one whose question another answers.

Next modules, in order:

11. `IngestDeadline`: budget, grace on the commit, one round trip and its fallback, several
    applications locked in order.
12. Throttling of sign-ins (`debit-auth.ts:143`) and sessions revoked while in use.
13. In the modules there are: shutdown and a second `init` in `MobileSdk` (`index.ts:1136`), several
    applications in `PrivacyIngest` (`queries-dsar.ts:583`), a deliverer without e-mail that skips
    for all (`dispatch-alerts.mjs:229`), the session shared by tabs (`session.ts:43`), merges of
    issues.

Next proofs: `RegistryPromise` without its hypothesis, should the guard of the baseline be moved
under the lock; and whatever the next modules need.
