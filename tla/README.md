# Dum-Ka: a TLA+ model of the running system

Dum-Ka is a macOS MIDI sequencer: a Rust engine (`src/crates/`), a Tauri shell
(`src/src-tauri/`) and a React frontend (`src/ui/`). What it plays is computed
by pure, seeded functions over exact rationals. What can go wrong in ways a
unit test hardly reaches is the machine around them: one scheduler thread that
swaps its content under sounding notes, a telemetry path that compares version
digests instead of contents, three unordered event channels into the browser,
and a MIDI route over devices that come and go. Around it stand three algorithms
whose results depend on how their work is cut: the parallel runtime, which
realizes several tracks window by window into one queue; the trigger compiler,
which must launch the same whatever the windows; and the evolution of Dum-Ka
patterns, a fold of edits under three rails. Beneath them lies the realization
of one cycle: a score is divided, edited, overlaid with a rhythm, routed to
channels and mapped to the clock by parts that were written apart and have to
agree, and the shell shows the same cycle by another way without playing it.
These are what this project models, checks with TLC and, where the prover
reaches, proves with TLAPS.

## 1. The system

| Part | State | Operations | Talks to |
| --- | --- | --- | --- |
| Scheduler loop (`cseq-transport/src/engine.rs`) | playback position, event queue, realization watermarks, discard and sweep watermarks, active-note ledger | 13 commands, the play step, dispatch, publish | commands over a bounded channel; MIDI sink; shared layers under `shared.lock()` |
| Playback layers (`layers.rs`) | seven stores of events, each with a sequence counter and a version | record, push, clear, retain window, digests | written by the scheduler, read by telemetry |
| Telemetry emitter (`main.rs`, `snapshot.rs`) | last digests, log interest, timeline epoch, last position | 16 ms poll, snapshot command, interest command | reads layers; emits events; telemetry lock |
| Frontend gate (`telemetryGating.ts`, `App.tsx`) | shown grid, promoted epoch, live and pending position | promote, gate, accept a snapshot, watchdog, reset | three Tauri channels |
| MIDI output (`cseq-midi`) | routed destination and connection, failing flag | send, connect, reconnect, disconnect | CoreMIDI |
| Route reconciliation (`main.rs`, `machine.rs`) | saved, desired and connected destination | select, rescan, restore at startup, hot-plug watcher | scheduler (`ConnectMidiDestination`), preferences, CoreMIDI notifications |
| Transport handle (`engine.rs`) | channel, acknowledgements, shutdown result | acknowledged commands, `shutdown_now` | scheduler |
| Parallel runtime (`parallel.rs`) | track cursors, conflict windows, deferred note-offs | realize until, apply in place, reset, conflict pass | called by the scheduler |
| Track flow, triggers (`trackflow.rs`, `cseq-trigger`) | the walk's history and draws; per follower a carry: active run, queued fire, counters, gate | next choice; compile a window | parallel runtime |
| Dum-Ka evolution (`generators/dumka/`) | the pattern, two anchors, one accumulator per ranged row | the fold of one cycle: rows, steering, curve, stochastic layer | generation |
| Score (`cseq-model`, `-transforms`, `-realize`) | the duration tree, the pipeline, pools of seeds | edits, the subdivision switch, realization to events | generation |
| Rhythm (`cseq-rhythm`, `generator.rs`, `overlay.rs`, `rewrite.rs`) | generators, channel walkers, their automation | parse and compile a notation, fill accent spans, overlay, route | scores, parallel runtime |
| Automation (`clock.rs`, `cseq-model`) | curves, tempo maps, the playback log | sample, type, map ticks | everything above |
| Shell (`main.rs`) | the session a request stands for | build or refuse a score and a rhythm; preview a cycle | transport, editors |
| Machine files (`machine.rs`, `main.rs`) | autosave, preferences, the legacy session | save, migrate, clear, load | shell |
| Editors (`ui/src`) | drafts, latest-wins request queues | IPC requests; normalization of patches | shell |

What is hard in each:

* **Scheduler.** Commands are drained in batches; a swap empties the queue,
  and with it the note-offs of what sounds. Two watermarks
  (`discard_queued_before_tick`, `pending_note_sweep`) are set by a command and
  consumed in a later play step, with any other command in between. It is
  correct if no note hangs, nothing is played twice, and the ledger agrees with
  the receivers.
* **Layers and emitter.** Versions stand for contents. It is correct if a
  version moves exactly when contents do, and an equal digest means an equal
  payload for every log interest.
* **Frontend.** Positions may overtake grids and either may overtake a command's
  answer; events sent before a listener exists are lost. It is correct if the
  playhead never moves over another grid, and a frozen one recovers.
* **Route.** A selection, a rescan and a hot-plug notification compete for one
  lock; a topology change is debounced, so that an unplug and replug look like
  nothing; an attempt to connect fails halfway. It is correct if no receiver is
  left sounding, and the last selection wins.

* **Parallel runtime.** Tracks of different kinds advance in three passes, window
  by window; conflicts between them are decided per overlap component, once,
  although the components grow at the window's edge; a policy may remove a note
  but never half of one; note-offs that would cut a note of another track are
  deferred; a pass may fail with some cursors advanced; an edit is applied in
  place or rebuilds everything while the queue still holds the old content. It is
  correct if windowing shows nowhere, and no note is left without its end.
* **Triggers.** A fire of the source is placed, gated by cooldown and counters and
  meets the run it finds. It is correct if the launches are those of one compile
  of the whole span, however the windows fall and however often one is repeated
  after a failure. Its configuration is read twice, by the editor and by the
  engine, each forgiving in its own way; the editor must show what runs.
* **Dum-Ka.** Each cycle edits the pattern the cycle before left. Three rails hold
  it: the density corridor, the leash (whose anchor moves), and the count floor
  (because the anchor moves). Normalizations that restore one rail can break
  another.

* **A cycle.** Sections, gatis, groups and inflections cut the same time in
  several ways; the spans that a rhythm fills are emitted apart from the tree
  that the notes come from; a note of a pattern is cut at spans, tied, joined
  again, sorted, routed, and stretched by a tempo. It is correct if the cuts
  agree, no note loses its end on the way, a weave keeps its quotas whatever
  forces a note, a replay from the recorded seeds repeats, and a preview of any
  cycle shows what plays.
* **Machine files.** Every save is several file-system calls, each of which may
  fail or be the last, while another instance starts and migrates. It is correct
  if what was acknowledged is what a restart finds.

`PROJECT.json` lists every hazard at its line with the properties that catch it.

## 2. The modules

    Mirror <--implements-- TelemetryGate --EXTENDS--> PlaybackLayers
                                ^
                           Telemetry
    Scheduler          MidiRoute          TransportHandle          MachineFiles
    ChannelConflicts, Triggers, TrackFlow <-- ParallelRuntime
    Triggers <-- TriggerConfig <-- TriggerCompiler
    DumkaGrid <-- DumkaOperators <-- DumkaFigures <-- DumkaEvolution
    Rationals <-- Automation, ChannelHocket <-- HocketAutomation --+
    Rationals <-- ScoreTree, Automation <-- SectionPlans ----------+-- ChannelRouting
    ChannelRouting, DumkaNotation <-- RhythmOverlay <-- CyclePlayback <-- StoppedPreview
    *Proofs EXTENDS its module       MC* EXTENDS its module

(An arrow points from what is extended; DumkaNotation and ChannelHocket take
their Euclidean masks from DumkaGrid by INSTANCE.)

**PlaybackLayers** models `LayerStore` and `PlaybackLayers` operation by
operation, and the scheduler's critical sections that call them (Play, Stop,
the reapplying commands, one realized cycle, one logged message, the end of a
loop iteration). A store is the set of its visible events; an event is its
arrival index, its cycle and, where the layer stamps one, its sequence number.
The arrival index is not in the code: it tells events apart and keeps the
`VecDeque`'s order. The capacity of a layer is a constant, so
one action definition serves seven stores of three kinds: `Overlays`
(cycle window), `Recorded` and `Conflicts` (cap only, cleared with the run) and
`DebugLogs` (which survive).

**TelemetryGate** adds the emitter: `Poll` is one iteration of
`spawn_snapshot_emitter` with `Transport::sample_telemetry`, `SetInterest` is
`transport_set_telemetry_interest`. `sent` is what the last payloads contained.

**Mirror** is the abstract promise: a copy of a source, refreshed by polls. The
emitter implements it (`MirrorsTimeline`).

**Telemetry** adds the way to the frontend: two event channels, the answer of
`transport_get_snapshot` (its two critical sections are two actions, since
`snapshot()` and `sample_telemetry()` lock separately), the listeners that are
registered after the first answer, `promoteTimelineSnapshot`, `gatePosition`,
`acceptTransportSnapshot`, the watchdog and the reset. The mount effect, the watchdog and
the user's resets each call for a snapshot of their own (`Callers`): only the watchdog
looks whether its own call is under way, so several may be, and their answers may
be accepted in any order, an older grid after a newer one.

**Scheduler** is `scheduler_loop`. `pc` says whether the loop drains commands
or dispatches. A command arm is an action; the play step up to dispatch (clock,
lookahead, discard, orphan sweep, stuck-note sweep) is one action, because no
other thread reads or writes the loop's locals; each dispatched message is one.
Realization is a constant function `Takes` from a source to the note sets a
cycle of it may have, chosen anew at each realization: this covers seeded
generation, automation, and a reapply that re-realizes differently. `ringing`
and `counting` are two receivers: one that any note-off silences, and one that
counts note-ons and may ignore CC123 (`HonoursCC123`). A failed send changes
what the code changes.

**MidiRoute** is the routed leg: `MidiOutput`, `ConnectMidiDestination`,
`reconcile_midi_route_locked` in three actions (enumerate, request, commit)
under one holder of `midi_route_reconcile`, its four callers, CoreMIDI's
notifications with the one-slot channel and the debounce, and devices that
come and go at any moment.

**TransportHandle** is `Transport` as its callers see it: the bounded command
channel, the acknowledgement channels, the `OnceLock` of `shutdown_now` and the
end of the scheduler thread. A caller's call goes through the stages sending,
waiting, blocked (behind another caller's shutdown), joining and done; a
command's effect is only a count (`applied`), since what it does is Scheduler's
subject. The four kinds of calls are the four moments a caller is told: on
sending, by the handler, after publication, or when the thread is gone. The
crossbeam channel is external: a send waits for room, and dropping the receiver
discards what is queued together with its acknowledgement senders.

**ChannelConflicts** is the conflict pass over a set of queued events: note groups
(last in, first out), overlap components, the fifteen policies, the matrix of
explicit rules, removal of whole groups, and the deferral of premature
note-offs. **TrackFlow** is the Markov walk over the members of a lane;
a step past the entry draws a transition and then, used or not, a fallback.
**Triggers** is the compiler of `cseq-trigger`: a cycle's resolved structure,
predicates and their combinations, placement, quantization, the gate, and what a
fire does to the run it meets; one `Compile` call folds a window.
**TriggerConfig** is the way of its configuration: a patch's record, a tagged
JSON value, through the editor's normalizer (`patchIo.ts`), the engine's forgiving
deserialization and its own normalization (`config.rs`), and through the flat
editor of conditions (`triggerUi.ts`) and back.
**TriggerCompiler** calls it window by window, with windows of any length and
repeats after a failure, against one compile of everything.

**ParallelRuntime** extends all three: the cursors of continuous tracks, lanes and
followers, `realize_parallel_until` with its three passes and an error in any of
them, pruning, and the scheduler's commands and play step around it (`Play`,
`Stop`, `SetParallelPlayback` in place or by rebuilding). What a score generates
is data: a source has takes (sets of notes) and cycle lengths. Ghost variables
record what was realized (`batch`, `earlier`), what the timeline shows (`shown`)
and whether playback is as Play began it (`pristine`, `edited`).

**DumkaGrid**, **DumkaOperators**, **DumkaFigures** and **DumkaEvolution** are the
Dum-Ka evolution, from the tables (Barlow ranks, metrical levels, Euclidean
masks) over the eight operators and the normalizations to the fold. An operator
is the set of the patterns its draws can propose, so the fold covers every seed;
the scores that choose the best prefix of a walk are abstracted the same way.
`lowest` is a ghost: the lowest count a ceiling or a tightened leash imposed.

**The realization of a cycle** is a chain of modules, pure up to CyclePlayback.
*Rationals* are the exact fractions of the code. *Automation* samples curves
(replace, add, multiply; holds, anchors and warps), types the sample, and builds
the tempo map between a track's ticks and the reference clock, from the tempo
lanes of the score and then of the rhythm. *ScoreTree* is the
duration tree with its selectors, edits and realization; *SectionPlans* the
subdivision switch, from the sections a cycle is cut into to the tree and the
spans; *ChannelHocket* the Markov and Euclidean walkers; *HocketAutomation* what
automation does to their specification and how it is repaired;
*ChannelRouting* the routing of a queue, group after group; *DumkaNotation* the
parser and the printer of the pattern notation; *RhythmOverlay* its compiled
tree, the example generator, the cells they put into spans, and the overlay.
**CyclePlayback** plays them: `LoadSession`, the stages of one cycle (config,
pipeline, generator, queue, one routing step for each note group, map), the next
cycle, an error, and a replay from the recorded seeds. Random draws are sets of
outcomes. **StoppedPreview** is the shell: requests that are accepted or refused,
the scores and rhythms made of them, the preview of any cycle, and what playback
logs of its automation.

**MachineFiles** takes the saves apart into file-system calls: a write truncates,
then fills; a rename publishes; a hard link migrates the legacy session or,
across volumes, a copy does. Any call may fail, an instance may die before any.

Definitions whose comment calls them a mutant or a plausible slip are broken
variants of the definition that follows; no specification uses them. They are
kept to show that each property can fail.

## 3. The runs

Bounds are named constants in guards: `MaxCycle`, `MaxArrived`, `MaxEpoch`,
`MaxInFlight`, `MaxTick`, `MaxAdvance`, `MaxFailures`, `MaxCount`, `MaxCalls`,
`MaxCycles`, `MaxSessions`, `MaxRetries`, `MaxCommands`, `Horizon`. Limits of the code that an
instance shrinks are constants too: `MaxDepth`, `MaxNodes`, `MaxStartOptions`,
`MaxRepeatsCap`, `MaxStoppedPreview`, `MaxPatternLen`, `MaxPatternNodes`,
`MaxNodeWeight`, `MaxRepeat`, `MaxGroupDepth`, `MaxEuclidSlots`, `PPQN`, `TempoSamples`.

| Run | Distinct states | Shows |
| --- | --- | --- |
| `layers` | 903k | `NoHoles`: stores without holes, in order of arrival; `VersionTellsContents` |
| `gate` | 76k | equal digests mean equal payloads (`TimelineGateSound`, `LogGateSound`); the emitter mirrors the overlays, with liveness (`MirrorsTimeline`) |
| `telemetry` | 1.1M | `PlayheadOnShownGrid`: the playhead stays on the grid promoted with it, and an epoch stands for one grid; `PendingReleased`: a buffered position is released, by its grid or by a snapshot |
| `scheduler` | 55k | `NoHungNote`, `NoReplay`, `OverlayMatchesQueue`; a pending sweep runs (`SweepRuns`) |
| `route` | 7k | `NoStrandedNotes`, `LastSelectionWins`; a chosen device that stays is connected for good (`RouteRecovers`) |
| `handle` | 82k | acknowledgements follow publication, answers are honest, shutdown completes, every call returns |
| `triggers` | 18k | `WindowingAssociative`; `RunsNeverOverlap`: runs lie apart, their local cycles are contiguous, cooldown spaces accepts; `EditorShowsWhatRuns`: the editor shows what the engine makes of a record, and its rows keep their meaning |
| `parallel` | 24k | every note ends (`NoteBalance`); `CyclesRealizedOnce`, with lanes that follow their walk; `SteppedMatchesSinglePass`; one track per exclusive channel; no premature off; timeline and audio agree; `ReplayIdentical` |
| `dumka` | 78k | `PatternPlays`; `RailsHeld`: density corridor, leash, count floor; `RowsHeld`: scopes kept, ranges add up; the tables are sound (an assumption that TLC evaluates) |
| `cycle` | 53k | `SpansMeetMatras`, `PatternHeard`, `RoutingKeepsPairs`; `QuotasKept`: layers get their pulses, and the magnet the nearest; `MappedNotesLast`, with the tempo map inverted; `ReplayRestoresPools`; `PreviewMatchesPlayback` |
| `machine` | 842k | the acknowledged session and the acknowledged preferences are what a restart finds (`SessionKept`, `PrefsDurable`) |

Why the bounds are enough. `layers`: capacities of 1, 3 and 4 with batches of
two make eviction, partial pruning, total pruning and clears happen in every
order; arrivals exceed each capacity by at least one. `gate`: one layer of each
role and all interests over them. `telemetry`: polls that change the grid and resets begin
at up to three epochs (`MaxEpoch`), so that an answer, a grid in flight and a
pending position are all of different epochs; the watchdog and the mount are not bounded,
and the epochs they add come on top. A reset may be under way beside both
(`Resets`), so that answers pass each other and take the grid back. One
message in flight on each channel suffices beside them: the theorem on the playhead
holds for any number. `scheduler`: two keys, cycles of two and three ticks, notes that end in
their cycle, at its end and in the next one, three cycles of playback, and
clock jumps over a whole short cycle (a late wake-up), and one send that fails
anywhere. `handle`: three callers over a
channel of two, so that one waits for room while another's shutdown is queued
and a third repeats it; four calls let a caller come back after the thread is
gone. The real capacity is 64; nothing depends on the number, and the theorems
hold for any. `route`: two devices to switch
between and one key that may sound twice. `triggers`: twenty ticks of horizon over
source cycles of a few beats, every predicate, placement, gate and re-trigger
mode in some scenario, one failed window. `parallel`: a lane of order two whose
fallbacks have weights, so that they are drawn where a transition is and where none is; a reference cycle of two
beats of four ticks, eleven ticks of playback, steps of none and five ticks (so
that a window is cut in the middle of a cycle), two and three tracks of every
kind, three commands and one failure; every source is as long as the cycle. With
cycles of different lengths `SteppedMatchesSinglePass` does not hold, since
components are cut per window. `dumka`: two beats of two slots, three
cycles, seeds of one, two and four onsets, plans that bring every family, pace,
scope and kind of row, leashes of 25 and 50 percent, an open corridor and a
narrow one, two operations per walk; a longer grid or a third operation brings
no case these do not have, but multiplies the draws. `triggers` also reads some
seventy records (35, from either source) that are over every limit in turn: too
deep, too large, of unknown tags, with numbers as text or out of range.
`cycle`: fourteen sessions of two or three beats at twelve ticks a beat, each
for a part of the chain (see MCCycle's header), and the family of all small
requests that the shell accepts; two cycles, so that walkers, pools and
automation carry over, and a replay of them. The ticks are few but divide by
two, three and four, so that groups meet beats and do not. The limits of the
notation are a tenth or less of the code's, and texts of up to four signs and
Euclidean calls in up to two groups meet each of them. `machine`: one instance
that saves two sessions, another that starts and migrates, one destination, two
settings: every interleaving of their file-system calls with a death or a
failure at each.

`CHECK_DEADLOCK FALSE` is said of Scheduler and TransportHandle, which end with
Shutdown, and of the runs that end at their horizon: `triggers`, `parallel`, `dumka`.

A type invariant is a run's property only where nothing proves it: where a
module has proofs it is a theorem, in the others it is a conjunct of a structural
invariant (`LocalCyclesContiguous`, `LaneFollowsWalk`, `PatternPlays`).
`LedgerKnowsSounding` and `WithinCapacity` are theorems too and no longer
checked by a run.

One run is expected to be refuted by TLC: `automation_twice`. A lane that adds to
a channel parameter is applied when the configuration is automated for a cycle,
and again, on top of that, when a note group re-samples it; `docs/AUTOMATION.md`,
quoted in `PROJECT.json`, has the samples added once.

### Deviations met while modelling

No run states these; the bounds of the instances keep clear of those that would
break another property, as said at the definition concerned.

* Scheduler. Events that are not stale are dropped after a swap, since the discard
  watermark survives Stop and Play. A receiver that counts note-ons keeps a key
  that the orphan release ends once (`engine.rs:559`); a monitor-only reapply
  plays the event at the swap tick again (`engine.rs:1596`); a scheduled sweep
  waits while no source is loaded (`engine.rs:1661`); the digest of a snapshot is
  read after its contents (`main.rs:1752`); the notification client is created
  after the first reconciliation (`main.rs:4274`).
* Triggers. A quantize grid that is coarser than a source's cycle and snaps to the
  `previous` point can place a launch before the cycle that fires it. Such a launch
  is dropped as past in the usual course, but a window that is compiled again
  after a failed realization has not passed it yet: it is launched behind what the
  first compile launched, and two runs overlap under `ignore` and `queue`
  (`compiler.rs:314` compares with the window's start, not with what was compiled).
  `LaunchesForward` excludes it for `RunsNeverOverlap`; `WindowingAlways` assumes
  `PlacedForward` even without retries, since the window in which such a launch
  lands may be over before its cycle is known, whereas one compile of the whole
  launches it. Pruning of source cycles counts the largest offset but not a delayed
  quantized placement, and loses launches on a long quantize grid
  (`parallel.rs:2461`). `remap_to_reference` maps ticks one by one where the queue
  widens short notes. Records that only a hand-edited patch can hold are read
  differently by editor and engine: numbers as text, unknown tags with a
  predicate, trees cut by depth before or after they are counted, passes above
  the engine's cap, seeds beyond 64 bits.
* Channel conflicts. A window decides the notes that are queued, and a note-on that
  was sent has left the queue. Where a track's cycle is longer than the reference
  cycle (24 ticks with a note from 2 to 20, next to a track of 8 with a note from 2
  to 6, the reference cycle 8, one channel and pitch), a later window adds notes
  around the note-off of a note that sounds, which belongs to no group any more and
  is not deferred: it ends them early. The comment on
  `defer_premature_same_pitch_note_offs` (`parallel.rs:1507`) and step 6 of
  `docs/CHANNEL_LOGIC.md` say that what is realized step by step needs no other
  decision. A playback in steps then differs from one pass too. `CyclesMeet` keeps
  clear of it, by what it says of the cycles.
* Dum-Ka evolution. The count floor is ratcheted down by Stochastic rows between
  curve cycles (`evolve.rs:3148`).
* Notation. `dsl.rs` says that parsing what is printed gives the same tree. It
  does not where sugar expands past the limit on a text's length, or where `E(..)`
  stands in the deepest group allowed: it makes a group and is not held to the limit.
* Trees. A tied node whose first child is subdivided keeps several note-ons and one
  note-off. Custom grids of legacy divisions pass validation and cannot be
  resolved. A boundary of probability 0 without a positive gati is accepted and
  fails every cycle (the editors always send 1). A second subdivision switch
  clears the first one's spans. A note rounded to no ticks sorts its end before
  its start; so would one of velocity 0, which is a note-off.
* Routing. A fallback channel automated off the enabled channels is repaired for
  the cycle but not for a group, which fails (the session `astray`). An automated
  accent range that is inverted is swapped for the cycle and re-sampled over the
  swap. Euclidean lanes are re-sampled per group in playback and shown at the
  first beat. A rule that is disabled by its probability is enabled again by a
  lane that replaces it.
  Queue ticks are paired first in, first out, and note groups last in, first out.
* Seeds. A pool's seed is used up before a later edit fails (the session `late`);
  seed-mode weights that automation changed are written back to the configuration.
* Files. Two instances that save share their temporary files (bounded away by
  `User` and `OneCopyAtATime`); a legacy session left behind is migrated again
  after a clear; the guard against migrating a file onto itself cannot hold;
  saving a patch, a track or a score truncates the user's file in place.

### Fairness

* Emitter: `WF(Poll)`. Its thread loops with a sleep and never blocks for good.
* Stream: `WF` of delivery, of serving the snapshot command and of the frame
  callback that runs the watchdog, each caller's command by itself. Nothing is assumed
  of the scheduler or the user, who may reset or not; that a command fails is left out.
* Scheduler: `SF(Step)`. The thread loops as long as it lives; strong, because
  commands that take the source away and give it back may disable the step for
  a moment, again and again.
* Handle: `WF` of the thread's next step and of what a woken caller does; `SF`
  of a sender waiting for room, since crossbeam wakes waiting senders as slots
  free although others may be faster.
* Route: `WF` of a reconciliation under way (the scheduler goes on serving
  requests) and of receiving a notification; `SF` of starting the watcher and
  of the watcher's reconciliation, since users may keep taking the lock and a
  mutex serves every waiter in the end.

`triggers`, `parallel`, `dumka`, `cycle` and `machine` are safety only: nothing in
them waits.

`RouteRecovers` is checked with connects to present devices that succeed: the
code retries a failed one only when the topology changes or the user asks.

## 4. What is proved

Each `...Proofs` module holds for every value of the constants that satisfies
the named assumptions of its module.

* **TelemetryProofs**, on the layers: `LayersType`, `LayersWithinCapacity`,
  `VersionsTell`, `LayersNoHoles`. The invariant says of each store that it is finite, that its
  ids are at most `arrived`, and that trimming it changes nothing. The last is
  needed: `Newest` of a set bounded by its capacity has to be shown to be
  bounded again after any append, and the version argument needs that a
  nonempty batch shows, which new ids guarantee. `NoHoles` says of the sequence
  numbers and cycles that are kept that none is missing; its invariant
  (`HolesInv`) is about arrivals instead: a store holds every arrival from its
  oldest on, and cycles and sequence numbers follow the arrivals, so that whatever
  eviction or pruning removes is a first part.
* **TelemetryProofs**, on the emitter: `GateType`, `TimelineGate`, `LogGate`,
  `EmitterMirrors`. The digest properties are not inductive as they stand: that
  digests are equal now says nothing of the versions in between. The invariant
  relates each remembered version to the current one: not ahead of it, and if
  equal, the sent contents are the current ones; versions only grow
  (the lemma behind `VersionsTell`), so contents cannot change under an equal
  version. `EmitterMirrors` is the refinement of `Mirror!SafeSpec`.
* **TelemetryProofs**, on the stream: `StreamType`, `PlayheadStaysOnGrid`. The invariant says where
  epochs are: those on the event channel grow, each is in one place only (under
  way, in the answer to one caller, promoted), a live position is of the promoted
  grid and a pending one of a later grid. It holds for any set of `Resets`.
* **SchedulerProofs**: `SchedulerType`, `LedgerKnows`, `NoNoteHangs`,
  `NeverReplays`, `OverlayFollowsQueue`. What the first three say of ledger and receiver holds up to
  the first failed send (`AllSent`): the code updates the ledger whether or not
  a send succeeded and retries nothing. `NoNoteHangs` assumes
  `NotesLast`: no note is rounded to length zero. Its invariant adds that every
  queued note-on has its own later note-off in the queue, so that dispatching a note-on
  leaves the key covered, and the orphan sweep keeps exactly the keys whose next event
  is a note-off. `NeverReplays` needs that a pending sweep is accompanied by
  the discard watermark of the same tick. `OverlayFollowsQueue` assumes
  `NotesStartInTime`: a note starts in its cycle or the one after. The overlays are
  pruned by cycles and the queue by ticks; `OverlayInv` adds what keeps the two
  together: the lookahead is within two cycles, and a queued note-on lies within
  two cycles of its own on the grid the queue was filled with.
* **MidiRouteProofs**: `RouteType`, `NoStranded`, `SelectionWins`. `NoStranded`
  is inductive with the types: what a device hears is at most what the ledger
  counts, hence counted note-offs bring it to zero. It assumes that CC123
  is obeyed or Stop is not used (`SilencersSuffice`): Stop sends all-notes-off
  alone and empties the ledger, so a receiver that ignores it keeps sounding,
  whereas Panic and Shutdown send the ledger's note-offs first. It covers connects that
  fail, which the run does not. `SelectionWins`
  speaks of idle states; its invariant `OpInv` says what a reconciliation under
  way is bound to: the published selection, a target within it, and, once the
  scheduler answered, a route that is its or none.

* **TransportHandleProofs**: `HandleType`, `AcksFollow`, `Answers`,
  `ShutdownDone`, for any number of callers and any capacity. The invariant says
  who waits for what: a queued command that has a waiter is that waiter's only
  one and not applied (`MessageInv`), those in `command_acks` wait for an applied
  one (`AcksInv`), an index is never ahead of the thread (`CallInv`), and at most
  one caller carries the shutdown, which alone ends the thread (`ShutdownInv`).
  Without the last, `ShutdownCompletes` could not exclude that a second shutdown
  is thrown away with the channel and answered as failed.
* **MachineFilesProofs**: `MachineType`, `SessionIsKept`, `PrefsAreDurable`, for any
  number of instances, settings and sessions. `SessionInv` follows the document
  through the file-system calls: who is about to publish has a whole temporary,
  the migration's temporary has one holder, and who is about to remove the
  legacy session sees an autosave in its place. `PrefsInv` says that the
  candidate a command writes is what was last acknowledged but for its own field.
* **OperatorProofs** has no theorem of its own but the lemmas about the operators that
  ParallelRuntime and TriggerCompiler are built from: one compile of the triggers, a
  lane's walk, and the conflict pass (pairing, removal, components, deferral).
* **TriggerCompilerProofs**, on OperatorProofs:
  `RunsApartAlways`, `WindowingAlways`, for any configuration, source,
  windows and number of retries. `CompilerInv` says what the carry knows of the
  launches so far, and that every fire that lands before what is compiled is
  consumed; `LoopInv` is the same for the state of the loop inside a window. The
  loop is a recursive function, and `Inductive` (of a set, hence without an
  operator parameter, proved from the well-foundedness of finite sets) carries an
  invariant along it. Under retries it assumes `LaunchesForward`, see above.
  `WindowingAlways` compares two loops, that of the whole span and that of a
  window: from equal states they take equal steps until the window has no fire
  left (`ShadowStep`), and a loop whose fires are taken changes nothing more
  (`DoneStays`), which happens before its bound (`LoopEnds`). What is left is the
  window's end, which forgets a run that is over: a stale run decides nothing of
  what comes after it (`SameCarry`). The invariant adds that no fire still to come
  is consumed, or else a window would skip what the whole launches.
* **ParallelProofs**, on OperatorProofs: `CyclesOnce`, `ReplayAlways`, `EveryNoteEnds`,
  for any projects, faults and commands. A realization plays from where the cursors
  stand, so that it plays nothing twice takes that all notes played so far lie
  behind them: `CyclesInv` says so of the notes before the last realization and
  of its own (`Behind`), and keeps the two apart. A turn of a continuous track, a
  lane or a launch plays at the cursor and leaves it past what it played; the
  lemmas carry this through the loop of a pass, the three passes with a fault in
  any of them (what a failed realization took stays behind cursors that moved),
  Stop, and an edit in place (which replaces what a source plays and not its place
  in the track: its cursor goes on). Lanes that
  follow their walk need that each runtime track is its walk's (`InStep`), up to
  the first failure: a walk that chose a member whose realization then fails is
  ahead of it. `ReplayAlways` follows from the same invariant with a lemma that
  `Reset` of any reachable runtime is the fresh one (`ResetIs`). Assumed is what
  a project passed before the engine sees it (`ValidProject`): finitely many tracks, the
  unique ids and well-formed walks that `sections.rs` and `trackflow.rs` check, and cycles
  of at least a tick (`clock.rs`, `.max(1.0)`); TLC evaluates it on the run's projects.
  `EveryNoteEnds` (`NoteBalance`) assumes `NotesLast`, a note of a local tick at least:
  `map_parallel_queue_ticks` then gives it one on the reference clock. What is queued
  and what was sent are balanced together on every track and voice (`Sound`), while
  the conflict pass sees the queue alone, whose first note-offs may end notes already
  sent. That it removes a note-on only with the note-off of that note takes that
  pairing last in, first out is one to one (`ClosedOnce`, `ClosesOne`) and leaves no
  note-on open that has a note-off to come (`IsClosed`, `ClosesSome`); `BalanceKept`
  then counts what is left, and `DeferredSound` says the same of what is deferred.
  `BalanceInv` adds to `CyclesInv` that what was sent lies before what is queued
  (`InFlight`) and that every event is of a note played so far: a batch, of new
  cycles, shares no note with them. A failed realization loses its batch whole.

  Four properties are about what is decided over several windows: `OffsWait`
  (`NoPrematureOff`), `TimelineTrue` (`TimelineMatchesAudio`), `ChannelExclusive`
  (`ExclusiveChannel`), `SteppedIsSinglePass` (`SteppedMatchesSinglePass`). They do not
  hold of every project that passes validation, see the deviations above, and the theorems
  say of which they do: no followers, the cycles of a track of one length that
  divides the reference cycle, notes that end within their cycle (`CyclesMeet`). An edit in
  place keeps a track's cycle length, for one that comes after a failed realization
  finds tracks in the middle of a window. `TimelineTrue` adds that the notes of a
  track that start within a tick of each other start together on one channel
  (`StartsApart`): the metadata of a suppressed note is found by track and start, give or
  take a tick. The last two add that no play step is longer than the reference cycle
  (`StepsShort`), which an iteration of the scheduler's loop is far from. TLC evaluates all
  of it on the run's projects, one of which has two cycles to the window.

  `MeetInv` adds to `BalanceInv` where tracks stand (each at a whole number of its
  cycles), that all events end by the watermark (`EndedBy`) and that no note-off of
  all those so far cuts a note (`Settled`). The notes a realization adds lie between the
  watermark and its target (`RealizeWithin`): what is sent or queued lies before
  them, so pairing, components and deferral of the union are those of the two
  parts (`GroupsSplit`, `ComponentsUnion`), and a window is decided by
  itself (`WindowApart`). That deferral settles a window takes that the end of a chain of
  overlaps is inside no note of it. `ShowInv` then follows the timeline: what the pass
  removes and what the metadata flags are the same notes, as no other note
  of the track starts near. `AloneInv` says that no two tracks sound on a channel at once up to
  the watermark, and that the watermark is a reference cycle ahead of the playhead, or
  else the guard against deciding again would skip what was never decided: a
  component that is passed has one track (`Electing`), two components of a channel do
  not overlap. `SteppedInv` says that cursors, walks and events are those
  of one pass to the watermark. A pass over two windows takes the turns of the first
  and then those of the second (`TurnsMeet`, `RealizeMeets`), and decides the
  components of both as two passes do (`PassSplits`): the number of a collision within its
  reference cycle counts collisions of that cycle only, all of one window
  (`OrdinalsApart`), so that what the Alternate memory keeps of earlier windows changes none.

Only model-checked: liveness (`MirrorsTimeline`'s fairness part,
`PendingReleased`, `SweepRuns`, `RouteRecovers`, `EveryCallReturns`), which is out of the
prover's reach; `EditorShowsWhatRuns` and the properties of CyclePlayback and
StoppedPreview, whose trees and texts are read by RECURSIVE operators, which
tlapm does not support; `PatternPlays` of DumkaEvolution, which is about what folds
compute; and the four properties above for followers, whose launches may
play across a window's end.

## 5. What is left out of the models, and why

* Scheduler: the built-in synth monitor (`EnableSynth`, `DisableSynth`, the
  monitor copy of a message) mirrors what is sent; CC events carry no
  state; sends inside Stop, Panic and Shutdown are taken to succeed, and receivers to obey
  CC123 in the runs (`HonoursCC123`), because Stop relies on it alone; SetTempo
  on a stopped transport changes no modelled state; tempo is the number of
  ticks an iteration advances, hence any.
* Scheduler's passing run uses notes of one key that do not overlap across a
  swap: with overlapping ones the orphan release ends a key once that a counting
  receiver counts twice, and the stuck-note sweep then finds a key with one
  note-off too few.
* Scheduler's runtimes do not fail to realize (`FailingAssumption`): what a
  failed parallel realization leaves behind is ParallelRuntime's subject.
* ParallelRuntime: tempo maps are cycle lengths; decisions and traces for display;
  the ceilings of 8192 consumed fires and of resolved collisions. A component no
  realization decided in time is never decided, since the guard against deciding
  twice (R9) skips it: exempt from `ExclusiveChannel`. The metadata a suppressed
  note is found by ignores channel and pitch.
* Triggers: the trace of decisions; the hashes behind the rolls are a small mix.
* Cycle: draws are sets of outcomes; ids, serialization and the floating point of
  curves and tempos (samples are exact, and ticks rounded as in the code); the
  bounds of 64-bit fractions; automation of weights that nothing reads.
* Shell: menus, the checks of documents, and the score commands.
* Machine files: power failures that reorder the disk's writes.
* Dum-Ka: Morph and the complexity corridor (their rail is at its default, open),
  placement bias (0: rank alone), spans other than disjointness; perceptual
  scores choose any prefix; draws are any value. The leash may contract a pattern
  below the count floor; a hold of orphaned rows leaves out the corridor; a
  scoped Stochastic Rotate may exceed the leash; walks rotate only earlier.
* Telemetry: the log channel (covered up to the emit by TelemetryGate), a
  failing `emit` and a failing snapshot command.
* MidiRoute: the preferences file is written before the selection is published
  and taken to succeed (MachineFiles has its failures); the status a command
  returns to its caller.
* Scheduler and ParallelRuntime take what a score generates as data (`Takes`);
  CyclePlayback has the realization itself.
* Not modelled at all: the React editors and their request queues, rendering,
  benchmarks, fuzzing.

## 6. Plan

1. Done: PlaybackLayers, TelemetryGate over Mirror, Telemetry, Scheduler,
   MidiRoute, TransportHandle with their theorems; ChannelConflicts, TrackFlow,
   Triggers with their configuration, ParallelRuntime; the Dum-Ka evolution and its
   notation; the realization of a cycle and its preview; the machine's files.
2. Proofs: ParallelRuntime's conflict properties for followers.
3. **RequestQueues**: the frontend's latest-wins queues against an abstract
   "last edit is applied".
4. Dum-Ka: Morph, the complexity corridor, plan validation.
5. Telemetry's emit failure and log channel.
