# A verification project for penguin-redis

penguin-redis is an interactive Redis client written in Rust: a prompt with completion and a
paste review, a full-screen view, one-shot and pipe modes, profiles whose secrets live in the
operating system's credential store, and guards for agents that use it. This directory holds
TLA+ models of its stateful parts and of the algorithms whose results other parts act on, the TLC
configurations that check them on small instances, and TLAPS proofs, for every value of the
constants, of all the safety properties the runs check but five about parsers and printers of nested
values. `PROJECT.json` maps
each definition to the lines it models.

To check a run: `tlc -workers 2 -config SharedFile.cfg MCSharedFile` (runs and their modules are
listed below). To check the proofs: `tlapm M.tla` for each module `M` of section 4.

## 1. Inventory

Paths are relative to `src/crates/`. "Hard" names what makes the part difficult to test.

| Component | State | Operations | Hard | Correct when |
|---|---|---|---|---|
| `pr-profiles/shared.rs` shared versioned file | the file, lock file, temporary and conflict files | `read`, `update`, `write_if_unchanged` | several processes and threads; crashes and power cuts between any two calls; writers that ignore the lock | no acknowledged edit is lost, no half file, `Err` means not written |
| `pr-profiles/journal.rs`, `credentials.rs` credential journal | an append-only journal, the credential store, `profiles.toml` | the six steps of a binding, `reconcile`, `finish_cleanups`, `truncate` | two stores without a transaction; reconciliation in another process on stale data; torn appends | a cleanup does not delete the secret in use; stray secrets are found and deleted |
| `pr-results/store.rs` result store | retained results, eviction order, byte count, lists of evicted and refused handles | `put`, `get`, `invalidate_scope` | budgets at their limit, handles that outlive results | every handle has one final answer |
| `pr-results/subscription.rs` | a bounded record and drop counters | `push` | two limits at once | no hole, nothing dropped uncounted |
| `pr-terminal/coordinator.rs`, `paste.rs`, `event.rs` | edit buffer, dropdown, review, alternate screen, burst timer, waiting notices, mailbox | a handler per input, `tick`, `deliver`, `enter/leave_alternate`, `shutdown` | input arriving during review or behind the TUI; a paste only told from typing by time; notices from other threads | nothing pasted executes by itself; the screen shows the state; a trip to the alternate screen loses nothing |
| `pr-intelligence/broker.rs` | current stamp, list shown, focus, sequence number | `set_state`, `issue`, `deliver`, `focus` | answers out of order and repeated | no older answer replaces a newer one; the focus never jumps; the newest is shown in the end |
| `pr-intelligence/discovery.rs` | cursor, budgets, how the run ended, cooldown | `next_step`, `feed`, `cancel`, `deny` | keys that repeat, empty pages, budgets that run out between pages, replies after the end | a run that says it saw everything did |
| `pr-intelligence/scope.rs`, `working_set.rs` names | observed names and their bytes | `record`, `invalidate_except`, `clear`, `insert` | two limits; names heavier than the cache | both limits hold of what is kept |
| `pr-repl/buffer.rs` line buffer | text, cursor, revision, undo and redo stacks, open group | edits, groups, `undo`, `redo`, `apply` | long sequences of edits and groups; late completions; characters of several bytes | undo and redo lead to the very texts that were there; a stale edit is refused; no panic |
| `pr-repl/quoting.rs`, `pr-intelligence/analyser.rs` | the line and the cursor | `split_args`, `quote`, `analyse`, `replacement_span` | two parsers of one line | the arguments shown are the arguments sent |
| `pr-repl/history.rs` | a table of entries | `record`, `recent`, `search`, `clear`, `prune` | redaction, quoting and recall in sequence | what may be submitted is what was typed |
| `pr-catalog/compile.rs`, `spec.rs` | grammars of commands | `compile_command`, `resolve_roles` | optional, repeated and counted arguments | an argument has the role its description gives it |
| `pr-core/session.rs` | database, reply mode, transaction, subscription, epochs | `observe_command`, `may_probe`, `on_disconnect` | client and server views drift apart | probes are safe, names are kept where they belong, losses are disclosed |
| `pr-security/approval.rs`, `pr-mcp/policy.rs`, `tools.rs` | tokens, epochs, a rule and its count | `for_request`, `authorise`, `may_authorise`, `glob` | the place changes between approval and use | only a person lets a write run, and it runs where they saw it would |
| `pr-core/signal.rs` | idle presses, an atomic counter | `on`, `deliver`, `take_pending` | a second thread; signals during every activity | two presses leave, none is lost, an abandoned request is reported |
| `pr-core/scope.rs` task scope | live counter, abort handles, token | `spawn`, `shutdown`, drop | tasks that panic, ignore the token, block, or spawn while the scope shuts down | a clean answer means nobody runs; nothing outlives the scope |
| `pr-transport/ssh.rs` tunnels | a pool of ssh processes and their ports | `start`, `port_for`, `retain_nodes`, drop | ssh dies or never answers; ports taken by others | every ssh has exactly one owner |
| `pr-render/plugin.rs` plugin host | a child, two pipes, two threads, a channel | `run` | deadline against exit against output; full pipes both ways; grandchildren holding a pipe | a call returns, and never shows a part for the whole |
| `pr-transport/oneshot.rs`, `prc/passthrough.rs` | a connection, an exit code | `call`, `read_reply`, `run` | pushes before the reply, close before or after execution | the exit code tells what became of the command |
| `pr-protocol/decoder.rs`, `stream.rs` | partial frames, a queue of open aggregates | `decode`, `feed`, reassembly | input cut anywhere, streamed aggregates, attributes | both parsers give the same values |
| `pr-application/pipe.rs` | offset, index, policy | `admit` | refused, malformed and cut frames after admitted ones | what is accepted is all that may be, up to the frame blamed |
| `pr-application/output.rs`, `json_projection.rs` | mode, routes, counts | `select`, `accept`, `finish`, `project_many` | pushes between replies; losses deep in a reply | standard output is the replies; every loss is told |
| `pr-render/table.rs`, `width.rs` | rows, frozen widths | `push`, `render` | rows arriving while the window changes | what was drawn stays as drawn; what is cut says so |
| `pr-json` documents | the source bytes and a tree of spans | `parse`, `get`, `replace`, `duplicate_members` | repeated names, spelled differently; edits after edits | an edit changes the place meant and no other byte |
| `pr-intelligence` find and word tables, `pr-security` redaction and trust, `pr-repl/local.rs`, `pr-render` themes, `pr-routing`, `pr-core` value types, `prc` arguments | none across calls | pure functions, tables | data, not control | not modelled, see section 7 |
| `pr-automation`, `pr-ops`, `pr-semantic` | – | empty crates | – | not modelled |

How the parts interact. The event loop owns the coordinator; worker threads only post to its
mailbox, which the loop drains one notice per quiet poll. The coordinator hands submitted text to
the caller, which splits it, sends it and reports it to the session state *when it is sent*. An
agent's request is first authorised by a token or a rule, which compare epochs the session keeps.
Replies are decoded, printed by the emitter or kept in the result store under the session's scope
epoch; names seen in them go to the observation store under database and identity. The broker takes
completion answers from lookups that finish in any order; its stamps carry the buffer's revision and
the scope, and an accepted row becomes an edit of the line buffer. Signals come either as keystrokes
or through a counter filled on the console's own thread. Several processes share `profiles.toml`
through the shared file, and the credential journal orders writes to it against the credential
store.

## 2. Modules

| Module | Models | State | Actions |
|---|---|---|---|
| `SharedFile` | `shared.rs` | file and what the disk may hold after a power cut, lock, per-process temporary file, conflict files, per-writer call | one per file-system call of `update` / `write_if_unchanged`; `Crash`, `PowerCut`, `ForeignWrite` |
| `VersionedRegister` | what `shared.rs` promises | version, body, acknowledged edits | `Apply`, `Ack`, `Revert` |
| `CredentialJournal` | `journal.rs` | journal lines, store, profile, one binding, one reconciliation | each step of both, deaths, torn appends of any record, going back to an older configuration at any moment |
| `ResultStore`, `Subscription` | `store.rs`, `subscription.rs` | as the structs | `Put`, `InvalidateScope`; `Push` |
| `Coordinator` | `coordinator.rs`, `paste.rs`, `event.rs`, loop of `bin/demo.rs` | one record, plus mailbox and the rest of a paste still arriving; the line a trip to the alternate screen began with (history) | keys, pastes, polls, posts, dropdown, alternate screen, resize, interrupt |
| `Broker` | `broker.rs` | as the struct, plus requests in flight | `SetState`, `Issue`, `Answer`, `Focus` |
| `LineBuffer` | `buffer.rs` | text in bytes, cursor, revision, stacks, group; a completion under way | every editing operation, groups, undo, redo, a late completion |
| `SnapshotEditor` | what `buffer.rs` promises | the text, texts to undo to, texts to redo to | `Change`, `Undo`, `Redo` |
| `Discovery` | `discovery.rs` | one run, replies under way, cooldown, clock | `next_step` and its limits, `feed`, `cancel`, `deny` |
| `Observations` | `scope.rs`, `working_set.rs` | names, bytes, slots in reserve, evictions | `record`, `insert`, invalidation, clearing |
| `Session` | `session.rs` | the client's belief beside the connection, whose server may refuse | `Send`, `QueueRefused`, `Disconnect` |
| `Approval` (extends `Session`) | `approval.rs`, `policy.rs`, `tools.rs` | tokens and their use, target, policy epoch, clock, what ran | issuing, a tool call, the clock, an edit of the policy, another target, and every step of the session |
| `Glob` | the matcher of `policy.rs` | its local variables | an action per arm of the loop; classes a second time, as the server reads them |
| `Quoting` | `quoting.rs`, `analyser.rs` | line and cursor | typing, moving, completing |
| `History` | `history.rs` | the table, a pruning transaction, what was recalled | record, recall, search, clear, prune, time |
| `Grammar` | `compile.rs`, `spec.rs` | a command and the words typed | `Type` |
| `Interrupts` | `signal.rs` | the rule's counter, the console's counter, the activity; presses since it and presses that still waited then (history) | keystroke, console delivery, taking, applying, the session's own progress |
| `TaskScope` | `pr-core/scope.rs` | status of each task, live counter, abort handles, stage of the shutdown | spawn, return, panic, reap, shutdown, drop |
| `Tunnels` | `ssh.rs` | the pool, every ssh process and its port, a call; the ssh a failed wait left behind (history) | each step of `start`, a wait that fails, `port_for`, `retain_nodes`, drop, death of an ssh, another program on a port |
| `PluginHost` | `plugin.rs` | child, pipes, both threads, channel, host loop; whether a read failed (history) | a step per blocking call of each, and a read that fails |
| `Resp` | values and both encodings | – | operators |
| `Streamer` | `decoder.rs`, `stream.rs` | what was sent, both parsers, the reassembler | `Send` of a header or text at a time, each feeding both |
| `Passthrough` | `oneshot.rs`, `passthrough.rs` | one command over a connection | call, read, skip a push, fail; the server |
| `Emitter` | `output.rs` | mode, route, both streams | a frame, the end |
| `Pipe` | `pipe.rs` | the input, offset, accepted commands; the decoder is a constant | a frame, a refusal, the end |
| `Projection` | `json_projection.rs` | the replies of one command line, strictness | a reply |
| `Table` | `table.rs`, `width.rs` | rows, frozen widths, what was drawn | push, render |
| `Documents` | `pr-json` | the source, the document meant | an edit |
| `Replies` (extends `ResultStore`) | – | – | holds the result store, the subscription record, one command, the table and the admission of pipes, and what is proved of them |
| `Lookups` | – | – | holds `Glob`, `History` and `Quoting` beside the session, and what the proofs assume of their constants |
| `MCSharedFile`, `MCProfiles`, `MCCoordinator`, `MCAssist`, `MCProcesses`, `MCSession`, `MCReplies` | – | – | values for the constants, inputs, and compositions |
| `SharedFileProofs`, `JournalProofs`, `ProcessesProofs`, `CoordinatorProofs`, `SessionProofs`, `LineProofs`, `AssistProofs`, `RepliesProofs` | – | – | theorems, see section 4 |

Composition. `Approval` extends `Session` and interleaves with it: a token compares epochs and a
database that the session's own steps change. `Streamer` and `Emitter` are built on
`Resp`; `Pipe` takes its decoder as a constant, which the run sets to the one of `Resp`.
The other parts share no variable in the code; an MC module holds several of them and a variable
`subject` says which one a behaviour is about, the others staying as they began. Every state of the
parts together is made of states each reaches alone, so nothing is lost by it, and nothing about
their interaction is claimed.

Handlers of the coordinator and of the session are operators from record to record, because in the
code each is a method on one owned object: nothing interleaves inside it. In `SharedFile`,
`CredentialJournal`, `Tunnels` and `PluginHost` every call to the operating system that others may
come before is an action of its own. Pure algorithms (`Glob`, `Quoting`, `Grammar`, `Streamer`,
`Documents`, `Projection`) are run over every bounded input and compared with a second definition
that says what they are for: the language of the pattern by the
server's own rules for stars, escapes and classes, the arguments the server would see, the
derivations of a grammar, the value sent, the document meant, the replies that would be told apart.
Definitions marked *Bug* are plausible mistakes in one definition; each property is checked to fail
when its bug is put in (`mutants` in `PROJECT.json`).

Data is abstracted to what the properties tell apart: a file's body is the set of edits in it; text
is a sequence of marks that say who typed each character, or of the characters a parser
distinguishes; a result is its size and its scope; a frame is its headers; a JSON string or number
is one token; time is whether the last key came less than `BURST_GAP` ago, or a small clock.

External behaviour, from how the code uses it: processes that die, power cuts (any content renamed
into place since the last directory sync may come back; an unsynced file may come back empty), the
terminal, the person at it, the Redis server (transactions, reply modes, SCAN, pushes), ssh, a
plugin and what it starts, tokio's running and reaping of tasks, and SQLite's transactions.

## 3. Runs

| Run | Checks | Bounds, and why they are enough |
|---|---|---|
| `shared_file` | `NoLostUpdate`, `ImplementsRegister` | three writers, two of one process (they share a temporary file), three edits, a death and a power cut. Two edits race and a third is made on a stale snapshot. Writers of one process are symmetric; the properties do not name writers. |
| `profiles` | `NoStraySecret`, `CleanupCompletes`, `LiveSecretIsKept`, `EveryCallReturns` | the journal alone: four bindings, two deaths before the profile is written or in a cleanup, a torn append of any record; beside a reconciliation of another process at any moment: three bindings, also a death behind the profile, and two returns to an older configuration wherever the cleanup is; the shared file: two writers of one process, two edits, a crash, a power cut, a foreign write, no directory sync. Each fault once in every place. |
| `coordinator` | `PasteNeverSubmits`, `ScreenIsCurrent`, `TripIsTransparent`, `BurstIsReleased` | every key, one paste of up to three keys at any moment (on one line and over `INLINE_LIMIT` too, which is 2 here), two notices, dropdown and alternate screen at any time |
| `assist` | `NoPanic`, `ConclusiveMeansWalked`, `NamesWithinBudget`, `LateAnswersAreHarmless`, `SettledIsShown`, `StaleNeverLands`, `UndoIsExact` | broker: three changes, lookups answered in any order and more than once, two scopes; line: two characters, one of two bytes, a combining mark, four revisions, which hold a group, its undo, its redo and a late completion; discovery: three pages, one empty, keys that come and go, two runs, every limit reachable; names that weigh little, much and more than the cache, slots that double from two (the code's vectors from four) |
| `processes` | `EverySshIsOwned`, `NeverPartial`, `InterruptsAreHonest`, `CleanMeansDrained`, `NothingOutlives`, `CallReturns` | three tasks and pruning above two; two nodes, two ports, three ssh processes, a pool of two; pipes of one unit, an input of two, an output one above its limit, a read that fails at any moment; five presses in every activity, taken before or after the next one |
| `session` | `ProbeIsSafe`, `ReconnectIsHonest`, `OnlyAPersonApproves`, `RunsWhereApproved`, `GlobIsExact`, `ShownIsSent`, `RecalledIsTyped`, `RolesAreTheGrammars` | six commands and disconnections, transactions of plain commands, one channel, a server that may refuse `AUTH`, `HELLO AUTH`, `SUBSCRIBE`, `MULTI` and `EXEC` (`Refusable`), no `SKIP` while replies are off (`SkipsWhileOff`); one token, two targets, a read, a deletion and an unclassified command; every pattern of three pieces, characters, stars and classes that code and server read alike, and key of three characters over three; every line of four characters and completion; two records at three levels of redaction; every five arguments of six shapes of commands, counts of zero, one and two among them |
| `replies` | `RecordHasNoHole`, `SameValues`, `ExitIsHonest`, `OutputIsTheReplies`, `AdmissionIsExact`, `TableIsStable`, `LossIsTold`, `EditIsExact`, `AnswersAreFinal` | six messages whose weights reach either limit first; every input of five headers over three alphabets; two pushes around a reply; three frames in every mode; every pipe of three pieces; two rows in three widths; batches of two of some eighty replies; two edits of three documents, which nest beyond the depth limit; five results, sizes zero, small, equal to the limit and above it |
| `session_probe`, `coordinator_menu`, `editor_joiner`, `policy_glob`, `history_case` | violated: `ProbeIsSafe`, `MenuMatchesText`, `NoPanic`, `GlobIsExact`, `RecalledIsTyped` | see section 6; what each is about is left out of the passing run of the same property |

Bounds count operations, faults, histories and the lengths of inputs; none bounds a data structure
that the code does not bound itself. Deadlock checking is off because every bounded model ends when
its operations are used up. Each passing run takes between some seconds and three minutes and
reaches between 80,000 and a million distinct states. `LiveSecretIsKept`, `TripIsTransparent`,
`LateAnswersAreHarmless`, `StaleNeverLands`, `CleanMeansDrained` and `AnswersAreFinal` are action
properties: what no step may do. `ImplementsRegister` and `UndoIsExact` are refinements: of
`VersionedRegister`, and of `SnapshotEditor`, an editor that remembers whole texts.

### Fairness

- `EveryCallReturns`: weak fairness of the steps of a call that has been made (`Progress`). No
  file-system call has to fail: a writer is not rescued from a lock that is never released by an
  error of its own `lock()`. Nobody has to make a call, and crashes are not fair. Calls are bounded,
  so starvation by an endless stream of other callers, which `flock` does not exclude, is not
  examined.
- `CleanupCompletes`: bindings go on, and reconciliation is run again (the code's comment: at
  startup). Neither says that a cleanup survives: deaths are bounded, not excluded.
- `BurstIsReleased`: a paste that began arrives; `BURST_GAP` passes after the last key; and strong
  fairness of a quiet poll after such a gap, because a key in between only postpones the poll's
  time-out, which the loop returns to.
- `SettledIsShown`: the editor asks after a change, and the newest lookup is answered in the end.
- `NothingOutlives`: tokio reaps a task that has been aborted and reached an await, and a shutdown
  that was called goes on. A task need not look at its token, nor return.
- `CallReturns`: the host's loop, its two threads and the clock go on. The plugin and what it
  started are not fair: they may hang, hold pipes, or write for ever.

## 4. Proofs

Each theorem is about every value of the constants; a column *For* gives the hypothesis where there
is one. The run that checks the same property on a small instance is in section 3.

### The shared file

`SharedFileProofs` proves, for any writers, processes and bounds, from `ConstantsAssumption` alone
(every writer has a process, `NoOne` is not a writer, bounds are naturals):

| Theorem | States |
|---|---|
| `TypeCorrect` | `[]TypeOK` |
| `Invariance` | `[](TypeOK /\ IInv)` |
| `NoUpdateIsLost`, `FileIsNeverHalf`, `AckedEditsSurvive`, `ErrIsUnwritten`, `NoAba` | `[]` of `NoLostUpdate`, `NeverHalf`, `AckedIsDurable`, `ErrMeansUnwritten`, `VersionNamesBody` |
| `Refinement` | with no foreign writer and working directory syncs, `SharedFile` implements `VersionedRegister` |

None of these is inductive alone. `NoLostUpdate` needs that the body about to be renamed contains
everything acknowledged, so `IInv` adds: `Mutex` (a writer is past the lock exactly while it holds
it), `TmpIsOurs` (the process's temporary file holds the lock holder's edit: two writers of one
process share its name, and only the lock keeps them apart), `SnapshotsAreOld` (a snapshot is no
newer than the file, an equal version means the same content, and a checked snapshot *is* the file),
`EditsAreFresh` (an edit not yet written is nowhere, a refused one stays nowhere), `DiskIsWhole`
(what a power cut may leave is whole and an ancestor of the file) and `AckedIsKept`. Each conjunct
has a lemma with a step per action. The refinement maps a rename to `Apply`, the return to `Ack`
and a power cut to `Revert`; `AckedIsKept` is what makes a `Revert` keep acknowledged edits.

### The parts that interleave

`JournalProofs`, for any number of bindings, deaths, torn appends and returns to older files:

| Theorem | States | For |
|---|---|---|
| `LiveSecretsSurvive` | `LiveSecretIsKept`: no step deletes what the profile names, unless the user went back to an older configuration since the reconciliation read the profile (`wentBack`) | everything |
| `NothingIsStranded` | `[]NoStraySecret` | `Alone`: one process, no return to an older configuration, no death between the profile and its record; torn appends included |

`finish_cleanups` works from a list that may be old, and looks at nothing again before it deletes.
`KeepInv` says why that is harmless to a binding that commits in between: every reference is minted
once, what a line names as superseded is older than the reference it was superseded by, so a
reference bound since the list was made cannot be on it. An older reference can, which is why a user
who goes back meanwhile is excepted (section 6). `NothingIsStranded` needs `StrayInv`: the line of
the binding under way is the last of its reference, and a cleanup has on its list, oldest first, all
that a reconciliation would find; oldest first matters because the line that records a deletion
hides the `supersedes` of the line before it. Each thing `Alone` excludes does strand a secret
(section 6).

`ProcessesProofs`, for any tasks, pruning floors, nodes, ports, processes, pipe sizes and presses:

| Theorem | States | For |
|---|---|---|
| `HandlesAreKept` | `[]NoOrphan`: a task still running has its abort handle in the scope, or was told | everything |
| `CounterIsExact` | `[]LiveIsExact`: the live counter is the number of tasks not yet left | everything |
| `CleanIsHonest` | `CleanMeansDrained` | everything |
| `SshIsOwned` | `[]EverySshIsOwned`, of every ssh but those whose wait failed in `start` (section 6) | everything |
| `RenderingIsWhole` | `[]NeverPartial`: a rendering is all that was written, unless a read failed (section 6) | everything |
| `SignalsAreHonest` | `[]InterruptsAreHonest` | `on` not called with Break, which drops an answer (section 6) |
| `PressesAreCounted` | `[](ExitTakesTwo /\ NoSignalIsLost)` | everything |

The invariant of the task scope pairs the counter with the set of running tasks: `spawn` raises it,
a guard lowers it on return, on panic and on abort alike, and `shutdown` looks at nothing but the
counter. `UncertaintyIsReported` and the counts are of the presses since the last activity and of
those that still waited then (`carried`): `activity` clears the rule's count and not the console's
(section 6). `HostInv` follows the bytes: while the reader reads, what was written is in its buffer
or in the pipe (`NothingIsDropped`); it says "whole" only when nobody can write any more
(`WholeIsAll`); the host's verdict is the channel's, about a child already reaped
(`VerdictIsOfTheChannel`).

`CoordinatorProofs`, for any keys, pastes and notices:

| Theorem | States | For |
|---|---|---|
| `ScreenShowsTheState` | `[]ScreenIsCurrent` | everything |
| `TripsAreTransparent` | `TripIsTransparent`: notices in order and none over the TUI, its box becomes the line, and the line it replaces is the one the trip began with, unless a held burst was released into it (section 6) | everything |
| `PastesNeverSubmit` | `[]PasteNeverSubmits` | `PlainPastes`: text, tabs and line ends, no Enter first |

One lemma per handler says what it leaves alone; `Step` puts them together. `TripInv` says that
behind the alternate screen nothing but a released burst has touched the line. `PasteInv` says that
inside a paste the burst timer never runs out before an Enter. A paste that begins with an Enter is
an Enter to a terminal without bracketed paste, and a digit answers an open review (section 6).

`SessionProofs`, for any commands, databases, logins, requests, tools, rules, patterns, keys and
histories:

| Theorem | States | For |
|---|---|---|
| `ProbesAreSafe` | `[]ProbeIsSafe` | no `CLIENT REPLY` inside `MULTI`, no `SKIP` while replies are off; `DISCARD`, `RESET` and `CLIENT REPLY` are not refused |
| `ReconnectsAreHonest` | `[]ReconnectIsHonest` | besides: no `SELECT`, `AUTH`, `SUBSCRIBE` inside `MULTI`, one channel; `SELECT` and `UNSUBSCRIBE` are not refused |
| `OnlyPeopleApprove` | `[]OnlyAPersonApproves` | everything |
| `ApprovedRunsInPlace` | `[]RunsWhereApproved` | no `SELECT`, `AUTH` inside `MULTI`; `SELECT`, `DISCARD`, `RESET` and `CLIENT REPLY` are not refused |
| `PatternsMeanWhatTheySay` | `[]GlobIsExact` | `Plain`: no key holds a backslash or an opening bracket that patterns use, and every class is closed, by a bracket that does not come first, with ranges that go upwards and do not end in a bracket |
| `RecallSendsWhatWasTyped` | `[]RecalledIsTyped` | `UpperKeywords`: arguments that are keywords were typed in upper case |

The hypotheses are those of the passing run; section 6 tells what `CLIENT REPLY`, `SELECT` and
`AUTH` inside a transaction, a refused command, `SKIP` while replies are off, a second channel, an
escape or another class in a pattern and a keyword in lower case lead to. The server may refuse any
other command, `AUTH` and `EXEC` among them, wherever it likes. `Agreed` says that client and server
are in a transaction together; `ReplyInv`, `ScopeInv` and `GapInv` add the part of the state each
result is about. `TokenInv` is why the token has to compare the identity epoch: the epoch only
grows, and as long as it is the token's the login is the one the person saw.

The matcher keeps one star and forgets the ones before it. `GlobInv` says why that is enough, with
`Ways[i]`, the positions of the key from which the pattern matches from `i` on: after a star the key
matches exactly if it matches behind the star from the position tried or a later one, and every
later try, led as far as this one, would still match from where the walk is (`StarMeans`). So when a
second star is met, a try of the first one that would succeed later succeeds through the second as
well. `HistoryInv` says of every row and of everything given to a process that it may be submitted
only if it is what was typed, that it belongs to the place it was asked for, and that row numbers
order it.

### The parts that compute

`LineProofs`, for any line, however long, and any offers:

| Theorem | States |
|---|---|
| `WhatIsShownIsSent` | `[]ShownIsSent` |

The editor's reading of a line and the one that sends it are two loops over positions and a quoting
mode, so everything is induction from the end of the line. `TokensAgree` and `ArgsAgree`: where the
strict loop gets to the end of a token both took the same turns, and where it runs out of line in a
quote the lenient one leaves the token open. Accepting an offer makes another line, so two readings
of different lines are compared: `TokenSame` says that a token is read alike wherever its characters
stand with a separator or the end of the line behind them, `PrefixSame` and `SuffixSame` that the
arguments before the offer and behind it are, and `QuoteRead` that the offer, quoted or not, is read
back as it was given. `ActiveReplaced` and `NewInserted` put the three parts together. Two facts
make this work: what is replaced ends where an argument ends, so a separator or the end of the line
follows the offer, and outside quotes the loop keeps nothing from one argument to the next.

`AssistProofs`, for any texts put in, bounds and sequence of operations:

| Theorem | States | For |
|---|---|---|
| `StaleEditsAreRefused` | `StaleNeverLands` | everything |
| `UndoLeadsBack` | `UndoIsExact`: `LineBuffer` implements `SnapshotEditor` | everything |
| `NothingPanics` | `[]NoPanic` | `Joinerless`: no joiner is put in (section 6) |

`OfferInv`: the line still has the text an offer was computed for while it has its revision. For
that, every operation that changes the text must raise the revision, undo and redo included. The
stacks of the buffer hold edits, those of the abstract editor whole lines. `SnapInv` says that there
are lines `P`, the present `s` and lines `Q` such that undoing the groups of one stack in turn
leads from `s` through `P` and redoing those of the other through `Q`, an open group counting as not
yet begun; `Mapping` shows that the refinement mapping, which replays the stacks, is then `P`, `s`
and `Q`, and each operation is shown to move along these lines as the abstract one does. `NoPanic`
rests on the cursor being at the start of a character after every operation, so that what is
subtracted is at least one.

and for any lookups, pages, budgets and names:

| Theorem | States |
|---|---|
| `LateIsHarmless` | `LateAnswersAreHarmless` |
| `PrefixIsLiteral` | the pattern `scan_pattern` makes of a prefix matches, by the server's rules, the names that begin with it and no others, for any bytes |
| `WalksAreConclusive` | `[]ConclusiveMeansWalked` |
| `NamesAreBounded` | `[]NamesWithinBudget`: both limits hold of the names, and `bytes()`, slots included, is within its limit but for the last doubling of the slots, or one name is left |

`WalkInv`: what the pages before a cursor hold is listed, for the run's cursor and for each request
under way, so a reply that comes twice or late changes nothing. `CacheInv` bounds the real weight by
the running count, which `clear` leaves too high, and says that after each name the count and the
slots before the last doubling were within the limit together.

`RepliesProofs`, for any budgets, sizes, limits, weights, titles, cells, widths, inputs and
catalogs:

| Theorem | States | For |
|---|---|---|
| `BytesAreExact` | `[]UsedIsExact` of the result store | everything |
| `HandlesAreHonest` | `AnswersAreFinal` | everything |
| `RecordsAreWhole` | `[]RecordHasNoHole` | `Limits`: naturals |
| `ExitsAreHonest` | `[]ExitIsHonest` | no frame with an attribute (section 6, `oneshot.rs`) |
| `DrawnAgainIsTheSame` | `[]TableIsStable`: in columns it says it is truncated just where text is missing; in blocks it never says so, and nothing is missing but cells of no lines with their titles (section 6) | `Inputs`: characters take a natural number of columns |
| `PipesAreAdmittedExactly` | `[]AdmissionIsExact` | everything; of the decoder `NextFrameAssumption` is assumed, which TLC evaluates for the one of `Resp` |

`StoreInv`: the eviction list is the handles kept, oldest first, the count is the sum of their
sizes, and every handle is in one place. `RecordInv`: the record is the longest stretch at the end
of what arrived that both limits allow. `ExitInv`: one command is on its way or its answer is, and
the database is selected before the command goes. `TableInv`: every rendering shown is of rows that
are still there in the widths that were frozen; it rests on what `fit` returns being within the
width and left as it is by another `fit`. `PipeInv`: while the loop runs, what was accepted is what
reading that many frames from the beginning gives, and the offset is behind them; a refusal tells
the index alone, as in the code.

These need facts about sums, cuts and matches for every length. Their definitions are recursive
functions, and induction is done by the least counterexample: lemma `Least`, from the
well-foundedness of the naturals, gives the first length at which a claim fails, and the step from
the one before refutes it. A recursive function is first shown to be what its stages compute,
because its defining equation is only available once some function satisfies it.

### Only model-checked

- Liveness: `EveryCallReturns`, `CleanupCompletes`, `BurstIsReleased`, `SettledIsShown`,
  `NothingOutlives`, `CallReturns`. Fairness and ENABLED are outside this prover.
- What recursive operators compute: `RolesAreTheGrammars`, `SameValues`, `OutputIsTheReplies`,
  `LossIsTold`, `EditIsExact`. Their modules (`Grammar`, `Resp` and what is built on it,
  `Documents`, `Projection`) are parsers and printers of nested values, compared with a second
  definition; what they compute for every input is an induction over these values.

## 5. What the results say

The shared file keeps its promises, including the less obvious ones: ignoring a failed directory
sync is right (reporting it would make `Err` mean "perhaps written"), and the lock has to be on a
file that rename does not replace. The journal does not delete the secret of a binding made while it
works from a stale list, because references are never reused and the binding mints a new one; it
does delete that of an older configuration put back meanwhile (section 6). The result store and the
subscription record account exactly at both limits. In the coordinator, pasted text does not execute
by itself, the screen follows the state, notices survive any number of trips to the alternate
screen, and so does the draft, unless the burst timer runs out during one (section 6). The broker
shows nothing older than what it showed. Undo and redo, through groups, refused edits and late
completions, are those of an editor that remembers whole texts. A task scope that answers "clean" is
empty, a dropped one empties, no ssh is left without an owner except by a failed wait, no plugin
keeps the host, and none's output is shown in part except by a failed read. Both parsers agree on
every cut of the input. An approval holds only where it was given, because the token compares the
identity epoch: with the database and the target alone it would not, as the mutant shows. A recalled
line that may be submitted is the line that was typed, quoting included, except for the case of
words like keywords (section 6).

## 6. Disagreements between the code and what it says

Five are runs:

- `coordinator_menu`: open the dropdown, paste one line. `Input::Paste` (`coordinator.rs:375`)
  changes the text and leaves the dropdown up; Tab then accepts a row computed for the older text.
- `session_probe`: a `CLIENT REPLY` sent inside `MULTI` is taken for applied although the server
  only queues it (`session.rs:215`). The shortest trace is `MULTI`, `CLIENT REPLY SKIP`, `EXEC`: the
  client spends the SKIP on the `EXEC`, the server only starts it there. After `CLIENT REPLY OFF`,
  `MULTI`, `CLIENT REPLY ON`, `DISCARD` the client believes that replies are on, the server still
  suppresses them, and `may_probe` allows a probe that takes the slot of a later reply.
- `editor_joiner`: in a line that begins with a zero-width joiner, going left from behind the second
  character subtracts one from offset zero (`buffer.rs:125`), though "nothing panics"
  (`buffer.rs:7`).
- `policy_glob`: an escape whose character does not match is tried again as a literal backslash
  (`policy.rs:249`), so a pattern matches keys the server's own matcher does not, though "a pattern
  in a profile means what the same pattern would mean to the server" (`policy.rs:208`).
- `history_case`: `redact` stores a key or a value spelled like an option keyword in upper case
  (`history.rs:132`); the entry has no placeholder and may be submitted as another command.

The next ones are properties stated in the modules that no run lists. Put them in a configuration
with the constants given to see the trace (through the instance of the MC module, where it has no
name for them). `Discovery!RefusalIsRespected` is not among them: it holds with `Assist.cfg`.

- `SharedFile!RejectedEditIsKept` (constants of `SharedFile.cfg`): two edits refused in one process
  on the same pair of versions get one conflict file name (`shared.rs:265`), and the second
  truncates the first, though the error says the edit is in that file (`shared.rs:41`).
- `CredentialJournal!StrayDiscovered` with `CrashPoints = {"profile"}`: a rotation that dies between
  the profile and the `committed` record leaves the old secret where `reconcile` does not look: it
  has no arm for a pending record that is referenced (`journal.rs:253`).
- With a second process, and two rotations during one reconciliation, a stale list lets
  `finish_cleanups` record as cleaned a reference whose own record held the `supersedes` of an
  older one, which is then forgotten. `NoStraySecret` is therefore about the process alone.
- `CredentialJournal!LiveSecretAlwaysKept` (the journal beside another, with `MaxRollbacks = 1`):
  `finish_cleanups` works through the list `reconcile` made and deletes without reading the profile
  again (`journal.rs:265`); who goes back to an older configuration in between loses its secret,
  though a secret is to be deleted when "the profile no longer names it".
- `CredentialJournal!MissingIsReported` with `MaxRollbacks = 1`: going back to a configuration whose
  secret was cleaned up is not reported as `credential missing` (`journal.rs:258`).
- `CredentialJournal!AlwaysReplayable` with `MaxTorn = 1`: a torn last line makes every later `read`
  fail (`journal.rs:187`), though "replay after a crash is safe" (`journal.rs:19`).
- `Coordinator!ReviewIsShown` with `HasTui`: `enter_alternate` does not look at the review
  (`coordinator.rs:643`), which goes on taking keys that nobody sees it take.
- `Coordinator!TripLosesNothing` with `HasTui`: a burst held back when the alternate screen goes up
  is released behind it by the quiet tick (`coordinator.rs:338`, `458`), into the line that
  `leave_alternate` replaces by the command box (`coordinator.rs:679`).
- `Coordinator!PasteNeverSubmits` with a second unbracketed paste holding `1` while the first is
  under review: keys of a review bypass the burst test (`coordinator.rs:380`).
- `Broker!FocusIsCurrent`: `set_state` keeps the list and the focus of the older text
  (`broker.rs:79`).
- `Session!ProbeIsSafe` and `Session!GapIsDisclosed` with `SkipsWhileOff = TRUE`: `CLIENT REPLY
  SKIP` sent while replies are off takes the client from off to skip and after one command to on
  (`session.rs:151`, `217`); the server ignores it and stays silent until `ON`, as the comment on
  `Off` says (`session.rs:31`). A probe is then allowed, and a disconnection reports the mode as on.
- `Session!ScopeIsHonest` with `Refusable = {"SELECT"}`, `Session!ProbeIsSafe` with
  `Refusable = {"DISCARD"}`: a command is observed when it is sent (`session.rs:179`), whatever the
  server makes of it, so names are kept under a database that was never reached, and a transaction
  that goes on is believed over.
- `Session!ScopeIsHonest` with `InMulti = {"GET", "SELECT"}`: a discarded `SELECT`
  (`session.rs:183`).
- `Session!GapIsDisclosed` with two channels: leaving one of them clears `subscribed`
  (`session.rs:209`).
- `Interrupts!UncertaintyIsReported` with `BreakCalls = TRUE`: `on(Break)` drops its first answer,
  the one that says a request was abandoned (`signal.rs:112`).
- `Interrupts!TwiceInARow`: `activity` clears the count of idle presses and not what the console has
  delivered (`signal.rs:97`), so one press before an activity and one after it leave the session,
  though "a Ctrl+C now and another one ten minutes later" should not.
- `Tunnels!NoSshIsLeftBehind`: `start` returns by `?` when asking for the state of its ssh fails
  (`ssh.rs:283`), without killing it, and nobody else knows the process.
- `Tunnels!PortIsForTheNode`: the probed port is released before ssh binds it (`ssh.rs:242`), and
  `port_for` answers with the port of a tunnel whose ssh has died (`ssh.rs:360`).
- `Observations!BytesWithinBudget`: `record` and `insert` compare what is counted before the new
  name with the limit, and the slots a full vector adds for it are not asked about (`scope.rs:210`,
  `working_set.rs:100`): `bytes()` (`scope.rs:172`) can exceed the limit until the next name, though
  "evicting oldest-first until both limits hold", and `tests/working_set_budget.rs` asserts it. A
  cache whose slots alone weigh more keeps one name.
- `Observations!BytesAreHeld`: `clear` and `invalidate_except` leave the byte count as it was
  (`pr-intelligence/scope.rs:262`). Both limits still hold; names go earlier than they need to.
- `LineBuffer!CursorOnGrapheme`: an edit may put the cursor in front of a mark or beside a joiner.
- `PluginHost!NeverPartialAtAll`: the reader takes a failed read, an interrupted one too, for the
  end of the output (`plugin.rs:226`), and what was read so far is handed over as the whole.
- `PluginHost!TakesWhatItHas`: when a process the plugin started holds its pipe past the grace
  period, what was read is dropped, though the comment says "then take whatever it has"
  (`plugin.rs:251`).

- `Glob!GlobIsExact` with patterns outside `PlainClasses`: `class` (`policy.rs:270`) takes a bracket
  that comes first for a member (`[]a]`, `[^]`), lets none end a range (`[a-]`), finds nothing
  between ends the wrong way round (`[b-a]`), and lets a class that is not closed match nothing,
  where its comment says that the bracket is a literal (`policy.rs:297`). Redis closes the class at
  the first bracket, takes `]` for the end of a range, swaps the ends and takes the rest of the
  pattern for the class; and "a pattern in a profile means what the same pattern would mean to the
  server" (`policy.rs:208`).
- `Table!NothingIsHidden` (`T!NothingIsHidden` of `Replies`): a stacked cell of no lines is left out
  with its title, because the title is printed with the first line (`table.rs:413`), and the
  rendering is not said to be truncated, though "nothing hidden without saying so" (`table.rs:10`)
  and "every column still appears, labelled" (`403`).

Met while reading, and left to the reader because the part concerned is abstracted in the models:

- `json_projection.rs:200`: the text of an error that is not UTF-8 is replaced without a notice,
  though "every place this projection throws information away, it says so on stderr"; a finite
  double spelled `.5`, `5.` or `+1` is printed as it is and is no JSON number; the `Protocol`
  argument is not used. `LossIsTold` is checked without such errors.
- `trust.rs`: `hash` writes the master's name, or the node set, directly before the user's name, so
  a boundary between the two is not part of it, and no user is the empty user; the comment says that
  it covers all four parts.
- `find.rs`: `consumed` has the length of the query and is indexed by its lower-case form, which may
  be longer; the rules of implication run four rounds, where the comment says to a fixed point.
- `oneshot.rs` takes a push with an attribute for the reply (`value.rs:114`), where the emitter does
  not (`output.rs:347`). The streamer's limits on depth and elements differ from the decoder's
  (`stream.rs:19`). `pipe.rs` feeds the whole input to one decoder, so `max_frame` blames frame
  zero.
- An approval issued while an `AUTH` is queued in `MULTI` names the login before it.
  `execute_approved_plan` never compares `plan_hash` (`tools.rs`).
- `history.rs:41`: at level `None` values are stored, under "values are still never stored".
- `table.rs`: `push` drops surplus cells without a word (10), long cells are cut where the comment
  says they wrap (259); `width.rs:105` says it never splits a cluster, and cuts joined sequences. In
  CSV, an attribute turns the cells of an array into one quoted cell.
- `spec.rs:532`: an uncounted repetition that does not come last (`BLPOP`, `ZUNIONSTORE`) takes what
  follows it. `RolesAreTheGrammars` is about commands where it does come last.
- `outcome.rs`: the exit code of a partial outcome ignores the uncertainty of the whole.
- `analyser.rs:50`: `quote_mode` is the mode at the end of the token, not at the cursor.
  `local.rs:52` lists no `\a` and `\b`.
- `path.rs`: a member whose name holds a quotation mark and a dot, bracket or hash cannot be named.

## 7. Not modelled

- Tables of words and their ranking (`vocabulary.rs`, `phrases.rs`, `find.rs`): 8,300 lines of data
  and scores that a small instance says nothing about.
- Text without state across calls: themes, generic rendering, `safetext`, `uri`, redaction, local
  commands, argument parsing of `prc`, CRC16 of a hash tag, JSON spelling and base64.
- Decisions of libraries and of the operating system: TLS, file permissions, the clipboard, terminal
  detection, SQLite.
- `trust.rs`: pure comparisons that nothing composes yet; there is no protocol to model.
- Corners of modelled parts: tasks that start others while a scope shuts down are in the model but
  few of them fit its bounds; that a result refused by the store may have evicted others first
  (`store.rs:171`) is modelled, and no property says whether it should.
- Tooling under `xtask`, tests, empty crates.
- In modelled parts: in the coordinator, cursor movement inside a line, the word under the cursor
  and the column arithmetic of `repaint`; in the session, malformed `SELECT` and the number of
  watched keys; `read_locked` of the shared file, which changes nothing; the rate limit of
  discovery, which only delays; borders and styles of tables; effects and versions of the catalog.

The map covers about an eighth of the lines under `crates` and `xtask`, tests inside the files,
comments and data tables included in the count. What is left out is above; adding it line by line
would transcribe it without a property to gain.

## 8. Plan

Done: every part of the inventory that keeps state, and the algorithms others rely on; proofs of all
safety properties but the five of section 4 about nested values. Next of these: `SameValues`, with
the decoder of `Resp` as a function of the position and of the depth still allowed, so that
induction is over the length of the input, as in `LineProofs`.

Worth adding to the models: the coordinator composed with the broker and the line buffer, once the
program wires them together; trust identities, once a caller follows redirects.
