# abbyfile in TLA+

`abby` turns Markdown agent definitions into standalone binaries, installs them
for several AI runtimes (Claude Code, Codex, Gemini CLI), and the binaries then
serve tools and memory over MCP.  The code is sequential Go in most places; what
is hard in it is that it edits files it does not own while their owners are
running, that its own commands may run beside each other or die half way, and
that an installed agent serves concurrent calls on one directory and starts
programs that hang.  That is what these modules are about.

## Inventory

| Component | State | Operations | What is hard | What makes it correct | Modules |
|---|---|---|---|---|---|
| Config file editor (`pkg/runtimecfg/filewriter.go`, `pkg/fsutil`) | a runtime's config file, its one-time backup, temporary files | plan, apply (re-read, edit, compare, back up, rename), retry once | the runtime and other abby processes write the same file | others' entries and settings survive; the backup is older than abby; success means applied; giving up means unwritten; it ends | `ConfigFile`, `ConfigFileProofs` |
| Config documents (`jsonobj.go`, `tomlblock.go`, `render.go`, ...) | none | upsert, remove, look up a server in JSON or TOML | TOML is edited line by line, without knowing multi-line strings | only the named entry changes; editing settles | effect in `ConfigFile`, ownership in `CliWriter`, TOML in `TomlBlock`, `TomlBlockProofs`, `CliWriterProofs` |
| Runtime CLI writer (`cliwriter.go`) | what the runtime's CLI keeps | choose file or CLI, remove, add, restore | remove-then-add is not atomic; the restore is of a planned entry; commands are killed | success loses nothing; the old entry or the new one is there, or the user is told | `CliWriter`, `CliWriterProofs` |
| Registry (`pkg/registry`) | `~/.abbyfile/registry.json`, `registry.json.tmp` | load, set, remove, save | read-modify-write without a lock; one fixed temporary name | a save that meets no other is sound; one command at a time leaves it readable | `Registry`, `RegistryProofs` |
| Build, install, update, uninstall (`cmd/abby`) | build directory, installed binary, config entries, sub-agent file, registry entry | the four commands, each many file operations | failures and crashes between the operations; user edits; one registry entry for all projects | the registry tells the truth; nothing the user wrote is lost; what could not be removed stays tracked | `Lifecycle`, `LifecycleProofs` |
| Agent memory (`pkg/memory`) | `<key>.md`, `<key>.meta.json`, `.tmp-*` | write, append, delete, read, list, search, gc | concurrent tool calls; a second process; crashes between value and metadata | calls are atomic within a process; limits hold, or are exceeded by a known amount | `AgentMemory`, `MemoryStore`, `MemoryStoreProofs` |
| Tool executor (`pkg/tools/executor.go`, `procgroup_unix.go`, `builtins/bash.go`) | a child process group, its pipes | start, time out, kill, wait, reap, report | exit, deadline, grandchildren, WaitDelay and pipes race | answered in time; nobody left behind; a reported timeout is one | `ToolCall`, `ToolCallProofs` |
| Output limiting and shaping (`shaper.go`, `limit.go`, `spill.go`) | a bounded buffer | settle the budget, cut, spill | zeros, inheritance, caps smaller than the marker | previews fit and are the output's own text; an accepted `inline_large` is honoured | `Shaper`, `ToolCallProofs`; capture and spill file not modelled |
| Tool registry, validation, policy (`pkg/tools`, `pkg/policy`) | filled at start | validate, look up | - | a refused call starts nothing | `Refuse` in `ToolCall` |
| File tools (`pkg/builtins`) | none | read, write, edit | whole-file writes | no promise between calls | not modelled |
| Sandbox (`pkg/sandbox`) | none after construction | resolve a path, split and check a command | matching rules, quoting | an entry means its words, quoted words survive | `CommandLine`; legality of values in `AgentConfig` |
| Agent runtime (`pkg/agent`, `pkg/config`) | `config.yaml`, effective settings | start, override, fall back, `config set`, `reset` | invalid overrides; directories that vanish; two `config set` at once | the fallback is never wider than what was given; what is shown is enforced; siblings survive | `AgentConfig`, `ToolCallProofs` |
| MCP bridge (`pkg/mcp`) | the server of the MCP library | register, dispatch | concurrency is the library's | every call is answered | handler in `ToolCall`; resources read `MemoryStore` |
| Releases (`pkg/github`, `checksum.go`, remote part of `install.go`) | none of its own | list by pages, choose, download, verify, run, retry | the repository changes between two requests | nothing unverified is run; the newest release | `Releases`, `ReleasesProofs` |
| Publish (`publish.go`) | `build/publish`, the repository's releases | compile, sum, create a release per agent | two at once share the directory | a release is what its tag says | `Releases`, `ReleasesProofs` |
| Builder (`pkg/builder`) | build directory | generate, compile, several at a time | a bounded pool and a channel | every build reported, none stuck | `ParallelBuild`, `ReleasesProofs`; one build is a step of `Lifecycle` and `Releases` |
| Definitions and generators (`pkg/definition`, `plugin`, `subagent`, `prompt`) | none | parse, generate text | - | - | budgets in `Shaper`; the rest is text |
| Agent command line (`pkg/agent` commands) | as the runtime's | `config`, `memory`, `run-tool`, `validate` | beside a running server | - | `AgentConfig`, `ToolCall`, `MemoryStore` |
| Reports (`doctor.go`, `list.go`, `diff.go`, ...) | none | read and print | - | - | not modelled: they change nothing |

How they interact: a command of `cmd/abby` calls the config writers (a plan for
every runtime first, then the applies), copies the binary, writes the sub-agent
file and last saves the registry, which `uninstall` and `update` start from.  A
remote install first takes its binary from a release that `publish` made, maybe on
another machine.  A config writer edits the file itself or runs the runtime's own
command line.  An installed binary starts an agent runtime from its compiled
settings and `config.yaml`, opens the memory store and hands tools, memory and
prompts to the MCP bridge; the bridge calls the executor and the memory manager
from several goroutines.  The executor's limits also travel the other way: install
writes a timeout into the runtime's config from the agent's manifest.
`<agent> memory ...` and `<agent> config ...` work on the same files from other
processes.

## Modules

**`ConfigFile`**: one config file, any number of abby editors, and a foreign
writer (`ForeignWrite`) that may replace, delete or break the file between any
two system calls.  A document is its MCP servers, each with the field abby owns
(`cmd`) and one it does not (`extra`), and the rest of the document.  `Plan` is
`fileChange` up to the plan; `ReadSnapshot`, `Recheck`, `StatBackup`,
`WriteBackup` and `Rename` are one turn of the apply loop, with `Commit`'s
comparison, backup and rename as separate steps; `Abort` is an error or the death
of the process.  The temporary files are private and need no state.  `touched`,
`created`, `old`, `backupOld`, `raced`, `seen` and `wrote` are history, used only
by the properties.

**`Registry`**: any number of commands that load the registry, edit it in memory
and save it.  Files are inodes and the two names are directory entries, since two
saves open the *same* temporary file: `OpenTmp` truncates, `WriteTmp` writes (and
leaves a torn file if something else was there), `Rename` publishes whatever has
the name.  `alone` is history: no other save overlapped this one since its load.

**`Lifecycle`**: one agent name in several places (projects, global).  `Build` and
`EmitSubagent` are `abby build`; `InstallLocal`, `InstallRemote` and `Update` start
the steps `CopyStart`, `CopyEnd`, `EditConfig`, `FileStart`, `FileEnd`, `Track`;
`Uninstall` starts `RemoveBinary`, `RemoveEntry`, `CheckFile`, `RemoveFile`,
`Untrack`.  Copying a binary and writing a sub-agent file truncate first, so each is
two steps with a `Torn` file in between.  A `--describe` that fails is no failure of
the install (`Described`): the version stays `Unknown`, the check of the sub-agent
file against it is passed over (`PlannedFile`), and the entry that is tracked names
no version.  `Fail` stops a command anywhere.  The user edits or deletes sub-agent
files, breaks and repairs configs and cleans the build directory at any moment.  The
contents of binaries and sub-agent files are their versions: two builds of one
version are taken to be equal.  A config edit is one step; `ConfigFile` has its
inside.  Commands run one at a time; `Registry` has what happens when they do not.

**`AgentMemory`** is the abstract store one process promises its callers: every
call takes effect at once on values and time stamps, within the limits; `Interrupt`
lists what a call cut short may leave.  **`MemoryStore`** is the directory, with
the RWMutex of `memory.Manager` per process and every file operation a step:
the limit checks, of which the one on the total lists the files (`ListSizes`), adds up
their sizes one by one (`AddSize`) and then reads the key once more (`CheckTotalSize`);
the temporary file, the renames, open and write of an
append, the two removals, the expiry check and the read, listing and visiting.
`Fail` is an I/O error with what the code does about it; `Crash` kills a process
and leaks its temporary files.  Sizes count chunks of content.  With one process
`MemoryStore` implements `AgentMemory`: the store seen by callers is the one from
before the running write (`SeenBy`), so a write takes effect when it returns.
**`Tally`** is a sum of natural numbers as the cardinality of a set of pairs, which
both modules use for the bytes stored, so that the theorems on finite sets apply.

**`CliWriter`**: any number of abby commands, each with one change of one entry,
and a foreign writer.  `Plan` reads the entry and chooses (`auto`, `cli`, `file`,
what the runtime's CLI can express, whether it is on PATH); `Skip` finds nothing to
do; `EditFile` is the whole file edit in one step; `Command` runs the next command
of the plan and `Fault` is a command that fails or is killed before or after its
effect, with what `apply` does next: go on, restore, or give the user the old entry
as a hint.  The runtimes' commands (`Effect`, `Refuses`, `Known`) are external and
do what the code relies on.  `ownedFields`, `merged` and `After` are the fields abby
owns and the overlay of `render.go`.

**`TomlBlock`** has no state: upsert and removal of one `[mcp_servers.<name>]` in a
sequence of lines, from the cutting into segments to the guard and the line
endings, against a small TOML decoder (external) that tracks tables, keys and
multi-line strings.  `CliWriter` extends it: for Codex, `EditFile` stands for these
edits.

**`ToolCall`**: one call from request to answer.  The server's half follows
`RunRaw`, `Run` and `runCommand` through os/exec: `Expire` and `Cancel` (the
context's watcher and the group kill), `Reap`, `HandOver` (Wait takes what the
watcher said, the WaitDelay timer is armed), `Drained` or `ClosePipes`, `Answer`
(which kills what is left of the group and makes an answer of the error).  The
other half is a child that may exit, hang or leave a helper in its group or in a
session of its own.  The other built-in tools run in the server (`HandlerReturns`):
the executor hands them a context with a deadline (`HasDeadline`), or, for the tools
of the agent's memory, none at all, and then waits; they come back when they like, for
`read_file`, `write_file` and `edit_file` never look at the context.  Time is a clock in
ticks; `Tick` waits until the executor and os/exec have nothing to do, so their work
takes no time and everything in one tick may happen in any order; it does not wait for
a handler.  `runtimeTimeout` is what install writes for the runtime when the agent
described itself.

**`Shaper`** and **`CommandLine`** are the pure parts of a call: the context budget
from definition to preview, and the splitting and matching of command lines.

**`AgentConfig`**: `config.yaml` under commands, hand edits and directories whose
links break; `StartSet` and `StartReset` load the file into a command, `Write` puts
the whole document back by rename or deletes it, `Dies` is a command that does not
get there.  A start has no state: `effectiveSandbox` is the overlay (`Merged`; a
`tool_timeout` that does not parse and a `max_command_timeout` that is not positive
are passed over), the check and the fallbacks of `agent.New` as a function of the
state, so every state is also one in which an agent starts.

**`Releases`**: publishers share `build/publish` (`Compile`, `Sum`,
`CreateRelease`, in any order of agents); releases are deleted by hand; installers
page through the list, choose, download, verify, run with `--describe` and place,
each request a step that may fail for good or be retried (`Transient`, `Refused`).
With a GitHub token an asset is fetched by its number, so of the release that was
resolved, or of none if that is gone; without one by tag and name, so of whatever
release has the tag when the request is made, once for the binary and once for the
checksums (`Served`).  Placing truncates the installed binary and then writes it
(`PlaceStart`, `PlaceEnd`), maybe while another install does the same to the same file
(`Placing`, `Copied`); `PlaceFails` leaves it torn.  A binary is what it was built from
and the number of the build; a checksum is the content.  `overlap`, `issued` and `ran`
are history.  What happens after placing is in `Lifecycle`.

**`ParallelBuild`**: `BuildAll` as the caller's loop, the semaphore, the goroutines
and the channel they report through.  `BuildNeverStuck` says what the caller and a
goroutine wait for (`CallerCanGoOn`, `WorkerCanGoOn`), instead of ENABLED, so that it
can be proved; on the instance below TLC has confirmed that it is `ENABLED BuildAll`
whenever there is no verdict.

`MC*.tla` instantiate these for TLC; `*Proofs.tla` hold the proofs.  Operators
marked `Mutant:` are plausible mistakes in the definition they precede; the
properties are known to notice them.  Modules that share
nothing are checked in one run where that costs little: `MCReleases` starts either
in a `scene` of `Releases` or in one of `ParallelBuild`, and `CliWriter` and
`ToolCall` evaluate the pure modules' properties (`TomlEditExact`, `ShapeSound`,
`InlineLargeHonoured`, ...) in states of the kind that uses them; `ToolCall` extends
`CommandLine` and `Shaper`, because the executor splits the command line of a call and
shapes what it returns.

## Runs

| Run | Bounds | What it shows |
|---|---|---|
| `config_two` | 2 editors, 2 names, 1 command, 3 foreign contents | `PreservesOthersWork`, `BackupPredatesAbby`, `AbsorbsOneChange`, `GivesUpUnwritten`, and the proofs' `IInv` |
| `config_one` | 1 editor, 2 names, 2 commands, a content that does not parse | `SuccessMeansApplied`, and `ApplyEnds` under fairness |
| `registry_two` | 2 commands, 2 agents, 4 inodes | `AloneIsSound` and the proofs' `IInv` |
| `registry_race` (violation) | 2 commands, 5 inodes | the save is not atomic against another save |
| `memory_one` | 1 process, 2 callers, 2 keys, limits of 2, TTL 1, clock to 2, 1 fault | `TypeOK`, `ImplementsAgentMemory` |
| `memory_limits` | 2 processes, 3 keys, `MaxKeys` 1, one chunk a value, two in all | `KeysOvershoot`, `BytesOvershoot` |
| `lifecycle_places` | a project and global, 1 runtime, 2 versions, both released; `--describe` may fail, nothing else | `RegistryTruthful`, `EditedFileKept`, and the proofs' `IInv` |
| `lifecycle_configs` | 1 place, 2 runtimes, 2 versions, both released, failures anywhere | `NoDanglingEntry`, `RegistryTruthful`, `UntrackedOnlyWhenGone` |
| `cli_two` | 2 commands, 7 setups, 5 earlier entries, 5 requests and a removal, 2 faults, 1 foreign write; TOML files of up to 4 lines of 7 kinds, multi-line strings of up to 2 lines with up to 2 lines around them | `CliLosesNothing`, `FailureKeepsACopy`, `AddsLeaveAnEntry`, `TomlEditExact`, `TomlEditsSettle` |
| `calls_all` | 4 kinds of call, 4 tool limits, 2 command limits, 3 requested ones, `WaitDelay` 2, clock to 12; output of up to 4 lines of up to 2 characters; entries of up to 4 characters | `NothingLeftRunning`, `TimeoutMeansUnfinished`, `RuntimeOutlastsServer`, `EveryCallAnswered` under fairness, `ShapeSound`, `InlineLargeHonoured`, `WordsStayWords`, and the proofs' `IInv` |
| `agentconfig_two` | 2 commands, 5 choices, 1 hand edit of 4, 2 links that may break | `KeepsOtherSettings`, `ShownIsEnforced`, `NeverWiderThanGiven`, and the proofs' `SettingsIInv` |
| `dist_all` | 2 publishers, 1 installer, 2 agents, 2 versions, pages of 1, 1 retry, 2 builds, 1 fault, a handmade release; or 2 installers, 1 agent, 1 version and 2 faults; 4 agents to build, in turn or 2 at a time | `ReleaseIsAsTagged`, `OnlyVerifiedRuns`, `InstallsTheLatest`, `BuildAllSound` |

Why the bounds are enough.  In `ConfigFile` two editors and an unbounded foreign
writer give every pairwise race at the file, the backup and the retry; the apply
loop runs at most twice, and `IInv` is proved inductive for any number.  In
`Registry` two saves are what a collision takes, and debris of earlier ones stays in
the inodes; four inodes are two names and two handles (five in the violation, which
needs one more).  In `MemoryStore` one process with two callers has every pairing of
calls; the clock reaches past the TTL; one fault can fall on every step.  The limits
are raced by two processes; three keys are one more than the bound `KeysOvershoot`
allows, which is reached.  `BytesOvershoot` allows 4 and 3 are reached, since the key
limit leaves two keys; with values of two chunks, written whole, and a total of 2,
TLC has found states with all of the 6 it then allows.  In `Lifecycle` two versions are an old and a new
one, two places are what one registry entry can confuse, and two runtimes are what
partial failure of a loop over runtimes needs.  Failures of one project, found again
by the next command, are in `lifecycle_configs`; failures and two places together
are left to the proof.  In `CliWriter` two faults are a failing add and a failing
restore, and the second command races the first at every point between its
commands.  In `TomlBlock` four lines are a table, its content, a comment and the
next table.  In `ToolCall` the three limits take every order, the clock passes the
longest of them plus the `WaitDelay`, and calls share nothing.  In `Shaper` the caps
lie on both sides of the marker and the suffix.  In `AgentConfig` the hand edits
hold a value that no command would write for every kind of setting.  In `Releases` a
page of one release makes every insertion and deletion between two pages shift the
list; one fault falls on every request, and with one retry both outcomes of a retry
are there.  A release replaced between two requests takes a deletion and a second
publisher, and a copy torn by two writers two installers and a failure; a scene of
`dist_all` has those (`race`), with nothing else to choose.

Bounds in guards: `MaxClock` and `MaxFaults` in `MemoryStore`, whose `Calls` says
which calls are made (all, but in `memory_limits` only those that change a total);
`MaxFaults` and `MaxForeign` in `CliWriter`; `MaxTime` in `ToolCall`; `MaxEdits` in
`AgentConfig`; `MaxBuilds` and `MaxFaults` in `Releases`.  Everything else is finite
by itself.  Deadlock is allowed where commands end and nothing is left to do, and in
`registry_two` and `agentconfig_two` also because a file that does not parse stops
every command until the user repairs it; that `BuildAll` itself does not stop is
`BuildNeverStuck`, a part of `BuildAllSound`.

Fairness.  `ConfigFile!FairSpec` assumes weak fairness of each editor's own steps,
since nothing in `apply` blocks, and nothing of the foreign writer, which may write
for ever.  `ToolCall!Spec` assumes it of the executor with os/exec, which are woken by the
Go runtime's timers and by the kernel, and of the clock; nothing of the child, its
helper or a handler in the server, which may all run for ever.  `EveryCallAnswered`
therefore lets a handler that has not come back keep its call.

What the runs found.  `registry_race` is a place where the code does not do what
its document says; `PROJECT.json` quotes both sides.  The models have other
behaviours that a document or a comment does not lead one to expect, without a run
of their own:

- A change of a config file that falls between `Commit`'s comparison and its rename
  is overwritten undetected.  `PreservesOthersWork` is about renames no change got
  in front of.
- Two processes together may hold two values more than `MaxTotalBytes`, not one:
  `checkTotalSize` adds up the sizes first and then reads the size of the key once more,
  and takes off what another process appended in between without having counted it.
- A temporary file that a crash leaves in the memory directory counts against
  `MaxTotalBytes` for ever (`leaked`).
- When `--describe` fails at install (`distribution.md` says the install goes on), a
  sub-agent file of another version than the binary is installed with it, and the
  registry names no version; `RegistryTruthful` says that this is the only way to such a
  pair.
- `trackInstall` replaces the whole registry entry.  So an install that skips a
  stale sub-agent file forgets that the file is abby's, and a reinstall with
  `binary: false` forgets binary and entries, which a later uninstall leaves.
- A Claude Code update whose `mcp remove` is killed after it took effect ends in a
  plain error with the entry gone; it is the one exception in `FailureKeepsACopy`.
- `config set tool_timeout` after an install raises the server's limit above the
  timeout in the runtime's config; `RuntimeOutlastsServer` is about the limits as
  they were at install, and about calls with a child: nothing bounds a handler.
- Two publishes at once on one machine can release each other's binaries; deleting
  a release while an install pages can hide another one from it.  What an install
  takes for the latest is the first release in the list, not the highest version;
  `InstallsTheLatest` means the same.
- Without a token a release that is deleted and made again under its tag during an
  install is either refused (binary and checksums of two releases) or installed whole in
  place of the one that was chosen.  A copy that fails leaves a torn binary where a good
  one was; the install says so.
- `ListAgents` gives a repository with tags `v<version>` only the agent of its own
  name, which `LatestRelease`, looking for `<agent>/v`, then does not find.

## Proofs

`ConfigFileProofs` proves for any sets of editors, names, commands, documents and
foreign contents:

- `Invariance`: `Spec => []IInv`.  `IInv` adds to the types what an editor past
  `Commit`'s comparison knows: its snapshot is the file unless it was raced
  (`SnapshotCurrent`), once abby has replaced an existing file there is a backup,
  and whoever has one to write took its snapshot before that (`BackupFirst`), and
  every mismatch met is a change counted (`ChangesCounted`).  `BackupPredatesAbby`
  alone is not inductive: a second editor may be about to write a backup of a
  file the first has already changed, unless it is known that it saw no backup
  because nobody had renamed yet.
- `TypeCorrect`, `BackupOriginal`, `OthersWorkPreserved`, `SuccessHolds`,
  `GivesUpRightly`, `GivesUpClean`: the properties of the runs, from `IInv` and one
  step of case analysis.  The edit itself enters through `EditedIsLocal` and
  `UnchangedSatisfies`.

`RegistryProofs` proves for any commands, agents and inodes `Invariance`,
`LoneSaveSound` (`AloneIsSound`: a command that has been alone holds its edit of
the registry on disk, and owns the temporary name) and `SerialAlwaysReadable`
(with one command at a time the registry parses at every instant, wherever the
command dies).

`LifecycleProofs` proves for any places, runtimes, versions and releases, any
order of commands and any failures:

- `Invariance`.  None of the properties is inductive alone: what a command does at
  its last step is right because of what it established before.  `InstallUnderWay`
  says that an install past its copy has the binary in place, writes a file of the
  binary's version if that is known, and overwrites only what it looked at;
  `UninstallUnderWay` that an uninstall works on what the registry says and has
  emptied what it leaves behind; `BuildUnderWay` that a build leaves the
  installation alone.
- `RegistryIsTruthful`, `UserFilesKept`, `ForgottenOnlyWhenGone` and `TypeCorrect`:
  the properties, each from the part of `IInv` about the step that could break it.
- `NoEntryDangles` (`NoDanglingEntry`) for one place, every runtime selected at each
  install, and an agent that keeps its binary (`OneWholeInstall`); without these it
  is false, as the list of behaviours above shows.  `WholeUnderWay` carries the
  property over the steps in between: entries point to a binary that is there and
  tracked as long as no command has failed, also in the middle of a build, and an
  uninstall goes through every runtime, so that it leaves no entry when it removes
  the binary.

`ToolCallProofs` proves for any calls, limits and delays with `WaitDelay` shorter
than the margin: `Invariance`, where `IInv` says which processes and timers there
can be at each phase (`Processed`), that no timer of a call with a child lies
further ahead than its length (`Timely`) and what a finished child means
(`Finished`, `TimedOut`); and from it `NoneLeftRunning`, `TimeoutIsHonest` and
`RuntimeWaits`.  `LargeOutputsHonoured` (`InlineLargeHonoured`) needs no induction:
`CapsAgree` says that the cap in force when a tool runs is the one checked when the
agent was built, and `AcceptedIsHonoured` says it of all blocks, whatever numbers
they give, and not just of those TLC enumerates.

The same module proves what is pure in a call for inputs of any size, by induction.
The library's induction theorems take a predicate, which no backend can be given;
`Inducts` takes a set of numbers instead, from the well-foundedness of `<` on `Nat`.
`FlattenParts` and `RunExists` use it to show that the functions by which `FlattenSeq`
and `SplitArgv` are defined exist, and so what they are at each step.

- `PreviewsSound`, and from it `OutputsShaped` (`ShapeSound`), for any settings and
  outputs of any length: what `Lines`, `Shape` and its cut build is a text in order
  (`InOrderConcat`, `PrefixKeeps`, `TrimKeeps`) that shows each character as often as
  the kept lines do (`CountConcat`), within the cap on bytes.  (The limit on lines
  only decides whether there is something to cut: head and tail may together be longer,
  so nothing bounds the lines of a preview.)
- `QuotedWordsSurvive` and `EntriesMeanTheirWords`, and from them `WordsSurvive`
  (`WordsStayWords`): `FlattenLaid` says where in the line each quoted word lies,
  `ThroughChar`, `ThroughWord` and `ThroughLine` what `SplitArgv` has read at its end,
  a quote inside a word and the escape around it included.  What an entry of
  `allow_commands` lets through follows from what its own words, quoted, are read as.

Its last part is about `AgentConfig`, the settings that the calls run under: for any
processes, choices, hand edits, compiled and default values it proves
`SettingsInvariance`, `OtherSettingsKept`, `ShownAndEnforced` and
`NeverWider`.  `InHand` ties the document a command holds to the file, and
`OnlyChecked` says that commands alone never write a sandbox that cannot be built.

`CliWriterProofs` proves for any processes, fields' values, entries, requests and
setups `Invariance`, `TypeCorrect`, `SuccessLosesNothing`, `CopyKept` and
`AddsLeaveEntry`.  The first two properties are about the last step of a change;
`UnderWay` says what a process knows by then: which commands are left, and, unless
it was raced, that the entry is the planned one, removed, or replaced by what was
asked for.  The lemmas `KnownIsAll` and `GeminiIsAll` are where the choice of the
CLI (`cliCan`) is needed: the runtimes' commands drop nothing of the entries they
are trusted with.  `AddsLeaveEntry` is about two processes that remove and add the
same entry at once: by `MissingIsMended` (`MendedAlways`) an entry that is missing
is about to be put back by somebody, or was never there and nobody has succeeded.

`TomlBlockProofs` is about one edit by `TomlBlock`, of files of any length, with
any tables and keys (`FileLines`; only the two names that the model itself gives to
keys, `text` and `inline`, are left out):

- `UpsertExact` and `RemoveExact`: an accepted edit leaves every line that is not the
  server's, in order, and sets or removes the entry.  `AssembledIs` turns the
  segments, tails and pieces of the editor into one pass over the lines (`WeaveStep`),
  and `AssembledShape` says what that pass makes of a file, whatever the block: some
  lines, the block, some more lines.  The editor and the decoder agree on which lines
  are the server's unless a line of a string looks like a header, and there the
  guard has to help: `EditCalm` shows that the edited file can hold the entry only if
  the block stands outside of every string and no other table's string holds a header
  of the server, and `ClearIfGuarded` that then none did before, since the guard
  compares the strings.  `KeptAlong` and `ReadEdit` follow the two passes from there.
- `EasyAccepted`: an edit is refused only for a reason.  `RenderSets` reads back what
  `renderTOMLServer` writes, in whatever order it writes the keys, and `EditReads`
  shows by `Tracks` that in the file and in its edit the decoder stands alike at every
  line that both have.
- `ExactEdits`: the three together are `EditedExactly`.

Edits that follow one another are at the end of `CliWriterProofs`:

- `EditsAgain`: an edit of an edited text is the edit of the text.  `Echoes` goes
  through the file with the first edit and the second side by side; `TrimMore` and
  `RedoneCur` are about the blank lines that joining puts in and trimming takes out.
- `SettledEdits` (`Settled`): a repeated edit changes nothing, since the entry is
  already overlaid (`OverlaidTwice`) and the text already edited (`SureAgain`).  The
  removal is accepted, misleading lines or not: the lines before the block are read
  without the server, and behind it `Trails` shows the decoder in step again from the
  first header on (`TrailText`, `Undone`).

`FilesFit` says that the files TLC enumerates are among those, and so `TomlExact`
and `TomlSettles` (in `CliWriterProofs`) state the two properties of the runs.  One
hypothesis is on the file (`OwnPlain`): no multi-line string inside the server's own
tables holds a line that looks like a header.  The editor cuts the table at such a
line; if it names another table, the lines from there on stay in the file, where the
decoder refuses them or they set nothing.  Nothing of anybody else is lost, but the
edit is not exact.

`ReleasesProofs` proves for any publishers, installers, agents, orders, page size
and numbers of failures `Invariance`, `RunsOnlyVerified`, `TaggedAsBuilt` and
`LatestInstalled`.  `InstallUnderWay` says that an installer works on a release of
its own agent, runs what it has compared with the checksums of a release that had
the tag (`Vouches`; with a token, of the very release) and places what it has run,
whatever happened to the list since (`ListedWereIssued`: what is served was made by
then).  `FailedKept` and `TornKept` follow a torn binary to an install that is still
copying or has noted its failure; `PublishUnderWay` that publishers at work together
are known as such, so that one that is alone finds in `build/publish` what it put
there.  That every step of an installer leaves the publishers' part alone, and the
other way round, is one lemma each (`JobOnly`, `InstallersKept`).  `LatestInstalled`
(`InstallsTheLatest`) rests on `InstallsAbreast`: the list is ordered by id, newest
first (`Ordered`); as long as nothing is deleted, what was the newest release of an
agent when the install began is on a page still to come, since publishing only moves
it to a later one, or the release chosen is as new (`Current`); and with `--all` no
agent that had a release is dropped on the way (`Counted`).

The same module proves `BuildAllIsSound` for `ParallelBuild`, any agents and any
number of places.  `BuildInv` counts: the places taken are the goroutines that have
started and not left, and what is in the channel and what was received is what was
sent.  So the channel, which has room for every result, never fills before all
are sent, a place that is waited for is held by somebody who can leave, and a result
that is waited for is in the channel or still to be sent.

`MemoryStoreProofs` proves for any processes, threads, keys, contents, limits and
faults:

- `Invariance` (`IInv`: who holds the lock of a process, and which key and which step
  belong to a call) and `TypeCorrect`.
- `KeysBounded` (`KeysOvershoot`).  Not inductive alone: a process may be past its
  check with the key still to come.  `KeysAccounted` counts the keys listed together
  with those of the calls past the check (`KeysToCome`), of which each process has at
  most one.
- `BytesBounded` (`BytesOvershoot`).  Here a check is not only stale; an append's
  size was read before another process replaced the value, so that its check may be
  of too small a number.  So are the sizes a check has added up so far (`SizesToAdd`
  are those it has still to read), and then the size it takes off.  `BytesAccounted`
  orders the calls by the moment they took their size (`older`): what a call has
  read is behind by no more than the values of older calls, so its check made room
  for two values of each, up to two for every other process (`Covered`, `Slack`),
  and there is a set of calls, the oldest ones, for which that much room is still
  there (`RoomFor`).  `SizesFit` bounds each value.
- `CallsAreAtomic`: with one process (`Sole`) `Spec => ImplementsAgentMemory`, step by
  step.  `AddsUp` says how far a running call has come: the files are the store its
  callers see (`Seen`) with just the steps made so far applied, what has been checked
  of a write still holds because the lock excludes every other change
  (`WriteSoFar`), a collection has removed values of expired keys only
  (`CollectSoFar`), and a search holds what is in the files for every key it has
  visited (`SearchSoFar`).  Then each action has a lemma (`...Refines`): the last step
  of a call is the step of `AgentMemory`, every earlier one stutters, a failure or crash
  is `Interrupt` with what was done by then.  The abstract store is free to take an
  earlier time stamp (`time.Now()` is read before the metadata is renamed) and, once
  there was a fault, to refuse more than the limits ask for.

The proofs use the constants' named assumptions (`ConfigAssumption`,
`RegistryAssumption`, `LifecycleAssumption`, `AbsenceAssumption`, `TimesAssumption`,
`CallsAssumption`, `BudgetAssumption`, `CliAssumption`, `ValuesAssumption`,
`CompiledAssumption`, `ReleasesAssumption`, `BuildAssumption`, `MemoryAssumption`,
`NoneAssumption`).  They say which sets the constants are taken from, that keys,
callers, processes and agents to build are finitely many and there is a process, and
that the sentinels differ from the data.  Four say something of the code or its
world: `CompiledAssumption` that the builder has validated the compiled sandbox,
`TimesAssumption` that `WaitDelay` is shorter than `runtimeTimeoutMargin`,
`BudgetAssumption` that the default caps are positive and within Claude Code's
ceiling, and `ReleasesAssumption` that a release made by hand is the first of the
repository and that a tag without an agent is no agent's.  TLC evaluates all of them.
`OneWholeInstall` and `Sole` are hypotheses of one theorem each and hold in the
runs that check its property.

Before they were proved TLC checked the inductive invariants too: those the table
of runs names with every check, the others in runs of their own, made once.  `AddsUp`
held in all states of `memory_one`, `BytesAccounted` and `KeysAccounted` in all of
`memory_limits`.

Only model-checked: `ApplyEnds` and `EveryCallAnswered`, liveness under fairness and
out of the prover's reach.

## Not modelled

The text of documents, previews and messages; file ownership under root; symbolic
links (a snapshot resolves them once); directory creation; modes.  `--dry-run` (the
same plans, nothing applied), `install --all` of local agents (the same by name),
`update` of several agents in turn.  Read errors that the memory store takes for a
missing file, the two looks of `checkKeyCount` as two, and an append of which only a
part of the text is written: contents are chunks, and each is written whole.  The
capture of output by the bounded buffer and the spill file: a pipe that ends stands
for them.  How long a retry sleeps, and the order of version texts with their
pre-release suffixes.  Resolution of paths against the allowed directories: a walk
over symbolic links without state of its own.  The file tools, which are one or two
file operations each and promise nothing between calls; edits of one file by two
calls at once lose one.  Reports, parsing of definitions and generation of source
and text: nothing there changes state that has to agree with anything else.

## Plan

Done: what can destroy a user's work (`ConfigFile`, `CliWriter`, `TomlBlock`,
`Registry`, `Lifecycle`, `MemoryStore` over `AgentMemory`), what an installed agent
does with its settings and its calls (`AgentConfig`, `ToolCall`, `Shaper`,
`CommandLine`), how it gets there (`Releases`, `ParallelBuild`), and proofs of every
safety property.  Left, in this order:

1. The bounded buffer and the spill file behind the pipes of `ToolCall`.
2. Path resolution of the sandbox over a small tree with links.
