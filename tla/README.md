# TLA+ specifications of NSR

NSR is a multi-target traceroute with a text interface. Each target has two
processes, a *logic engine* that decides what to probe and a *gatekeeper* that
owns the raw socket; `main` starts and watches them, folds their telemetry into
a route graph, draws, handles keys and talks to plugins. Everything between the
processes goes through lock-free rings in shared memory, signals and pipes, so
most of what can go wrong depends on an order of steps nobody wrote a test for.
These modules model that part. Paths below are relative to `src/`.

## 1. Inventory

| Component | State | Operations | Interacts by | Hard because | Correct when |
|---|---|---|---|---|---|
| Shared-memory rings (`include/nsr/shm_ring.h`) | `head`, `tail`, `data[]` in a shared mapping | push, pop (batch); push, pop (large) | acquire/release indices | two processes, no lock, either may be killed in the middle of a call and its successor finds the mapping as it was | the memcpys never meet; it is a bounded FIFO |
| Flow control (`src/io/logic.c`, `src/io/gatekeeper.c`) | the two rings' fill, the inflight table's fill | `while (!push) ;` on both sides, drain loop | rings `l2g`, `g2l` | each process spins until the other makes room | they never wait for each other; the drain loop ends |
| Gatekeeper (`src/io/gatekeeper.c`) | `g_inflight`, `g_gk_id`, time of the last reaping | take intents, `sendmmsg`, match answers, reap | rings; network | answers are lost, duplicated, late and reordered; partial sends; 16-bit numbers wrap; restarts | an observation belongs to the probe it is credited to; nothing stays in the table for ever |
| Logic engine (`src/io/logic.c`) | `g_state.hops`, `g_pacing`, `current_ttl`, `g_paused` | build burst, `update_state`, `sweep_timeouts`, `adjust_pacing`, SIGUSR1 | rings; signal | stale clock, eviction of aliases, changing burst length | hops are probed evenly; timed out means silent; counts add up |
| Supervision (`src/core/main.c`) | `g_sessions` (pids, active), `g_running` | fork, reap, replace, disable, pause, interval, shut down | signals, `waitpid` | children die at any moment, a replacement inherits main's handlers, fork fails | one incarnation per role; nothing left; the shutdown ends |
| Topology (`src/state/topology.c`) | nodes, edges, next id | upsert node, add edge, update from a snapshot | called by main | bounded tables; one address at several TTLs; gaps | nodes keep identity, edges are sound, routes reach the destination |
| Plugin host (`src/plugin/plugin.c`, `src/json/json_rpc.c`) | entry per plugin: pending ids, cached answers, key queue, liveness | spawn, notify, request, drain, keys, force_sync, enable, disable | pipes to child processes | slow, hanging and dying plugins; late answers | keys in order; answers matched; no request waits for ever |
| TUI, key slots (`src/ui/tui.c`, `src/ui/key_slots.c`) | view, view stack, cursors, scroll positions, remap | draw, every key | reads topology, calls plugin host | lists change between a frame and a key; frozen screen; stack limit | a key acts on what is highlighted; Esc leads home |
| JSON codec (`src/json/json.c`) | a growing buffer | append calls, lookup in a text by pointers | used by host and C plugins | commas decided from one character; texts cut off anywhere | what is written is read back; the end is never passed |
| GeoIP plugin (`plugins/geoip/geoip.c`) | cache of 256 addresses, open addressing | `init`, `update_telemetry`, `render_hops` | pipes; web service, database | lookups of up to five seconds in the only thread; full cache; answers to an older list of hops | one lookup per address; answers complete; the screen catches up |
| Percentile plugin (`plugins/percentile/percentile.c`) | ring of samples, ring of minutes | `update_telemetry`, `render` | pipes | rings go round; the clock is set back | statistics are those of what was reported |
| Plugin configuration (`src/plugin/plugin.c`, `src/core/main.c`), `nsr-plugged` | `~/.nsrconfig`; registry of plugins | load, switch, `enable`, `disable` | a file without a lock | several writers, each in three steps; crashes; unfinished and surplus lines | settings persist; a save has its effect |
| Sniffer and sparkline plugins | own processes | JSON-RPC methods | pipes | - | not modelled |
| Older tiers (`src/io/tracer.c`, `supervisor.c`, `singular_*.c`) | - | - | - | not in the `nsr` binary | not modelled |

The hazards, each with its line and the properties aimed at it, are in
`PROJECT.json`.

## 2. Modules

| Module | Models | Extends / instantiates |
|---|---|---|
| `Channel` | abstract: a bounded FIFO channel, push a batch, pop a prefix | - |
| `ShmRing` | both ring types, one step per load, copy and store | instantiates `Channel` |
| `Pipeline` | flow control of the two spin loops, in numbers of items | - |
| `RingProofs` | theorems about rings and flow control | `ShmRing`, `Pipeline` |
| `ProbePath` | a probe's way and back: logic engine, rings, gatekeeper, network, composed | - |
| `ProbePathProofs` | its theorems | `ProbePath`, `SetInduction` |
| `LogicEngine` | hop table, timeouts, pacing | - |
| `LogicEngineProofs` | its theorems | `LogicEngine`, `SetInduction` |
| `Session` | `main` and its children | - |
| `Topology` | the route graph | - |
| `MainProofs` | theorems about what `main` keeps: processes and graph | `Session`, `Topology`, `SetInduction` |
| `PluginHost` | one plugin, its pipes, the frame loop | - |
| `Tui` | views, cursors, keys, remapping | - |
| `TuiProofs` | its theorems | `Tui`, `SetInduction` |
| `GeoIp` | the GeoIP plugin and the host's frame loop around it, composed | - |
| `Percentile` | the rings and statistics of the percentile plugin | - |
| `PluginProofs` | theorems about the two plugins | `GeoIp`, `Percentile`, `SetInduction` |
| `JsonWriter` | the writer of the JSON codec and its buffer | - |
| `JsonCodec` | what is written and the scanner, as operators | `JsonWriter` |
| `PluginConfig` | `~/.nsrconfig` and the processes that share it | - |
| `PluginHostProofs` | theorems about the host: its calls, its settings, its messages | `PluginHost`, `PluginConfig`, `JsonWriter`, `SetInduction` |
| `SetInduction` | induction over numbers, recursive functions, ranks in a finite set and flattened sequences, for the proofs | - |
| `MC*` | instances for TLC | the module named |

A module of proofs covers the components that belong together; the models are
independent of each other, and their specifications have names of their own
(`FlowSpec` in `Pipeline`, `GraphSpec` in `Topology`, `PctlSpec` in `Percentile`,
`ConfigSpec` in `PluginConfig`, `WriterSpec` in `JsonWriter`, elsewhere `Spec`) so
that two of them can be extended at once.

`map` in `PROJECT.json` gives the source lines of every definition. Operators
called `X_Something`, marked *mutant*, are deliberate faults in `X`; each
property is shown to fail with one of them in place of `X`.

### ShmRing
`head`, `tail`, `data` are the mapping; `pbatch`, `pi` the push under way;
`cn`, `cout` the pop under way. A call is `PushBegin` (or `PushFull`, the early
return), `PushCopy` per item and `PushCommit`; likewise for a pop. The acquire
load of the other side's index returns any value stored since the last one this
side saw (`Visible`, with `pview` and `cview`): stale, never going back. A crash
drops the locals and keeps the mapping, as `main.c` does when it replaces a
child. `Large` chooses between the batch ring, which keeps two slots free, and
the telemetry ring, which keeps one.

### Pipeline
Rings and inflight table as counts. `LogicPush` and `GkPush` are disabled when
the ring lacks room: that is the spin. `GkRecv` may match any number of the
active entries up to a batch; `LogicDrained` sees an empty ring. The emptiness
test reads the ring as it is at that moment; a stale view only makes the drain
end a little earlier, and the next round's drain takes what is left.

### ProbePath
The intent ring, `g_inflight` by slot, `g_gk_id`, the reaper, and a network that
holds a set of answers, each remembering the probe it really answers. One
`GkLoop` is one iteration of the gatekeeper's sending half: reap when due, take
what has been pushed so far of the intents, record them, send some of them
(`sendmmsg` may take fewer), of which some are answered. `GkRecv`
delivers one answer, leaving a copy behind or not. The gatekeeper does not sleep,
so its due work does not wait for a tick of the clock; the network keeps an
answer for at most `MaxDelay`.

### LogicEngine
The loop of `nsr_logic_run` as `Top` (clock, pacing, sweep, decision), `Build`
(one probe at a time), `Pushed`, `update_state` per observation, `Drained`; the
clock may advance between any two. `nowUs` is the clock as read at the top of
the loop, as in the code. The loss estimate is a float and is kept as its three
outcomes.

### Session
A process is in one of the states of its start, because that decides what a
signal does to it: `boot` (default actions), `inherit` (main's handlers, from
fork to line 98 or 299), `reset`, `running`. `main` goes through `reap` (with the
pass over the sessions that follows), `ui` and, at the end, `kill`, `wait`,
`cleanup` (the plugins) and `done`; a write to a plugin that has exited ends it
(`killed`). `UiPause` makes SIGUSR1 pending (`usr1`) in every logic engine; the
engine takes it in a step of its own (`TakeUsr1`), and one sent before that is
lost, which the ghost `merged` remembers. `deaf` remembers that a process
swallowed a SIGTERM of main with main's own handler. Of a plugin `plug` keeps
what main is doing with it: nothing, or one of the three calls that block, a
write of the frame to a full pipe, the write of `cleanup` and the `waitpid`
without a timeout behind it (`Stop`, `CleanupOne`, `PluginReads`,
`PluginExits`); while it is in one of them, or in the editor that a plugin asked
for, main takes no step (`Held`). Commands that no other process sees (interval,
dashboard) are `UiNone`. Pids are not reused; the forks before the loop succeed.

### Topology
`Update` folds one snapshot: destination, every hop and alias, edges between
consecutive answering TTLs, the last one to the destination. It is one action
because it runs in main's only thread.

### PluginHost
The host's calls leave messages in `ent.out`; `HostWrite` does the `write(2)`s
one at a time, blocking when the pipe is full and dying of SIGPIPE when the
reader is gone, so the plugin can fall behind or die between a check and a
write. The plugin answers in order, or hangs after `MaxReads` messages, or sends
`force_sync`, or dies.

### Tui
A frame is changes of the world (`NewNode`, `NewTtl`, `Resize`), `Draw`, then
`Press` or `Idle`. A terminal has `max_y` lines and `max_x` columns, from five
and four on. The box of the Tools menu has a least size and may lie partly
outside the screen (`BoxTop`, `BoxLeft`); `OnScreen` says whether an entry in it can
be read, that is, is neither outside nor under the help line or the footer.
`lit` is the entry highlighted on the screen, 0 when it cannot be read. Shortcuts
go through `remap`, filled once by `key_mgr_init`.

### GeoIp
Two processes and two pipes of bounded length. The host's frame is
`update_telemetry`, a `Drain` and a request for `render_hops`, another `Drain`
and one for `render` (the plugin answers that one with an error); writing blocks
when the pipe is full. The plugin reads a line (`ReadLine`); telemetry makes it
look up one address per `Telemetry` step, reading nothing meanwhile. `hash` is
any function, so collisions and wrap-around of the open addressing all happen.
A list of hops stands for the hops of a frame; `shown.hops` remembers to which
list the cached answer belongs.

### Percentile
The two rings as in the code, with `head` and `count`. `log` is a ghost with
everything ever added, against which the statistics are compared. A request
changes nothing, so `handle_render` is an operator. `uint64_t` sums do not
overflow at the values of the run and cannot within the life of a process.

### JsonWriter, JsonCodec
A text is a sequence of characters, a numeral and the words counting as one. Two
characters stand for those that are not written as they are: `Control`, which the
writer makes `\u0001`, and `Wide`, one outside ASCII, which NSR copies as its three
bytes of UTF-8 and Python writes as `\u2582`.
`JsonWriter` is the buffer with everything that can happen to it: any call
(`Send`), and that it is used again (`Reset`). In `JsonCodec` a step is one call of
the writer (`Write`) or a `Reset` before the next line; the assumption
`JsonAssumption`, which TLC evaluates, says that all of them are calls of
`WriterNext`, so `JsonCodec` does nothing to the buffer that `WriterSpec` does not.
`CallsOf` gives the calls for a
value, some of them through a buffer of their own that is appended raw, as
requests are built. The scanner's functions are operators on positions, with
recursion as recursive functions; position `Len + 1` is the NUL, and what lies
beyond is marked so that a step there shows. A plugin's line is what
`json.dumps` writes (`PythonText`), with blanks and in ASCII, appended raw to a buffer that is used again
(`NextLine`).

### PluginConfig
The file is a sequence of settings; one without `nl` runs into the next, so the
two are one line that begins with the first key. NSR reads (`Toggle`), empties
(`OpenForWriting`) and writes (`Close`) in separate steps, since others run in
between and the buffered output reaches the file when it is closed;
`nsr-plugged` reads twice before that (`ToolReads`, `ToolRereads`). A process may
die at any of them, the file may be unwritable, the user appends settings or
leaves out a newline. `clean` is a ghost: no save has met one of these so far.

## 3. Runs

All of them hold; what the code does not keep is in section 5.

| Run | Checks | Shows |
|---|---|---|
| `ring` | `NoSlotRace`, `WithinCapacity`, `CopiedOldest`, `TypeOK`, refinement `FifoSpec` | the ring is a bounded FIFO in spite of stale indices and crashes |
| `pipeline` | `NoCircularWait`, `WorkBounded`; live: `ObservationsLeave`, `RoundsGoOn` | the two spin loops never wait for each other |
| `probe_path` | `OwnAttribution`, `RecvWithinSent`, `NothingStale` | with loss, duplicates, reordering, partial sends and a restart of either process, an answer to a probe of the engine at work, when it is credited, is credited to that probe (an answer to a predecessor's probe need not be, divergence 1) |
| `logic` | `EvenProbing`, `TimeoutMeansSilence`, `HopsSound` | hops are probed evenly, timeouts mean silence, no address twice, counts add up |
| `session` | `SingleIncarnation`, `NoneLeft`, `PauseTogether`; live: `Recovers`, `DisabledStops`, `ShutdownEnds` | one process per role; crashed children are replaced; only a swallowed SIGTERM, a plugin or the editor holds up the end |
| `topology` | `GraphSound`, `RoutesReachDestination` | nodes are distinct and edges sound in an overflowing table, every route leads to its destination |
| `plugin` | `KeysInOrder`, `AnswersMatch`, `NoIdleQueue` | keys stay in order, pending requests have an answer on its way, the queue is not forgotten |
| `tui` | `EscLeadsHome`, `CursorShown`; action property `ActsOnHighlighted` | the cursor is where it can be seen, as far as the box is on the screen; a key acts on what was highlighted |
| `geoip` | `CacheSound`, `LookedUpOnce`, `AnswersComplete`; live: `AnnotationsCatchUp` | for every hash function; host and plugin both block on their pipes, but not each other for good |
| `percentile` | `GlobalExact`, `FocusExact` | the rings hold exactly what they should when they go round or the clock is set back |
| `json` | `FitsBuffer`, `ReadBack`, `CutIsNoticed` | reading inverts writing, but for `\uXXXX`, which is read as `uXXXX`; a cut text is noticed and its end not passed |
| `config` | `Persisted`; action property `SaveEffective` | undisturbed saves lose nothing; the last to close the file has his change in it |

The type invariants of `ProbePath`, `Topology`, `Session`, `LogicEngine`,
`PluginHost`, `Tui`, `GeoIp` and `Percentile` are a conjunct of the first
property that needs them.

### Bounds

- `ring`: four slots, batches of two, two items. The indices wrap many times
  (no counter of laps exists, the state space is complete), full and empty both
  occur, and a batch straddles the wrap. The telemetry ring and real sizes are
  left to the theorems.
- `pipeline`: capacity 7 is exactly what `RoomAssumption` asks for with three
  table entries, bursts of two and one crash: with 6 `NoCircularWait` is no
  longer guaranteed. Both rings do fill.
- `probe_path`: four sequence numbers for five probes, so numbers and slots are
  used again; three hops, bursts of two, answers at most one tick old,
  and one restart of either process. That
  keeps the proportions of the code when a number comes round again later than
  its last answer can be under way (see divergence 4).
- `logic`: two hops, three routers and room for a primary and one alias, so
  evictions happen; bursts between one and three shrink and grow; time for a
  hop to answer, fall silent, time out and answer again. Each hop takes up to
  three answers, also more than were sent, as after a restart.
- `session`: two targets, one plugin, and any two events: a child killed or
  giving up, a fork that fails, a pause, a plugin switched on or off, exiting or
  not reading, the editor; quitting, SIGTERM and Ctrl-C come at any moment besides.
  Two pauses are enough for a signal to be lost, a crash and a pause for a
  replacement to differ from the others.
- `topology`: two targets, two routers, three node slots, snapshots of up to
  three addresses over three TTLs with every possible gap and alias. The table
  overflows; sequences of snapshots are unbounded.
- `plugin`: a queue of two for four keys, a pipe of two messages, four messages
  read, one force_sync, one death, two togglings.
- `tui`: two nodes (so the table's slot 0 is filled last), two TTLs, a stack of
  two for the keys pressed, no or two plugins with reserved keys among seven, for
  a box with six lines. Terminals of 5 lines (the box reaches beyond both ends),
  11 (it just fits) and 19; one width on which the entries begin left of
  the screen, and grids of one and two columns.
- `geoip`: three addresses for a cache of two, so it overflows; every function
  from addresses to slots; lists of two hops with a gap that change without
  bound; a pipe of two lines to the plugin and one of a single answer back, so
  that host and plugin both block. With a single line each they could block each
  other for good: the host writes its second message of a frame without having
  read. In the code a pipe has room for many lines, and no more than two answers
  are outstanding.
- `percentile`: three places in each ring, minutes of two units, four lines with
  repeated, silent and zero hops that begin up to four minutes, one setting back by a
  minute: both rings go round, and windows of one and of all buckets occur.
- `json`: documents with nesting, empty containers, raw pieces, quotes,
  backslashes, newlines, brackets, a control character and one outside ASCII inside
  strings; buffers that begin at four
  bytes, so they grow several times; arrays of one, two and eight characters for
  strings; every place to cut a text.
- `config`: two NSR processes and one `nsr-plugged`, a plugin that is in both
  directories and one that is in the second, three changes, one added line, one
  fault, and room for two lines, so that surplus lines occur. The limit
  `NSR_MAX_PLUGINS` is not reached.

Deadlock is checked in `ring`, `pipeline`, `topology` and `geoip`. The other
instances end: the clock, the keys or the changes run out, a text is complete,
or the program has stopped.

### Fairness

- `Pipeline!FlowFairSpec`: both processes are scheduled (`WF` of the logic engine's
  steps, of `GkPop` and of `GkPush`), and the socket's receive queue does run
  empty now and then (`WF` of `GkRecvEmpty`): matched answers use up table
  entries, and unmatched ones are not counted here. Nothing makes an answer
  arrive.
- `Session!FairSpec`: main, when it is not in a blocking call, and starting
  children are scheduled. Nobody has to press a key or leave the editor, no child
  has to crash or exit, no plugin to read or exit, and no engine to take its
  SIGUSR1.
- `GeoIp!FairSpec`: host and plugin are scheduled. That a lookup ends is
  `CURLOPT_TIMEOUT`, five seconds (`plugins/geoip/geoip.c:117`). The view need
  not stop changing.
- `PluginHost!FairSpec`, used for `TuiGoesOn` in section 5 only: the host is scheduled;
  nothing is expected of the plugin or the user.

## 4. Proofs

The seven modules `*Proofs` and `SetInduction` are checked by TLAPS. Nothing is
assumed but the assumptions on constants (`RingAssumption`, `PipelineAssumption`,
`RoomAssumption`, `SessionAssumption`, `TopologyAssumption`, `LogicAssumption`,
`ProbeAssumption`, `PluginAssumption`, `ConfigAssumption`, `WriterAssumption`,
`GeoAssumption`, `PctlAssumption`, `TuiAssumption`), which TLC evaluates in the runs:
sizes are natural numbers, some of them positive; the values that stand for "no
address" or "not known" are no addresses or places; a box of the menu has room
for its frame (`MinBox > 4`) and a terminal at least five lines and four columns; the window sizes of the percentile plugin do not
exceed its ring; a line the user adds to the configuration is not one of a
plugin, whose keys begin with `NSR_PLUGIN_`; the characters the JSON writer adds
are characters. One theorem has a further
hypothesis, stated in it: `NoWrap`, below. The bounds that keep TLC's state
spaces finite (numbers of crashes, keys, ticks) are constants like any other, so
the theorems hold however large they are.

None of the invariants is inductive as it stands. Each inductive invariant was
first checked by TLC on the instance of the component's run.

**The ring**, for every size from 3 on, every batch and item set, both types:
`TypeCorrect`, `RaceFree`, `Bounded`, `CopiesOldest` and `Refinement` (it
implements `Channel`). The properties are not inductive by themselves: that a
push does not overwrite unread slots depends on the stale tail it was admitted
with. The inductive invariant `IInv` adds

- `ViewsSafe`: each side's view of the other's index lies between that side's
  index and its own, and a push under way fits the room it saw in its *view*,
  a pop under way takes no more than its view showed;
- `SlotsFilled`: every queued slot has been written, and the copied part of the
  push under way lies behind the queue.

Staleness is then harmless because indices only move forward within the window
(`ViewMoves`, `IndexMoves`): a view can only understate what is free or queued.
The arithmetic modulo the size is in the lemmas `MaskFacts` to `SlotsDiffer`;
there is one lemma per action, and the refinement adds what each commit does to
`Contents` (`CommitPushes`, `CommitPops`).

**The spin loops**, for every capacity that satisfies `RoomAssumption`:
`FlowTypeCorrect`, `WorkIsBounded`, `DeadlockFree`. Counting argument: intents,
table entries and observations are one conserved quantity, added to only by the
logic engine's pushes and bounded after a completed drain by one full ring and
one full table; a circular wait would need two full rings. With the shipped
constants (`SHM_RING_SIZE - 2` = 131070, 65536 table entries, bursts of 64) the
assumption allows 1022 crashes between two drains.

**Supervision**, for any number of targets, plugins, crashes and failed forks:
`OneIncarnation` (`SingleIncarnation`), `NobodyLeft` (`NoneLeft`), `PausedTogether`
(`PauseTogether`). `SessionInv` relates the process table to main's records
(`Table`): a process that has not been collected is the one whose pid main has on
record for its session and role. A replacement can then only be forked when the
predecessor is gone, and waiting for every recorded pid at the end
(`Collected`) waits for everybody; the plugins, which have no pid on record here,
are stopped one by one before `done`. `Pauses` says that the engines of the start
that lost no signal will agree once each has taken what is pending (`Will`: `paused`,
toggled if `usr1`). An engine that is still starting is among them: a SIGUSR1 sent
to it is pending until it has its handler, or kills it. `PauseTogether`
follows for those with none pending. It is not true of an engine that was sent two
before it ran, and the theorem does not claim it (divergence 6).

**The route graph**, for tables of any size, overflowing ones included, and any
snapshots: `GraphIsSound` (`GraphSound`) and `RoutesReach`
(`RoutesReachDestination`). `TableOK` says that ids are handed out once, each in the
slot that is its remainder, and that an address has one node per target;
`EdgesOK` that edges join different nodes of one target; `HasDestination` that a
target with any node has its destination among them. With `Reaching`, every node
has a path to its destination as long as the edge table is not full. That
`MaxNodes` rounds of the search in `ReachesIn` are enough is a counting argument:
a round that adds nothing ends it, and there are no more than `MaxNodes` ids.
From every address of a snapshot a path leads to the destination by induction
from its last TTL down (`RouteReaches`), and paths that were there remain, since
edges are only added.

**The logic engine**, for any number of hops, aliases and routers and all bursts
and intervals: `ProbedEvenly` (`EvenProbing`), `TimedOutIsSilent`
(`TimeoutMeansSilence`), `HopsAreSound` (`HopsSound`). Even probing needs to know
where in the round `current_ttl` is (`InRound`: the hops before it have had one
probe more), silence that no time stamp lies in the future (`Stamped`). That the
counts of a hop add up in spite of evictions needs the value of a sum after one
term has changed, been appended or replaced; the lemmas on `SumOf` derive it from
the recursive definition.

**The probe path**, for every sequence space, table size, number of hops, burst
and timing, with loss, duplicates, reordering, partial sends and restarts:
`NothingStays` (`NothingStale`), `NoMoreThanSent` (`RecvWithinSent`) and
`OwnAnswersCredited` (`NoWrap` and `Spec` imply `[]OwnAttribution`). `PathInv` says
that a reaping leaves only young entries and is not long ago (`Reaped`), that
each probe counted as sent is in one place at most, the ring, the table, the
observations or the counter (`Accounted`), and that intents and answers of an
engine do not overtake its successor's (`Ordered`). Attribution needs the
arithmetic of the numbers: the waiting intents have the last numbers given out
(`Waiting`), an answer on its way has one given out `k` numbers ago, in one of the
last `n + 1` rounds, which began at least `n` intervals apart (`Numbered`), and so
an entry that matches it is its own (`Matched`). `NoWrap` is the condition that
this needs: the rounds that fit into the life of an answer do not use up the
sequence numbers. It cannot be dropped, that is divergence 4; the constants of
`probe_path` satisfy it with equality, and with answers one tick older TLC finds
`OwnAttribution` violated. With the code's numbers, 65536 and bursts of 64, it
says that an answer is younger than 1024 intervals.

**The plugin host**, for every queue length, pipe and set of keys:
`QueueIsServed` (`NoIdleQueue`), `AnswersAreMatched` (`AnswersMatch`),
`KeysStayInOrder` (`KeysInOrder`). In `HostInv`, `Matching` says that every message
or line anywhere has an id already given out, and if a request is pending under
that id, its kind: an answer that comes late can therefore never be taken for
one of another kind. `Transit`: while the plugin lives a pending request is on its
way, as request or as answer, in one of four places. `KeyOrder` bounds the keys in
all places by the number pressed so far, so that the next one is the last.
`Fresh`: a plugin that is switched off has left nothing behind, which is why ids
may start again at 1 with the next process. The loop over the buffered lines
(`DrainBuffered`) is a recursive function; that it keeps the invariant is an
induction over the number of lines.

**The configuration file**, for any number of processes, plugins, directories,
lines, changes and faults: `SavesAreEffective` (the action property
`SaveEffective`) and `SettingsPersist` (`Persisted`). A save rewrites whole lines,
and lines run into one another where a newline is missing; the lemmas on
`LinesOf` and `FlattenSeq` say where the lines of a rewritten text begin (at the
first setting of one of its parts, `FlatHeads`). `Savings`: every line of the text
about to be written that begins with the saved key has the new value (`Own`), and
what `nsr-plugged` holds between its two readings still has its change.
`Undisturbed`, which speaks of runs in which `clean` still holds: one save is under
way at most, each line is one setting, and the file, or while it is empty the
text about to be written, says what was last wanted and keeps the user's lines.

**The JSON writer**, for every first capacity, text and order of calls:
`BufferFits` (`FitsBuffer`, of `WriterSpec`). The loop of `jb_grow` ends because its
value exceeds the number of rounds until it is large enough (`GrowFits`); a string
is appended character by character, each time into a buffer that fits.

**The text interface**, for every number of nodes and plugins, terminal and
sequence of keys (five lines and four columns at least): `EscGoesHome` (`EscLeadsHome`), `CursorIsShown` (`CursorShown`),
`KeysActOnHighlighted` (the action property `ActsOnHighlighted`). `TuiInv` adds the
sizes of the lists (`Sized`) and `Lit`: from a drawn frame to the next key the
entry under the cursor is the highlighted one, where one is. That the cursor
of the Tools menu is on the screen is proved for terminals with more lines than
the least box, on which its entries do not begin left of the screen
(`BoxOnScreen`): with the code's numbers, from 11 lines and 59 columns on. It is
false below that (divergence 14). That needs the sorted order of
the tree to be a rearrangement of the table (`TreeOrderType`) and the scroll
position a frame computes to follow the cursor.

**The GeoIP plugin**, for every table size, hash function and capacity of the
pipes: `CacheIsSound` (`CacheSound`), `LookupIsOnce` (`LookedUpOnce`),
`AnswersAreComplete` (`AnswersComplete`). `TableInv` is the invariant of open
addressing without removal: all slots between an address's hash and its place
are taken (`Reached`), so a search finds it or meets a free slot only if it is
not there. `PipeInv` follows an address from the screen to the answer: an address
that a request names is known, or is being looked up, or is in a telemetry line
ahead of the request (`Ahead`).

**The percentile plugin**, for every size of its rings, every telemetry and clock:
`FocusIsExact` (`FocusExact`) and `GlobalIsExact` (`GlobalExact`). `Ring` says where
the j-th newest sample is, counted back from the head. For the minutes, `Starts`
names the entries of the log with which a minute begins, and `Rows` says that the
j-th newest bucket is the sum of what was reported in the j-th newest of these
minutes. A bucket is looked for by its start, so this holds as long as a minute
that was dropped does not come back (`Covered`): the clock was never set back
(`Timely`), or nothing has been dropped. The windows are then sums over disjoint
sets of minutes (`FiguresUnion`, `WindowTotal`), and the buckets counted are the last
to begin (`RecentMinutes`).

**Induction.** The library's induction theorems have an operator as a parameter,
which the installed provers cannot instantiate. `SetInduction` states induction
about a set of natural numbers instead, and is used for `{n \in Nat : P(n)}`;
`NatRecursion` and `FiniteRecursion` show from it that a recursive function has a
solution, so that its equation can be used. `Ranking` (a finite set that is
strictly ordered has an element of every rank) and `Flattened` (where the parts
of a flattened sequence lie) are for definitions that choose the n-th element or
join sequences.

**Only model-checked**: liveness (`ObservationsLeave`, `RoundsGoOn`, `Recovers`,
`DisabledStops`, `ShutdownEnds`, `AnnotationsCatchUp`), since fairness and `ENABLED` are
out of the prover's reach, and the scanner of the codec (`ReadBack`,
`CutIsNoticed`): reading descends with the nesting of the text, and a nested call
starts where the one before it has ended, which is not a recursion over one
number. Every other property of a run is stated by a theorem.

## 5. Divergences

Met while modelling. Where a definition is named, it stands at the end of its
module and is part of no run; TLC refutes it with the constants of the module's
run, `TuiGoesOn` under `FairSpec` and `ModalKeepsKeys` with one built-in key.

1. `ProbePath!Attribution`: `current_seq` starts at 0 in every logic engine
   (`src/io/logic.c:211`), also in a replacement, while the gatekeeper keeps its
   identifier and table. `src/io/gatekeeper.c:10` promises "correlation back to
   the originating probe sequence"; late answers to the predecessor's probes are
   credited to the new ones.
2. `Session!QuitQuits`: a replacement forked after `src/core/main.c:244` has
   main's handler until line 98 (or 299). The one SIGTERM of the shutdown,
   arriving in between, is swallowed and `waitpid` at line 374 never returns. A
   plugin that does not read holds the program up in the write of `cleanup`, one
   that ignores SIGTERM in the `waitpid` behind it, which has no timeout
   (`src/json/json_rpc.c:72`).
   `README.md:82` has "`Q` → Quit".
3. `PluginHost!HostSurvives`: a `write` to a plugin that has exited raises
   SIGPIPE, which nothing handles (`src/json/json_rpc.c:87`). It needs no race:
   disabling a plugin found dead sends it `cleanup`, and so does the shutdown,
   which then leaves out the rest of it. `PLUGINS.md:187` says NSR
   marks the plugin dead; `README.md:171`, that failures remain localized.
4. `src/io/gatekeeper.c:76`, "Reap entries older than 5 s to prevent seq-wrap
   false positives": at the shortest interval (10 ms, bursts of 64) 6400 probes
   a second use up the 65536 numbers in about ten seconds. An answer older than
   that is credited to the new use of its number; the reaping age does not
   enter. `probe_path` therefore assumes younger answers.
5. `Topology!DestinationMarked`: when the target answers as a hop,
   `src/state/topology.c:134` upserts its node again without the destination
   mark, so `[DEST]` (`src/ui/tui.c:671`) disappears.
6. `Session!PauseAgrees`: `Z` sends SIGUSR1, which toggles
   (`src/core/main.c:338`); a replacement starts unpaused and from then on does
   the opposite of the others. So does an engine that did not run between two
   presses: the second signal finds the first still pending and is lost. `README.md:84` has "Pause / Resume tracing".
7. `j`/`k` change main's interval (`src/core/main.c:343`), but each child has a
   private copy from its fork, so they act on replacements only. `src/ui/tui.c:408`
   offers "Minimum Round Duration (-i)".
8. `LogicEngine!SilentHopsTimedOut`: a hop whose last answer was REPLY or
   UNREACH never times out (`src/io/logic.c:146`), although line 138 says "mark
   hops without recent activity as timed out".
9. `PluginHost!TuiGoesOn`: the write to a plugin that does not read blocks the
   host when the pipe is full; `PLUGINS.md:184`, "Slow plugins no longer block
   the TUI".
10. `PluginHost!ModalKeepsKeys`: `is_modal` is recomputed each frame from a
    cached answer that other paths clear (`src/plugin/plugin.c:730`), so NSR's
    own shortcuts act in between; `PLUGINS.md:146` says a modal plugin gets all
    keys.
11. `PluginHost!DrainedBeforeKey`: with a timeout of 0 the drain reads nothing
    new (`src/json/json_rpc.c:192`), although `src/plugin/plugin.c:1011` says
    "Drain any pending responses before handling this key".
12. In the Tools menu `q` quits NSR (`src/ui/tui.c:847`); the footer at line 792
    and `PLUGINS.md:38` say it goes back.
13. The pool of slots for moved shortcuts starts with Q, and holds T and P,
    which are shortcuts themselves; `PLUGINS.md:64` promises a free slot. The
    table is computed once, for the plugins enabled at the start.
14. Scrolling of the tree ignores the target headings, so the cursor can be off
    the screen by as many lines (`CursorShown` states it that way). A full view
    stack drops a view, so Esc skips it (`README.md:93`). `Tui!ToolsReadable`: the box
    of the Tools menu has at least 10 lines and 64 columns (`src/ui/tui.c:741-745`),
    so on a terminal below 11 lines or 59 columns entries lie outside the screen,
    or under the help line (792) or the footer, and Enter switches a plugin
    nobody can see.
15. `README.md:87-88` names keys R and T where the code has `t` (Tree) and `m`
    (Tools). `PLUGINS.md` speaks of a 20 ms budget where the code has 5 ms.
16. `ARCHITECTURE.md` describes intent validation; the gatekeeper never looks at
    `integrity`. `jitter_us` is always 0 (`src/state/topology.c:100`: both
    round-trip times are assigned before their difference is taken).
17. `PluginConfig!AlwaysPersisted`, `PluginConfig!UnrelatedKept`: overlapping
    saves, a crash between `fopen(path, "w")` and `fclose`, a file of more than
    256 lines and a last line without a newline each lose settings.
    `PLUGINS.md:40` says the enabled state is persisted; `nsr-plugged/nsr-plugged:44`,
    "without losing unrelated lines". Of two lines of one key NSR reads the first,
    `nsr-plugged` the last.
18. `PluginConfig!OwnDirectory`: the `plugin_dir` of a plugin enabled from the
    menu is the directory loaded last, whichever it lies in; `PLUGINS.md:50` gives
    the parameter by an example only.
19. `GeoIp!AnnotationsCurrent`: the text beside a hop is taken by index from the
    last answer, which may belong to an older list of hops, so it can be that of
    another address until the next answer comes. A failed lookup is kept as "?" for
    ever (`plugins/geoip/geoip.c:191`), and a response without a body is parsed
    from an uninitialised array (line 126).
20. `Percentile!WindowsByTime`: the windows for all hops are the last k buckets
    that exist, not the last k minutes (`plugins/percentile/percentile.c:130`).
    `Percentile!FocusCovers`: samples of other hops push out those of the focused
    one. Each line adds the last round-trip time once per answer received so far,
    at most 64 times (line 301), so averages are weighted by the age of a hop, and
    the buckets, unlike the samples, count times of 0. `PLUGINS.md:12` promises
    percentiles; the plugin shows minimum, average and maximum.
21. JSON: `\uXXXX` is read as the characters `uXXXX` (`src/json/json.c:305`).
    The writer makes it of control characters, `json.dumps` of everything outside
    ASCII: the bars the sparkline plugin sends
    (`plugins/sparkline/sparkline.py:12`, `:39`, `:84`) come out as `u2582` and the
    like. A number that is cut off is taken as it stands; a member cut
    off behind its colon is found with length 0; keys are compared as written,
    escapes included (`src/json/json.c:258`).

## 6. Not modelled

- The sniffer plugin (a Rust program whose capturing and uploading threads
  share one state, under a mutex, with its answering loop) and the sparkline and template
  plugins, which format recent values.
- Several plugins at once in `PluginHost`: the passes over the registry and the
  hand-over of the modal input.
- `install`, `uninstall` and `create` of `nsr-plugged`, which copy files.
- What is painted, labels, notices, argument parsing, name resolution, packet
  headers and checksums, socket set-up, health figures of nodes.
- Publishing snapshots to the telemetry ring: the ring itself is `ShmRing` with
  `Large`, its full case just skips a snapshot.
- Reuse of pids between a child's collection and a later signal to it
  (`src/core/main.c:367`).
- Stubs, the older tiers (not in `CORE_SRC` of the Makefile), the benchmark
  programs, and libttak, an external library.

## 7. Plan

Done, in this order: rings and their refinement; flow control; probe path;
topology; supervision; logic engine; plugin host; text interface; GeoIP and
percentile plugins; JSON codec; configuration file.

Proved, in this order: the rings with their refinement, flow control,
supervision, logic engine, GeoIP plugin, probe path, plugin host, text
interface, route graph, configuration file, percentile plugin, JSON writer.

Next, proofs: that the scanner never passes the NUL of any text, and that
`Pipeline`'s counts abstract two `ShmRing`s. Then, as models: several plugins and
the modal hand-over, the telemetry ring between logic engine and main, the
sniffer's threads.

## 8. Running

    tlc -workers 2 -config MCShmRing.cfg MCShmRing
    tlapm RingProofs.tla

`PROJECT.json` lists module and configuration of every run. The longest takes
about two minutes on two cores; a module's proofs take up to some minutes.
