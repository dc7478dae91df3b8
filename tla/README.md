# A verification development for VICE

VICE emulates the Commodore 8-bit computers. This directory holds TLA+ models
of the parts of VICE whose correctness depends on order, timing or interaction,
the TLC configurations that model-check them on small instances, and proofs of
the results that hold for every instance. The source is `src/vice/src/` of the
repository; line numbers in `PROJECT.json` refer to it.

## 1. Inventory

### 1.1 The emulation kernel

| Component | State | Operations |
|---|---|---|
| Alarms (`alarm.c`, `alarm.h`) | per context a dense table of pending alarms, the earliest due time and its slot; per alarm a back index | new, destroy, set, unset, dispatch, time warp |
| Interrupt lines (`interrupt.c`, `interrupt.h`) | per source the lines it pulls, counts of sources on IRQ and NMI, a flag word the CPU polls, times of the last change | set/clear IRQ and NMI, acknowledge, reset, DMA, snapshot |
| Traps (`interrupt.c`) | a table of (function, argument), its count and the next index | trigger, run a batch |
| CPU loop (`maincpu.c`, `6510core.c`, `6510dtvcore.c`) | registers, clock, last opcode info | one instruction, alarm and interrupt polling |
| Vsync (`vsync.c`) | frame timing, two callback queues | end of line, vsync, deferred callbacks |
| Sound flush (`sound.c`) | sample buffers | flush once per frame |

What makes them correct: an alarm that is set is dispatched once it is due, in
order of time and never twice; the CPU sees an interrupt exactly while a source
pulls the line; a trap that is triggered is run once, in order.

### 1.2 Threads

| Component | State | Operations |
|---|---|---|
| Main lock (`mainlock.c`) | `main_lock`, nesting depth, two flags, two condition variables | obtain, release, yield, shutdown |
| Program exit (`archdep_exit.c`, `gtk3main.c`, `main.c`) | who exits, the posted exit | exit on either thread, join |
| Render queue and thread (`render_queue.c`, `render_thread.c`, `opengl_renderer.c`) | pool of back buffers, ring of frames, two locks of the canvas, jobs of the render thread | get, queue, take, return; refresh, render, update the view; push, shut down and join |
| Pause and callbacks (`arch/gtk3/ui.c`, `vsync.c`, `monitor.c`) | whether paused, two queues of callbacks, waiting requests | pause, resume, step a frame, enter and leave the monitor, run callbacks |
| UI actions and dialogs (`arch/shared/uiactions.c`, `arch/gtk3`) | which actions are busy, whether a dialog is open | trigger, finish |

The vice thread runs the emulation and owns the core except in short windows.
The UI thread runs every event handler between `mainlock_obtain()` and
`mainlock_release()`. The render threads take finished frames from a queue.
What makes them correct: no two threads in the core, nobody sleeps with no one
left to wake him, a shutdown from either side ends; a paused emulation stands
still and a resumed one runs; a frame buffer has one owner at a time; an action
that has finished can be triggered again.

### 1.3 Input, recording and netplay

| Component | State | Operations |
|---|---|---|
| Keyboard buffer (`kbdbuf.c`) | ring of characters, delayed RETURN | feed, flush |
| Autostart (`autostart.c`) | mode, saved settings, callbacks in the serial traps | request, advance on screen contents, delays, reset, disable |
| Event log (`event.c`) | list of events and the position in it, alarm of the next one, two snapshot files | record, play back, milestones, return to one, stop |
| Netplay (`network.c`) | mode, frame counters, event list per frame | connect, suspend, send and receive a frame, disconnect |

What makes them correct: nothing fed is lost or doubled; the settings an
autostart has saved are the user's again when it ends, however it ends, while others
that it changes stay changed; a history
has all that happened to the machine, and its playback does the same to it; the
two peers play the same events in the same frame.

### 1.4 Peripherals and storage

Disk drive CPUs and rotation (`drive/`), IEC bus and serial devices
(`serial/`, `iecbus/`), virtual drive file system (`vdrive/`), tape
(`datasette/`, `tape/`, `tapeport/`), I/O chips (`core/ciacore.c`,
`core/viacore.c`, `core/flash040core.c`, `core/riotcore.c`), cartridges
(`c64/cart/`), snapshots (`snapshot.c`), joystick and keyboard matrix
(`joyport/`, `keyboard.c`), monitor (`monitor/`), resources (`resources.c`).

What would make them correct: an erase of a flash chip ends and erases what was
selected; the lazily computed CIA timers agree with ones that count; a block is
allocated to one file; a snapshot that is written is read back, and one that
cannot be read leaves the machine usable.

### 1.5 How the parts interact

The CPU loop runs an opcode and, before the next one, dispatches the alarms that
are due, serves interrupts, and runs traps or a reset. Chips set alarms and pull
lines from both: the raster alarm of the video chip ends lines and frames. At
some ends of lines `vsync_do_end_of_line()` gives the UI thread a window in which
its handlers run on the core; what they want done between two opcodes they
trigger as a trap. At the end of a frame vsync exchanges events with the other
player, feeds the keyboard buffer and runs callbacks, in which a pause sleeps.
The monitor runs in a trap or at a breakpoint, and gives windows as well. A
snapshot, loaded in a trap, replaces the state of all of them but the traps, the
alarms' owners and the pause.

### 1.6 What is hard

Concurrency: the hand-over of the main lock, UI handlers in the middle of an
alarm, a trap or a callback, exits from both threads. Order: traps that trigger
traps, interrupts in the middle of an interrupt sequence, events of two players.
Failure: snapshots that load half way, connections that break or end. Caches:
the earliest alarm, the counts of pulling chips, flags that outlive what set
them. `hazards` in `PROJECT.json` lists them by line, with the properties that
watch them.

## 2. Modules

| Module | Models | Correspondence |
|---|---|---|
| `CoreAccess` | what the main lock promises | the owner of the core, and whether the UI was promised to be next |
| `Mainlock` | `mainlock.c`, `archdep_exit.c`, `main.c`, `gtk3main.c` | one action per section under `internal_lock` and per wait; `vpc` and `upc` are the places of the two threads |
| `AlarmQueue` | what an alarm context promises | due times, the earliest due first |
| `Alarm` | `alarm.c`, `alarm.h`, `PROCESS_ALARMS` | the table with its stale slots; one action per function, callbacks between `Dispatch` and `Return` |
| `TrapFifo` | what traps are promised | a queue |
| `TrapQueue` | `interrupt.c` (traps), `DO_INTERRUPT` | the array by slots, batches, resets, snapshots |
| `Interrupt`, `MCInterrupt` | `interrupt.h`, `interrupt.c`, the CPU loop | one action per step between two opcodes; chips pull and release within them |
| `Lockstep` | what netplay promises | the frames one player is ahead |
| `Network` | `network.c` | both emulators, each with slots of events, a socket and a place; one action per handler up to where it waits |
| `Pause` | `ui.c`, `vsync.c`, `vsyncarch.c`, `monitor.c` | the vice thread by its place, UI handlers in the windows it gives |
| `Backbuffers` | what the renderer promises | who owns each back buffer, and the finished frames in order |
| `RenderQueue` | `render_queue.c`, `render_thread.c`, `opengl_renderer.c`, `opengl_renderer_macos.m`, `gtk3main.c` | three threads by their places, the ring as an array; one action per section under a lock or between two |
| `Autostart` | `autostart.c`, `autostart-prg.c` | `mode` is `autostartmode`; one operator per step of the watcher and per way a request comes in. The machine is the message at its cursor and the keys it has not read |
| `EventLog` | `event.c`, parts of `machine.c` and `keyboard.c` | `list`, `current` and `alarm` are those of the code; one action per handler and per trap, traps run in batches. `game` is the machine: what it started from and what has happened to it |
| `*Proofs` | | theorems about the module of that name; `TrapProofs` about `TrapQueue` and about `Pause`, which begins and ends in a trap |

`Alarm`, `TrapQueue`, `Mainlock`, `Network` and `RenderQueue` implement their
abstract specifications by `INSTANCE ... WITH`. The others have none: what
`Interrupt` and `Pause` promise is a relation between a request and the CPU, what
`Autostart` promises is one between settings before and after, and for `EventLog`
the abstract machine is the variable `game`, which its properties compare with
the list. `Pause` takes traps as `TrapFifo` has them; `Interrupt`
takes a batch of traps as one step; `TrapQueue` leaves out interrupts.

Names follow the source. Those of `Pause` differ from those of `TrapQueue`
(`PauseInit`, `place`), so that `TrapProofs` extends both. Definitions whose
comment begins with "Mutation:" are no part of a specification: each is a wrong
form of the definition below it, named in `PROJECT.json`, that makes one property
fail.

## 3. Runs

### Main lock

`mainlock` checks mutual exclusion (`SectionsLocked`), `NoLostWakeup` and
`JoinFreesLock` whether or not condition waits return without a signal: neither
wait in `mainlock.c` has a predicate loop, so whether the host does that is a
choice made once (`spurious`). Where it does not, a vice thread that stepped aside
does not run again before the UI had the lock (`ImplementsCoreAccess`). The UI is
served, the vice thread resumes, and shutdowns from both sides end. The state
space is finite without bounds; there are two threads in the code.

`mainlock_nested` finds the violation that is behind `MaxDepth = 1` in the other
run: `mainlock_release()` unlocks at every depth. At any depth and with spurious
wake-ups, `TypeOK` and `NoLostWakeup` are proved.

The place "abort" of the vice thread is reachable: when the UI has begun the
shutdown first, `archdep_vice_exit()` on the vice thread returns from
`mainlock_initiate_shutdown()` into its `assert(false)`, although the comment
above says it does not return. The liveness properties except it.

Fairness: the vice thread yields every 2 ms of host time, in the pause loop and
in waits for dialogs (weak fairness of its steps); handlers end. `ObtainLock` is
strongly fair: a UI thread that asks before the vice thread has announced itself
is not handed the lock and competes for it, and each yield that sleeps leaves it
open for long. Nothing is assumed of what the user does.

### Alarms

`alarm_queue` has three alarms and two slots, so that the table is full in reach
and a hole is filled by another alarm; `CLOCK_MAX = 3` gives due times before, at
and after the clock, and the special value of an empty context. The index that
`alarm_context_init()` leaves unset starts anywhere. A callback may set any alarm,
its own as well, to any time, also to one that has passed: the alarm of the event
log is set again to the clock it was due at when two events share that clock
(`event.c:393`). Fairness: the CPU executes; a callback that is called again and
again takes its alarm back or puts it off in the end (strong); and callbacks that
set an alarm to a time not beyond the one that is polled, as for the events of one
clock, come to an end within the poll (`RepeatsEnd`), since these events are
finitely many. Without the last one the poll loop would never return to the CPU.

### Traps

`trap_fifo`: three traps and four slots. Traps trigger traps, but only the first
of a batch does (`LateTriggers = FALSE`): a trap triggered by the second one of a
batch is stored one slot too far, so that with `LateTriggers = TRUE`
`ImplementsTrapFifo` fails. Any snapshot may be loaded, from a trap or from the
monitor, and the load may fail before, within or after the module of the CPU.
`HiddenOnlyByLoads` says that the traps that wait stay announced through all of
this, with one exception, which the run contains: the flags of a snapshot that the
monitor saved between two opcodes replace the flag of a trap that waits, and the
trap is hidden until the next one is triggered. `TrapsAreServed` is about traps
that are announced. Three
traps are the fewest with a batch of two and one more; `MaxSlots` keeps traps from
being triggered when it is used up, and every smaller layout is reached. Fairness:
the CPU executes, and the traps of a batch return.

### Interrupts

`interrupt_lines`: two chips, alike and thus symmetric, on both lines, which is
what sharing needs; ages saturate at three cycles because no comparison in the
code reaches further. Programs are any sequence of the four kinds of opcode that
differ for interrupts, of BRK and JAM. `interrupt_serve` checks, with one chip,
that NMIs and IRQs are served whatever the program does, if it is not moved off a
JAM. With `JamMoves = TRUE`, as in `interrupt_lines`, the monitor or a snapshot may do
that; the CPU then runs with `cpu_is_jammed` still set and its interrupts taken
away, so that they are not served. Fairness: the CPU loop goes on and traps
return.

### Netplay

`network_lockstep`: two peers, `FrameDelta = 2` (two slots; the code has at least
five; the proofs in `NetworkProofs` are for every number), a
player at the client, dialogs at the server, so that the two directions differ;
one key per frame. Frames are numbered modulo `FrameModulus = 2 * FrameDelta`: the
peers are never further apart. Emulations may come to differ at any frame; the
connection may break, or be closed by either side, at any time, and any number of
sessions follow each other. `Lockstep` is implemented through all of this, a peer
says "out of sync" only when the emulations differ, and while both stay connected
frames go on. `network_gone` finds that a peer whose other end closed the
connection in order waits for ever. Fairness: opcodes are executed, vsync comes,
TCP delivers or fails.

### Pause

`pause` lets the user pause, resume, step, reset, enter the monitor and ask for
other callbacks, wherever the vice thread sleeps. `MaxCallbacks = 4` callbacks
(three pause loops with a job) and `MaxTraps = 2` monitor traps bound what he does,
not the code: each operation adds at most one. `JobsServed` excepts the loop in
which the monitor pauses, as it runs no callbacks. Fairness: frames end however
often breakpoints and windows come (strong, as either interrupts the frame), sleeps
end, the monitor is left in the end. `Resumes` and `JobsServed` ask nothing else of
the user.

### Render queue

`render_queue`: one window; the vice thread draws, or skips a frame when no buffer
is left; the render thread renders under `canvas_lock` and `render_lock`; the UI
thread realises the widget, updates the view, and quits at any moment.
`MAX_BACKBUFFERS = 2` is the code's own number: one frame waits behind the one that
is uploaded, and the ring wraps; `MaxJobs = 3` lets the frame clock
push one job more than there are buffers. `FrameHasJob` says that no finished frame
is left in the ring without a job that will look for it, `NoJobAfterJoin` that
nothing touches the renderer after the join, `FrameLeaves` that each frame is shown
or skipped, `ExitCompletes` that a quit ends. Fairness: the three threads are
scheduled, and a thread that waits for one of the mutexes gets it in the end
(strong where another may take it first). No frame need come, nor a quit.

### Autostart

`autostart`: `MaxRequests = 3` requests (autostarts of a disk, a tape, a program or
a snapshot, resets, loads typed by hand), enough for an autostart that is reset,
or replaced by a second one, and then followed by another. The user's settings are
one of three sets that take the branches of `setup_for_disk()` and
`setup_for_disk_ready()`: with true drive emulation, with traps, and with traps, IEC
device and warp mode; whether an autostart handles true drive emulation and uses warp
mode is open. Among the three each setting that is never saved is once the value the
autostart would choose and once another one. The KERNAL
may show any message next that a load can end in. `RestoredUnlessOverwritten` speaks
of the settings that `init_drive_emulation_state()` and `reboot_for_autostart()`
save (`Saveable`), and says that every exit gives them back but for those whose saved
value the code itself replaced: a disk autostart that is refused saves again what it
has changed (`autostart.c:1150`), and so does a request while another one has warp
mode on (`autostart.c:628`). Four more settings (`Unsaved`) are changed and never
saved, so no exit gives them back: the device traps of the tape unit
(`autostart.c:1520`), the drive type (`autostart.c:1712`), the tape port device
(`autostart.c:1989`, given back only when tape and tapecart are both refused) and the
directory of the file system device (`autostart-prg.c:175`). The model makes these
changes and promises nothing of them. `NoRunAfterReset` is about the callbacks that stay set in the
serial traps. Fairness: the CPU executes, the machine prints and reads the keys
typed into it, the serial traps of a load come, delays end. The run does not check
for deadlock: with no request left and the mode at rest nothing has to happen.

### Event log

`event_log`: `MaxRequests = 5` requests for recordings in the four modes, playback,
milestones, returns, stops and resets, which is a recording, its stop, a
continuation or playback, and its stop, with one in between; `MaxEvents = 3` events
of a history and a clock up to `MaxClk = 2`, so that two events may share a clock.
`Second = 1` puts a time stamp at each clock: reading a list puts them between the
events, and playing them back is what keeps a reset at the start of a history apart
from the reset that begins its playback. Files may fail to be written or read, whole
or after the list was read. `HistoryIsComplete` compares the list with what happened
to the machine while recording; `PlaybackReproduces` compares the machine during
a playback with the machine that was recorded, where a file of no known game is
played back in none; `PlaybackEnds` is its liveness.
Fairness: clocks pass, due alarms are dispatched, triggered resets and traps run. The run does not check
for deadlock, as the clock stops at its bound.

A bound is a case of which nothing is claimed. In particular the code can come to
record and play back at once, when two starts are asked for before either trap
runs (`event.c:758` and `event.c:921`); the first bound below leaves that out.

Further bounds, each a place where the promise would not hold or where the user
has to do something odd: a start is asked for only when no other start waits and
when no alarm of an earlier recording is set (a return to a milestone that fails
leaves it set); a recording asked for during a playback is one of the mode that overwrites
it; a reset and
a trap do not wait together; nothing comes between a reset that is triggered and
the reset; a key that was pressed before a playback began and comes in the middle
of it takes the machine out of the game, as does playback from the start snapshot of
another recording.

### Findings

Two violation runs show disagreements between code and its own comments: nested
release of the main lock (`mainlock_nested`) and a netplay peer that leaves in
order (`network_gone`); `PROJECT.json` has the lines and quotations. Further
weaknesses that the models show are named above, where a bound or a constant keeps
them apart or a property excepts them: traps triggered late in a batch, traps hidden
by a snapshot, a CPU moved off a JAM, saved settings that a refused autostart
replaces, settings that no autostart gives back though `autostart.c:715` speaks of
all it changed, a latched key that disturbs a
playback.

## 4. Proofs

All theorems are checked by TLAPS with no step left out. Constants are any values
that satisfy the named assumptions of their module.

- `AlarmProofs`, a table of any size: `TypeOK`, `BackIndices` and `NextIsEarliest`
  are inductive only together, since `alarm_unset()` finds its slot by the back
  index and fills it from the last one. From them, `Alarm` implements `AlarmQueue`
  by a lemma per table operation.
- `MainlockProofs`, any depth where the code allows it: the invariant adds to the
  five properties who owns `main_lock` at each place of the two threads, and what
  `ui_is_waiting` says at each. Mutual exclusion and the refinement need
  `MaxDepth = 1`, the refinement also that waits end by signals only.
- `TrapProofs`, traps, any number of slots: the invariant relates index, count and
  batch at each place of the loop; with only first traps triggering others,
  `TrapQueue` implements `TrapFifo`; whatever traps trigger, nothing but the load of
  a snapshot saved outside of a trap hides a trap that waits (`NoTrapIsHidden`).
- `TrapProofs`, the pause, any number of callbacks and traps: `Held` names, for each
  place of the vice thread, what keeps a paused emulation from going on: a queued or
  running pause loop, or a trap.
- `InterruptProofs`, any finite set of chips: the counts are cardinalities of the
  pulling chips together with those a snapshot has still to restore. Step by step, an NMI
  that is latched is lost only when it is served, in a jam, or to a reset or a
  snapshot that replaces all lines (`NmiIsLatched`).
- `RenderQueueProofs`, any number of buffers and jobs: `Conserved` says that stack,
  ring, drawing and uploading thread share the buffers out without overlap, `Places`
  what each thread holds where it is. The two assertions of `render_queue.c` follow
  by counting, and with a lemma per operation of stack and ring `RenderQueue`
  implements `Backbuffers`. `JobsInv` counts the jobs that draw, waiting or running,
  along with the frames of the queue, and says who may still add a job at each place
  of an unrealize: no frame waits without a job, and an executor that is freed is empty.
- `AutostartProofs`, any number of requests and any users: `Remembered` says that a
  saved value is the user's (of the settings never saved only their range is
  known), `AllSaved` that a load from disk is prepared with every
  setting saved, `NothingSaved` that at rest nothing is; together they are
  inductive and give `RestoredUnlessOverwritten`. `EndedInv` says which callbacks a
  reset leaves and in which mode, from which no RUN is typed (`NoRunAfterReset`).
- `NetworkProofs`, any `FrameDelta` and any players: a frame that is not
  played is known by its offset from the oldest one, a frame under way by its rank
  among the frames of its inbox. `Side` says what one peer holds that may still play,
  `Even` that two such peers count the frames alike and that what waits at one is
  what the other has sent and not played. Both are needed: after the connection fails
  one peer may still play what it had got, and then only `Side` is left. From them
  follow `TypeOK`, that "out of sync" is said only of emulations that differ, and,
  step by step, that `Network` implements `Lockstep`.
- `EventLogProofs`, any bounds, and lists of any length: that a history is complete
  and that a playback reproduces it.
  Two things have to be shown. First, what a list becomes by way of a file
  (`ReadList`): it plays the events that were written, each with timestamps of earlier
  clocks before it, and a list that begins with a reset of its own has a timestamp in
  front. `Selected` and `ReadEvents` are recursive functions for that; the lemmas
  about them go by induction over the numbers, stated of a set that holds 0 and all
  successors (`NatInduct`, from `WFMin`), as no prover here takes the induction
  theorems themselves. Second, the invariant `ModesInv /\ HistoryInv`:
  - `ModesInv` relates the two modes to the traps that wait: a start waits alone
    while neither mode is on; what follows in a batch belongs to a recording.
  - `FileInv` says that the file has the whole game it was saved in, in the order of
    the clocks; without it nothing is known of what a later playback reads.
  - `RecordInv` says the same of the list while a recording is on or one of its
    traps waits: a milestone is written by the trap, when the recording may be over.
  - `PlayInv` says that a playback has passed a part of the list that holds what
    happened to the machine so far, that it is not late for the next event, and that
    the alarm, or a reset that is due, goes on with it. `WaitInv` keeps resets that
    are due apart from traps that wait.
  An event is played at the clock that it had when it was recorded only because the
  clock is not beyond it and its alarm is due: the order of the clocks in a game
  (`InOrder`) is part of each of these.

`TypeOK` of these modules, `BackIndices` and `CallsAreReal` (`TrapQueue`) are proved,
and no run repeats them but the `TypeOK` of `Network`.

Every safety property of the passing runs is proved. Only model-checked: everything
about liveness, which needs fairness and `ENABLED`.

## 5. Not modelled

`components` in `PROJECT.json` says for each part why. In the modelled parts:
builds in which asserts are compiled in (`Network`), a
second window, a widget that is realised again and the DirectX renderer
(`RenderQueue`), drives other than unit 8, the datasette and the monitor after an
autostart (`Autostart`), attached images, versions and the time shown (`EventLog`), the interrupt delays of the
cycle-exact x64sc CPU, event playback while a snapshot is loaded, listening and
accepting of netplay, breaks at start-up and pausing dialogs (`Pause`), functions
without callers (`alarm_context_time_warp()`, `interrupt_cpu_status_time_warp()`).

## 6. Plan

In order of importance; a run that shows a finding gives way to one of a new
component when there are more than a reader can follow.

1. Done: `Mainlock`, `Alarm`, `TrapQueue`, `Interrupt`, `Network`, `Pause`,
   `RenderQueue`, `Autostart`, `EventLog`, with the proofs above.
2. `UiActions`: triggers from both threads, one dialog, busy actions; beside
   `Mainlock`.
3. `Flash040` (command sequences, erase, suspend and snapshot; composes with `Alarm`
   through `AlarmQueue`), with an abstract flash that erases what was selected.
4. `Kbdbuf` (ring, delayed RETURN), composed with `Autostart`.
5. `NetworkSession`: listening, accepting, settings and snapshot of a session;
   `Network` composed with it.
6. `CiaTimer`: the lazy timers against a reference that counts, over bounded inputs;
   `Bam`: allocation of blocks; `SnapshotFile`: modules written and found again.
7. Proofs: the safety properties of the modules above, as they come.
