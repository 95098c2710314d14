# Verification of the asynchronous PHP and JavaScript examples

The repository collects asynchronous servers and libraries for a talk: the
`mkjpryor/async` task library (kept in the tree under `vendor_static`, with its
own tests), `react-eep` (windowed event processing), servers built on React and Ratchet,
and what their clients run in the browser: the presentation engine `reveal.js` with its
plugins, and a canvas game. This directory holds TLA+ models of that code, the TLC runs
that check them on small instances, and TLAPS proofs for instances of any size.

Paths below are relative to `src/htdocs/`; `async/` stands for
`reactphp/vendor_static/mkjpryor/async/src/Async/` and `reveal.js/` for
`reactphp/ratchet-examples/reveal.js/`. Line numbers of `reveal.js` without a directory are
those of `reveal.js/js/reveal.js`.

## Inventory

| Component | State | Operations | Talks to |
|---|---|---|---|
| Async tasks, `async/Task/*` | `$successful`, `$exception`, `$cancelled`, `$ticks`, the generator, `$waiting`, `$results`, `$exceptions`, `$scheduled` | `tick`, `cancel`, status queries, the callbacks of a promise | the scheduler they are ticked by (`schedule`), the tasks they wait for (queries, `cancel`) |
| `BasicScheduler` | `$running`, `$next`, the round on `tick()`'s stack | `schedule`, `run`, `tick`, `stop` | calls `tick()` of tasks, which call back |
| `ReactEventLoopScheduler` | one-shot timers on the loop | `schedule`, `run`, `stop` | the React loop, tasks |
| `async/Util.php` | none | constructors | tasks |
| EEP windows, `react-eep/src/React/EEP/Window/*` | ring buffer and index, counter, instant of the open window | `enqueue`, `tick` | aggregates, clocks, `emit` handlers |
| EEP clocks, `.../Clock/*` | `at`, `mark` | `init`, `inc`, `tick`, `tock` | windows |
| EEP aggregates, `.../Stats/*`, `Composite`, `Util/*` | sums, means, extremes | `init`, `accumulate`, `compensate`, `emit` | windows |
| EEP examples | tick detector, semijoin, leader finder | as aggregates or windows | windows |
| Slide builder, `reactphp/src/SlideBuilder/*` | cache of the built slides, connections | `build`, `notify` | files, clients |
| Static files and HTTP, `reactphp/src/ExHttp/*`, `ExFile` | buffers by path, routes | request handlers | the file stream, the response |
| Chat, `reactphp/src/ExChat/Server.php` | clients | open, message, close | clients |
| Presentation engine, `reveal.js/js/reveal.js` | closure (`indexh`, `indexv`, slides, timers, player), and the classes, attributes and styles of the DOM it reads back | `slide`, `navigate*`, fragments, overview, pause, `cueAutoSlide`, `configure`, key, wheel, touch, click and `hashchange` handlers, timers | the address bar, the plugins through events and its API |
| Followed presentations, `reveal.js/plugin/multiplex/*`, `plugin/notes-server/*`, `plugin/notes/*` | none but the decks and what is on the sockets | `notify`, relay, go where told | decks, sockets, `postMessage` |
| Remote controls, `reveal.js/plugin/remotes/*`, `postmessage`, `leap` | gesture | calls of the API | the deck |
| Search box, `reveal.js/plugin/search/search.js` | `matchedSlides`, `currentMatchedIndex`, `searchboxDirty` | `doSearch`, its two listeners | the deck |
| Slide contents, `reveal.js/plugin/{markdown,math,highlight,zoom-js,print-pdf}` | none that a deck reads | convert or draw | the DOM |
| Canvas game, `reactphp/src/ExGame/Server.php`, `reactphp/ratchet-examples/wamp/simple_canvas_game/js/game.js` | `$playerData` and topics by session; each page's `myHero` and `heros` | `onCall`, `onPublish`, `onClose`; `update`, `sendMessage`, `beforeunload`, event handlers | each other, through WAMP |
| Socket chat, `socket/async_server.php` | sockets, deferred callbacks | its own select loop | clients |
| SSE server, React examples, scrapers | little or none | linear scripts | network |

Vendored code that nothing here builds on (`nodejs/node_modules`, `autobahn.js`,
`coolclock.js`, minified and third-party libraries of the plugins), benchmark notes and the
provisioning of the virtual machine are not this project's logic and are left out.

### What is hard in it, and what makes it correct

*Tasks and schedulers.* PHP runs one callback at a time, so a single `tick()` is
atomic; everything between two ticks is not. A tick may schedule, cancel or settle
any other task, and so may the script or another callback of the loop; a task may be
queued twice, cancelled while queued, or waited for by several others; promises settle
at any time, even after a cancellation; a `SomeTask` finds any number of its children
complete when its turn comes; an exception leaves `tick()` when a generator throws
before its first yield. Correct means: a task is ticked until it is complete, its
outcome is final, `SomeTask` books the truth about its children and one verdict, a
generator goes on only when the awaited task is complete and then does go on, and
`run()` ends when the work does or when it is stopped.

*Windows and clocks.* `emit` handlers may re-enter the window; wall time may go
backward; `compensate` must undo `accumulate`. Correct means: a sliding window's
value is the aggregate of the last `$size` events, a tumbling window's of its own
events, an emission of a time window covers at least one interval.

*Decks.* `reveal.js` keeps its state twice, in its closure and in classes and attributes of
the DOM, and reads either; a dozen handlers cancel, stop or cue the auto-slide timeout;
the overview announces itself from a timer that may fire after it was left; every navigation
writes an address that comes back later as a `hashchange` event, when the deck has moved on.
Correct means: the classes, the progress bar, the fragments and the address agree with
the indices; the timeout is pending exactly when it should be; "previous" undoes "next";
an arrow that is offered does something; a deck left alone goes on by itself.

*Followers.* A page that is told where to be fires the same events as one whose user
moved. Messages of two masters mix; the notes follow by single steps; a page may be
reloaded. Correct means: a follower shows what its master shows, and what was told is
not told again.

*The game.* The server hands out its list of players while players move, rename
and leave; a page subscribes to five topics one after the other and asks for the list;
a socket may close with a farewell before it, or without. Correct means: pages agree with
the server when nothing is under way, and nobody who has left stays.

*Servers.* Requests, builds and connections overlap; a callback uses state read before
an earlier one ran. Correct means: every request gets one whole answer, the cache holds
the newest build, what the clients show agrees with the server.

`PROJECT.json` lists the hazards line by line with the properties aimed at them.

## Modules

| Module | Models |
|---|---|
| `AsyncTask` | the state of every task, its status queries and one call of `tick()` per class; code a task runs performs a *deed* from `Deeds` |
| `BasicScheduler` | extends `AsyncTask` with the queue, the round, `run()` and `stop()` |
| `ReactEventLoopScheduler` | extends `AsyncTask` with the armed timers, counted by task |
| `SchedulerContract` | what the interface `Scheduler` promises: a pending task is let go of only when complete or when its tick throws, `run()` returns out of work or stopped |
| `MCPrograms`, `MCBasicScheduler`, `MCReactScheduler` | programs for TLC and their combination with the two schedulers |
| `Sliding` | the sliding window: ring, index, and the aggregate as the events it covers |
| `Tumbling` | the tumbling window |
| `Monotonic` | the time window (and `Periodic`), with `Util\Temporal` and both clocks; several windows may share a clock |
| `MCCountWindows`, `MCTimeWindows` | windows put together for TLC: a sliding and a tumbling one; one on a wall clock and two on one counting clock |
| `Slides` | the algorithms of `reveal.js` as operators on two records: `c`, the presentation, and `d`, the deck; `slide()`, `updateSlides`, `updateControls`, `updateProgress`, fragments and their numbering, indices, `readURL`, the navigate functions |
| `Reveal` | extends `Slides` with one page: every handler and every timer |
| `Multiplex` | extends `Slides` with several pages, the servers between them and the messages on the way |
| `MCReveal`, `MCMultiplex` | presentations and setups for TLC |
| `Game`, `MCGame` | the game's server, its pages and the sockets between them |
| `SearchBox`, `MCSearchBox` | the search box |
| `AsyncTaskProofs` | what one step of a task preserves, for both schedulers |
| `SlidesProofs` | what the algorithms of `Slides` make of a deck, for `RevealProofs` and `MultiplexProofs` |
| `BasicSchedulerProofs`, `ReactSchedulerProofs`, `WindowsProofs`, `RevealProofs`, `MultiplexProofs`, `GameProofs` | theorems |

### How the model corresponds to the code

A program is given by constants: the tasks, their classes, the children of each
`SomeTask` and its `$howMany` (`AllTask` passes the number of children, `AnyTask` 1),
the tasks each generator yields in order, what the wrappers wrap, and what each
callable or body may do. A variable is an object field for all tasks at once:
`successful` is the set of tasks whose `$successful` is set, `results[t]` the set of keys
of `$results`. `gen[t]` is the yield the generator is suspended at; `doomed` holds the
generators that will throw when `valid()` starts them.

Statuses are operators, as they are methods (`IsSuccessful`, `IsFaulted`, `IsCancelled`,
`IsComplete`), and delegate through `Core` as the wrappers do. One action per class is
one call of `tick()`, with everything it does: `TickSome` runs the whole loop of
`SomeTask::doTick`, with the early return when the verdict falls (`Decided`), the
exception out of a child's `isComplete()` (`LoopThrows`), and the scheduling of the
children after a loop that ran to its end (`SomeCalls`). `Resume` is `send()` or `throw()` followed by the
body's run to its next yield, its return, or an exception, and, after a yield, by the
`schedule()` of the new task in the same tick.

The schedulers add what comes after the tick. `BasicScheduler!AfterTick` attaches what
the tick scheduled to `$next`, in call order and without duplicates, then the task itself
if it is incomplete; `Escape` is the exception out of `tick()`, which drops the rest of
the round and returns from `run()`. `ReactEventLoopScheduler!AfterTick` spends the timer
that fired and arms new ones; a task scheduled twice has two chains, as in the code.
`Client` is the script outside `run()`; on the event loop it is also any other callback.

Abstracted: values of results and exceptions; the time of timers (an armed timer may
fire at any moment, which includes every order real delays and intervals produce); that
PHP keeps an object alive. A body that cancels its own `GeneratorTask` is excluded by
`ProgramAssumption`: it would ask a running generator whether it is valid, which PHP
refuses. A deed is one call; longer sequences arise over several ticks and tasks.

The windows name an event by its number of arrival and keep, in place of the aggregate,
the set `held` of events accumulated and not compensated: every aggregate whose
`compensate` is exact is a function of it. What is compensated without being held goes to
`excess`, so that an error there cannot hide. `emit()` calls handlers in the middle of
`enqueue()` and `tick()`; each is therefore two actions (`Emit` and `Resume`, `Emit` and
`Close`, `TickEmit` and `Close`), with a stack of the calls in between. In the count windows `MaxDepth` (`CountDepth`
in `MCCountWindows`) bounds how deep handlers call the window again: 1 means that they leave it alone. In `Monotonic`
the handlers of a window may do anything to every window that is not itself in its `emit()` (`Free`). There
the clock's fields `at` and `mark` belong to the one clock of all windows, and
`opened[w]` is what the aggregator of `w` answers to `at()`; `now` is the time of day, which
`Time` sets to anything, earlier values included. A `tick()` that returns early changes nothing
and is not an action.

`Slides` has a deck in one record: `h`, `v` (`indexh`, `indexv`), `cur`, `prev` (`currentSlide`,
`previousSlide`), `cls` (the class of each section: past, present or future), `shown`
(`style.display`), `vis` and `mark` (fragments with the classes `visible` and
`current-fragment`), `attr` (`data-fragment-index`), `overview`, and `events`, what the
last call dispatched. A section is a pair of its horizontal and its vertical index. Functions
that call each other in the code do so here (`Slide` calls `UpdateSlides`, which calls
`SortFragments`), so a handler of `Reveal` is the whole handler. Loops over the sections are
functions over the set of sections; the progress bar counts classes, as
`updateProgress()` does, and not indices.

In `Reveal`, `Moves` and `Settle` are what all handlers have in common: a deck that results, the
address if `slide()` ran, the player stopped first if `onUserInput()` was called, and the
timeout cued again if the handler does so. A timer is a variable that says
whether it is pending and an action that may fire at any moment; delays are left out, so
timers fire in every order. `hashEvents` counts the `hashchange` events still to be handled;
each reads the address of its own moment of handling, as the browser's `location` does.
`ovTimer` remembers what the closure of the pending overview timer captured. A page is opened at
any address (`start`), which `readURL()` takes apart: `ids` are the ids of its sections and `number` what `parseInt`
makes of a name. `IsPage` says what every presentation is, and is assumed; `NamesAreNames` says that no id
begins with digits, which authors are free to break, and is therefore a hypothesis where it is needed.

In `Multiplex` a page is a deck of `Slides`; `up[p]` and `down[p]` are the messages from and to
it, in order, since a socket keeps the order and says nothing of other sockets. The `secret` is
a set of trusted pages. `Reload` is a page opened anew at the same place in the
traffic; it is `strayed` until it is told where to be. In `Game`, `Receive`, `OnMessage` and
`OnClose` are the server reading a message, a page reading one, and the server noticing
the end of a socket; a page's session, its hero's id and its `sessionId` are one name.
A position is the number of moves, since pages only copy it. `told`, `late` and `odd` are history:
they say which hero was announced as gone to whom, who published after taking
leave, and whose type the others were never told.

## Runs

The runs on tasks use two programs from `MCPrograms`. *Mix* has a generator that yields a
`SomeTask` over a promise, a recurring task and a callable, and then that callable, which may be complete by then;
callables and bodies settle, cancel and schedule other tasks and themselves, and so does the client. In
*Rough* a recurring task that never ends may stop the scheduler, a generator throws before
its first yield and is a child of a `SomeTask` and wrapped in a `ThrottledTask`, a
`DelayedTask` wraps the generator that waits for the others and asks for a delay that `BasicScheduler` refuses, and a
promise may stay unsettled. On `BasicScheduler` the client may schedule the `SomeTask` again, which an
exception has dropped there.

| Run | Instance | Shows |
|---|---|---|
| `mix_basic` | Mix on `BasicScheduler` | types; a `SomeTask`'s books are true, its verdict is one, its results no more than asked for; an awaited task is queued while its waiter is; no task twice in a round; completion is final; a suspended body stands at the yield its task waits for, and what it has gone past is complete; refinement of the contract |
| `rough_basic` | Rough on `BasicScheduler` | books stay true though a loop is left half-way; a `SomeTask` is decided once enough of its children are complete; `stop()` ends `run()`; a generator whose awaited task is complete moves on; `run()` returns unless work is left that never ends |
| `rough_react` | Rough on the event loop, where wrappers work | types with any order of timers; an exception costs no other task its timer (refinement of the contract); what is polled, through a wrapper or not, has a timer; generators move on |
| `count_windows` | a sliding and a tumbling window of 3, 20 events each | from the filling event on, every event emits exactly the last three; the tumbling emissions are the stream cut into threes, without overlap or gap |
| `time_windows` | a window on a wall clock (interval 2, time of day 0 to 4, three events) and two windows on one counting clock (three events), the handlers of each of which may call the other | types and the range of `mark`; an interval that has passed is never missed; on the shared clock a window is late only when the other has opened at the same count; no event is lost or emitted twice, though other windows act between an emission and its closing |
| `reveal` | one page with one of six presentations: a talk with addresses, one opened in the middle, a kiosk with a player and a changing config, one without a player, a tablet with overview and preview, one from right to left | types; the progress bar, the fragments and the address agree with the indices; the auto-slide timeout is exact; the overview leaves nothing behind; enabled arrows work; "previous" undoes "next"; a deck left alone goes on |
| `multiplex` | three pages in five setups: one master and two clients; a second master without the secret; two masters that are each other's clients; notes server; notes popup | types; followers show their master once all is read, reloads included; the traffic ends when the users let go |
| `game` | two pages that open, move, rename, chat, take leave and vanish | pages agree with the server, nobody who left stays, the server forgets |
| `throw_lost`, `silent_failure`, `group_followed`, `search_stuck` | Rough on either scheduler; a master with a group of two fragments; a box with one term on two slides | counterexamples, see below |

*Bounds.* Generators yield at most twice: once to enter the waiting state, once more to
re-enter it in the tick that leaves it. Children number three with `$howMany` 2, so that
both verdicts are possible, tie, and are overshot in one tick. The recurring task of Mix
runs twice, that of Rough for ever. `MaxChains` is 1: the client schedules a task only when
it has no chain; deeds of tasks are not bounded and make second chains. Nothing else is
bounded on tasks. The windows are bounded by `CountEvents`, `MaxEvents`, `PairEvents` and `MaxNow`: the ring turns six
times and the tumbling window as often, the wall clock misses intervals and goes back below
the opening of a window. `CountWindows` stops when its events are used up and does not check deadlock.

The presentations of `reveal` have two or three horizontal slides, a stack of two or three, and up to
three fragments with and without numbers of their own: the smallest with a stack
between two slides, a stack next to a stack, a group of fragments, a gap in the numbers, a
slide to loop back to. Each lets its user do what its features are about (`keys`, `links`,
`calls`, `options`), as often as he likes. `MaxPending` allows two `hashchange` events in the
queue, enough for one to be handled after the next was written; a third is not queued, which
loses nothing, since each event reads the address of its own moment. `MaxValue` stands for
`Number.MAX_VALUE`. `MaxMoves` allows four navigations in `multiplex` and `MaxActs` three acts of the two
players, beside messages and closings: enough for one to act while the other joins, and to act
again after it has been told. The two players of the game are symmetric. Users may stop
in both, so deadlock is not checked there.

*Fairness.* `BasicScheduler` runs in one loop that does not stop by itself: weak fairness
of "some step of the loop". The event loop fires every timer that came due, one after
the other: weak fairness for each task's timers. That the loop's own `run()` returns after its `stop()` is assumed of the
library (weak fairness of `Return`), and no property rests on that alone. No fairness is
assumed of promises, of the client, of `run()` being called, or of the outcome of a
callable: properties about progress hold whatever those do. `RunReturns` names the three
ways in which work may never end (`NeverEnds`): a task that recurs for ever, a promise
that is not settled, and a task that polls one which an exception dropped.

On a page of `reveal.js` the browser runs every timer that has expired and every event that is
queued: weak fairness of the timers and of `HashChange`, and none of any user. In
`Reveal` and `Multiplex` some of these conditions are spelled out with the guard of the action
(`[]<>(~armed) \/ []<><<AutoSlideTimer>>_vars`), which says the same as `WF_vars` and
spares TLC the evaluation of `ENABLED` on whole decks. `AutoRuns` is about a page whose user has
let go (`<>[][Timers]_vars`). In `Multiplex` a socket delivers and servers relay; `TrafficSettles` is about
users who have let go. `Game` states no liveness: nothing there is retried or waited for.

*The contract* (`SchedulerContract`) is a refinement target for both schedulers: a pending
task is let go of only by its own tick and only when complete, and `run()` returns
stopped or out of work. The interface says nothing of exceptions; `Throw` lets one end
`run()` at the cost of the task that threw, or with the end of the body that did. The event loop keeps this in Rough, where ticks
throw. `BasicScheduler` keeps it in Mix, where none does, and not in Rough: see `throw_lost`.

`WaitedForIsPending` is checked where ticks do not throw, and so without wrappers, which `BasicScheduler` refuses. On the event
loop a generator or `SomeTask` whose tick throws loses its own timer, and who awaits it polls it for
ever. `PolledHasTimer` says that this is the only exception (`PollsStillborn`), with wrappers between the one who
asks and the one who is ticked. On `BasicScheduler` any task of the round may be lost. `NeverEnds` and
`ResumedWhileRunning` say what is left: only such a wait may be endless.

*Disagreements between text and code*, each a run with a counterexample:

- `throw_lost`: an exception out of one task's tick drops all tasks of the round that
  were not yet ticked; "a scheduled task has it's tick method invoked repeatedly until it
  is complete" (`AbstractSchedulerTest`).
- `silent_failure`: a generator that throws before its first yield ends up successful,
  not faulted, against `Task::isFaulted`.
- `group_followed`: a master with two fragments in one group shows the group, and its followers
  the group and the next one. `master.js:14` sends `getIndices().f`, the number of visible
  fragments less one, which `slide()` takes for the index of a group; "As the master
  presentation navigates the slides, all client presentations will update" (`reveal.js/README.md:652`).
- `search_stuck`: the button of the search box leaves `searchboxDirty` set, so searching again
  with it goes to the first match for ever (`search.js:167`), where `search.js:141` says "navigate
  to the next slide that has the keyword".

*Also noticed*, visible in the models and without a run of their own:

- a generator body that throws later is both successful and faulted (`GeneratorTask.php:68`).
  So is a promise that settles after `cancel()` successful or faulted as well as cancelled
  (`PromiseTask.php:21`). The library survives both because its own readers ask `isFaulted()`
  first; `OneVerdict` fails if they do not, which is one of the mutants.
- `SomeTask::getResult` returns a partial array before completion, where `Task.php:35` says null.
- a sliding window of size 1 compensates `null` first, and its second emission covers two events
  (set `Size` to 1 in `CountWindows.cfg`).
- windows that share a clock move each other's mark, in construction and in `tock`, so that "emit if
  an interval worth of time has passed" holds for a window with a clock of its own only. One of two windows that is always
  ticked second, after the same events, is turned away for ever (`SharedLateBehindAnother` says that this is the only way),
  and a window constructed later sets a counting clock back below the openings of the others.
- a handler that enqueues into the window that calls it makes a sliding window emit one event
  too many and a tumbling window lose one (set `CountDepth` to 2 in `CountWindows.cfg`).
- `tock($x)` is false for the present moment, where `Clock.php:28` says "now or before";
  `TocksNowOrBefore` in `Monotonic` states the sentence.
- the deck: from right to left, "next" goes back or hides a fragment when the slide on the left is
  a stack's end (2615-2619); `isFirstSlide()` is false on the first slide after a stack was left below its
  top; auto-slide is not cued on the last slide although fragments may be hidden there;
  the wheel does not stop auto-slide, against `reveal.js/README.md:270`; End goes to the
  first slide of a loop of two or four; a link to a stack's id lands at the vertical index of the moment; with `loop` the
  arrow for "previous" is enabled on the first slide and dead; an id that begins with digits is
  read as a number; `configure()` called twice leaves an orphan player on the page; `overviewshown` is lost when
  `slide()` runs before the timer that announces it; the player keeps the sign for "playing"
  when the API pauses or opens the overview.
- with `fragments: false` the index of fragments that a master sends is not acted on (`navigateFragment`, 2358), so that a
  follower that came to a slide on another way may show other fragments than its master.
- two masters that follow each other echo each other's fragments for ever, since `fragmentshown` has no
  origin (the setup of that kind in `MCMultiplex` has none), and masters that move at the same time may
  end up each where the other was; `openNotes()` called twice doubles the listeners.
- `Reveal`'s `load()`: a synchronous and an asynchronous dependency with one file name share a label of `head.js`.
- `Hilitor.remove()` unwraps emphasis that was the author's.
- the game: `say()` never sets `_timer`; `update()` returns before it publishes a move already made; the
  message "amonster" changes the type of the own hero only; the server keeps a type no page has a sprite for; a
  page that stays after `beforeunload` is added again on the server only; `onClose` tells nobody.
- `Stats/All.php:58` sets the mean to `$dn` in place of subtracting it.

## Proofs

*Tasks.* TLAPS proves for every program that satisfies `ProgramAssumption` (any tasks, any
classes, any children, any deeds), on `BasicScheduler` and on the event loop:

- `TypeCorrect`: `TypeOK`, including that ticks, generator positions and array keys
  stay in range;
- `TrueBooks`: `BooksAreTrue`;
- `SingleVerdict`: `OneVerdict`;
- `ShortBooks`: `NoMoreThanHowMany`;
- `FinalCompletion`: `CompletionIsFinal`;
- `InStep`: `BodyInStep`;
- `ContractKept`: `KeepsContract`, the refinement of `SchedulerContract`;

on the event loop also `NoPollingInVain` (`PolledHasTimer`), and on `BasicScheduler` also `TickedOnce`
(`TickedOnceARound`) and `WaitedForStaysPending` (`WaitedForIsPending`). Two more say of its `run()` what the liveness
properties rest on, step by step: `FirstComeFirstServed`, that the round and the queue behind it are one line that
nothing overtakes, so that a task's turn comes after as many ticks as there are tasks before it; and
`StopShortensRun`, that after a `stop()` every step shortens the round and none begins another.

The argument is in `AsyncTaskProofs`, which knows nothing of schedulers: a scheduler step
changes tasks as one of the steps collected in `TaskStep`. The lemmas say which statuses
a task step may change: failures and cancellations are never taken back, and a
child booked as a success can neither fail nor be cancelled later, because whatever would do
that asks `isComplete()` or the promise first (`StatusStays`). A generator that is still
to throw (`doomed`) is at its first yield and waits for nothing (`DoomedIdle`), the
strengthening needed because its `isComplete()` has an effect. `BooksAreTrue` is then
inductive together with `TypeOK`; `OneVerdict` follows from it, since a key cannot be in
both arrays and so the two counts cannot both reach their marks; the bound on results
follows from the loop's check before every child. A generator that has started moves by its
own `Resume` alone (`MovedBySelf`) and waits by its own ticks alone (`WaitsBySelf`), so task and body keep in step
(`BodyStaysInStep`); that what lies behind the body stays complete is `CompletionStays`. `BasicSchedulerProofs` and
`ReactSchedulerProofs` show that every action of their scheduler is a `TaskStep` or leaves
tasks alone, keep the queue or the timers typed, and add the temporal steps.

The contract holds on the event loop for any program, exceptions included, as long as a
generator that throws at its start has a first yield to throw before (`HaveYields`): a tick that
throws costs its own timer and no other. On `BasicScheduler` it holds for programs whose ticks do
not throw (`Gentle`: no generator that throws at its start, no wrapper, which that scheduler
refuses). Without the condition it is false, as `throw_lost` shows. The invariant `GentleInv`
adds that the task a pending generator or `SomeTask` waits for is complete or pending itself, which is
`WaitedForIsPending`; the proof follows the calls of one tick into the queue (`TurnEnds`). `NoPollingInVain` needs no
such condition: a task is polled from the step on that schedules it (`NewlyPolled`, `CalledHasTimer`), and a timer is kept
until the task is complete unless its own tick throws (`TimerKept`), which only those that poll a throwing generator can
do, or a generator that throws itself, which is complete from then on.

*Windows.* `WindowsProofs` speaks of the programs the runs check, for any sizes, intervals and
numbers of events and windows. `SlidesOverLast` needs a size of two or more and handlers that leave
the window alone (`CountDepth` 1), and both conditions are needed: `EmitsLastSize` fails in a run with `Size` 1, and in one
with `CountDepth` 2. Its invariant `RingInv` says that every one of the last `$size`
events is in its slot, and the proof rests on two facts about remainders: events less than
`$size` apart have different slots (`SlotsDiffer`), and a slot is used again `$size` events
later (`SlotReturns`). `CutsForEver` is the tumbling window's: its invariant says that for some number n
of emissions exactly the first n pieces were emitted and the window holds what came since. `CountTypes` is the types of
both, under the same condition on handlers, without which a tumbling window counts past its size.

`OwnClockEmits` says that a window with a clock of its own never misses
an interval. What makes it true although the time of day may be set back is `MarkInv`: the
mark is at most the window's opening plus the interval, because both move together.
`EventsOnce` holds for any number of windows on one clock and any calls of handlers to other windows: `OnceInv` adds that no
event waits in two windows, that the events of the windows on the stack of calls count as emitted, and that no window is twice
on that stack (`Stack`, `StackPushed`, `StackPopped`), so that each closes what it emitted; `PairInv` says
the same of the second group of windows. `LateBehindOther` rests on the mark of a counting clock never being ahead, and on
a window having opened wherever the mark has caught up (`SharedInv`). `TimeTypes` bounds the clocks: `mark` moves only
when the clock has reached it and so is at most one interval past the latest
time of day, or the number of events.

*Decks.* All safety properties of `Reveal` are theorems for any presentation, any course of users and handlers
and any order of timers. `SlidesProofs` is about the algorithms: `Sound` says
what a deck is between two calls of `slide()`: the current slide is the one the indices name, the classes of the
horizontal sections say on which side of it they are, one slide alone is present, all fragments before it
are visible and none after it, those on it are a first part of their groups, and no previous slide
is the current one. `slide()` makes a sound deck of weaker ones (`Base`: the classes of the horizontal sections and the
fragments before and after the current slide may be anything, as on a fresh page), and the fragment functions keep one. The lemmas on
fragments work with ranks: `SortFragments` numbers the groups 0, 1, 2 without a gap whatever the markup says, and
`StepFragment` moves the number of visible groups by one.

`RevealProofs` has two invariants. `Inv` is enough for `AutoSlideIsExact` and `OverviewIsLeftClean`: the two
properties with the types that matter to them (`IsDeck`). Few handlers need an argument of their own: whatever the
navigation does to the deck, either `slide()` ran to its end and cued the timeout for the place it reached, or
the place is the one the timeout was cued for. `Page`, with the values of the flags (`Flags`), is what the others need:
the deck is sound for the present configuration, and once no `hashchange` is under way the address names the
current slide. From it follow `TypeCorrect`, `ProgressIsTrue`, `FragmentsFollow`, `ControlsDoSomething` and
`PreviousUndoesNext`; the last two need no step at all, since they hold of every sound deck. `AddressOpensHere`
has the hypothesis `NamesAreNames`: `writeURL()` prefers the id of a slide, and `readURL()` reads one like "2nd" as
the index 2 (2175).

*Followers.* For any number of pages, navigations and setups (`SetupsAssumption` says what a setup
is): `TypeCorrect` and `FollowersFollow`. `Queues` says that every page shows a sound deck, that only masters
talk and only clients are talked to, and that what is on the way is a step or a place of the deck. `Following` says of
the one trusted master m and of each follower r where the messages lead that are on their
way to r or still with the server: on the notes server, one after the other from what r shows to what m
shows (`Chain`), each from a deck that shows just that; in the other two ways the last one alone takes any sound deck to what m shows
(`Arrives`), since a place is absolute; with none left, both show the same or r has strayed (`Behind`). That two decks with one current
slide and the same fragments on it show the same everywhere is `Determined`, from `Sound`. The steps then only
lengthen the queue at its end, move its middle from the server to the socket, or take its head.
`Steady` is what `FollowersFollow` needs of a setup besides: where places are sent, fragments are enabled and no two
share an index, because the place is sent with the number of visible fragments less one and taken for the index of a
group: `group_followed` shows what happens otherwise, and a follower of a deck with `fragments: false` differs too (above); a popup has
one opener. The setups of the run `multiplex` are steady (`SteadyAssumption`). TLC confirms `Queues` on all its states as well; `Following`
quantifies over all decks and is beyond it. `TrafficRunsDown` is the argument behind `TrafficSettles` where one page has
the secret: nothing ever reaches that page (`Unheard`), so each step of the network takes from what it has still to
say, or from what is sent to the others, or from what the server will drop, or resets a page's stacks (`Nearer`, in this
order of weight).

*The game.* For any number of pages and acts, and any commands: `ClosedIsForgotten`, `GoneForGood` and
`PagesFollow`. The invariant `Inv` relates the three places where a hero may be: what the server has, what
is on the way, and what a page shows. `Placed` and `Dressed` say of each session that the last word
on its way to the server is what the hero is now; `Follows`, of each pair of pages, that once p has asked for
the list and the server knows q, the last message on its way to p that places or dresses q says what the
server has, or p shows that already; `Subscribes` says why no event is missed: p has
subscribed before it asked. `Forgotten` says that after a removal nothing on the way
would draw the hero again. The properties are the invariant with empty queues.

*Only model-checked* is all liveness, since fairness and `ENABLED` are out of the prover's reach: `StopEndsRun`, `VerdictReached`,
`ResumedWhileRunning` and `RunReturns` of the schedulers, `AutoRuns` of `Reveal` and `TrafficSettles` of
`Multiplex`. Every invariant and every action property of a passing run is a theorem. The four runs that expect a
counterexample need no proof; the theorems' hypotheses (`Gentle`, `Steady`) say what the programs of two of them lack.

## Not modelled, and why

- *Inside modelled components.* Delays and intervals of tasks: a timer may fire at any moment, so
  that a `ThrottledTask` scheduled twice ticks more often than its interval is not visible. Handlers of count windows that
  call their own window again go wrong in known ways (above) and are excluded by `CountDepth` 1; handlers of a time window
  call others only, since their own window would lose the events it was given meanwhile when it closes.
  Of `reveal.js`: loading of dependencies, layout, backgrounds and parallax, playback of videos, custom states, printing, key
  bindings from the config, the drawing of the player, and pointer events, which repeat the touch handlers.
  Of several 0-ms timeouts that reset a stack (1552) one is kept pending; a click in the overview writes the address once,
  where `slide()` runs twice to one end; the popup's `post()` when it has loaded is left out, as both
  pages start on one slide.
  The hero under the key `undefined` of a page that took leave (`game.js:310`) keeps one type.
  Of the search, how `Hilitor` marks what it finds. Of the remote controls, how gestures are recognised.
- *EEP aggregates.* Their arithmetic is in floating point. In a window the set of events they cover stands for
  them, which is faithful where `compensate` is exact; `Mean::compensate` divides by a count that has just
  become 0 when a window of size 1 slides, which no handler sees, since `accumulate` follows. `compensate` of `Min` and
  `Max` does nothing.
- *Slide builder.* `Builder` reads all files of the slides at once and writes the cache when the last is read; two builds
  that overlap finish in either order, so the older may overwrite the newer (`Builder.php:27`). A
  model of it could say no more than this sentence.
- *Static files.* Two requests for one path share a buffer keyed by the path (`StaticFile.php:45`); what each
  is answered depends on how the stream cuts the file, which is outside this code.
- *Socket chat* (`async_server.php`). One select loop of a hundred lines: an answer is cut at the 1024 bytes of one
  read, and deferred callbacks are never removed (line 103).
- *Chat server, HTTP router, SSE server, React examples, scrapers, extension manuals' echoes.* No state beyond a set of
  connections, or linear scripts.
- *Slide contents* (markdown, math, highlighting, printing). They convert or draw and no deck reads
  what they keep. Of `zoom.js` only its switch is in `Reveal`, because the overview sets it.

Worth doing next: the aggregates over rationals against reference definitions, a timed variant of
the wrappers, and more of the steps behind the liveness properties as theorems (what each step of a `run()` that will
return, and of a deck left alone, brings nearer).
