# Verification of the 2D engine's control logic

TLA+ models, model-checking runs and machine-checked proofs about the parts of
the engine (`src/src`) in which order, lifetime and concurrency decide whether a
game works: who deletes what and when, what a callback may change under the code
that called it, what the working thread and the main thread share.

The models are written from the C++ code. Paths below are relative to
`src/src/`.

## 1. Inventory

The engine runs almost everything on one thread, the main thread: the platform's
event loop calls `HLDirector2D::mainLoop` once per frame and delivers touch and
lifecycle events between frames. Game code runs inside the engine's callbacks
(delegates), so the hard behaviours of most components are not races between
threads but *re-entrance*: a callback changes the list, the tree or the object
that is being iterated over or that called it. Three components do start threads
(HTTP requests, downloads, asynchronous texture loading) and return to the main
thread through `HLObject::performFuncOnMainThread` and `pendingScheduleArray`.

| Component | State | Operations | Interacts with | What is hard | What makes it correct |
|---|---|---|---|---|---|
| Scene management, `application/HLDirector2D` | scene stack, pending scene, running scene, scenes to destroy, pause and background flags | run, push, replace, pop, popAndReplace, pause, resume, stop/startAnimation, the frame | game code in onActive, onDeactive, onDestroy, update and draw; timers, tweens, touches | several changes in one frame before the deferred swap; game code in the middle of the swap | the swap shows the top of the stack; each scene that left is destroyed once and never while it runs; active/deactive paired |
| HTTP requests, `network/HLHttpNetwork`, `HLHttpRequest` | request queue, semaphore, response of each request | startRequest, the working thread, two callbacks | HLObject (counts), the director's drain | two threads; an unprotected reference count; a request used again | a start is answered once and in order; a request lives as long as a thread needs it |
| Hand-over and counts, `base/HLObject` | `pendingScheduleArray`, its mutex, a count per object | retain, release, autorelease, performFuncOnMainThread, drain in `mainLoop` | every component with a thread | the mutex is held during callbacks; counts are plain integers | calls come out in order, once, on a live target |
| Timers, `core/HLTimer` | two lists of timers, elapsed, delta, canceled | create, cancel, delete, cancelAllTimers, update | director (once per frame), delegates | timers created, canceled and deleted while the list is iterated; frames longer than intervals | no dangling pointer, no double update, time adds up, canceled means silent |
| Autorelease pools, `base/HLAutoreleasePool` | a list of pools per thread in one map | constructor, destructor, currentPool, purge | HLObject | a map that only insertions lock; nested pools; an empty list | an object is released once, by the pool that was current |
| Notifications, `base/HLNotificationCenter` | observers per name | add, remove, post (three ways) | HLObject, any thread | observers change while a copy is notified | an observer that was removed is not called; all others are, once |
| Delegates, `common/HLDelegateImpl.h` | list of callbacks, holes | +=, -=, invoke | everything | a delegate that removes itself or invokes again | each one that stays is called once |
| Tweens, `core/HLEntitySystem` (HLTweenSystem) | animations, animations to add, the open begin/commit | begin, commit, stop (three ways), update | entities, completion callbacks | a callback stops or commits animations | one completion per animation |
| Frame animations, `core/HLAnimateSystem` | a vector of steps | add, stop, stop all, update | entities | a step adds steps | each step is updated until it ends |
| Entities, `core/HLSceneManager`, `core/HLEntitySystem` | the entity tree, pending destruction | create, destroy, update | touch, tween, GUI | destruction of a tree during its update | no destroyed entity is updated or touched |
| Touch and mouse, `core/eventdispatcher` | touched entity, multi-touch table | began, moved, ended, canceled | entities, GUI | a handler destroys the entity | began/ended are paired per entity |
| Textures, `textures/HLTexture` | weak cache, loading textures | load, async load, reload, destroy | loading thread | failed loads; a texture released while it loads | one texture per name; every load ends |
| Downloads, `network/HLHttpDownloadManager` | `.tmp` and `.info` files, sizes, list of downloads | add, resume, cancel, the thread | files, curl | crash and restart between file writes; a version change in the middle | the finished file is one version of the remote one |
| GUI, `gui/*` | the view tree, modal views, reuse queues of table cells | layout, events, reload | touch, tween | views deleted in their own handlers | a cell shows one row |
| GL caches, `glhelpers/*` | cached GL state, matrix stack | bind, push, pop | drawing | a cache that differs from GL | cache equals GL |
| Resources, codecs, platform code, 3D, value objects | | | | pure I/O, decoding, drawing | |

The vendored libraries (`libs/`, `include/`, `emscripten-1.37.9/`), the generated
bindings (`jsbindinggenerator/`, `*.pb.*`), codecs and shaders are left aside.
The only test in the repository is `test/HttpTest.cpp`.

`PROJECT.json` lists every component with its status, and under `hazards` what
is hard to test in each of them, with its line and the properties that cover it.
Where the code does go wrong, a property says what holds otherwise and leaves out
exactly that case: a sort of a list with a hole in `PriorityOrder`, an unchecked rename
in `DoneIsFresh`, fallback names in `OnePerFile`, failed loads in `EveryLoadEnds`,
entities destroyed while they wait in `NoDeletedInTree`. These hazards name no
such property; a note says where the case went.

## 2. Plan

Order: the frame and what it owns first, then the only working thread that talks
to it, then the lists that game code changes while they are iterated, then the
rest.

1. **done** `SceneStack` (abstract), `SceneDirector`, proofs.
2. **done** `RequestBroker` (abstract), `HttpNetwork`, proofs.
3. **done** `TimerManager`, proofs.
4. **done** `TweenSystem`: one completion per animation under re-entrance, proofs.
   To come: an abstract specification, "an animation runs, then is told of its
   end once".
5. **done** `EntityTree`: entities destroyed, moved and added during an update,
   proofs.
6. **done** `TextureCache`: weak entries and the loading thread, proofs.
7. **done** `PublishedFile` (abstract), `DownloadManager`: files, restarts,
   retries; crash as an action; proofs.
8. `AutoreleasePool`: pool lists of several threads, nested pools, the map.
   `TextureCache` and `HttpNetwork` have the one pool of the main thread.
9. `TouchDispatcher`, on top of `EntityTree`: handlers that destroy the entity
   that is touched.
10. `MultiDelegate`, `NotificationCenter` and `AnimateSystem`: three more lists
    that are changed while they are walked, by the scheme of `TimerManager` and
    `TweenSystem`.
11. Candidates after that: cell reuse of `HLTableView`, the GL state cache.

Every safety invariant that a run checks is proved, and so are the three
refinements (that of the HTTP network without its fairness). What is worth proving
next: `ResponseIsOfThisTransfer` for games that start no request twice; what the
abstract specifications promise, as theorems about them that the refinements carry
over (in `SceneStack` the scene on screen is not deleted, in `PublishedFile` a version
is never replaced by an older one); and the invariants of the modules that are still
to be written.
Every module is written to be proved about: parameters are constants with
named assumptions, one action per operation, no recursive operator.

## 3. Modules

| Module | Role |
|---|---|
| `SceneStack` | what the director promises about scenes |
| `SceneDirector` | `HLDirector2D`'s scenes and frame; `ImplementsSceneStack` is the refinement |
| `MCSceneDirector` | four scenes |
| `RequestBroker` | what the HTTP network promises: a line of started requests, answered from its front |
| `HttpNetwork` | main thread, working thread, queue, semaphore, schedule array, counts; `ImplementsBroker` is the refinement |
| `MCHttpNetwork`, `MCHttpReuse` | two requests; one request that is started twice |
| `TimerManager` | `HLTimer` and `HLTimerManager` |
| `MCTimerClock`, `MCTimerLists` | time; lists and priorities |
| `TweenSystem` | `HLTweenSystem` and `TweenAnimations`: the update and the stop functions, nested |
| `MCTweenSystem` | four animations of two entities |
| `EntityTree` | `HLSceneManager::update` and the tree of `HLTransform2DComponent` and `HLEntityManager` that it walks |
| `MCEntityTree` | four entities, two orders |
| `TextureCache` | `HLTexture::getTexture`, its weak cache and its loading thread |
| `MCTextureCache` | two textures of three files |
| `PublishedFile` | what a download promises: one whole version under the final name, never an older one |
| `DownloadManager` | `HLHttpDownloadManager`: the thread of a download, its files, kills and failures; `ImplementsPublishedFile` is the refinement |
| `MCDownloadManager` | three versions; one version that comes too late |
| `SequenceFacts` | lemmas about the sequence operators that stand for the vectors and lists of the engine, and that a set of naturals has a smallest member |
| `SceneDirectorProofs`, `HttpNetworkProofs`, `TimerManagerProofs`, `TweenSystemProofs`, `EntityTreeProofs`, `TextureCacheProofs`, `DownloadManagerProofs` | theorems about the module each is named after |

The modules also define *mutants*, operations with one plausible mistake each, in
a section of their own or directly before the operation they change. They are not part of the specification; replacing the real operation by
its mutant has to violate the property that `PROJECT.json` names beside it.

### SceneDirector

`stack`, `toDestroy`, `current`, `next`, `paused` and `invalid` are
`mSceneMgrStack`, `mSceneToDestroy`, `mCurrentSceneMgr`, `mNextSceneMgr`,
`mPause` and `mInvalid`. `itr` is the loop variable of `setNextSceneManager`,
`phase` the place in `mainLoop`/`drawScene`. `life` stands for the heap and
`active` for the calls of the scene delegates. A frame is `BeginFrame`, then,
when a swap is pending, `EndDeactive`, `BeginDestroy`/`EndDestroy` per scene,
`ActivateNext`, `EndActive`, then `EndUpdate` and `EndDraw`; between these steps
the phases named in `Callbacks` let the game call any operation.

`exit(0)` in a pop of the last scene is the phase "exited".

Left to the game, as guards: a pushed scene is a new object; replace, pop and
popAndReplace are not called in `onDestroy` (they append to the vector the swap
iterates over); popAndReplace is not called while a swap is pending (it deletes
the scene under the top at once, which may then be the running one). The body of
popAndReplaceSceneManager is one step, so game code in the `onDestroy` it calls
is not interleaved.

### HttpNetwork

`queue` and `avail` are the request list and the semaphore, `pending` and `lock`
are `pendingScheduleArray` and `scheduleSelectorMutex`. `main` and `worker` are
the two threads: a program counter, the request, and the register that holds the
reference count between its load and its store. `retain` and `release` are not
atomic in the code (`_refCount` is a plain integer), so they are a load and a
store here, and the test in `release` may use either the register or memory.

The working thread: `WaitAvail`, `TakeRequest`, `Perform` (its three outcomes;
`leak` is the path without a CURL handle, which skips the release),
`LockSchedule` .. `PushSchedule` for `performFuncOnMainThread`, `WorkerRelease`
... The main thread: `StartRequest` .. `PostAvail`, `GameRelease`, and the drain
`BeginDrain` .. `EndDrain`, which holds the mutex while it makes the callbacks.

`Early` is what a game does to a request whose working thread may still touch its
count. With `Early = {}` the game does neither, and everything holds; the two
other runs let the game do what `test/HttpTest.cpp` does.

`release` reads the count a second time, and of two releases at once both may read
a 0. `deleted` is a set, in which a second delete leaves no trace: the model has this
step, but no property of it, not even with `Early = {}`, speaks of an object that two
threads delete.

### TimerManager

`timers` and `toAdd` are `mTimers` and `mTimersToAdd`; a deleted timer's entry
becomes `NULL` and `EraseHole` is the erase of `update`. One call of
`HLTimer::update` is `DeleteCanceled`, or `Tick`, or `Fire` followed, after the
delegate, by `Again` with some `CatchUp` or by `Finish`. While `phase` is
"delegate" the game may create, cancel and delete timers. `Sorts` is
`std::list::sort` with `timerCompare`: stable, by priority; with a hole in the
list the comparison is not an ordering and any permutation may come out.
`lived`, `told`, `due` and `now` are history variables that relate the calls of
a delegate to the time that passed.

Left to the game, as guards: a delegate does not delete its own timer;
`cancelAllTimers` is called only when `mTimers` has no hole (it dereferences
every entry).

### TweenSystem

`lists` holds the two vectors, `allAnimations` and `animationsToAdd`. Update and
the stop functions make callbacks, and a callback may call the stop functions
again; `calls` is the stack of these loops, each with the function, what it looks
for, the vector it is in, its `itr`, and in `anim` the animation whose callback it
waits for. `accDt`, `count` and `stopped` are the fields of an animation,
`life` its memory, `destroyed` is `mEntitiesToDestroy` of the entity manager, and
`told` is a history of the callbacks.

A stop function is its call (`StopAnimation`, `StopAllAnimations`, or
`DestroyEntity`, which calls `stopAnimationsContainTarget`), then `StopNext` and
`StopReturn` for each animation it finds, around the callback, and `EndLoop` at the
end of each vector. A frame is `BeginUpdate`, then `EraseHole`, `Animate`,
`Round`, or `Complete` and `CompleteReturn` for the slots in turn, then
`EndUpdate`. Curves, reversal and the properties that change are data and left
out; each frame takes one tick.

Left to the game, as guards: the calls from startAnimations to commitAnimations
are made in one go, with targets that are not destroyed or that are still being
destroyed by a loop over `allAnimations`; nothing is committed while a stop
function is in its second loop, over `animationsToAdd` (a `push_back` may move the
vector it iterates over); `stopAllAnimations` is not called in a callback, unless
`NestedStopAll`. `stopAllAnimationsWithEntityManager` has no caller and is left
out.

### EntityTree

`children`, `toAdd`, `parent`, `zOrder` and `locked` are the fields `m_children`,
`_childrenToAdd`, `m_parent`, `m_zOrder` and `_lockChildren` of every entity's
transform; `roots` is `HLSceneManager::entities`, `destroyed` is
`mEntitiesToDestroy` and the empty `mEntity` that `updateEntity` looks for. `stack`
holds the nested calls of `updateEntity`: the entity, what is left of the *copy* of
its children (`get_children` returns one), and the part of the function.

An update is `BeginUpdate`, then per root `EraseHole` or `UpdateRoot`; `UpdateBelow`
visits the children with a negative order, then the entity's `onUpdate` runs (the
parts "own" and "ownAlone", where any game call may come), `EndOnUpdate`,
`UpdateAbove` for the other children, `Unlock` and `ProcessAddChildren` for those
that waited, and `EndUpdate` deletes what was destroyed. The game calls are
`AddEntity`, `AddChild`, `SetZOrder` (which removes and adds), `RemoveChild`,
`RemoveAndDestroyChild`, `RemoveAllChildren` and `DestroyEntity`; `Insert`, `Add`
and `Destroy` are the parts of the code that several of them share.

`Destroy` is one step, although `destroyEntity` calls game code in the middle of its
recursion: `onDestroy` (`core/HLEntitySystem.cpp:395`), the completion callbacks of the
tweens it stops (`:397`) and the `deactive` of the components (`:433`), once per
entity. The game of the model leaves the tree alone in all three, and adds nothing to an
entity that was destroyed. A game that does otherwise there, for instance one that
destroys or moves a sibling in an `onDestroy`, is not covered.

What the code does wrong is characterised instead of excluded: an entity that is
destroyed while it waits for its parent is added all the same and deleted at the
end of the update, so the children list dangles (`stray`, and `Dangling`, after
which nothing is defined).

Left to the game: it keeps the tree a tree and adds only entities that are in no
list. `removeAllChildren(false)` leaves every child its parent (`:522`); nothing in
the engine calls it. Every entity has a transform and none a batch component.

### TextureCache

`cache` is `texCache`, `file` and `ref` are each texture's `mFile` and reference
count, `queue` and `avail` are `img_loading_queue` and its semaphore, `pending` the
calls in `pendingScheduleArray`, `pool` and `held` the references of the autorelease
pool and of the game. `main` and `loader` are the two threads: where they are, the
texture they work on, the count they have in a register, and for the main thread the
loop it goes back to.

The main thread is in `GetCached`, `GetSync`, or `GetAsync` and `Insert` (the part
after the texture was queued, still under `mMutex`), then at "got", between the return
of `getTexture` and what the game does with the result: `Keep` and `RetainStore`, the
two halves of `retain`, or `Ignore`. Its releases begin with `GameRelease`, with
`PoolRelease` in a purge (`BeginPurge`) or with `RunPending` in a drain
(`BeginDrain`), the call that was scheduled and the load of the count of its target;
`ReleaseStore`, `ReleaseTest` and, when the count was 0, `Destroy` follow. The loading
thread is `LoaderWait`, `LoaderTake`, `LoaderDecode`, then `LoaderLock` and
`LoaderSchedule`, the two halves of the `retain` in `performFuncOnMainThread`, then
`LoaderRelease`, `LoaderReleaseStore`, `LoaderReleaseTest` and `LoaderDestroy`.

Counts are torn as in `HttpNetwork`: a load and a store, and a test of the register
or of memory. What the mutexes exclude is excluded: a drain holds
`scheduleSelectorMutex`, which the loading thread needs to schedule, and a destructor
waits for `mMutex`. Neither protects a count. For an asynchronous texture
the pool's release of the main thread (`textures/HLTexture.cpp:122`), or one of
the game, meets the loading thread's retain (`:168`) and release (`:171`): an update is
lost, and the texture is deleted while a scheduled call has it, or never; or both
releases read a 0 and both delete. The model does all this. `lost` has the textures for
which an update or a test went wrong in this way, that is, a store over a count that
the other thread had changed, or a test that came out otherwise than the register
says. When something that is in use has been deleted, or is being deleted again
(`Dangling`), nothing is defined any more.

A file is "good", "bad" (no codec reads it) or a "fallback", a `.png` of which there
is only a `.webp`. Three more things the code does are characterised, not excluded: a
failed asynchronous load clears the texture's name, so the texture stays loading
and its destructor leaves its entry in the cache (`Failed`); a texture whose last
reference is gone may be found in the cache and retained (`stale`);
a fallback is cached under the other name (`OnePerFile` says so).

Left out: GL names and their purge, cube maps, textures from raw data, loads that
return NULL without a change of state, and the count of the codec that wraps an image.
The name of a texture, which the loading thread may clear while `getTexture` looks at
it, is read and written in one step.

### DownloadManager

`tmp`, `info` and `final` are the files `path.tmp`, `path.tmp.info` and `path`; a
byte of a file carries the version and the position it was sent for. `fp` is the
open `.tmp` file: what was written since it was opened may be lost in part when the
process is killed. `at` is the place in `startAsyncDownload` or in the write
callback, `from` is `start_pos`, `again` tells the second transfer from the first.

A download is `Start` (the size of `.tmp`), `Request`, then `OpenFirst`: the first
call of the write callback, which renames (416), gives up (up to date), gives up and
has the transfer made again (another version), or opens the file to append or from
the beginning. `RemoveOld`, `InfoOpen` and `InfoWrite` are its further effects on the
disk, one by one, since `Crash` may come between any two; then `Deliver`,
`EndTransfer`, `Remove`, `Rename`, or `Retry` for the second transfer.
`NetworkFails`, `RenameFails` and `Crash` are the faults, `Release` and `Answer` the
server, which may lack ranges or announced lengths.

Left to the environment: a game has one download of a path at a time (two would
share `.tmp`); opening and writing files succeeds; a kill of the process loses no
rename and no order of writes; every response but a 404 has a Last-Modified;
a transfer that is cut off is seen to be, also from a server that announces no length
(a body that only the end of the connection delimits would pass for a complete one); the
page of a 416 is not empty (without a body the callback is not called, and the
thread closes a file that was not opened, `:313`).

## 4. Runs

| Run | Instance | Checks |
|---|---|---|
| `scene_director` | 4 scenes, `FairSpec` | `TypeOK`, `OwnedOnce`, `RunningSceneIsLive`, `SwapTracksTheStack`, `ActiveIsCurrent`, `DoomedIsDeleted`, `ImplementsSceneStack` |
| `http_network` | 2 requests, one of them started twice, `FairSpec` | `TypeOK`, `SemaphoreCountsQueue`, `AliveWhenUsed`, `EveryStartIsAnswered`, `ImplementsBroker` |
| `http_reuse` | 1 request started twice | `ResponseIsOfThisTransfer` is **violated** |
| `http_autorelease` | 1 request, released early | `AliveWhenUsed` is **violated** |
| `timer_clock` | 2 timers (interval 2, interval 0), frames of 0, 1 and 5 ticks, 6 ticks in all, `FairSpec` | `TypeOK`, `DeltasAddUp`, `NeverAheadOfTime`, `BacklogIsDropped`, `CanceledStaysSilent`, `CanceledIsDeleted`, `UpdateEnds` |
| `timer_lists` | 3 timers of 2 priorities, one of them one-shot, 3 ticks | `OwnedOnce`, `RunningTimerIsThere`, `PriorityOrder` |
| `tween_system` | 4 animations of 2 entities, calls nested 3 deep, `FairSpec` | `TypeOK`, `OwnedOnce`, `ToldOnce`, `LoopsStayInTheirLists`, `NoTweenOfDestroyed`, `EveryTweenEnds` |
| `tween_nested` | the same, callbacks may call `stopAllAnimations` | `LoopsStayInTheirLists` is **violated** |
| `entity_tree` | 4 entities, orders -1 and 0, 6 calls of the game | `TypeOK`, `NoDeletedInTree`, `TreeIsSound` |
| `texture_cache` | 2 textures; a fallback, its `.webp`, a bad file; `FairSpec` | `TypeOK`, `LivesWhileUsed`, `OnePerFile`, `EveryLoadEnds` |
| `download` | 3 versions of 2, 3 and 4 bytes, 3 faults, 3 kinds of server, `FairSpec` | `TypeOK`, `FinishedIsWhole`, `DoneIsFresh`, `ImplementsPublishedFile`, `EventuallyFresh` |
| `download_page` | 1 version of 2 bytes, a page of 1 byte with each 404, no faults | `FinishedIsWhole` is **violated** |

Bounds, and why they are enough:

- Scenes are never reused, so the number of scenes bounds the history. Four
  allow popAndReplace (two scenes on the stack, one pushed) and one more push
  before or after its swap, and two scenes destroyed in one swap.
- `MaxStarts` bounds the HTTP history. Two requests and three starts put one
  request in the queue while another is performed and a third call is scheduled,
  and let a request run again after its answer.
- `MaxTime` bounds the sum of the frame times; frames of no time remain
  possible, so nothing stops the frames. A frame of 5 ticks leaves the timer of
  interval 2 more than two intervals behind, frames of 1 end exactly on it, and
  the timer without an interval takes the other branch.
- Three timers are the fewest with a neighbour on each side of the one that is
  at work, and with two of the same priority.
- The four tweens are one of both entities that ends after its second round, one
  that ends in its first frame and shares the first one's name, one that never
  ends by itself, and one that changes nothing. `MaxDepth` bounds the nesting:
  three is an update, a stop function in its callback, and another stop function
  in the callback of that one, which meets both outer loops in the same vector.

- `MaxCalls` bounds the calls of a game over the whole behaviour, `MaxLength` the
  slots of a children list. Building a parent with two children takes three or four
  of the six calls; two or three are left for the updates to meet. Four entities
  allow a grandchild whose grandparent is updated, or two children and a third one
  that waits. Orders -1 and 0 are visited before and after the entity itself.
- Textures are never reused. With two, a load under way meets a load that failed, or
  one of the same file under another name, and both threads meet at one count while a
  scheduled call waits for the other texture.
- `MaxFaults` bounds kills and failures together. Three faults cut off a download,
  its resumption and the transfer that a new version made necessary. Sizes grow:
  with a newer version that is shorter than the part of the older one, the 416
  branch (`network/HLHttpDownloadManager.cpp:141`) publishes the part, and with
  versions of one size it publishes the older one, whole; `FinishedIsWhole` and
  `DoneIsFresh` fail then.

No state constraint is used. `entity_tree`, which checks invariants only, takes the
entities as symmetric: they differ in nothing at first. Deadlock is checked
except in two runs: the game of `texture_cache` may be done with its textures, and
there and in `entity_tree` nothing is defined after something in use was deleted.
Elsewhere games that have nothing left to start still have frames, and the exited
program stutters.

### What the four violations show

- `http_reuse`: `workingthread` stores the body only for a 200 and never clears
  `mResponse` (`network/HLHttpNetwork.cpp:228`). A request that was answered
  with a 200, is started again and then gets a 404 hands the first body to
  `onResponse` together with the new code, where the header says "response data".
- `http_autorelease`: `test/HttpTest.cpp:22-25` starts an autoreleased request.
  The pool releases it at the end of the frame on the main thread, while the
  working thread retains and releases it. One of the updates of the count is
  lost and the request is deleted before its callback is made on it.
- `tween_nested`: a stop function empties a slot before its callback ("avoid call
  recursively", `core/HLEntitySystem.cpp:610`), so that loops may nest.
  `stopAllAnimations` does so too, but clears the vector after its loop (`:655`):
  when the callback of an animation that completes in `update` calls it, `update`
  erases its slot of a vector that is empty by then (`:525`). The header does
  not say that callbacks must not call it.
- `download_page`: the write callback compares versions before it resumes ("对比未下载完的文件的版本",
  `network/HLHttpDownloadManager.cpp:156`), but only if there is an `.info` file. The
  page of a 404 carries no Last-Modified and is stored in `.tmp` without one. The
  next download, when the server has the file, asks for what follows that page,
  appends it (`:226`), finds the sizes equal and renames the mixture.

### Fairness

- Scenes: `WF(Frame)`, the main thread goes on and callbacks return;
  `SF(BeginFrame)`, as the frame is disabled while the application is in the
  background. `DoomedIsDeleted` assumes in addition that the application is
  in the foreground again and again; without that no frame runs.
- HTTP: weak fairness of both threads (a transfer ends, as a timeout is set with
  `CURLOPT_TIMEOUT`), strong fairness of `LockSchedule`: the mutex is free again
  and again but not continuously, as each frame takes it. `mainLoop` uses
  `trylock` and gives the mutex back at the end of its drain, so the working
  thread gets it eventually. Games are not assumed to do anything. The fairness of
  the main thread includes the drain: it assumes that the application does not stay in
  the background for ever, where `mainLoop` returns before it.
- Timers: `WF(Update)` (the loop goes on, delegates return) and `WF(Frame)` (the
  platform calls `mainLoop` again).
- Tweens: `WF(Loop)`, a loop goes on; `SF(Return)` and `SF(BeginUpdate)`, a
  callback returns and a frame begins even if the game calls stop functions again
  and again in between, which disables these steps for a while but not for ever.
- Textures: `WF(MainThread)`, what has begun goes on: `getTexture`, a retain, a
  release, a drain, a purge. `SF(Frame)`: frames come and drain the scheduled calls,
  though not while a call is under way; again the application does not stay in the
  background for ever. `SF(Loader)`: the mutexes the loading thread waits for are free
  again and again, as every drain and every `getTexture` gives them back, but not
  continuously. Games are not assumed to call `getTexture` or to release anything.
- Downloads: `WF(Thread)`, a connection brings the next byte or fails;
  `CURLOPT_CONNECTTIMEOUT` alone would let an established connection hang.
  `WF(Start)`, the game asks again after an answer. Without it `EventuallyFresh`
  would promise what only the game can start. Faults are bounded, so they end.
- Entities: no liveness property, hence no fairness.

## 5. Proofs

The proofs hold for every value of the constants: any scenes, requests, timers,
animations, entities, textures and versions, in any number, and any bound on
starts, calls, nesting or faults. They use the assumptions on the constants that
the modules name, which say that the null pointer is no object and that intervals,
frame times, orders and sizes are whole numbers (negative and fractional times are
not covered). Some theorems have a hypothesis of their own, without which the
property fails:

| Hypothesis | Theorems | What happens without it |
|---|---|---|
| `Early = {}`: a game keeps its reference until the callback, and starts a request again only when the working thread is done with it | `KeptRequestsAreAlive` | `http_autorelease` |
| `~NestedStopAll`: no callback calls `stopAllAnimations` | all of `TweenSystemProofs` | `tween_nested` |
| `Regular`: a 404 has no page | `FinishedFileIsWhole`, `DoneMeansFresh`, `DownloadsPublishWholeFiles` | `download_page` |
| `Regular`: versions grow | the same | the 416 branch publishes a part or an older version (section 4, bounds) |

None of them holds of no state: `http_network`, `tween_system` and `download` are
instances of them.

**Scenes.** `SceneDirectorProofs` proves `TypeCorrect`, `SwapTracks`,
`ScenesAreOwnedOnce`, `RunningSceneAlwaysLive` and `DelegatesArePaired`. The
invariants are layered: type and control facts (where `itr` may be in each
phase), then the agreement of `next`, `current` and `stack`, then ownership (every
live scene in exactly one place), and only with these the liveness of
the running scene. `OwnedOnce` is not inductive alone: that a pop appends
a scene that is not yet in `toDestroy` needs the types and the stack's
distinctness, and that `EndDestroy` does not delete the scene that comes next
needs `SwapTracksTheStack`. `DirectorImplementsSceneStack` takes each step of the
director to a step of `SceneStack` or to none: the operations on the stack to
`Change`, the two ends of a swap to `Hide` and `Show`, each delete to `Delete`. That
`Delete` is allowed there, of a scene neither on the stack nor on screen nor deleted
before, is what `Owner` provides.

**HTTP requests.** `HttpNetworkProofs` has five parts.

1. `Control`: where each thread is while the other holds the mutex, and which
   request and which scheduled call it works on. Gives `TypeCorrect`.
2. `NoLostWakeup`: the semaphore counts the queue.
3. `OnePlace`: a request that was started and not answered is at exactly one of the
   places the hand-over has (about to be inserted, queued, with the working thread,
   scheduled), and its starts and answers differ by one. No run checks it by itself;
   `KeptRequestsAreAlive` rests on it.
4. `NetworkImplementsLine`: the initial states and the steps of `RequestBroker`.
   `ImplementsBroker` says in addition that the line is served for ever; its
   fairness part stays with TLC.
5. `KeptRequestsAreAlive`. The count in memory is not protected, and a register may
   hold an older one. `Counted` says what is true nevertheless: neither the count in
   memory nor the one in a register is ever below the number of references that are
   really held, since `Apart` shows that, when the game releases nothing early, the
   two threads never store the count of one request at the same time. Without
   `Apart` the invariant is not inductive, and `http_autorelease` has the run. That
   an object is deleted by one thread only is not part of it (section 3).

**Timers.** `TimerManagerProofs` has four layers.

1. `Control`: types, and that while a delegate runs `itr` points to a timer whose
   `elapsed` is at least its interval. The last fact makes the subtraction of
   `CatchUp` stay in the naturals. Gives `TypeCorrect`, `RunningTimerStays`.
2. `Owned`: `Control` and `OwnedOnce`. Rests on list lemmas: a destructor
   leaves a hole and moves nothing (`WithoutHolds`), `erase` closes a hole and
   loses nothing else (`RemoveAtHolds`), a sort is a permutation (`SortHolds`).
   Gives `TimersAreOwnedOnce`.
3. `Accounts`: what `told`, `due` and `lived` have to do with `delta` and
   `elapsed` in each phase. `DeltasAddUp` and `NeverAheadOfTime` are not
   inductive: while a timer is at work the interval it is called for is still in
   its `elapsed`, so the invariant distinguishes timers at work. Gives
   `ToldInFull`, `NoCallAheadOfTime`, `BacklogAlwaysDropped`.
4. `CanceledIsSilent`, an action property, from `Control`, and
   `UpdatedInPriorityOrder` from `Control` and the lemmas that deletion, erasing
   and sorting keep a list in order.

**Tweens.** `TweenSystemProofs` proves every invariant that `tween_system` checks
from one inductive invariant. `Control` says where the loop of every call on the
stack is: `update` and `stopAllAnimations` can only be the outermost call, so while
another loop is under way nothing comes into a vector but holes and entries at its
end. `Own`, `Ending` and `Told` say of each animation that it is in one slot or in
the hands of one call, that one which has stopped is the one `update` is telling,
and that it was told once if it is deleted or being told. `Doomed` is what
`NoTweenOfDestroyed` needs while calls are under way: an animation of a destroyed
entity is still ahead of the loop that stops them.

**The entity tree.** `EntityTreeProofs` proves `TypeCorrect`,
`NothingDeletedIsVisited` and `TreeStaysSound` from `Inv`, which is `TypeOK`,
`Tree` and `Control`. `Tree` says of each entity that is not `stray` that it is in at
most one list of a live entity, once, is live, and has its parent there; `TreeIsSound`
says less, and is not inductive: that `addChild` does not double a child
needs that one without a parent is in no list, and that a child which waits is in
none needs the waiting lists to be apart. `Control` says that a list is locked, or keeps a
child waiting, only while a call of `updateEntity` for its owner is under way, which
gives `SettledBetweenUpdates`. Four lemmas carry the data: making holes
(`HolesInList`), erasing them (`PresentIsPacked`), `addChild`'s place for a child
(`InsertIntoList`) and the closure that `destroyEntity` destroys
(`SubtreesAreClosed`). `MaxCalls` and `MaxLength` are arbitrary here: `entity_tree` stops at
six calls, too few for `updateEntity` to be entered for an entity whose own update is
still under way; the theorems cover that.

**Textures.** `TextureCacheProofs` proves `TypeCorrect`, `TexturesLiveWhileUsed` and
`FilesAreShared`, with torn counts. `Counted` is a conservation law for every texture
that is neither `lost` nor `stale`: its count in memory is the number of its holders
(the pool, the game, `getTexture`, the loading thread, the scheduled call, a release
that was not stored yet), and that is 0 exactly when it is deleted or one thread, and
no other, is about to delete it. So a texture goes wrong only if two threads met at
its count, and then in the step that overwrote an update; where they did not meet, it
is deleted when the last reference is gone and not before. That nothing at all dangles
is not a theorem, as the code does not give it.
`Cached` and `Found` relate the weak cache to the textures in both directions: what is
under a name has that name or lost it, and a live texture with a name is under it or
about to be put there. `OnePerFile` follows from `Found`, whatever happens to the
counts.

**Downloads.** `DownloadManagerProofs` follows the bytes (`Sound`). Whatever is left
of a download that was cut off is the beginning of one version, not older than the
version `.info` records (`PartialIsPart`); on that rest both the comparison of
versions before a resumption and the trust in a 416 that the file is complete. Then the
file under its final name is a whole version (`FinalIsVersion`), and a download that
is told to be done has one that is as recent as its beginning.
`DownloadsPublishWholeFiles` is the refinement: only a rename, or the removal of the
older file before it, changes what `PublishedFile` sees.

**Only model-checked:** the liveness properties (`DoomedIsDeleted`,
`EveryStartIsAnswered`, `CanceledIsDeleted`, `UpdateEnds`, `EveryTweenEnds`,
`EveryLoadEnds`, `EventuallyFresh`) and the fairness part of `ImplementsBroker`,
which rest on fairness and ENABLED, about which the prover cannot reason. Of the four
properties that runs show to be violated, three are proved under the hypotheses
above; `ResponseIsOfThisTransfer` is not a theorem yet.

## 6. Not modelled

- Inside modelled components: viewport, projection, statistics and screenshots
  of the director (GL calls); headers, method and user data of requests; the
  network's destructor, which the program never runs; the curves and
  properties of tweens; floating-point rounding of
  timer arithmetic, in place of which ticks are counted; drawing, hit tests,
  batches, names and other components of entities, and what `HLSceneManager` does
  to the entities of a scene that is destroyed; GL names, cube maps and raw data
  of textures; progress below 1, failing opens and writes, and two downloads of
  one path.
- Components listed as not modelled in `PROJECT.json`: either planned above, or
  pure I/O, decoding and drawing.
