# Verification of watchman_cpp

watchman_cpp is an HTTP service that runs the code of students in Docker
containers. It keeps a pool of containers per programming language, gives one
container to each request, and replaces it by a fresh one when the request has
been served. This directory holds a TLA+ model of the service, the TLC
configurations that check it on small instances, and TLAPS proofs of what holds
on all instances. The modules are translated from the code under `src/src/`;
`PROJECT.json` maps every definition to the lines it models. File names below are
relative to `src/src/`.

## The system

| Part | Code | State | Operations |
|---|---|---|---|
| `ExtractingStorage` | `core/code_launcher/detail/storage.hpp` | a list of launchers per language, a mutex, a condition variable | `extract` (waits while the list is empty), `addValue`, `addValues`, `contains` |
| `RestartingCodeLauncherProvider`, `CallbackedCodeLauncher` | `core/code_launcher/detail/` | the storage; per request the wrapped launcher and its `restartInfo` | `getCodeLauncher`, `restartCodeLauncher` (from the wrapper's destructor) |
| `CodeLauncherOSManipulator` | `core/code_launcher/detail/container_manipulator.cpp` | one container thread with its task queue | constructor (remove old containers, create configured ones), `asyncRemoveCodeLauncher`, `asyncCreateCodeLauncher` |
| `BaseCodeLauncher` | `core/code_launcher/detail/code_launchers.cpp` | a container id | `prepareCode`, `runCode`, `getInfo` |
| Answers | `process_*.cpp`, `common/detail/answer_common.*`, `makeJsonCourse` | none: pure functions on strings | `getExitCode`, `removeEscapeSequencesTender`, `getCourseResponse`, ... |
| `DockerWrapper` | `core/docker_wrapper.cpp` | none; the daemon's containers | one method per Docker call, each with an error value |
| `Service` | `core/service.cpp` | the provider | `runChapter`, `runPlayground`, `runPractice` |
| `ServerImpl`, `AsyncContext` | `server/detail/server_impl.*` | the service, a pool of threads with a queue each (`static_thread_pool`), a scope | accept and route a request, time out, reply, shut down |
| Parser | `core/parser.cpp` | none | `parseTask`, `parsePlayground`, `parsePractice`, `makeJson...` |
| Config, program entry | `common/config.cpp`, `main.cpp` | the configuration | `findConfig`, `readConfig`, `fillTable`, `main` |
| Project trees, archives | `core/detail/`, `common/detail/project_utils.cpp`, `common/common.cpp` | none | `jsonToDirectory`, `getPathsToFiles`, `makeTar` |

A request thread extracts a launcher, asks the daemon for its image, puts the
files into the container, executes the script there and reads its answer. When
the wrapper dies, on return or on an exception, the thread schedules the removal
of the container on the container thread, waits, schedules the creation of a
replacement, and waits again; only then is the reply sent. What makes this hard:

* request threads wait for launchers, for the container thread and for the
  daemon, and there are fewer threads and launchers than requests;
* every Docker call may fail, most failures are ignored, and a failing call may
  or may not have been carried out;
* containers die by themselves and outlive a crash of the service, so a new
  life of the service has to find and remove what the last one left behind;
* one condition variable serves the waiters of all languages, and every thread of
  the server's pool sleeps on one of its own while others fill and empty its queue;
* SIGINT comes while requests are queued and in progress, and the members of the
  server are destroyed one after the other around them;
* the outcome of a run is recovered from text in which program output, marks and
  the exit codes of the `timeout` utility are mixed.

What each part has to guarantee:

* storage: a launcher has one owner; no waiter sleeps while there is something
  to take; together, the atomic pool its callers reason with;
* provider and manipulator: a container serves one request and never another;
  a launcher in the pool is a container that exists, with an image configured
  for its language; launchers are lost, and containers leaked, only through
  failing calls; containers of other programs are left alone; no deadlock;
* answers: the status code is that of the script, wherever it was stopped, and the
  outputs of a finished one are those it printed; no string operation is out of range;
* parsers and archives: a well-formed request gets a container of its language with
  exactly its files, and the script is told where they are;
* server: an accepted request is processed once and to its end, even if its
  connection times out; its reply reaches the client or the connection has ended, and no
  client waits for ever; after SIGINT the process ends, and nothing uses the service after
  its destruction;
* configuration: the program serves with all that one file says, or not at all.

`PROJECT.json` lists the hazards, each at the line where it bites, with the
properties that would catch it going wrong.

## The modules

**`Docker`** is the daemon behind `DockerWrapper`. It is external: the client
library is not in the repository, and the module is written from how the wrapper
uses it. A container is a status and an image. Each wrapper method is an operator
whose last argument is the method's result; a failing call returns the wrapper's
error value and, for kill, delete and run, may have taken effect. `run` creates
and then starts a container, so a failing one may leave a container behind.
A stop of a container by itself is `ContainerExits`. DELETE is issued without force, so
the daemon refuses to delete a running container. `Leftover` are containers that an
earlier life of the service has left running.

**`RestartingProvider`** extends it with the provider, the manipulator, the
callbacked launcher, and the control of the service and the server that
determines a launcher's life.

| Variable | Code |
|---|---|
| `phase`, `todo`, `entry`, `index`, `made` | the loops of the manipulator's constructor |
| `storage`, `keys` | `m_storage`: the lists, and the keys that have one |
| `queue`, `op` | the task queue of `m_containersContext` and the call in progress |
| `pc`, `held`, `image`, `outcome` | a request's thread, its launcher, `restartInfo.image`, its `Response` |
| `served`, `bootFaults`, `crashes` | history: whose files a container received; failures before this life |

Each Docker call is a step of its own, so a crash, a failure or another thread
can come between any two. `extract` and `addValue` are atomic here; that is what
`ExtractingStorage` shows. `RestartingProvider` treats chapters, playgrounds and
practices alike, but for `NoSources`, the early return of `runChapter`.
`runChapter` also asks for the image a second time when the status code is
unexpected; the result is only logged and the call is left out. `Crash` loses the
state of the process and keeps the daemon's: systemd restarts the service
(`accomodation/`, `Restart=on-failure`).

**`Sandbox`** is what the provider promises to the threads that serve requests, with
containers and Docker calls left out: a counter of free launchers per language, and for
each request whether it wants or has one. `RestartingProvider!ImplementsSandbox` is
the refinement: a request has a launcher from `extract` until the replacement is in the
storage (`Give`) or a call has failed (`Lose`). `Lose` is the interesting step: it needs a
call that fails now or has failed before, so a pool shrinks only by failures.

**`ExtractingStorage`** is `storage.hpp` at the grain of the mutex and the
condition variable: locking, evaluating the predicate, sleeping (which unlocks in
the same step), taking, pushing and notifying are separate steps of a thread, and a sleeping
thread may wake up for no reason. Threads are the most general callers.
**`LauncherPool`** is the abstract specification: atomic `Extract` and `Add`, and
some caller that waits for a key gets a launcher while there are any.
`ExtractingStorage!ImplementsPool` is the refinement; the mapping sends every
point between the first lock and the take to a waiting extract.

**`Answers`** has the functions of `answer_common.cpp`, `process_*.cpp` and
`makeJsonCourse` as operators, and around them a model of a container's script
(external) that prints, and is stopped, at will. A text is a sequence of
characters; a mark has its real length, so the arithmetic on lengths is the
code's, `size_t` wrap-around included. That programs do not print marks
themselves is an assumption of the module, and so is that a playground has no tests.
Whether a script prints `user_code_ok` after the program is open (`SeparatorOf`): the
scripts are not in the repository. `ShownOutput` and `ShownTests` say what the answer
shows in each case.

**`Requests`** follows one request from its path and body to the script in a
container: `processRequest`, the parsers, the three run functions of the service,
the archive and the command line. A body is a function on the members it has, with
markers for values of another type, so every early return, exception and read of a
missing member of `parser.cpp` is a branch of the model. Reading a string that is
not there ends the process where RapidJSON's assertions are compiled in and throws
where they are not; the model allows both. Likewise a body that is JSON and no object
(`NotObject`) ends the process at the assertion of `HasMember`, or is read as if it had
any members whatsoever (`Read`). What the archive library does with an empty file is not
known: `addFiles` keeps the entry or leaves it out, and `ArchiveFails` is an exception
from it, with the launcher in hand. Unpacking the archive is the daemon's
work and external; it goes entry by entry and may stop half-way. **`ProjectTree`**
has the functions from a JSON tree to the archive's entries. A path is the sequence
of its pieces between the slashes, the trailing empty one included, because
`recursiveFillAbsolutePaths` appends a slash and `operator/` treats an empty piece
specially. Names are plain, without slashes, and the members of a tree have the
types they are read with.

**`ThreadPool`** is `unifex::static_thread_pool`, from the sources in `third_party/`: a
queue and a condition variable per thread. An access to a queue is one step, since it is
made under the queue's mutex; a `try_lock` may fail at any time, so a new task may land
in any queue and a thread may pass over a queue that has one. **`Server`** extends
`Sandbox` with this pool and with `ServerImpl`:

| Variable | Code |
|---|---|
| `main` | the thread of `main`: constructor, `restinio::run`, the destructors in the order of the members |
| `connection`, `outbox` | RESTinio's side of a request: open, answered, rejected, broken by the timeout or a reply that cannot be written, dropped by SIGINT; replies not yet written |
| `handler` | how far `internalProcessRequest` is with a request |
| `queues`, `stopRequested`, `at`, `looked`, `task` | the pool: see `ThreadPool` |

A reply after `run` has returned goes to a destroyed `io_context`, and a task that
completes after the scope was destroyed reports to freed memory: undefined behaviour,
modelled as a choice between losing the effect and the end of the process. An exception
after `create_response`, also one of the log call that follows `done`, makes the handler's
own `create_response` throw and ends the process, as `detached_spawn` terminates on errors
(`RespondThrows`). `start` may find that the port cannot be opened: `run` throws and `main`,
which is `noexcept`, ends the process. The steps of RESTinio (`Timeout`, `Write`, `Break`)
are translated from the copy in `third_party/`. The server is composed
with the abstract pool, not with `RestartingProvider` itself: that one implements
`Sandbox`, so what holds of `Server` holds with the real provider in its place.

**`Config`** is `main` and `config.cpp`: a step for finding the file, for parsing it, for
each number and for each entry of a table. A file is absent, broken or a tree in which
each member is absent, text or a number. Numbers keep their widths (`size_t`, `uint32_t`,
and the pool's conversion from one to the other); Boost's conversion is external: it
refuses what does not fit and wraps a negative number around.

`MC...` modules give the constants values for TLC. The modules with proofs are
described under *What is proved*.

Definitions named `X_Slip`, commented as slips, are mistakes a programmer might make in `X`.
They are not part of the specifications: they show that the properties
notice the mistake.

## The runs

| Run | Instance | Checks |
|---|---|---|
| `storage` | 3 threads, 2 keys, 2 launchers, 2 calls each, 1 spurious wake-up | `TypeOK`, `CheckStillGood`, `NoLostWakeup`, `SingleOwner`, refinement `ImplementsPool` |
| `provider_faults` | 2 requests, 2 launchers of different images, a leftover container of a third, 1 failing call, 1 exit, 1 crash | `ExclusiveUse`, `CleanContainers`, `LaunchersMatchConfig`, `ShrinksOnlyByFaults`, `NoLeak`, `NeverMoreThanConfigured`, `ForeignUntouched`, and the inductive invariant `IInv` of the proofs |
| `provider_life` | 3 requests (2 for one launcher on 2 threads, 1 without sources), a leftover container, 1 failing call, 1 crash | `AnsweredUnlessDepleted`, `ServesAgain`, refinement `ImplementsSandbox` with its fairness |
| `answers` | up to 3 characters each from program and tests, all three actions, playgrounds and practices with and without `user_code_ok` | `NeverOutOfRange`, `CodeTellsVerdict`, `AnswerShowsOutput` |
| `requests` | 10056 requests: all combinations of present, absent, ill-typed, known and unknown members; trees two levels deep with empty, nameless and equally named nodes | `RightLauncher`, `ContainerHoldsRequest`, `ProjectOwned`, `ScriptFindsFiles` |
| `server` | 2 requests, 2 threads, 1 launcher, 1 failing call, timeouts and SIGINT at any time | `NoSleeperWithWork`, `OnePlace`, `ReplyOnItsWay`, `ServiceOutlivesTasks`, `EveryTaskRuns`, `ClientsAnswered`, `Stops` |
| `config` | two candidate files, each missing, broken, or good but for one or two members | `ServesOneFile`, `FirstEntryCounts`, `PoolHasThreads` |

and five runs in which a statement of the repository is refuted:

| Run | Statement | What happens |
|---|---|---|
| `storage_fifo` | `storage.hpp:11` "Multithreading FIFO storage" | `extract` takes the newest element: it is LIFO |
| `provider_limit` | `max-containers-amount` of the shipped configuration | it is read and never used; the shipped tables start 39 containers with a maximum of 20 |
| `answers_zero` | code 0 is "no errors", `answer_common.hpp:17` | a failed `exec` is answered with status code 0 |
| `requests_required` | `container_type` is among the "Required json fields", `parser.cpp:20` | a chapter without it is run as C++ |
| `server_scope` | `~async_scope` asserts `use_count() == 0`, `third_party/libunifex-0.4.0/include/unifex/v2/async_scope.hpp:91` | `m_scope` is declared after `m_threadPool` and never joined, so it is destroyed while its tasks are queued and executing |

`ContainerHoldsRequest` compares the unpacked archive with a definition that does not
follow the traversal: a node is a position in the tree, and its place is the names on
the way to it. Trees in which a file has the place of another node are run as well,
but the property says nothing of them: which of the two stays depends on the order
of the entries. Of a chapter with empty tests it says that `task_tests` is there empty or
not at all; an empty solution is never there. A request that is not well-formed may get a C++ container and no
files, as `requests_required` shows; `RightLauncher` says that this never happens to a
well-formed one.

`AnsweredUnlessDepleted` includes freedom from deadlock: without a failing call no
language can lose a launcher (`ShrinksOnlyByFaults`), so every request ends although
threads and launchers are fewer than requests. `Stuck` in the properties of `Server` is
the same exception: a thread that waits in `extract` for a language without launchers
keeps the tasks of its queue waiting, and the destructor of the pool with them. The
liveness properties of `Server` also allow that the process has been aborted.
`ClientsAnswered` does not lean on the timeout: timers are not assumed to fire, so an
open connection ends because the request is processed and its reply written.

Two more statements of the repository disagree with its code, or with each other, and
depend on parts that are not in it, so no run refutes them:

* `process_playground.cpp:19` gives "user's_output user_code_ok_f936a25e
  user_solution_ok_f936a25e" as the text of a playground, but the function it calls cuts
  at `user_solution_ok_f936a25e`. If scripts print what the comment says, the client reads
  `user_code_ok_f936a25e` behind the output, and `tests/service/playground_tests.cpp:17`,
  which expects the bare output, fails; `AnswerShowsOutput` covers both kinds of script.
  The same property says that a chapter or practice whose script prints no `user_code_ok`
  is answered with `user_solution_ok_f936a25e` in the program's output, and with an
  arbitrary part of the text for the tests' output.
* `directory_traverser.cpp:38` says "we can't put empty files to tar", and `makeTar`
  (`common.cpp:23`) gives the library an empty `task_tests` whenever a chapter has no
  tests. `Requests` has all three ends this can have.

**Bounds.** Two requests, each with its own launcher, are the fewest that can
meet in every way (share a launcher one after the other, restart at the same
time, one in `extract` while the other restarts). One
failure, one exit and one crash, at any place and in any order, give the
combinations in which one of them hits the handling of another. The container ids
suffice for every `run` call of an instance (`EnoughIds`). Three threads and two keys
are the fewest for which `notify_one` would be wrong in the storage. Two threads of the
server's pool can steal from, notify and stop each other, and with two requests on one
launcher a thread waits in `extract` while the other gives the launcher back or loses it.
A text of three characters
has line breaks before, inside and after a program's output. In a tree with two levels
below the root and two children per node a directory has siblings, files before and
after it, and a parent other than the root. The widths of `config` are 4 bits for
`size_t` and 3 for `uint32_t`: the numbers tried lie on both sides of every power of two,
and zero and negative ones are among them.

`provider_faults`, `provider_life`, `server` and `server_scope` do not check for deadlock:
once the last launcher of a language is lost, a request that needs it waits for ever, as
in the code.

**Fairness.** Weak fairness of the start-up, of the container thread and of each
request's thread: the operating system runs threads that can run, and Docker
calls return. Nothing is assumed of arrivals, failures, exits and crashes. A
request that waits in `extract` is not promised the next launcher, only some:
with finitely many requests that suffices. In `ExtractingStorage` a thread that
can go on does; the mutex may pass over a thread as often as others come. In `Server`
the threads of the pool, the shutdown and RESTinio's writes are weakly fair; nothing is
assumed of arrivals, failures, timers, wake-ups and SIGINT.

## What is proved

The theorems hold for every value of the constants that satisfies
`DockerAssumption`, `ProviderAssumption`, `StorageAssumption`,
`InitPoolAssumption`, `ServerAssumption`, `AnswersAssumption` and `ConfigAssumption`: any
languages, tables, requests, threads, ids, files and texts, and any
bound on failing calls, exits, crashes and calls of a thread. The assumptions say
only that the constants have their types, that markers such as `NoId`, `NoImage`,
`Boot`, `nullopt` and `OutOfRange` are none of the values they are compared with, that
images of other programs do not match `kSenjunPattern`, that the storage starts with every
launcher in one place, and that a `size_t` can count any message. Run `tlapm M.tla` on the modules below to check the proofs.

**The storage** (`ExtractingStorageProofs`)

| Theorem | States |
|---|---|
| `StorageInvariant` | `TypeOK /\ CheckStillGood`, the inductive invariant |
| `StorageTypeCorrect` | `TypeOK` |
| `StorageCheckStillGood` | `CheckStillGood`: what the predicate found still holds when `back()` is read |
| `WakeupsArrive` | `NoLostWakeup` |
| `LaunchersHaveOneOwner` | `SingleOwner` |
| `StorageImplementsPool` | initial states and steps of the mutex and condition variable are those of `LauncherPool`, or stutters |

`TypeOK /\ CheckStillGood` is the inductive invariant: the lists stay lists of
launchers because the one that is popped is not empty, and that is so because the
thread that checked still holds the mutex. `NoLostWakeup` and the steps of the
refinement are inductive on top of it: a thread goes to sleep on an empty list
only, and the only step that fills a list leads to a notify. `SingleOwner` also uses
`InitPoolAssumption`. The refinement theorem is about `LauncherPool` without its
fairness.

**The provider** (`RestartingProviderInvariant` defines the invariants and
`RestartingProviderSandbox` the mapping to `Sandbox`; `RestartingProviderSteps` proves that
every step keeps `TypeOK` and `Control`, `RestartingProviderProofs` the rest of `IInv` and the
theorems that follow from it alone, `RestartingProviderCounts` what a step does to the numbers
of launchers, `RestartingProviderTheorems` the refinement, `NoLeak` and the counts)

| Theorem | States |
|---|---|
| `ProviderInvariant` | `IInv` holds in every reachable state |
| `ProviderTypeCorrect` | `TypeOK` |
| `ProviderExclusiveUse` | `ExclusiveUse` |
| `ProviderCleanContainers` | `CleanContainers` |
| `ProviderLaunchersMatchConfig` | `LaunchersMatchConfig` |
| `ProviderForeignUntouched` | the action property `ForeignUntouched` |
| `ProviderImplementsSandbox` | initial states and steps are those of `Sandbox`, or stutters |
| `ProviderNoLeak` | `NoLeak` |
| `ProviderCounts` | the counting invariant `CInv` |
| `ProviderShrinksOnlyByFaults` | `ShrinksOnlyByFaults` |
| `ProviderNeverMoreThanConfigured` | `NeverMoreThanConfigured` |

None of these properties is inductive. That no container is handed out twice
depends on the removal of the right container: the operation in progress has to be
the one its owner waits for, on the owner's container, and no second task of that
owner may be in the queue. `IInv` is the conjunction of

* `TypeOK`;
* `Control`: start-up works alone; the operation in progress and the tasks in the
  queue belong to requests that wait for exactly them; the lists are empty until the
  second half of start-up. Types depend on it: only ids reach the storage because
  the operation that adds has one;
* `Apart`: a container is in one position of the storage, of start-up's list, in the
  creation that has just made it, or with one request. A new container is in no place
  because its id was unused, and `Stocked` and `Lent` say that ids in places are not;
* `Stocked`: what waits to be handed out exists, has nobody's files, and has an image
  configured for its place. A delete preserves it because, by `Control`, it hits the
  owner's container, which by `Apart` is in no other place; the sweep at start-up
  because all lists are empty;
* `Lent`: a request's container has only that request's files, and the image
  remembered for the replacement is configured for its language or is empty;
* `Outside`: an unused id has no files, and the containers of others are as they were
  and neither on the list of the sweep nor in the operation in progress.

The steps that neither move nor touch a container (`Quiet`) are treated once per
conjunct. TLC checks `IInv` in `provider_faults`.

The refinement needs one more fact, `Known`, proved on top of `IInv`: the
container of a request exists when its image is asked for, so while no call has failed
the image that is remembered is not empty. A creation without an image fails without a failing
call, and would be a loss of a launcher that `Lose` does not allow; `Known` says that the
image is missing only after a failure. Each step of the provider is then matched:
`addValues` is `Supply`, `extract` is `Take`, `CreateAdd` is `Give`, the failing end of a
creation is `Lose`, other failing calls are `Fail`, and everything else stutters.

`NoLeak` and the counts need `CInv`, inductive together with `IInv`.

* `Swept`: as long as no call of this life has failed, a container that is about to be
  deleted has stopped (so the daemon does not refuse), every senjun container is on the
  list of the sweep or in the removal in progress while start-up sweeps, and in a place
  from then on. A crash makes the failures before it those of an earlier life and starts
  the sweep again, which finds every container that was left behind. `NoLeak` is `Swept`
  in the phase in which the service serves.
* `Counted`: for any set of languages, the free launchers and those with a request are at
  most as many as the slots start-up has tried to fill, and these at most as many as the
  free ones, the ones with a request that will be replaced, and the calls that have failed
  in this life. A request whose image could not be read holds a launcher that will not be
  replaced; the failing call that lost the image has paid for it. Free launchers and slots
  are sets of pairs, so that a push, a pop and a creation add or take one element, and no
  sum over the tables is needed. `ShrinksOnlyByFaults` is the case of one language,
  `NeverMoreThanConfigured` that of all of them, with `NoLeak` to say that there are no
  containers but those of the launchers.

**The server** (`ServerProofs`)

| Theorem | States |
|---|---|
| `ServerInvariant` | the inductive invariant `Inv` below |
| `ServerTypeCorrect` | `TypeOK` |
| `NoThreadSleepsOnWork` | `NoSleeperWithWork` |
| `TasksStayInOnePlace` | `OnePlace` |
| `RepliesAreNotLost` | `ReplyOnItsWay` |
| `ServiceIsDestroyedLast` | `ServiceOutlivesTasks` |

`Inv` adds three conjuncts to `TypeOK`, `NoSleeperWithWork`, `OnePlace` and
`ReplyOnItsWay`. `Stopping`: a
thread leaves only after it was told to stop, with its own queue empty, which is only
after `run` has returned; since nothing is enqueued from then on, its queue stays
empty, and when the join returns all queues are. `Using`: a request wants or has a
launcher only while its handler is in the service, so by `OnePlace` some thread executes
it. `Closed`: a connection is open only while `run` serves, so a reply made after SIGINT,
which is lost, finds its connection ended.
`ServiceOutlivesTasks` follows from both: after the join no thread executes.
`OnePlace` is the long part: a pop from any queue by any thread, own or stolen, takes the
task out of the one place it had.

**The answers** (`AnswersProofs`)

| Theorem | States |
|---|---|
| `AnswersInvariant` | the inductive invariant `AInv` below |
| `AnswersTypeCorrect` | `TypeOK` |
| `AnswersNeverOutOfRange` | `NeverOutOfRange` |
| `AnswersCodeTellsVerdict` | `CodeTellsVerdict` |
| `AnswersShowOutput` | `AnswerShowsOutput` |

for outputs of any length, any width of `size_t` that can count a message, and any choice
of scripts that print `user_code_ok`. `AInv` says of the text printed so far that it is
the program's output, followed by `user_code_ok` and the tests' output once the tests have
started, followed by the mark of the verdict, each mark with or without its line break; or
that it ends with the code of the `timeout` utility; and of an answer that it is what
`Reply` makes of that text. The rest is about strings. `find` is characterised by the least
position at which a pattern matches; a mark is found in a text at exactly the place where
it was printed, because its first character occurs nowhere else in it; a round of
`removeEscapeSequencesTender` takes out the two characters after its mark and leaves the last
five of the text alone if they are the code of the utility; hence after all four rounds a
finished script's text has its marks without line breaks, and a stopped one still ends with
its code. `AnswersShowOutput` covers every script that ended with its mark: `TestedOutput`
the ones that print `user_code_ok` where it is searched for, `PlaygroundOutput` playgrounds
of both kinds, and `UntestedOutput` chapters and practices without it, where `npos + 21`
wraps to 20 and the length wraps when the output is shorter than that. `Middle` and `Cut` give back the outputs between marks; the lengths involved
stay below `2^SizeBits`, so the differences that do wrap around are those computed with
`npos`, and `MessageOutputType` shows that they too stay inside the text.

**The configuration** (`ConfigProofs`)

| Theorem | States |
|---|---|
| `ConfigInvariant` | the inductive invariant `Inv` below |
| `ConfigTypeCorrect` | `TypeOK` |
| `ConfigServesOneFile` | `ServesOneFile` |
| `ConfigFirstEntryCounts` | `FirstEntryCounts` |
| `ConfigPoolHasThreads` | `PoolHasThreads` |
| `ConfigFeedsProvider` | `FeedsProvider`: the tables, in any order, and the numbers satisfy what `ProviderAssumption` asks of them |

for tables of any length and integers of any width. `Inv` says, at every point of
`fillConfig`, that the tables read so far have exactly the languages of the entries read so
far, each with the values of its first entry, and that all these entries were complete.
For `ConfigFeedsProvider`, a language of a table has an entry in the file, so a first one
(`LeastNumber`), and the image of that entry is one the file names. The number of threads
is covered only where the file's number fits into 32 bits, as in `PoolHasThreads`.

## What is only model-checked

* Liveness: `AnsweredUnlessDepleted`, `ServesAgain`, `EveryTaskRuns`, `ClientsAnswered`,
  `Stops`, and the fairness parts of `ImplementsPool` and `ImplementsSandbox`. Fairness
  and `ENABLED` are out of the prover's reach.
* `Requests` and `ProjectTree`: `TypeOK`, `RightLauncher`, `ContainerHoldsRequest`,
  `ProjectOwned` and `ScriptFindsFiles` of `Requests`. The traversals of a tree are
  RECURSIVE operators, and even the type of what a request becomes is the type of what a
  traversal returns; the properties compare it with a definition by positions. They need
  induction over trees, which is out of the prover's reach, as are RECURSIVE operators.
* The refuted statements.

## What is not modelled

* HTTP itself: parsing, keep-alive and pipelining. A request of the model has a connection
  of its own, and the timeout is the one that guards its handling.
* The memory orders inside `static_thread_pool`, and the scope but for its counter's
  assertion.
* `RestartingProvider` and `Config` are not composed: the tables are constants there, and
  `ConfigFeedsProvider` shows that those `Config` produces, with a pool that has threads,
  satisfy `ProviderAssumption`.
* Members of a wrong type inside a project tree, and project texts that are JSON but
  no object (bodies that are no object are modelled). `RestartingProvider` does not repeat the content of requests: there, the
  files of a request are one value, its identity.
* Logging: nothing reads what it returns, and it changes no state the service acts on.
* Running out of memory and of container ids.
