# TLA+ models of the Grinder documentation tools and example scripts

This directory holds TLA+ models of the parts of this repository that have
state, ordering or concurrency worth model checking. They cover:

- the outline/changelog-to-XML builder under `src/documentation/etc/`;
- the example Jython scripts under `src/grinder/` whose worker threads share
  state.

Each model is checked with TLC.

## 1. Inventory

### Documentation converters (`src/documentation/etc/`)

| Component | State | Operations | Interactions |
|---|---|---|---|
| `ElementStack` (changes2xml.py 9-39) | `_data`: the open tags. It is a **class attribute**, shared by every instance. | `open`, `ensureOpen`, `perhapsClose`, `close`, `depth` | Each returns markup that the caller appends to `_result`. `ensureOpen`, `perhapsClose` and `close` raise `IndexError` on an empty stack. |
| `XMLOutput` (42-106) | `_stack` and `_ids` are class attributes shared by every instance. `_forceParagraph` and `_result` belong to each instance. | `__init__`, `addLine`, `addLiteral`, `closeToDepth`, `openSection`, `result`, `uniqueID` | Driven line by line by the three converters. |
| `quote` (109-123) | none | Strips the newline, escapes `& < >`, wraps URLs, rewrites bug/request numbers as links. | Applied to every line before classification. |
| `findRelease` (126-150) | the git repository | Runs `git tag` and `git log` as subprocesses. | Gives `changes2xml` the section id and date. |
| `changes2xml` (153-177) | the loop | Per line: skip `-` lines. A line starting in column 0 is a release heading (`closeToDepth(1)`, `openSection`). Any other line goes to `addLine`. | Uses `XMLOutput("changes")`. |
| `outline2xml` (outline2xml.py) | the loop | Per line: skip `-*-`. A `*`…-line is a heading (`closeToDepth(depth)`, `openSection`). Any other line goes to `addLine`. The command line converts several files in one process. | Uses `XMLOutput("todo")`. |
| `scripts2XML` | none | `Script.__init__` extracts the title from the leading comment lines. `addLiteral` is called per script. | Uses `XMLOutput("scripts")`. |

Hard behaviour in these converters:

- Which element a line lands in depends on how several things combine:
  - the pending-paragraph flag;
  - the order in which `perhapsClose` tries its tags;
  - what `closeToDepth` leaves open.
- Two XMLOutput objects in one process share the element stack and the id
  table.
- There are off-by-ones between the heading depth and the stack depth, which
  includes the top-level element.
- `IndexError` is raised on an empty stack.

Correctness properties for the converters:

- The stack never underflows.
- The markup is validly nested.
- Headings close the sections of equal or greater depth.
- Section ids are unique and depend only on the document.
- Consecutive list items form one list.
- A quoted line closes a dangling list item.

### Example scripts (`src/grinder/`)

Grinder runs `TestRunner.__call__` once per run in each worker thread.
Module globals are shared by the threads of one worker process. Jython has no
global interpreter lock.

| Script | Shared state | Concurrency | Properties |
|---|---|---|---|
| `sync.py` | `waiting` and `checkpointReachedForRun`, under a `Condition` | All threads meet at a checkpoint in every run. The last thread to arrive resets the count and calls `notifyAll`. Waiters re-test the condition in a `while` loop, and spurious wake-ups are possible. | Nobody passes before everyone has arrived; the count stays consistent; everyone finishes. |
| `jmsreceiver.py` | `self.messageQueue`, under `self.cv`, shared by the worker thread and the JMS delivery thread; the one connection, shared by all worker threads | `onMessage` appends and calls `notifyAll`. The worker waits while the queue is empty and pops ten messages per run. The sessions of all threads compete for the queue's messages. | No pop from an empty list; no message lost; every run completes; a run records only its own messages. |
| `scriptlifecycle.py` | the global `totalNumberOfRuns`, unlocked, and each thread's `runsForThread` | Threads do an unlocked read-modify-write of the global. | The global counts every run; each log line's total covers the thread's own runs. |
| `jmssender.py` | none of its own | Each worker sends ten messages per run to the queue the receiver reads. | It is the message source of the receiver model. |
| `jdbc.py` | per-run connection and statements, and the table shared by all processes | `try`/`finally`. `queryStatement` is never assigned. Every process drops and creates the table at import. | The query follows every insert; the initialisation of one process survives another's. |
| `src/grinder/contrib/mq/mq.py` | one `MQMsg` and one `MQConnector`, shared by all threads | `init`/`SendMessage`/`GetMessage`/`finish` of different threads interleave. | The connector is initialised while in use. |
| `parallel.py` | none | Assigns each thread number to a script. | The 50/25/25 split its comment states. |
| `sequence.py` | none | Calls the scripts of the `scriptN` properties in `TreeMap` order. | Every script once per run, in numeric order. |
| `ejb.py` | one stateful session bean per run, on the server | Any remote call may raise and end the run. | Every bean is removed when its run ends. |
| `httpg2.py` | the parsed, sorted tests; each TestRunner's `iteration` | Parses `grinder.test<n>.*` at import; each run calls `doTest` on every test in order. | Tests run in numeric order; no page file is overwritten, even after a request raised; every failure is reported. |
| other examples (HTTP, RPC, mail) | none of their own | They make straight-line calls into external client libraries. | nothing to check |

`PROJECT.json` lists each component with its status. Its hazard list gives,
at the line where it bites, everything in this code that is hard to test.

## 2. Plan

The most important behaviour is modelled first.

1. **`XMLOutput`** *(done)*. `ElementStack` and `XMLOutput` as pure
   operators on a record of the builder's state. These are the shared core
   of the three converters.
2. **`Outline2Xml`** *(done)*. The outline2xml loop, including the
   command-line loop over several files.
3. **`SyncBarrier`**, with the abstract spec **`Barrier`** *(done)*. The
   implementation is shown to refine the abstract barrier with
   `INSTANCE ... WITH`.
4. **`JmsReceiver`** *(done)*.
5. **`ScriptLifecycle`** *(done)*.
6. **`Changes2Xml`** *(done)*. The changes2xml loop over `XMLOutput`, with
   `findRelease` as a lookup whose answer is a tag or `None`.
7. **`Quote`** *(done)*. `quote()` at character level, checked against an
   independent XML reader.
8. **`JmsReceiver` with the `jmssender.py` worker** *(done)*. The sender's
   runs feed the queue the receiver consumes.
9. **`Scripts2Xml`, `Jdbc`, `Parallel`, `Sequence`, `Httpg2`, `Ejb`**
   *(written, not yet in the checked runs)*. See section 5.
10. **`JmsReceiver` with several receiver threads** *(done)*. The threads'
   sessions compete for the messages of the one queue.
11. An outline input class for a line made only of `*` (the `IndexError` at
    outline2xml.py:17).

## 3. Modules

### XMLOutput.tla: ElementStack and XMLOutput (changes2xml.py)

The builder's state is a record:

- `data`: `ElementStack._data`.
- `result`: `_result`, as a sequence of events: open with attributes,
  close, text, or `<br/>`. The characters, the XML header and the
  word-separating spaces are left out.
- `force`: `_forceParagraph`.
- `ids`: the keys of `_ids`.
- `failed`: an `IndexError` has escaped.

Each method is an operator from a state to a state. Every `ElementStack` call
site appends the returned markup to `_result` at once, so the append is part
of the operator. A line's text is abstracted to its class (blank, item, quote,
plain). Titles and identifiers are sequences: a base name followed by the
numbers that `"%s-%d"` appends. This way a title that literally reads `A-1`
collides with the suffixed id of `A`, as the strings do. `perhapsClose(("li"))`
is modelled as what Python does with it: it iterates the characters `l`, `i`.

### Outline2Xml.tla (outline2xml.py)

Variables:

- `xo`: the current XMLOutput.
- `phase`: reading or printed.
- `docs`, `lines`: bounds.
- `last`: the class of the last line. This is history, used only by a
  property.

Actions:

- `ModeLine` (`-*-`).
- `Heading(depth, title)`: `closeToDepth` then `openSection`.
- `Content(kind)`: `addLine`.
- `EndOfFile`: `result()`.
- `NextFile`: a new `XMLOutput` on the shared class state.
- `Exit`: the process ends.

### SyncBarrier.tla and Barrier.tla (sync.py)

Every path from `c.acquire()` to `c.release()`/`c.wait()` touches only state
guarded by `c`, so each is one atomic step:

- `Arrive` covers `acquire`, `waiting += 1`, the last thread's branch, and
  the `while`/`wait`.
- `Reacquire` covers a woken thread re-acquiring and re-testing.
- `SpuriousWakeup` is a wake-up without a notify.
- `EndRun` covers logging, sleeping and the next run.

`Barrier.tla` is the promise. Each thread is before, at or past the
checkpoint of its run, and `Pass` requires all other threads to have reached
it. `SyncBarrier` maps `pc` to that phase and checks `B!Spec` as a property.

### JmsReceiver.tla (jmsreceiver.py)

The worker threads `Receivers` of one process are modelled, each with its
own TestRunner (`messageQueue[t]`, `pc[t]`, ...) and, while a run is in
progress, its own session on the connection the script starts at import.
`OnMessage(t)` is `onMessage` on the delivery thread of t's session: the
provider hands each queued message to one of the open sessions. A message
is represented by the run in which it was delivered.

The sender of `jmssender.py` is part of the same module. `SenderStartRun`
is the session, sender and message set-up; `Send` is one `sender.send`
(a message joins `queued`); `SenderClose` is `session.close()`. `OnMessage`
takes a message off `queued`. `MaxMsgs` is what the sender's runs send in
all.

`CloseSession` leaves the additional messages in `messageQueue`, which is
why `jms_leftover` fails. `jms_stranded` (`JmsReceiver_stranded.cfg`, two receiver threads, one run each, four
messages sent for the four the runs read) violates `AllRunsComplete`. One
thread's session receives three messages and the thread finishes with one
left in its own `messageQueue`, while the other waits forever on an empty
one.

### Ejb.tla (ejb.py)

`Create` is `home.create()`, `Call` one of the sell, sell, buy and
getBalance calls, and `Remove` is `trader.remove()`. `Raise` is a
`RemoteException` from any of those remote calls. `__call__` has no
`try`/`finally`, so the run ends there and the bean stays on the server.
`Ejb_leak.cfg` finds `NoBeanLeaked` violated after one failed call.

### Changes2Xml.tla (changes2xml.py 153-177)

Variables are `xo`, `phase`, `docs` and `lines`, as in Outline2Xml. The
actions are:

- `DashLine`: a line starting with `-`.
- `Release(name, rel)`: `closeToDepth(1)`, then `openSection` with the tag
  (or `"id"`) as identity and the tag's date. `rel` ranges over
  `FindRelease`: a tag with its date, or `(None, None)`.
- `Content(kind)`: `addLine`.
- `EndOfFile`, `NextFile` and `Exit`: as in Outline2Xml.

### Quote.tla (changes2xml.py 109-123)

A string is a sequence of one-character strings. `SubAll(s, MatchLen,
Repl)` is `re.sub`: it scans left to right and replaces each match, never
rescanning a replacement. Each rule of `quote` is a `MatchLen`/`Repl` pair:

- the newline and the three entities;
- the URL rule;
- the long (6+ digit) and short (1-5 digit, with the `(?!\d)` lookahead)
  bug and request rules.

`QuoteLine` applies them in the code's order. `Read` is an independent XML
reader: it decodes entities, tracks `<a href="...">` links and fails on
malformed markup. The properties compare `QuoteLine`'s output with what
`Read` makes of it. The inputs are every line of up to four words taken
from `& < ' " blank # Bug request 1 11111 http://`.

### Httpg2.tla (httpg2.py)

A test's properties are abstracted to which of them are set: post data, a
content-type header, an ok string, the authentication properties, a
description. `Raises` is the all-or-none authentication check that makes
the import fail. `G2HTTPTest` is the parsed test, and `SortedTests` is the
sort of `tests.items()` by the integer test number. `Init` chooses the
properties of every test and `logHTML`.

`DoTest(page)` is one `doTest`. The server's page is empty, contains the
ok string, or does not. `Error` is the code's `error` expression, and the
outcome records whether the test succeeded, the file the page was written
to (named by iteration, test number and description) and whether the
error was logged. `RequestRaises` is `request.GET` or `request.POST`
raising: the exception leaves `doTest` and `__call__` before
`self.iteration += 1`, and Grinder starts the next run, so `runs` (the
runs Grinder started) and `iteration` part. `EndRun` is
`self.iteration += 1`. `Httpg2_overwrite.cfg` finds `NoPageOverwritten`
violated: after a raising request the next run names its pages with the
same iteration and overwrites the first run's page. The sleep, header
values and connection defaults change nothing a property reads.

### ScriptLifecycle.tla (scriptlifecycle.py)

`totalNumberOfRuns += 1` is split into a read (`ReadTotal`) and a write
(`WriteTotal`). `CountAndLog` is `self.runsForThread += 1` plus the log line.
`ScriptLifecycle_log.cfg` finds `LoggedTotalCoversOwnRuns` violated. A
thread's late write of a lost update makes the other thread log
`runsForThread=2, totalNumberOfRuns=1`.

## 4. Runs

| Run | Result | What it shows |
|---|---|---|
| `outline_core` | pass, ~660k states | All outlines of ≤5 lines are converted without `IndexError`. Depths are 1-3, and the titles are `A`, `A-1` and empty. The markup is validly nested, section ids are unique, and consecutive items share one `<ul>`. |
| `outline_two_files` | pass | Two files in one process: the shared stack is empty when the second file starts. |
| `outline_skipped_levels` | **violation** | `** a` followed by `** b` nests b inside a. The same happens after a skipped level. The spec says an equal-depth heading closes the section. |
| `outline_quote_in_item` | **violation** | `- item` followed by `> quote`: the `<br/>` is written inside the `<li>`, because `perhapsClose(("li"))` gets a string. The spec says the item is closed. |
| `outline_ids_across_files` | **violation** | A title used in file 1 gets a suffixed id in file 2 (in TLC's trace the empty title, whose id becomes `-1`; `A` would become `A-1` the same way), because the class-level `_ids` is shared. The spec requires a table per document. |
| `sync_barrier` | pass | Three threads, three runs, with spurious wake-ups. The checkpoint refines `Barrier`, `waiting` always counts exactly the current round's waiters, and every thread finishes (liveness). |
| `jms_receiver` | pass | One receiver thread, two messages per run over three runs, with exactly six messages sent. The worker never pops an empty list, and every run completes. |
| `jms_leftover` | **violation** | A third message delivered in run 0 is recorded in run 1. The comment says it is discarded. |
| `jms_stranded` | **violation** | Two receiver threads of one run each, four messages sent for the four they read: one thread finishes with a message left in its own `messageQueue` while the other waits forever. |
| `lifecycle_lost_update` | **violation** | Two interleaved `+= 1` leave `totalNumberOfRuns` at 1. |
| `changes_core` | pass, ~72k states | Two files of up to five lines in one process, with `findRelease` returning either of two tags or `None`. There is no `IndexError`, the markup is validly nested, releases are never nested in each other, and section ids are unique. |
| `quote_core` | pass, ~31k states | For every line without a double quote, `quote()` yields well-formed markup. For every line, the text an XML reader gets back is the line without its newline (up to blank runs). |

Every property of a passing run has a mutant in `PROJECT.json`: a plausible
bug in the code it is about, for which TLC finds the property violated. The
mutants include:

- a dropped `while` re-test;
- a missing `notifyAll`;
- `for f in sys.argv:` instead of `sys.argv[1:]`, which converts one file
  too many (the type invariants of the converters);
- a missing reset;
- an off-by-one in `closeToDepth`;
- a single-suffix `uniqueID`;
- a wrong `perhapsClose` tag list;
- a release heading that does not close the previous release first;
- escaping `<` before `&`;
- the short reference rule without its lookahead.

### Bounds

Why the bounds are enough:

- **Outline.** Five lines and depths 1-3 reach every pair of heading levels
  and every two-line combination of line classes after a heading. The titles
  `A`, `A-1` and empty hit the collision and the dropped-attribute cases.
  Each violation needs only two or three lines.
- **SyncBarrier.** Three threads are the fewest in which a woken thread of
  round r, a thread already in round r+1 and the last arriver can all
  coexist. Three runs let a round follow an overlapped round.
- **JmsReceiver.** Three runs of two messages allow leftovers to cross a run
  boundary twice. The sender sends exactly the messages the receiver needs,
  so a lost message is visible as a hang. `jms_receiver` has one receiver
  thread; `jms_stranded` has two, and two threads of one run each are the smallest case in which one
  thread's session takes a message another thread needs.
- **Changes2Xml.** Five lines over two files reach a release after lists,
  paragraphs and another release, and a second document on the shared
  class state. Two tags and `None` make two untagged releases share the
  identity `"id"`.
- **Quote.** Four words combine each rule with each neighbour: a reference
  after a URL, an entity inside a URL, a 5- and a 6-digit number, `#`.

### Fairness

- **SyncBarrier and JmsReceiver.** There is weak fairness on each thread's
  own steps, because JVM threads that can run eventually do. There is weak
  fairness on delivery, because the provider delivers the messages that are
  sent. Spurious wake-ups get no fairness: they may happen, but are never
  relied on.
- **Converters.** They are sequential, so only safety is checked.

## 5. Not modelled, and why

- **Characters and formatting** of the output: the XML header, spacing and
  `print`. No property depends on them.
- **The git subprocesses of `findRelease`.** Only its result is modelled:
  a tag with its date, or `None`.
- **Modules written but not yet in the checked runs.** `Scripts2Xml.tla`
  (scripts2XML.py), `Jdbc.tla` (jdbc.py), `Parallel.tla` (parallel.py),
  `Sequence.tla` (sequence.py), `Httpg2.tla` (httpg2.py) and `Ejb.tla`
  (ejb.py) parse and have
  their own configurations, but no run in `PROJECT.json` checks them yet;
  `PROJECT.json` maps their definitions to the code. Their passing
  configurations are `Scripts2Xml.cfg`, `Jdbc.cfg`, `Parallel.cfg`,
  `Sequence.cfg` and `Httpg2.cfg` (tests run in numeric order). The `.cfg` files `Scripts2Xml_empty.cfg`,
  `Jdbc_query.cfg`, `Jdbc_init.cfg`, `Sequence_order.cfg`,
  `Httpg2_silent.cfg`, `Httpg2_overwrite.cfg`, `Ejb_leak.cfg`,
  `ScriptLifecycle_log.cfg` and the `Quote_*.cfg` files state the
  disagreements they show:
  - a script with no empty line raises `ValueError`;
  - `queryStatement` is never assigned;
  - two processes initialising at once make one `create table` fail;
  - with ten or more scripts, `TreeMap` runs script10 before script2;
  - in httpg2.py an empty page fails a test that has an ok string without
    writing the page or logging the error;
  - a failed remote call in ejb.py leaves the run's session bean alive;
  - in httpg2.py a request that raises skips `self.iteration += 1`, and
    the next run overwrites the page files of the failed one;
  - a scriptlifecycle.py log line can report fewer total runs than the
    thread's own;
  - a URL followed by `"`, `Bug #1`, and an apostrophe in a heading give
    broken markup or links.
- **mq.py.** All threads share one `MQConnector`, but what it does with
  interleaved calls is defined by the external MQ library, not by this
  repository.
- **The other example scripts** (http, form, cookies, fba, digest
  authentication, scenario, statistics, slowClient, amazon, xml-rpc,
  jaxrpc, email, httpunit, helloworld, console, threadrampup). Each run
  makes a fixed sequence of calls into an external client library. The
  scripts keep no state across runs or threads of their own, so a model
  would hold nothing but the library's behaviour, which spec.md puts out of
  scope. The one hazard of their own, email.py's transport left open when a
  call raises, is listed in `PROJECT.json`.
- **The external libraries** (HTTP, JMS provider, JDBC driver, MQ, EJB,
  mail). The examples only call them. Where a library's behaviour matters
  (JMS delivery, `session.close`), the documented contract is modelled.
- **Several worker processes.** The globals of `sync.py` and
  `scriptlifecycle.py` are per process, so one process is modelled.
