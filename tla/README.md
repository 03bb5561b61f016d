# A TLA+ verification of scorp

scorp is a Java web application skeleton with a set of libraries and a kit of React
components. This directory
models the parts of it that carry logic of their own, checks the models with TLC on
small instances and proves their main properties with TLAPS for every value of the
constants. `PROJECT.json` lists the components, the runs, the source lines each
definition stands for, the hazards of the code and the theorems.

Paths below are relative to the repository; `Guzz` is
`scorp-guzz/src/main/java/cn/studease/guzz`, `Util` is
`scorp-util/src/main/java/cn/studease/util`.

## Inventory

| Part | State it keeps | Operations | What is hard |
|---|---|---|---|
| **Alice UI components** (`ui.jsx`, under `scorp-webapp/src/main/webapp/react/alice`) | none of their own: the nodes that React keeps for them, what the user typed | render a button, an input of one of nine kinds, or a label, with properties of the caller | properties of the caller over or under the component's; patches of a node from one rendering to the next; the user and the form's reset between two renderings |
| **Ddl listener** (`Guzz/Ddl.java`) | `threads`, `enabled`, `packagesToScan`; per event the list of classes, two counters (`Index`), the threads' local variables | `onApplicationEvent`: scan, then check every class in a loop, or in `threads` threads that share the counters; publishes a `DdlFinishEvent` | threads racing on the counters; a check that throws kills its thread; overlapping events; who publishes the finish event, and whether anybody does |
| **checkEntity** (`Guzz/DdlUtil.java`, `DialectTranslator.java`, `metadata/*`) | the tables in the database, the connection pool, the metadata read, the loops | read the metadata, create the table or add columns, primary key, indexes; `executeSql` | metadata stale by the time it is used; other threads and processes on the same table; crash between two statements; failures swallowed or thrown; connections that leak |
| **Lazy caches** (`Util/CollectionUtil.java`, `Guzz/GuzzUtil.java`, `SensitivewordFilter.getInstance`) | four static `HashMap`s, `dbConfig`, `inst`, the thread-local table condition | get, compute and put if absent | unsynchronized check-then-act; an object published before it is filled; a thread-local that is never reset |
| **Sensitive words** (`SensitiveWordInit`, `SensitivewordFilter`, `RegexSensitiveWordFilter`) | a trie of maps | build, match at a position (shortest or longest), collect, replace | length returned by the longest match; one-character words; overlapping words; words that go unquoted into a regular expression |
| **Message queue programs** (`Util/mom`) | queues in the broker, unacknowledged deliveries | publish, deliver, work, acknowledge; a delay queue through a dead-letter exchange; fanout, direct and topic exchanges | redelivery after a crash; automatic acknowledgement; prefetch limits; messages to nobody |
| **Lunar calendar** (`Util/Lunar.java`) | a year table, the date converted | solar to lunar and back, festivals, cyclical names | leap months, year ends, the ends of the table |
| **Paging** (`CollectionUtil.subList`, `DefaultPager`) | none | bounds of a page, number of pages | ends of the list, overflow, unknown totals |
| **Helpers** (`DateUtil`, `NumericUtil`, `StringUtil`, `EnumUtil`) | none | sums, comparison of versions, formatting | boundaries |
| **HTTP** (`HttpClientUtil`, `HttpUtil`, `WebUtil`) | one shared connection pool (20 per route, 200 in all) | `post`, request helpers | the limits of the pool, timeouts |
| **Quartz** (`scorp-quartz`) | none that is live: the 1.8.6 service is commented out, the 2.2.1 one answers null | sample `Main` | start and shutdown of a scheduler |
| **Web application** (`scorp-webapp`, `scorp-core`, `scorp-dataaccess`) | none of its own | render a page, run one query | nothing that concurs |
| Reflection, Excel, QR code, logging, caches, HTTP samples | none | library calls | not modelled |

How they interact. Spring delivers `ContextRefreshedEvent`s to the Ddl listener. The
listener's thread, or the threads it starts, call `DdlUtil.checkEntity`, which reads
the mapping through the lazy caches, takes connections from the data source, reads
the metadata and executes the SQL that `DialectTranslator` composes. Whoever waits
for the schema waits for the `DdlFinishEvent`. The other parts do not call each other,
apart from small helpers.

What makes each part correct:

* Alice UI: a node is what a fresh rendering of the same properties would make of it,
  whatever stood there before; a caller cannot turn a component into another; a value
  that the caller gives is shown, as far as a field of its type shows it.
* Listener: one finish event per handled round, after every class of the list has
  been checked without an exception; each class taken once; no class skipped because
  another one failed; every round that meets no exception ends.
* checkEntity: a call that returns and met no failure leaves the table as the mapping
  asks, whatever others do meanwhile and whatever an interrupted start left behind;
  nothing is done twice; connections return to the pool.
* Both: the finish event means a database that conforms and threads that are done.
* Caches: what goes wrong without a lock goes wrong only in a race, and does not stay
  wrong for the calls after it.
* Sensitive words: what is found is a word of the list, no word of the text is passed
  by, none is left after the replacement, and the two filters agree; all of this only for
  the words that the code serves and for what their regular expressions mean.
* Queues: a stored task is worked on at least once where workers acknowledge, is given up
  unworked only with an auto-acknowledging worker that died, is redone only after a loss;
  workers hold no more than they asked for.
* Paging: a page is the part of the list that was asked for; the pages hold the list.

## Plan

| Step | Modules | Shows | Status |
|---|---|---|---|
| 1 | `DdlPromise`, `Ddl`, `DdlProofs` | the listener, its abstract promise, refinement; proofs of all safety properties | done |
| 2 | `DdlUtil`, `DdlUtilProofs` | checkEntity with concurrent callers, failures and crashes; proofs of all its safety properties | done |
| 3 | `DdlSystem`, `DdlSystemProofs` | the two composed; the composition implements `Ddl`; proofs that the finish event means a database that conforms and threads that are done | done |
| 4 | `LazyCaches`, `LazyCachesProofs` | `getFromMap`, `getDbConfig`, `getInstance` by threads without a lock; proofs | done |
| 5 | `WordPattern`, `SensitiveWords`, `SensitiveWordsProofs` | trie, matching, collecting and replacing against the list of words; proofs of all its properties | done |
| 6 | `TaskPromise`, `TaskQueue`, `TaskQueueProofs` | acknowledgement, redelivery, dead letters, crashes; at-least-once as specification; proofs of all its safety properties | done |
| 7 | `AlicePromise`, `AliceUi`, `AliceUiProofs` | the components, React's patches, the browser and the user; refinement; proofs | done |
| 8 | `Paging` | `subList` and `getTotalPages`, proofs only | done |

What is left is under "Not modelled".

## Modules

**`DdlPromise`** is what a listener for the finish event may rely on: in a round every
class goes from unchecked to checking to checked (or threw) at most once, and the event
is announced at most once, when all are checked. No loop, thread or counter occurs.

**`Ddl`** is `Ddl.java`. `handler[ev]` and `cursor[ev]` are the thread that delivers
event `ev` (the loop of lines 56-59, or the loop that starts threads, 69-93);
`worker[ev][t]` and `index[ev][t]` are the `run()` of thread `t` (72-91);
`entityIndex` and `threadIndex` are the two counters, each `get()` atomic because it is
synchronized. A check is one step here that returns or throws. `threads`, `scanning`
and `classCount` are chosen initially and never change: the setters are called by
Spring before the context is refreshed. A round is an event; rounds share nothing but
the configuration, so that two rounds may overlap as two threads deliver two events.
One event of the model is delivered once, with or without a parent context.

**`DdlUtil`** is `checkEntity` and all it calls. A call has a program counter with one
step per JDBC call: the connection, the four metadata queries (`Database`, `Table`),
then for each addition a connection, each statement, the close. Between any two steps
other callers move, and `Crash` ends all calls of the process and keeps the database.
The database is external: a table is its columns, whether it has a primary key, and
its indexed columns; `Applies` and `Effect` say when a statement succeeds and what it
does, and a statement that does not apply fails and is logged (`executeSql` catches
it). SQL text is not modelled; the statements that `DialectTranslator` composes are
(`GetCreateTableSql` ... `GetAddPrimaryKeySql`), with the case that the created table's
key is named after the property and not the column (`pkProp`), and the Oracle key. The
loops over columns and indexes visit their elements in any order, which includes the
order of the list. `hurt[c]` and `upToDate[c]` are history: whether a JDBC call failed
for a reason of its own during the call, and whether the table had all of the mapping
when it began.

**`DdlSystem`** composes them: each call of `checkEntity` that `Ddl` takes as one check
is a call of `DdlUtil` by the same thread; `Enter` and `Leave` are the call and its
return or exception. `classes` is the scanned list: a class may stand in it twice,
because `packagesToScan` is scanned package by package with sub-packages and nothing
removes duplicates. `impaired` is history: the rounds in which a call met a failure.

**`SensitiveWords`** is the filter of sensitive words. `AddWord` is one word of the loop
of `addSensitiveWordToHashMap`: a map of the trie is named by the characters on the way
to it (`nodes`), and `ends` are the maps with `isEnd = "1"`. `MatchFlag` and
`CheckSensitiveWord` are the walk from a position; `Take` and `Skip` are the iterations
of `getSensitiveWord` that find something and nothing; `Replace` is one word that the
iterator of `replaceSensitiveWord` gives, in any order; `ReplaceThrows` is one that does
not compile, and `Return` ends the call. `IsContainSensitiveWord` is the filter by regular
expression, which of an empty list matches anything. The replacement is one character that
stands in no word (in a text it may). `covered` is history: the positions that the walk has
cut out. `Servable` names the words that the code can do justice to: a match of one
character counts as none (line 204), so that it serves no word of one character and, with
the shortest match, none that begins with one.

**`WordPattern`** is a word read as a regular expression, since neither
`SensitivewordFilter.java:133` nor `RegexSensitiveWordFilter.java:23` quotes it.
`java.util.regex` is external, and modelled as far as the words of `src/sensitive.txt` need
it: of the characters with a meaning they have the dot (lines 54-68 and 241), the bar (5444,
四大扯|1个) and the backslash (853, in front of a letter that is not ASCII, so that the
pair stands for the letter). `Matching` are the alternatives of a word that match at a position, `Width`
what the first of them takes, `ReplaceAll` the loop of `String.replaceAll`, as a recursive
function of the position (`Rest`). A word is replaced by as many characters as it is long,
whatever it matched. `Plain` (in `SensitiveWords`) names the words without such a character,
which are matched where they stand and nowhere else.

**`AliceUi`** is `ui.jsx`: `Element(component, given)` is the React element that a
component renders for the properties it is given, which `Assign` puts before or behind
its own as in the tag (`{...this.props}` in front or at the end). A container (as those
of `index.html`) holds nothing or one component with its node: the type, class and value
the browser has. `Render` mounts a node or, over the same component, patches what differs
between two renderings (`Patch`, after `_updateDOMProperties` of the vendored React 0.13)
and then sets the value that is given (`Update`, after `componentDidUpdate` of
`ReactDOMInput`). `EditText` is the user and React's answer to the change event, which is
to set a given value again; `PressReset` is the browser's reset of a form, of which React
hears nothing. `reset` is history. A node has the `value` of a text field that was written
to (`dirty`) beside its attribute, and `Shown` is its `node.value`. What a browser keeps of
a text depends on the type of the field: a date that is none, or a number with letters, is
emptied. `Sanitised`, a constant operator, stands for that, so that the theorems hold whatever the browser
does, and `ValueIsKept` says that a field shows the given value or what its type keeps of
it. (What a user sees of a number half typed, for which `node.value` is empty, is not
modelled.) A file input shows the user's file and no value of the caller's; writing one throws in
the middle of React's update. `AliceUiAssumption` therefore has the callers give none to
what is of type file, an `InputFile` or a `Button` with that type; and they pass types of
HTML only. Properties other than
type, className, class and value pass through and are left out. "OK" and "Cancel" stand
for the two captions of ui.jsx:116-126. **`AlicePromise`** is a page that shows in every
container what was last rendered there, and a given value until the form is reset; it
has no nodes and no patches.

What the model copies though a reader may not expect it: the caption of an `InputSubmit`
or `InputReset` is overridden by `value: undefined`; a `Button` takes the caller's type;
the `Label` shows the text `$value` (ui.jsx:142, not interpolated).

**`TaskQueue`** is the two task queues of `Util/mom`: `NewTask` with `Worker` and `Worker2`,
and `DelayQueue` with `Consumer`; `program` says which one runs. Tasks are numbered in the
order of `basicPublish`. A task is on the `wire` to the broker, in the `delay` queue (until
it expires and is dead-lettered), in the `queue`, or `out` with a worker whose
acknowledgement the broker waits for; at a worker it is in the `buffer` of
`QueueingConsumer` or in its `hand`. `pc` is the place in the worker's loop, between
`nextDelivery`, `doWork` and `basicAck`. The broker and its client are external: the first
task of a queue goes to any connected worker that `basicQos` has room for (with automatic
acknowledgement it has no effect), what a lost connection holds is put back, the disk is
written at moments of the broker's choice (nothing waits for a confirmation), and a restart
returns to it. `channel.close()` waits for the broker. The deliveries in a buffer are taken
in any order. Workers, connections, publisher and broker may fail between any two steps; a
worker goes on with its buffer when its connection is lost, until `basicAck` throws.
`works`, `stored`, `deaths` and `losses` are history. **`TaskPromise`** is what the broker's
disk promises: a stored task is worked on before it is given up, unless nobody
acknowledges.

**`LazyCaches`** is what threads compute on first use and share without a lock. `stage` is
a thread's place in its call: in `getFromMap`, `containsKey`, `run` (the callback), `put`,
`putting`, `get`; the callbacks of `getTable`, `getDialect` and `getDbGroup` call
`getBusiness`, so that `at[t]` is the map worked in and `target[t]` the one asked for. A key
is a class name with a table condition. `HashMap` is external, that of Java 7 (the target
of the pom): alone it is a map; during a put the others may miss any key; puts that cross
may lose keys and leave a ring, in which an access may go round for ever (`Loops`).
`getDbConfig` has a step for each read and write of the field: assign empty `Properties`,
read the field again, load, catch; `getInstance` likewise. The steps of one field are
taken to be sequentially consistent, which the coherence of a single variable gives; that
an object is seen as its constructor left it is assumed. `excused`, `filled`, `crossed`,
`failed`, `built` and `together` are history: whether there has been a race.

**`Paging`** has the two functions as operators on Java's `int`, and their theorems.

**`DdlProofs`, `DdlUtilProofs`, `DdlSystemProofs`, `SensitiveWordsProofs`, `TaskQueueProofs`,
`LazyCachesProofs`, `AliceUiProofs`** hold the theorems. **`MCDdl`, `MCDdlUtil`, `MCDdlSystem`,
`MCSensitiveWords`, `MCTaskQueue`, `MCLazyCaches`, `MCAliceUi`** give TLC its instances. Definitions named `Mut...` are deliberately
broken variants of the action or operator that follows them (an increment undone by a
race, a check of the metadata left out); each property is shown to fail on one of them
and so to say something about the code.

## Runs

| Run | Instance | Shows |
|---|---|---|
| `ddl_rounds` | 2 events, loop or 2 threads, 0-2 classes; and 1 event, loop or 3 threads, up to 3 classes; fair | `TypeOK`, `FinishMeansChecked`, `NothingLeftBehind`, the inductive invariant `IInv`, refinement of `DdlPromise`, `RoundEnds` |
| `ddl_log` (violation) | as `ddl_rounds` | the number of active threads that `Ddl.java:85` logs counts threads that died |
| `ddl_util` | 2 callers, 1 table, 2 columns, 5 mappings, 2 connections, 1 failure, crashes | `ReturnedMeansConforms`, `UpToDateIsQuiet`, `LostOnlyByMetadata`, the inductive invariant `IInv` |
| `ddl_oracle` (violation) | Oracle mapping, no failures | no statement adds the primary key that `DdlUtil.java:195` announces |
| `ddl_system` | 1 event, loop or 2 threads, 0-2 classes over 2 tables, 1 connection, 1 failure; fair | `FinishMeansConforms`, `FinishMeansQuiet`, the invariant `SystemInv`, `SystemRoundEnds` |
| `sensitive_words` | all lists of up to 3 words of 0-3 letters, all texts of 0-5 letters, 2 letters; all words of 0-3 characters out of a letter, `.`, `\|` and `\` beside a plain one, also with texts of up to 3 characters that spell them | `TrieHoldsWords`, `FiltersAgree`, `ShortestAreWords`, `NothingPassedBy`, `CollectedAreGone`, `LeftOnlyByOverlap` |
| `sensitive_length` (violation) | the same lists and texts of letters | the longest match returns a length that is that of no word |
| `sensitive_replace` (violation) | up to 3 words, all of 2 letters | after the replacement a word is left |
| `alice_ui` | containers, components, properties and texts of `MCAliceUi` | `DomIsFresh`, `NameIsKept`, `ValueIsKept`, refinement of `AlicePromise` |
| `alice_class` (violation) | the same | the class that `ui.jsx` gives to the inputs never reaches the node |
| `task_queue` | 2 workers on each of the two queues, 2 tasks, 2 losses; fair | `PrefetchBound`, `RedoneOnlyAfterLoss`, `NothingForgotten`, the inductive invariant `IInv`, refinement of `TaskPromise`, `EveryTaskIsWorked` |
| `lazy_caches` | 2 threads, 2 classes (1 known), 2 maps; or 3 threads on `dbConfig`, or on `inst`; fair | `LoneLookupAnswers`, `ComputedOnce`, `EmptyOnlyWhileLoading`, `SingletonWithoutRace`, `CallsReturn` |

Each run also checks the type invariant of its module where it has one.

**Bounds, and why they are enough.** Two threads and two classes already race for the
first class, the last class and the last count; three threads and three classes add a
thread that dies between two that go on. Rounds interact only through the database, so
two show every interference of `Ddl`. One table with two columns (its key and another)
in every initial state, from absent to complete, covers every combination of things
missing; two callers are enough for one to be overtaken between reading and adding,
since statements on a table commute except for the one that adds the same thing.
`MaxFaults = 1` puts a failure at each JDBC call in turn; a pool of one connection in
the composition makes two threads wait and one leak exhaust it. `MaxClasses`,
`ThreadSettings`, `PoolSize` and `MaxFaults` are the only bounds of the first three
modules. For the sensitive words, `MaxWords`, `MaxWordLength` and `MaxTextLength`: three
words of three letters over an alphabet of two are prefixes of one another, overlap in
every way two words can, and leave a third uncovered; five letters of text hold two that
overlap, with a rest. Three characters hold a bar between two alternatives, an empty
alternative, a backslash in front of each other character and a pair of them;
`MaxPatternText` bounds the texts that spell such words. For the components, `MCAliceUi`
has one of each kind that differs by more than a word of a table, with each property given,
given as undefined or not given; a number field stands for all that sanitise. Three threads, or three classes, come in one round only, and of two
tables of the composition the second is absent at first: the larger products add no new
kind of step. For the queues, `MaxLosses = 2`: two losses hit a task twice (a worker dies
with it, then the broker restarts from an older disk), two tasks are enough for one to
overtake the other and for the prefetch of 1 to be reached; the prefetch of 3 is not
reached with two tasks, and is proved for all. For the caches, two threads on two keys
make puts cross, lose and recompute; three threads on a field put an assignment between
another's assignment and its load while a third one returns; calls repeat without a bound. Deadlock is
not checked in these runs: a listener without events, a finished round, a list of words
without texts, workers that nobody starts and threads in a ring legitimately stop.

**Fairness.** Weak fairness of each thread (`HandlerStep`, `WorkerStep`, and in the
composition the thread with the call it is in): the JVM runs every runnable thread, and
JDBC calls return or time out, `getConnection` on an empty pool included (it throws and
the code answers null). In the task queues, of the broker's steps (`Accept`, `Expire`, and
for each worker `Deliver`, `AckArrives`) and of the loop of each running process; nobody
has to start a worker, and the broker need not write its disk. In the caches, of each
thread that is in a call. No event, call, rendering, failure or crash is ever obliged to
happen.

**Findings.** (1) The active threads logged at `Ddl.java:85` count threads that have
died of an exception, and once one died the finish event is never published.
(2) `DialectTranslator.java:182`: on Oracle the `add constraint` statement is built,
then `" disable"` is put into the list in its place, so that a table without a primary
key stays so. (3) With the longest match `CheckSensitiveWord` returns the number of
characters the trie could follow, not the length of the longest word: of the words ab and
abcd, the text abc is cut at 3. (4) `replaceSensitiveWord` replaces the words one after
the other in the order of a `HashSet`, each over the whole text: of the words aa, ab and
ba, the text baaab becomes b\*\*ab, and keeps ab. (These are letters; that words are read as
regular expressions plays no part.) (5) The inputs of `ui.jsx` are written with
`class="..."`, which this React does not know (`react.js:1672`): no input has its style,
and a hidden one is not hidden by its class.

What the model shows beside: `checkEntity` reports nothing of a statement that failed
(it is logged), so that a finish event proves a conforming database only for rounds
without such a failure (`impaired`); a failure of a metadata query costs the pool one
connection (`DdlUtil.java:147-149`), and a failure of `getPrimaryKeys` alone is taken
for a table without a key. The comments at `SensitivewordFilter.java:166` and `:203`
speak of words of one character; line 204 rejects them, and the two filters disagree on
such words and on those that begin with one (`Servable`). They disagree, too, on words with
a dot, a bar or a backslash, of which the list has eighteen: the trie takes them as they are
spelled, the regular expression does not; and `replaceAll` may leave a word with a backslash
where it is, replaces what no word stands at for one with a dot or a bar, and with a bar
changes the length of the text. `FiltersAgree`, `CollectedAreGone` and `LeftOnlyByOverlap`
say that it goes no further than these words. A reset leaves fields that show another value than the one their
component was given (`ValueIsKept` ends there). The broker may lose a task that was
published and that it had not written yet, as nobody waits for a confirmation.
`getDbConfig` keeps empty `Properties` for good after one failure; `subList` returns the
whole list for a page behind its end.

## Proofs

The theorems about the listener (`DdlProofs`) hold for any set of events, any number of classes and
any thread settings, from `DdlAssumption` (`MaxClasses \in Nat`, `ThreadSettings \subseteq Int`) alone.

* `TypeCorrect`: `Spec => []TypeOK`, action by action.
* `Inductive`: `Spec => []IInv`. `FinishMeansChecked` is not inductive: it does not know
  why the last thread to count itself may publish. `IInv` adds, for the loop, that all
  classes below `cursor` are checked and all above untouched (`LoopInv`); for the pool,
  that all classes up to `entityIndex` have been claimed, that each class being checked
  is held by exactly one thread and that a class whose check threw has a dead thread
  (`ClaimInv`), and that `threadIndex + 1` is the number of threads that ran to their
  end (`CountInv`), so that the one that makes it `threads` is the last, is alone, and
  no thread has died. The step is proved for the round that moves, loop and pool apart
  (`LoopStep`, `PoolStep`), and carried over to the others by `OtherRound`,
  `StepBeside`.
* `FinishCorrect`, `NothingSkipped`: `FinishMeansChecked` and `NothingLeftBehind`, from
  `IInv`; `CheckedWhenFinished` is the counting argument.
* `Refinement`: `Spec => ImplementsPromise`. Each step of `Ddl` maps to a step of
  `DdlPromise` or to a stutter, under the identity mapping of the three variables they
  share.
* `SystemImplementsListener`: `SystemSpec => Spec`; the composition takes only steps of
  the listener or steps that leave it alone. `SystemFinishCorrect` and
  `SystemNothingSkipped` follow without looking into `checkEntity` again.

Those about `checkEntity` hold for any callers, tables, mappings, pool and number of
failures and crashes, from `DdlUtilAssumption`: there is an entity, and the columns of a
mapping are among the names and include its key, which `getCreateTableSql` names as
one of the columns it creates.

* `DdlUtilProofs!Inductive`: `Spec => []IInv`. No property of a call is inductive by itself,
  since other callers change the table between what the call reads and what it does.
  `IInv` says that what was read is still true (`MetaInv`), which holds because a step only
  adds to a table, and that whatever the mapping asks for is in the table, or in the loop's
  `todo`, or among the statements about to be executed (`CreateInv`, `AddInv`). A step of
  a caller is shown to keep the caller's own part (one lemma per JDBC call) and, by
  `OthersStep`, everybody else's. `PoolInv` counts the connections.
* `TypeCorrect`, `ReturnedCorrect`, `QuietCorrect` and `LostCorrect` follow; so does
  `TablesOnlyGrow`, that no step takes anything from a table, on which `MetaInv` rests.
* `SystemImplementsCheckEntity`: in the composition `[]IInv` of `DdlUtil` holds, from
  `DdlSystemAssumption`, and so does `SystemInv`: only a thread that checks a class is inside
  `checkEntity`, for the entity of that class (`ThreadInv`), and a class that was checked in
  a round without a failure conforms (`CheckedInv`). (`SameModule` shows that the instance
  of `DdlUtil` that the proofs speak of is the one that `DdlSystem` is built from.)
* `FinishConforms`, `FinishQuiet`: `FinishMeansConforms` and `FinishMeansQuiet`, end to end,
  from the counting argument of `Ddl` and from `SystemInv`.

Those about the sensitive words hold for any alphabet, lists and texts, from
`SensitiveWordsAssumption`: words and texts are sequences, the replacement character
stands in no word, and no word ends in a backslash that quotes nothing (of
`src/sensitive.txt` both are true).

* `TrieCorrect`: `Spec => []TrieHoldsWords`, without the assumption even. The invariant is inductive with `pending \subseteq words`: a word that is
  added leaves `pending`, and brings its prefixes and its end.
* `ShortestCorrect`: `Spec => []ShortestAreWords`. With the shortest match `matchFlag`
  is the minimum of the ends on the way, which exists because the ends are a nonempty
  set of natural numbers (`MinMember`, by well-foundedness), so what is cut out is an
  end of the trie (`ShortestEnds`), and by `TrieCorrect`'s invariant a word.
* `SensitiveWordsProofs!Inductive`: `Spec => []IInv`. The properties of searching and
  replacing are not inductive: they speak of the end of a loop. `IInv` says what each of them
  has come to at a turn: the trie is whole once it is used (`PhaseInv`), what is collected is
  spelled by the trie and has two characters (`FoundInv`), no word that the trie serves
  begins in front of `i` that does not share a character with one that was cut out
  (`PassedInv`), and each run of characters of the result that no replacement wrote stands
  somewhere in the text (`RunsFrom`), none of the words that were replaced already is in it
  unless it has a backslash, and if all are plain, only their occurrences have changed
  (`ReplacedInv`).
* The lemmas it rests on are about the operators. `CheckMissesNone`: where a word of the list
  begins, `CheckSensitiveWord` answers something, though it rejects one character, since
  the trie follows every prefix of the word. `CheckSpells`: what it answers is spelled by the trie.
  `replaceAll` looks for its next match behind the last one, which `Rest` defines as a
  recursive function; that there is one is proved without induction over an operator: of the
  positions from which on there were none, the last leads to a contradiction (`RestIsScan`). A match that takes
  characters writes at least one replacement, and one that takes none writes them between
  two characters, so that what stands between two replacements stood together before
  (`RestCopies`). Hence no word comes into being, as a replacement character is in none. A
  word without a backslash always matches where it stands, up to its first bar at least, so
  that an occurrence that survived would have been copied across a match
  (`LiteralNotCopied`). A plain word matches only where it stands (`PlainMatches`).
* `TypeCorrect`, `FiltersCorrect`, `PassedCorrect`, `CollectedCorrect` and `LeftCorrect` follow.
  The last says how far the fourth finding goes: a word that is left stood in the text, was
  not collected unless it has a backslash and shares a character with one that was cut out;
  no replacement makes one.

* `AliceUiProofs`: `TypeCorrect`, `DomCorrect`, `NameCorrect`, `ValueCorrect` and `Refinement`,
  for any containers, offers of components and texts and any `Sanitised`, from
  `AliceUiAssumption` (undefined is neither a component nor something that a user types; types
  are those of HTML; no value is given to a file input). What a node was patched from is the last
  rendering, so that a patch of what differs is as good as a mount.
* `TaskQueueProofs`: `TypeCorrect`, `NeverForgotten`, `RedoneCorrect`, `PrefetchCorrect` and
  `Refinement`, for any workers, programs and number of losses, from `TaskQueueAssumption`. `NothingForgotten` is
  not inductive; `IInv` adds that a task is in one place at the broker (`OnePlace`), that what
  a worker holds is out with it as long as its connection lives and that what it
  has acknowledged is worked on (`LinkInv`), and that what was stored and is held still is on
  the disk, so that a restart brings it back (`DiskInv`). `RedoneOnlyAfterLoss` bounds how often
  a task is worked on, of which one state knows nothing: `CopyInv` counts beside it the
  copies of the task that are yet to be worked on (`Copies`: at the broker, in a buffer,
  in a hand). Deliveries and looking at them move a copy, work uses one up, and only a loss
  makes one more, as the broker puts back what a worker still holds. `PrefetchCorrect` follows since
  what a worker sits on is among what is out with it, or shrinks once its connection is lost.
* `LazyCachesProofs`: `TypeCorrect`, `LoneLookupCorrect`, `ComputedOnceCorrect`, `ConfigCorrect` and
  `SingletonCorrect`, for any threads, maps and keys, from `LazyCachesAssumption`. The
  invariant says that a lookup that is not excused is the only one that puts into its maps
  (`LookupInv`), that only a crossing loses keys (`PutInv`), that the field is not null from
  the first assignment on (`ConfigInv`) and that first calls that have not met come one
  after the other (`FilterInv`).
* `Paging`: `PageCorrect`, `BehindTheEnd`, `OverflowThrows`, `PagesCoverTotal`, `PagesOfNothing`,
  for every list size, start, limit and total of Java's widths.

Only model-checked: the liveness properties (`RoundEnds`, `SystemRoundEnds`,
`EveryTaskIsWorked`, `CallsReturn`), which need fairness and `ENABLED` and are out of the
prover's reach. Every safety property that a run shows is a theorem. The theorems that
take an operator as a parameter, those of induction among them, cannot be instantiated
here; no proof needs one.

## Not modelled, and why

Of the modelled parts: the scan of the class path (its result is a choice); the text of
SQL, names and data types (a type or default that cannot be translated is:
`untranslatable`); the `DdlException` of `DialectTranslator` for a dialect it does not know
(lines 33, 47, 71 and 87), which ends a call before its first statement; `getParallel`, since `setParallel` assigns its parameter to itself and
`parallel` stays false; tables that another program alters or drops meanwhile; a primary
key other than the mapped one; which database a table condition left behind by `isOracle`
leads to, since nothing says what a later call is to see; a null or a wrong value that a
callback returns and `getFromMap` caches (`CollectionUtil.java:36-39`), as a map is the set of
its keys; the reading of the word list, which `SensitiveWordInit.java:115-124` joins without
a separator and splits at a full-width comma that `src/sensitive.txt` does not have, so that
with the file as it is the list is one long word (any list is covered); attributes of the components
that only pass through.

* Lessons 3 to 5 of `Util/mom` and `Mq.java`: programs that publish one message to an exchange
  or print what comes, without acknowledgement or storage; whatever could be said of them
  is a property of the broker's exchanges.
* `Lunar`: one call of bit arithmetic over a table of 200 years, with no other calendar in
  the repository to compare it with (line 122 looks wrong: it gives every leap month 29
  days).
* `DateUtil`, `NumericUtil`, `StringUtil`, `EnumUtil`: pure functions over the Java library.
* HTTP: one request per call; its pool is the library's.
* Quartz: commented out, or answers null. The web application: handlers without state.
* Reflection, Excel, QR code, logging, caches, HTTP samples: single library calls, stubs and
  copies of examples. Scripts other than `ui.jsx` and the parts of React that its nodes
  depend on are vendored.
