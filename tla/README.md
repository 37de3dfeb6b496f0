# daap-log in TLA+

daap-log is the Data Analytics and Application Profiling library of an HPC site:
applications link `libdaap_log` and log messages and job markers, which go over
TLS to a Telegraf client on the node, from there to Telegraf aggregators, and to
Fluentd, whose plugin turns them into metrics. This directory holds TLA+ modules
of the library, of the plugin and of the scripts around it, the TLC
configurations that check them, and TLAPS proofs about every modelled component.
All line numbers refer to the sources next to this directory.

## Inventory

| Component | State | Operations | What is hard |
|---|---|---|---|
| TLS transport, `src/daap_tcp.c` | globals `sslctx`, `cSSL`, `sockfd`, `write_mutex` | `daapInitializeSSL`, `daapTCPConnect`, `daapTCPLogWrite`, `daapShutdownSSL` | threads that share one connection variable; failures between any two calls; reference counts; the descriptor table is shared with the application |
| Library life cycle, `src/daap_init.c` | `daapInit_called`, `daapRank_zero`, `init_data`, `init_mutex`, `finalize_mutex` | `daapInit`, `daapFinalize`, `daapSetRank`, Fortran wrappers | flag read without the lock; state set after the unlock; calls after `daapFinalize` |
| Log calls, `src/daap_log.c` | none of their own | `daapLogWrite`, `daapLogRawWrite`, `daapLogHeartbeat`, `daapLogJobStart`, `daapLogJobEnd`, `daapLogJobDuration` | use `init_data` and the transport concurrently |
| Host name lookup, `src/daap_init.c:40-133` | a growing buffer | `daap_gethostname` | C libraries differ in what they do with a name that does not fit |
| Message text and line format, `src/daap_log.c:82-108, 275-301`, `src/daap_log_internal.h` | message and line buffers of a call; `print_mutex` and the static buffer of `deformat` | measure, format, `daapBuildInflux`, `daapBuildRawInflux`, `DEBUG_OUTPUT`, `ERROR_OUTPUT` | two passes over arguments that may change; a 2048 byte line buffer against 8096 byte messages; a static buffer read after it is returned |
| Standard output parser, `src/stdout_parser.c` | templates, current table, columns | `parseKeyTemplate`, `parseTableTemplate`, `parseResults` | fixed arrays, state kept between lines, blank lines, results used as formats |
| Fluentd plugin, `plugins/.../out_daap.rb` | `@jobs` | `process` | dispatch by what a text includes, exceptions that end a batch, per job maxima, expiry that an early return skips |
| Fluentd routing, `plugins/.../appdata-sn.conf` | none | the rewrite rules of `daap_parsed` | metric names repeated as patterns, the first match decides |
| Launch scripts, `scripts/daap-launch` | `servers`, the configuration files, the agents on the nodes | `launch_telegraf`, `kill_telegraf` | rounding for small jobs, shared files, ssh in the background against `killall` |
| Telegraf configuration, result upload tools, metric API, empty library, `test_logger.c` | none or external | | sequential, stubs or configuration |

How they interact. The application's threads call `daapInit`, the log calls and
`daapFinalize`. `daapInit` calls `daapInitializeSSL` and, for rank 0 of a job
that is not decoupled, `daapLogJobStart`; every log call ends in `syslog()` or in
`daapTCPLogWrite`, which opens a connection, writes one line and closes it;
`daapFinalize` calls `daapLogJobEnd` and `daapShutdownSSL`. The shutdown is also
what a failed handshake calls, from inside a write. The collector reads a
connection to its end: the lines carry no terminator.

What makes each component correct:

* transport: at any time one thread owns the connection; a line goes out whole,
  alone on its connection and at most once; a line that failed is not taken up
  again; every call returns; descriptors are closed, and only the library's own;
  freed OpenSSL objects are not used;
* life cycle: `init_data` is populated before any thread uses it; a
  process sends one start and one end marker; memory is not used after it is
  freed; every call returns;
* parser: rows are read for the table whose headers were printed, each value goes
  out whole and under its name, key lines outside tables are not lost (where a
  percent sign or a blank template line spoils this, the properties say so);
* message text: no buffer is overrun, what was cut does not pass for complete, a
  diagnostic is the thread's own;
* plugin: a batch goes out once and complete, a text under its own code, one job's
  maximum is not another's, old jobs are forgotten; every metric has a rule;
* launch: every client has an aggregator, a quarter of the nodes aggregate, and
  which Telegraf can outlive the job;
* host name: the result is terminated, and complete as far as the code can tell, and
  a name is refused only when it does not fit the largest buffer.

## Modules

`DaapTcp.tla` is the transport. A step is one library or system call: between
two of them another thread, the application or the collector may act. The
variables `write_mutex`, `sslctx`, `cSSL` and `sockfd` are the globals of
`daap_tcp.c`; `ctxRefs` is OpenSSL's reference count of the context; `fds` is the
descriptor table of the process, shared with the application's own files; `tpc`
and `line` are each thread's position and argument; `carried`, `network` and
`received` are the data on the open connections, on closed ones, and at the
collector. `leaked`, `hsFails`, `writes`, `submitted` and `shutting` record
history for the properties; no guard that models code reads them, except that a
line is handed over once so that lines can be told apart. The actions follow the
code from top to bottom:

| Action | Code |
|---|---|
| `daapInitializeSSL` | `daapInitializeSSL()`: context made or left NULL |
| `daapTCPLogWrite`, `LockWrite` | entry of `daapTCPLogWrite()` |
| `Socket`, `Connect`, `SSLNew`, `Handshake` | `daapTCPConnect()` with each error path |
| `daapShutdownSSL`, `ShutdownCtx`, `ShutdownNotify`, `ShutdownFree` | `daapShutdownSSL()`, from `daapFinalize()` or from a failed handshake |
| `SSLWrite`, `Close`, `UnlockWrite`, `ConnectFailed` | the rest of `daapTCPLogWrite()` |
| `AppOpen`, `AppClose`, `Reap`, `Receive`, `Lose`, `CallerFault` | the application, the kernel, the collector, the network |

`LogChannel.tla` is the abstract specification: every line is new, pending, sent,
lost or delivered, and moves forward only. `DaapTcp` implements it under the map
`Status`.

`DaapLib.tla` extends `DaapTcp` with `daap_init.c` and `daap_log.c`. A step is
what a thread does between two points where another thread can interfere. The
host name lookup is one step that succeeds or fails. With `Disciplined` the
application keeps to the README of the library (each thread calls `daapInit`
first, `daapFinalize` is called once, last, with no other call in progress);
without it threads call anything at any time.

`Hostname.tla` is the loop of `daap_gethostname()`, over what C libraries do with
a name that does not fit: fail, leave an empty string, or truncate with or without
a terminator. A name that is cut and terminated ends one byte before the place where
the code expects a cut, so it is returned as if it were complete; the comment at
`src/daap_init.c:43-46` allows a truncated result, the one at line 73 takes it for
whole.

`LogText.tla` extends it with what a log call does with text. A text is its length;
of a message the place of its first quote is kept as well, because
`daapBuildInflux()` puts the message between quotes and escapes nothing in it, so
that this quote ends the string for the collector. What follows such a quote may not
read as a field or a time; `Accepted` takes every such line as accepted, which is
the worst case for the properties. A line is how many bytes `snprintf()` left of its
parts: tags, message, closing quote and time. The identity in the tags is the name
`Hostname` found and the cluster's. Writers measure, format and build concurrently,
the arguments may change between the two passes, and every diagnostic goes through
`print_mutex` and the static buffer, of which each source file has its own: these
are those of `daap_log.c`. The life cycle and the transport are in `DaapLib` and
left out here.

`OutDaap.tla` is `process()` of the plugin and the rules its metrics meet next. A
batch is a sequence of items, texts of codes and children of Telegraf events; an
item becomes the names of its metrics, is skipped, or raises. A text has a first
name with the character after it, the texts of branches it includes, its parts, and
the value of a part called `metric`, which the code stores over the metric of the
branch (lines 145-150, 262-267, 294-298). A first name that the branch does not take
off is a part without a value and raises, unless a blank after it makes it one with
the first pair. `jobs` is `@jobs`,
with ages instead of times; `Tick` is the clock. One action each handles an item
(`Push`, `PushMem`), an exception (`Raise`), the early return (`ReturnEarly`) and
the emission with the expiry (`Emit`). `Route` is the list of rewrite rules.

`Launch.tla` is both versions of the launch script, a node at a time:
`LaunchAggregator` or `LaunchClient`, then `JobEnd` with the order in which the
job script removes the files, then `Kill`. `Arrive` is an ssh that reaches its node
at any later time, or fails. The ssh of `Kill` can fail as well, and the loop does
not look at its result (`telegraf_run.sh:96`); `missed` and `unreached` record which
nodes a `killall` came too early for, and which it did not reach.

`StdoutParser.tla` is the stdout parser. A line is what the parser can find in it:
headers, columns, captured strings. There is one action for each kind of template
line and for each way through the loop of `parseResults()`; the history variable
`input` holds the lines read, and the properties compare what was sent with what
those lines and the template say. What a template says is read off the file and
not off the arrays: a table line begins a table unless it stands inside one
(`Starts`, `Open`), the lines up to its end line are the table's (`Section`), and
the k-th line of a kind is the one with k - 1 of them above it (`Rank`, `Nth`). The
value separator is one blank, as in
`templates/vpic_runout_gr0023-1_table_template.tmpl`; values have at least two
characters. `line_len` is used uninitialised: the newline is removed or not, or
the program faults. Leaving an array makes the program `"undefined"`. A blank line
of a template makes the code look at the character before the line, and may make it
write there: the line is without effect, or the program `"undefined"` (`BlankEntry`,
`KeyEntry`). `sendResult()` uses the text it sends as a format: with a percent sign
in it the value is `Garbled`, whatever it becomes, and the program may fail.

The theorems are in `DaapTcp_proofs.tla`, `DaapTcpChannel_proofs.tla`,
`DaapLib_proofs.tla`, `LogText_proofs.tla` (with the host name lookup),
`Launch_proofs.tla`, `OutDaap_proofs.tla`, `StdoutParser_proofs.tla` and
`FlattenTheorems.tla`, which is about sequences only. `MCTcp.tla`,
`MCLib.tla`, `MCParser.tla`, `MCText.tla`, `MCPlugin.tla` and `MCLaunch.tla` are the
instances for TLC. The definitions under
"Faulty variants" in each module are plausible slips in the code; each property
was checked to reject one of them.

### What is assumed

* An OpenSSL call is one atomic step. The blocking socket makes `SSL_write` write
  the whole line or fail; partial writes are not enabled by the code. A return of
  0, which the code repeats, changes nothing and is a stuttering step. A return of
  0 from `SSL_connect` is taken for success, as the code does.
* An SSL object holds `SSLRefs` references to its context: 2 in OpenSSL 1.1 and 3
  (`ctx` and `session_ctx`). `SSL_set_fd` does not make the object own the
  descriptor (`BIO_NOCLOSE`).
* A use of freed memory makes the process `"undefined"`, and nothing is said of
  what follows except that the kernel closes its descriptors. `exit(2)` and a NULL
  dereference make it `"stopped"`.
* Reads and writes of the unlocked flag `daapInit_called` are sequentially
  consistent, as on the x86 machines the library is built for; the C standard
  calls the access a data race.
* The message level, `agg_val`, the start time and the text of messages are not
  tracked: nothing checked here depends on them. A line is identified by the call
  that wrote it, its kind and its rank tag.
* `fopen("/dev/null")` is one step, the measuring with `fclose()` another; between
  them the thread holds a descriptor, which the application does not close.
* The collector reads a line by the influx line protocol: a tag without a value, or
  a field without its closing quote, makes it refuse the line. Messages without a
  newline are meant; a newline would end the line for it.
* Fluentd calls `process()` from one thread (`multi_workers_ready?` is false) and
  drops a batch whose call raised. Of an event only what `process()` tells apart is
  kept: the rows of one child that differ in their type are one row, `samples` is
  left out since `samples % 1` is always zero, and the message of a child is not at
  once a marker and a mesh report.
* A Telegraf that starts reads its configuration in the same step in which ssh
  arrives. An address is found or not, and when found is the node's own.
* The application passes the same messages to at most `MaxCalls` calls per
  thread; the collector is whatever reads the port.

## Runs

| Run | What it shows |
|---|---|
| `tcp_safety` | Two threads, three lines, two descriptors. `OwnConnection`: the globals are private to the holder of `write_mutex`. `OneLinePerStream`, `NoLineTwice`: lines are not mixed, cut or repeated, whatever fails and whenever the process stops. `DescriptorAccounting`: exactly the failed attempts leak a descriptor. `UndefinedOnlyAfterFailures`: when freed memory can be used, and not before. `AppDescriptorsKept`: the library closes only its own. `ImplementsChannel`: refinement of `LogChannel`. |
| `lib_documented` | Two threads with three calls each that keep to the README, for three values of the rank variable, coupled and decoupled, over TCP: `JobBracketed`, `DocumentedUseIsSafe`, and `OnlyLeaksExhaust`: the write that finds no descriptor, and faults, finds the table full of failed connections, files of the application and one descriptor for each other thread that measures or sends; a write that is over has left none. |
| `lib_any_client` | Two threads with any two calls each, over syslog and TCP, with raw writes, as rank 0 and rank 1: `ReadyBeforeUse` without any discipline of the callers; `NoCircularWait`, that of the threads in the library one waits for no mutex, though `daapFinalize()` logs with one held, and that the holder of `init_mutex` waits for nothing; and `UsesTransport`, that every behaviour of the library is a behaviour of `DaapTcp`. So what is checked and proved of the transport holds in the library, however it is used. |
| `lib_liveness` | `ApiCallsReturn`: every call returns or the process stops, as long as no thread stays in a network call for ever. `HangSparesInit`: even if one does, `init_mutex` is released. |
| `log_text` | The constants of the code. Names around the buffer sizes tried (257 bytes, up to 8 doublings), messages around the lengths at which a line loses its time, its quote, its end, and around `DAAP_MAX_MSG_LEN`, with and without quotes at these places. `CutOnlyWhereUnseen`, `GivesUpOnlyOnLongNames`: the lookup; a cut name is returned only where the C library has hidden the cut. `FormattedInBounds`: the message buffer holds though arguments change between the passes. `AcceptedIsWhole`, `FalseTimeOnlyAtTheEdge`: a line the collector accepts has its whole message, or all of it up to its first quote, and, except in a window of 20 lengths or above it with a quote in the message, its time. `DiagnosticsAreOwn`: the static buffer. |
| `plugin` | Every batch of one and two items out of 44 that between them take every way through `process()`. `EmitsWholeBatches`: the metrics of a batch go out complete and in order, or, when one of its items raises, not at all; it is about the loop, and takes what one item becomes from the code. `NoTextUnderAnotherCode`: dispatch by inclusion, and the two ways in which it does misfile a text. `MaxIsMax`, `SilentJobsForgotten`: the job table. `TelegrafMetricsArrive`: the rules. |
| `launch` | Jobs of one to six nodes, both scripts, every random choice, every delay and failure of an ssh: `ClientsHaveAggregators`, `QuarterAggregates`, `OrphansWereLate`. |
| `parser` | Every results file of up to five lines made of ten kinds of line, against eight table templates, one with a table line inside a table and one with a blank line, and a missing one, and key templates with and without a blank line: `RowsFollowHeaders`, `RowsArePaired`, `KeysNotSwallowed`, `HeadersBounded`, and `UndefinedOnlyBeyondLimits`, which inputs make the program leave its arrays or fail. |
| `tcp_context_freed`, `lib_rank_race`, `parser_second_table`, `plugin_routing` | Expected to fail: see Findings. |

Bounds. Two threads are enough for every conflict here, which is between the
holder of a mutex and one other thread, or between `daapFinalize` and one writer.
Three lines let a thread write, fail and write again while the other writes. Two
descriptors let the table fill up after one leak and one file of the application;
the run with any client uses one. The liveness run has only `daapInit`,
`daapSetRank` and `daapFinalize`: the log calls in it are the markers the first and
the last send, with and without a mutex held. A failed handshake needs two
predecessors to exhaust the references, which three lines allow. The parser's
arrays are shrunk to two tables, headers, columns and keys and four values, so
that templates and rows at and beyond each limit fit in five lines: headers, rows,
the end of a table and a row that follows a longer one. Two items are enough for
one to spoil the other's batch; the job table is exercised over any number of
batches, with two jobs and 30 minutes as one tick. Six nodes are the fewest with
two aggregators and clients of both that share files; one and two nodes are the
edges of the rounding. Symmetry over
threads (and lines in `MCTcp`) is used where no temporal property but a safety
property is checked; the liveness run has none.

Fairness. `FairSpec` of the library asks for weak fairness of each thread's steps
inside the library, except in a network call: a thread that can run, runs. It asks
nothing of callers, the application's files or the collector. `connect`,
`SSL_connect`, `SSL_write` and `SSL_shutdown` have no timeout, so `ApiCallsReturn`
states as its hypothesis that no thread is left in one of them for ever, and
`HangSparesInit` does without it. Weak fairness is enough for the mutexes because
each thread makes finitely many calls (`MaxCalls`), so the mutex is eventually free
for whoever waits; the code does not promise more, since `pthread_mutex_lock` is not
fair. `FairSpec` of the plugin asks only that time passes; that batches keep coming
and keep being emitted is the hypothesis of `SilentJobsForgotten`, without which it
is false: a stream of batches with nothing to emit never expires anything.

Deadlock is checked in `plugin`, which runs for ever, and not in the other runs:
a process, a results file and a job really end. That no thread waits for ever is
what `ApiCallsReturn` says; that the mutexes alone never stop all of them is
`NoCircularWait`, checked and proved (`MutexesAreHandedOn`).

## Proofs

A theorem holds for every value of the constants that the named assumption of the
module allows: `TcpAssumption`, `LibAssumption`, `HostnameAssumption`,
`TextAssumption`, `LaunchAssumption`, `PluginAssumption`, `ParserAssumption`. They
say what the constants are (sets, sizes, tables) and little more; TLC evaluates
them on the instances. What a theorem assumes beyond them is a hypothesis in its
statement. Each invariant below was checked by TLC on the instance of its run, and
each is proved with one step per action.

### Transport, `DaapTcp_proofs.tla` and `DaapTcpChannel_proofs.tla`

For any threads, lines, number of descriptors and `SSLRefs` above zero, of
`SpecTcp`:

| Theorem | Property |
|---|---|
| `TypeCorrect` | `TypeOK`; in particular the reference count never goes below zero |
| `ConnectionsAreOwned` | `OwnConnection` |
| `StreamsAreLines` | `OneLinePerStream` |
| `UndefinedIsExplained` | `UndefinedOnlyAfterFailures` |
| `DescriptorsAreKept` | `AppDescriptorsKept` |
| `DescriptorsAreAccounted` | `DescriptorAccounting` |
| `LinesAreSentOnce` | `NoLineTwice` |
| `TransportImplementsChannel` | `ImplementsChannel`, the refinement of `LogChannel` |

The first five rest on `Invariance`, that `IInv` is inductive:

* `IMutex`: a thread between lock and unlock is the holder, so two threads are
  never there together; every other part speaks of "the" connection because of it;
* `ISocket`: from `socket()` to `close()` `sockfd` names an open socket of the
  library, and until the shutdown starts `cSSL` is the object on it;
* `INoContext`: while there is no context there is no SSL object either;
* `IRefs`: the exact count of references to the context. Each completed write
  abandons an object and its `SSLRefs` references, each failed handshake drops one
  too many, and a shutdown in progress has given back some of them, depending on
  where it is. `UndefinedOnlyAfterFailures` is not inductive without it;
* `IStream`: what a socket has carried: nothing before the write, at most one line
  after it, and nothing on descriptors that are not sockets of the library.

The others add `IFds`, that the open sockets of the library are the leaked ones and
the one of a thread inside an attempt, and `ILines`, which says of every line in
which one place it is: with one thread before its write, on one open connection, on
one closed stream, or at the collector. With `ILines` the map `Status` is well
defined at every step, and each action moves one line forward or changes no status.

### Library, `DaapLib_proofs.tla`

| Theorem | Property | Hypothesis |
|---|---|---|
| `LibraryUsesTransport` | `UsesTransport` | |
| `LibraryKeepsTransport` | `OwnConnection`, `OneLinePerStream`, `NoLineTwice`, `DescriptorAccounting`, `UndefinedOnlyAfterFailures`, `AppDescriptorsKept`, `ImplementsChannel` | |
| `MutexesAreHandedOn` | `NoCircularWait` | |
| `FlagMeansReady` | `ReadyBeforeUse` | |
| `LeaksExhaust` | `OnlyLeaksExhaust` | finitely many threads, which are counted |
| `LibTypeCorrect` | `LibTypeOK` | finitely many threads, for the counters |
| `JobIsBracketed` | `JobBracketed` | `Disciplined`; the application sends no markers |
| `ReadmeUseIsSafe` | `DocumentedUseIsSafe` | `Disciplined` |

`LibraryUsesTransport` says that the library, however it is called, only does what
`DaapTcp` allows, so every theorem about the transport is one about the library:
`LibraryKeepsTransport` draws that conclusion, and `LeaksExhaust` uses it. The
inductive invariant is `IInv` of the transport with `LibInv`:

* `IFlag`: a thread that fills `init_data` holds `init_mutex` and the flag is still
  false; when the flag is set, the strings and the context are. The flag is read
  without the lock, so `ReadyBeforeUse` needs the order of these writes and not
  only the mutex;
* `IBuilt`: the line a thread is about to send is one of its own kind;
* `IFreed`: strings are freed and the context shut down only by a `daapFinalize()`;
* `IBelow`: a thread inside the transport is at a call of the layer above it, and
  the shutdown of `daapFinalize()` does not hold `write_mutex`;
* `IRank`: without `daapSetRank()`, the rank is the one `daapInit()` finds, or a
  thread is still between the unlock and the code that sets it;
* `INull`: a thread that measures holds a descriptor of `/dev/null` that is its own
  and no other thread's, and a thread elsewhere holds none. With `DescriptorAccounting`
  and the mutex every descriptor in use then belongs to a leak, to the application
  or to one thread inside a write, which is what `LeaksExhaust` counts.

`MutexesAreHandedOn` is what `ApiCallsReturn` and `HangSparesInit` rest on, without
their fairness and for any number of threads: of the threads in the library one
waits for no mutex, and the holder of `init_mutex` waits for neither a mutex nor the
collector (`NoCircularWait`). It needs `IHeld`: the holder of `init_mutex` populates
`init_data`, and the holder of `finalize_mutex` is in `daapFinalize()` or in the job
end message it sends. A waiter for `finalize_mutex` leads to its holder, who can
only wait for `write_mutex`; by `IMutex` and `IBelow` the holder of that is inside a
write and past the lock; the holder of `init_mutex` is not in the transport. So
every chain of waiting threads ends, for any number of them.

`JobInv` adds what the README promises the library: `IQuiet`, from the call of
`daapFinalize()` on at most one thread is in the library and sends no line but the
end marker; `IStart` and `IEnd`, which thread may still send a marker and that none
does once it is sent. `ITls` says that, as long as no handshake has failed, only
the shutdown of `daapFinalize()` frees the SSL object and finds the references it
gives back; it is the part of `DocumentedUseIsSafe` that the transport alone does
not have, since there a shutdown may come at any time.

### Host name and message text, `LogText_proofs.tla`

| Theorem | Property |
|---|---|
| `ReturnedNameIsWhole` | `CutOnlyWhereUnseen`, for any sizes and number of tries |
| `NoShortNameGivenUp` | `GivesUpOnlyOnLongNames`, with `NumTries = 8`, the code's `NUM_TRIES_FOR_NULL_HOSTNAME` (`src/daap_init.c:33`) |
| `LookupIsHostname` | `LogText` refines `Hostname` |
| `TextTypeCorrect` | `TextTypeOK` |
| `DiagnosticsNotMixed` | `DiagnosticsAreOwn` |
| `MessagesStayInBounds` | `FormattedInBounds` |
| `AcceptedLinesAreWhole` | `AcceptedIsWhole` |
| `FalseTimesAreAtTheEdge` | `FalseTimeOnlyAtTheEdge` |

For the lookup the inductive part is that the buffer in hand is as large as its
recorded length and holds what the last call put there; for giving up, that the
length after `k` tries is the first length doubled `k` times. For the text:
`IPrint` is mutual exclusion of `print_mutex` extended to the static buffer, which
holds the text of the holder; `IIdent`, that the identity is set before the first
log call; `IPasses` relates the size measured to what the second pass wrote; `ILine`
says that the line is the one built from the message and the identity, from which
the two properties of accepted lines are arithmetic on lengths and on the place of
the first quote. A writer that prints a
diagnostic counts as being where it will go on.

### Launch scripts, `Launch_proofs.tla`

For any number of nodes and either script `LaunchInvariance` proves `LaunchInv`
inductive, and from it `TypeOK`, `ClientsHaveAggregators`, `QuarterAggregates` and
`OrphansWereLate` follow (`LaunchTypeCorrect`, `ClientsAreServed`,
`AggregatorsAreAQuarter`, `OrphansAreLate`). `IJob`: the types, and the number of
servers wanted; `IRoles`: the aggregators are the first nodes, as many as `servers`
has entries, and no client is launched before the last of them; `IConf`: a client's
file exists and names the server of its index; `IKill`: on a node that `killall` has
passed Telegraf is on its way only if it was on its way then, and up only for that
reason or because the ssh did not reach it; without the files it does not come up.
The quarter is integer division with the rounding of each script, bounded on both
sides by a lemma.

### Plugin, `OutDaap_proofs.tla` and `FlattenTheorems.tla`

All invariants of `OutDaap`, for batches of any length, any items, jobs and ages:
`PluginTypeCorrect`, `BatchesAreWhole` (`EmitsWholeBatches`), `FiledUnderItsCode`
(`NoTextUnderAnotherCode`), `MaximumIsKept` (`MaxIsMax`), `TelegrafIsRouted`
(`TelegrafMetricsArrive`). The invariant: `IGathered`, what is gathered
so far is the flattening of what the items done become, and none of them raised;
`IReturned`, the same of what the last call emitted, for its whole batch;
`ISamples`, each entry of `@jobs` is the maximum of the samples recorded with it.

`IGathered` needs that flattening one more item appends its metrics, for sequences
of any length. `FlattenTheorems.tla` proves it by induction. The
library's induction theorems take an operator as a parameter, which the provers
cannot instantiate; here the induction is over a set, the numbers for which
the statement holds, and rests on the least number of a set of naturals. The same
file shows that the elements of a flattening are elements of its parts, that parts
no longer than others flatten to no more (`FlattenShorter`) and that parts related
element by element flatten to sequences that are (`FlattenPairwise`); the parser
needs the last two.

### Parser, `StdoutParser_proofs.tla`

For any templates, results files and array sizes: `ParserTypeCorrect` (`TypeOK`,
the bounds of the arrays included), `HeadersAreCounted` (`HeadersBounded`),
`RowsComeAfterHeaders` (`RowsFollowHeaders`), `KeysAreSent` (`KeysNotSwallowed`),
`LimitsExplainUndefined` (`UndefinedOnlyBeyondLimits`), `FirstTableIsPaired`
(`RowsArePaired`). These are all of its invariants.

`ParserInv` is about reading the results file.
`IDefs` and `IRows`: what the templates and the results file have filled; `IEarly`:
nothing is found before the results file is read; `ICount`: all headers of a table
are found exactly while it is the current one; `IPrinted`: for every table there are
as many lines read as headers found, in order, in which those were printed, and in
the current table only rows followed; `ISent`: what the last line led to. The
properties speak of the lines read, the code keeps only a counter per table, and
`IPrinted` is what relates the two.

`TemplateInv` is about reading the templates, and holds together with `ParserInv`.
`UndefinedOnlyBeyondLimits` and `RowsArePaired` say what the template declares; the
state has only the arrays made of it. The invariant relates them at every line:
`ITemplate`, there are as many tables as the lines read begin, and one is open
exactly where they leave it open; `IHeads`, a table without a header has no header
line among those read; `INames`, `vals_found` and the names of the first table are
those of the lines read, at their places, as far as the array has room; `IKeys`,
as many expressions are compiled as there are among the lines read. The set of
lines is not built up by recursion: `Rank` is a cardinality, and the lemmas
`RankNext`, `RankGrows`, `NthIs` and `RankEnds` say how it and `Nth` change when one
line more is read. `INames` cannot hold of a second table, since `vals_found` counts
on (see Findings); that is why the theorem is about the first.

From both, a row: the values the code copies out of the columns it split are, one
for one, those of the line (`FlattenPairwise`, column by column), and the names they
meet in the array are those declared, so that the same are skipped. A row leaves
the names only if it has more than `MaxVals` values, since the columns a table reads
have no more values than the whole line (`FlattenShorter`). A value is garbled
exactly if it or its name has a percent sign; `OutcomesAre` says that only then
sending can end the program.

### Only model-checked

* Liveness, which this prover does not do: `ApiCallsReturn`, `HangSparesInit`,
  `SilentJobsForgotten`.
* `GivesUpOnlyOnLongNames` for a number of tries other than 8: the SMT backend has
  no power of two with a variable exponent.

## Findings

* `tcp_context_freed`. A failed handshake runs the shutdown meant for the end of
  the run. It drops a reference of the context each time and frees the SSL object;
  after enough failures the next `SSL_new()` uses a freed context. The comment at
  `src/daap_tcp.c:76` says the context remains for the run. `UndefinedIsExplained`
  bounds when this can happen.
* `lib_rank_race`. `daapInit()` unlocks before it sets the rank, so another thread
  whose own `daapInit()` has returned can log a line with rank 0.
* `parser_second_table`. `vals_found` counts on from one table of a template to the
  next, so the values of the second table go out under empty names. The templates
  in the repository have one table each.
* `plugin_routing`. The plugin emits `jayenne_metrics`, the rule at
  `appdata-sn.conf:58` looks for `jayenne`, and the metric goes to `null`.

What the models also show, without a run of its own because no document promises
otherwise or because another run bounds it:

* At `daapFinalize()` the close_notify goes to a descriptor that was closed after
  the last write and may by then be a file of the application, where the comment at
  `src/daap_tcp.c:102` speaks of the peer.
* `daapFinalize()` frees the strings but resets neither pointers nor flag, so a later
  write uses them and a later `daapInit()` returns success without populating
  anything; `DocumentedUseIsSafe` is about applications that stop there.
* `daapFinalize()` does not take `write_mutex`: while another thread writes, it frees
  the SSL object and the context under it. Applications that finalize last, with no
  other call in progress, are spared.
* The result of `daapInitializeSSL()` is dropped (`src/daap_init.c:194`), so
  `daapInit()` returns success without a context, and the first write faults.
* A message is reported as truncated above 8096 bytes, but a line is cut at 2047
  without a report. Most cut lines lose the closing quote and are refused; lines too
  long by 1 to 20 bytes lose digits of their time, or all of it, and are accepted
  with a time that is false. A quote in the message, which nothing escapes, ends the
  message there for the collector, and a cut line with one can be accepted at any
  length.
* A host name that the C library cuts and terminates itself is returned as complete.
* The repository's templates have blank lines
  (`vpic_harris-8-20_table_template.tmpl:19`, `vpic_runout_gr0023-1_key_template.tmpl:82`),
  on which the parser looks at the byte before its buffer
  (`src/stdout_parser.c:157, 220`).
* A result with a percent sign, as VPIC prints in its percentage columns, is used as
  a format by `daapLogWrite()` (`src/stdout_parser.c:117`) and not sent as it is.
* A text with a part `metric=`, as in `sap,metric=xrage_metrics`, is filed under the
  metric it names; `foo a=sap,b=2`, of no known code, is filed as `sap_metrics`, since
  the blank makes `foo a` one key.
* Comments and tests of the plugin disagree with its code about single texts: the
  comments at `out_daap.rb:138` and `175` show `lap,desc=...` and
  `poisson-metrics,host=...`, which no branch takes (they look for `lap-metrics,` and
  for `poisson-metrics` with a blank); `test_out_daap.rb:66-67`, `82-83` and `300-302`
  expect no event for texts of mcatk and sap and for a Telegraf event, which the code
  emits. What one item becomes is therefore taken from the code.
* Without `SLURM_CLUSTER_NAME` the cluster tag has no value.
* A message whose measuring fails leaves the message buffer as it was on the stack.
* `out_daap.rb:397` uses the jobinfo tag that line 443 tests for: one child without
  it ends the batch. A child whose message is no marker is emitted without a metric.
  `used_percent_max` carries the current sample, not the maximum that is kept.
  The converter at `telegraf-agg.conf:1404` makes strings of all fields; a
  `used_percent` that arrives as a string raises at line 614.
* On chicoma a job of one node has no aggregator, and its client an empty server.
* After `kill_telegraf()` a Telegraf may still run on a node that the ssh of `killall`
  did not reach, and with `telegraf_run.sh` also on one that the ssh which starts it
  reached late; where the job script removes the files first, the latter is not so.
* `TELEGRAF_TMP` is made of the seconds and a number of 1 to 100 with `mkdir -p`
  (`telegraf_run.sh:18-26`), so two jobs may share it; the model has one job.

An application that follows the library's README and calls `daapLogJobStart()`
gets a second start marker unless it sets `DAAP_DECOUPLE`, since `daapInit()` has
sent one; `JobBracketed` is therefore about applications that leave the markers to
the library.

Each failed connect or handshake also leaks a descriptor
(`DescriptorAccounting` counts them), and `daapLogWrite()` faults in
`vfprintf(NULL, ..)` when none is left (`WriteOpen`). No document says
otherwise, so this is not among the runs that are expected to fail.

## Not modelled, and the plan

Not modelled, because there is no state to speak of and nothing to interleave:

* the metric API (`src/daap_metric.c`): two functions return 0 and the third copies
  a name; `metric_mutex` is never locked; the comments describe what is to come;
* the empty library, whose functions do nothing;
* `getmillisectime_as_str()`, which nothing calls, and `daapLogRead()`, a stub;
* `test_logger.c`, one of the disciplined callers of `DaapLib`;
* the result upload tools, which read files and write one socket each;
* the Telegraf configuration and the stores, sources and buffers of
  `appdata-sn.conf`, which are read by programs outside the repository.

Every invariant and action property that a passing run checks is also a theorem,
`GivesUpOnlyOnLongNames` for the eight tries of the code.
What is left is the liveness of the library and of the plugin, for more threads,
calls and jobs than the runs have.
