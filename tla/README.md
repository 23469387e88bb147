# gwebs++ in TLA+

TLA+ models of gwebs++, an asynchronous event-driven web server (one process, one
thread, an event loop over epoll, poll, select or kqueue), the TLC configurations that
check them, and TLAPS proofs about them. Every definition is translated from the C++
under `src/`; the table `map` of `PROJECT.json` names the lines each one stands for.

## 1. Inventory

| part | state it keeps | operations | what makes it correct |
|---|---|---|---|
| descriptor set, `net/fdset` | two arrays of `RLIMIT_NOFILE` entries that point at each other, a count | `create`, `add`, `remove`, getters | the arrays agree, no index out of bounds, users see a plain map |
| event loop, `net/tcp_server`, `net/listener` | listeners, connections by descriptor, `_M_must_stop`, cached time | `create`, `listen`, `start`, `on_new_connection`, `delete_connection`, `stop` | events reach the right client, no descriptor is leaked or closed twice, idle connections go, stop stops |
| selectors, `net/*_selector` | fdset, and what the kernel is asked about and has reported | `add`, `remove`, `modify`, `process_events`, `process` | process and kernel agree on what is watched, no report is lost |
| timers, `timer/`, `util/red_black_tree.h` | tree of deadlines; an iterator per connection | `add`, `del`, `handle_expired`; `insert`, `erase`, iterators | no dangling iterator, no timer early or overdue, across the wrap of the 32-bit milliseconds |
| connection I/O, `net/tcp_connection`, `net/ssl_socket`, `net/filesender` | buffers with offsets, readable/writable flags, timer, TLS state | `on_readable`, `on_writable`, `read`, `write`, `writev`, `sendfile`, `handshake` | no edge lost, nothing sent twice or skipped, always a timer while waiting |
| HTTP connection, `net/internet/http/connection` | state of `run()`, request, ranges, file, keep-alive, request count | `run`, `on_timer`, `reset`, `process_request`, `add_common_headers` | one whole reply per request, in order; nothing left for the next request |
| parsers: request line, path, headers, ranges, numbers, dates, URLs | substates and offsets | `parse...` | what the grammar says, for every split of the input |
| error pages, directory listing, MIME types, virtual hosts | tables built at start-up | `build_page`, `build`, `find`, `mime_type` | the right entry is found |
| configuration, `http/server`, `util/configuration` | tree of keys, each level sorted | `parse`, `get_value`; `create`, `load_config`, `listen` | what is written is read, what is accepted can be served |
| `main` | signal handlers | `main`, `signal_handler` | a signal ends the server |

How they interact. `main` installs the signal handlers, creates the server (which reads
the configuration, the MIME types and the virtual hosts) and calls `start()`. The loop of
`start()` waits in the selector for at most a second, dispatches each event through the
fdset to a listener (which accepts and calls `on_new_connection`) or to a connection
(`on_readable`, then `on_writable`; both call `run()`), removes and closes the descriptor
of a handler that returns false, and at the end of the batch expires timers, which also
deletes connections. Connections are indexed by descriptor and used again when the kernel
gives out the number again. `run()` calls the parsers on what has been read, looks up host
and MIME type, and sends.

There are no threads. What is hard is: the order in which the kernel reports events
and what happens to numbers reused inside a batch; arrays that handlers change while they
are walked; edge-triggered notification, which is never repeated; input that arrives in
any pieces and writes the kernel takes in part; clients that finish, reset or stall at any
point; a signal between any two steps; time passing while a batch is processed and the
wrap of its counter; integers that overflow. `hazards` in `PROJECT.json` lists these,
each at the line where it bites, with the properties that cover it or the reason none does.

## 2. Modules

| module | models | source |
|---|---|---|
| `FdTable` | abstract: what a descriptor set promises | |
| `FdSet`, `FdSetProofs` | `net::fdset`; theorems about it | `net/fdset.cpp`, `fdset.h` |
| `Readiness` | what every selector sees: inserted descriptors and what they are ready for | `net/fdset.cpp`, `tcp_server.cpp` |
| `PollSelector`, `SelectSelector`, `KqueueSelector`, `SelectorsProofs` | one selector each, on `FdSet`; theorems | `net/poll_selector.*`, `select_selector.*`, `kqueue_selector.*` |
| `TcpServer`, `MCTcpServer`, `TcpServerProofs` | event loop, listeners, epoll selector, timers, connections as the loop sees them, start-up, signals; theorems | `net/tcp_server.cpp`, `listener.cpp`, `epoll_selector.cpp`, `timer/`, `main.cpp` |
| `OrderedList` | abstract: what the timer tree promises | |
| `RedBlackTree`, `MCRedBlackTree`, `RedBlackTreeLemmas`, `RedBlackTreeProofs` | `util::red_black_tree`; lemmas about its operators, and theorems | `util/red_black_tree.h` |
| `Pipeline` | abstract: what a client may expect of the replies | |
| `Connection`, `MCConnection`, `ConnectionProofs` | one HTTP connection: `run()`, its reads and writes, plain or TLS, its socket; its inductive invariants, and the proof that it implements `Pipeline` | `http/connection.cpp`, `net/tcp_connection.cpp`, `ssl_socket.cpp`, `http/error.cpp` |
| `RangeReply`, `RangeReplyProofs` | the reply with a file or ranges, in bytes, and a file that shrinks; theorems | `http/connection.cpp`, `net/filesender.cpp` |
| `Tables`, `Positions` | sorted tables of names and the binary search they share; a helper | `http/method.*`, `net/internet/scheme.*` and the others |
| `RequestLine` | `parse_request_line()` | `http/connection.cpp` |
| `Paths` | `parse_path()` | `http/connection.cpp` |
| `Headers` | the header store and the automaton of `headers::parse()`, as operators | `http/headers.cpp` |
| `HeaderText` | the grammar of headers, stated without the automaton | |
| `HeaderParser`, `HeaderStore` | `Headers` fed byte by byte; `Headers` under calls of add and remove | `http/headers.cpp`, `headers.h` |
| `ByteRanges` | `get_ranges()` and `ranges::add()` | `http/headers.cpp`, `ranges.*` |
| `Configuration` | `configuration::parse()` and look-up | `util/configuration.*` |
| `VirtualHosts` | `vhosts`, `load_config()` as it fills it, `process_request()` as it asks it | `http/vhosts.*`, `server.cpp` |
| `MimeTypes` | `types::load()` and look-up | `net/internet/mime/types.*` |
| `DirectoryListing` | `fs::directory`, and the order of the page of `dirlisting::build()` | `fs/directory.*`, `http/dirlisting.cpp` |
| `Numbers`, `NumbersProofs` | `number::parse()` of each width and sign; theorems | `util/number.cpp` |
| `MCSelectors`, `MCRequests`, `MCTables` | instances of several of these side by side | |

A module side by side with others keeps its own variables; `running` says which of
them a behaviour is about, the others rest in a constant state. That makes one run for one
question asked of several components, and changes nothing about any of them (`MCRequests`
extends `RangeReply` and takes the others as instances). Properties
that join the parts of such a run are conjunctions of the named properties of the modules.

`TcpServer` and `Connection` are two views of one system, joined at `run()`: in
`TcpServer` a call of `run()` may do anything to the timer and the file of its
connection and return true or false; `Connection` says what it does, for one
connection, with the loop reduced to the order in which it calls it. In the same way the
parsers are behind the `script` of `Connection`, the tree behind `timers` of `TcpServer`,
and `FdSet` inside every selector.

### FdSet and the selectors

`pos`, `item`, `index` and `used` are `_M_entries[].index`, `_M_entries[].type` with
`.handler`, `_M_index` and `_M_used`; `ok` is what the last call returned. `Add` and
`Remove` are whole functions. What `malloc` leaves in the arrays is any value. The
functions index the arrays with a number the kernel gave out, so `Fd` is
`0 .. RLIMIT_NOFILE - 1`. `FdTable` is the view of the selectors: a map and a count.

Each selector is its loop: `wait` is the system call, then one action per descriptor
`process()` looks at. The handler it calls may close the descriptor or keep it, change what
is waited for, and accept a client whose number is the lowest free one; peers make
descriptors ready, and unready by nothing but the handler. `PollSelector` has poll's array
(`events`) beside the index of `FdSet`, with the entry that moves when another is removed.
`SelectSelector` has the sets (`watched`), their copy (`shown`) and the highest descriptor,
lazily recomputed. `KqueueSelector` has reading and writing as two events, each reported
once: `active` is what the kernel has to report, `batch` what one `kevent()` has, at most as
many as `_M_events` has room for (the size of the fdset), in any order.

### TcpServer

`pc` is where `start()` is: `listening` (inside `server::create`), `starting`,
`waiting` (in `epoll_wait`), `dispatching` a `batch`, `expiring`, `done`. `kind` is the
fdset, `open` what the kernel has under each number, `edge` the edges pending for a
socket, `timers`, `timerSet` and `node` the queue, `_M_timer_set` and the iterator
`_M_timer`, `file` the number in `_M_file`. One action is one call of a handler with
everything it does: `Accept` is `listener::on_readable` with `on_new_connection`,
`selector::add` and the timer; `Drop` is `run()` returning false, `free()` and
`selector::remove`; `Expire` is `on_timer` with `delete_connection` and the `erase`
after it. Time is the real clock; `seen` is when `_M_current_msec` was last read and
`Now` its value modulo `Modulus`, the 2^32 of the code. `client`, `armed` and
`signalled` are history. Abstractions: the `epoll_wait` timeout is a nondeterministic
return; a batch is a set, because its order is the kernel's choice; `AcceptRefused` stands
for each of the calls of `on_new_connection` that can fail.

### RedBlackTree

`tree` has the links and colours, also those of the sentinel `_M_nil`, which erasing uses as
a scratch node; `data` the keys, `erased` the free list. A call of `insert` or `erase` is a
sequence of actions, one per turn of its loops, so that what holds in the middle of a call
is visible; the two mirrored branches of each fixup are one action with a `Side`. Keys
are compared as `timer` does, by the sign of a difference modulo 2^32 (`Modulus`).
`OrderedList` is implemented with the elements in the order of the tree: an insertion
puts one element behind its equals, an erasure takes one out, nothing else moves.

### Connection

`conn` holds the fields of the connection (`conn.state` is `_M_state`, `input` the
part of `_M_in` from `_M_inp` on, `out` and `body` the output buffers with `outp` the
offset, `nrange`, `file`, `corked`, `https`, the flags `readable`, `writable`, `timerSet`).
`rx`, `tx`, `queued` and `nospace` are the kernel's: received data, how full the send
buffer is, the ready list of epoll, and the flag that makes it announce room. An action
of the process is one turn of the loop in `run()` with its system call; a client action
may come between any two of them.

Data are units instead of bytes. A request is four units: the method and the
version of its line, a header and the empty line, so any split of a request at a point
where a parser behaves differently occurs. A reply is its headers, the bytes of the
file with their offsets, the headers of a part, a footer, a page. A unit names its
request, so a byte of the wrong request, a byte sent twice or one left out shows. What
`process_request` finds for a request is in the script of the client: a `file` (with
ranges), an `empty` file, a `listing`, `unchanged` (304), `unsatisfiable` (416), or an
`error` found before anything is opened; `flaw` says where a malformed request is refused
and `keep` what `add_common_headers` concludes from version and headers. TLS keeps
what the connection sees of it: a handshake that takes input, reads that go on until
the buffer is full or the input empty (and fail at an end behind the data, which drops the
request), writes that report a record only when all of it has gone.

`Pipeline` is the specification a client can use: a prefix of the replies to what it
has asked, growing, until the server hangs up; nothing after "Connection: close".
`Connection` implements it with `said <- sent`, all that was handed to the kernel.

### Reading a request, sending a file

`RequestLine`, `HeaderParser` and `ByteRanges` receive one byte at a time; each byte is one
turn of the parser's loop with all it does. The parsers keep their substate and offsets
between calls and nothing else, so a behaviour stands for every division of the
input into reads. A byte is one of its class: letters that matter to a table, digits, the
delimiters, a control character, a printable one with no place there. Each has a grammar
or a reference beside it that reads the text as a whole: what a request line is; lines,
folds and words of headers (`HeaderText`); the pieces a Range header asks for, in integers
without a width. `Paths` resolves one path after another on one connection, in the buffer
of the length of the path. `RangeReply` counts bytes: `compute_content_length()` is its
sum of constants, and what is sent is sent by `write` and `sendfile` in any portions.

### Tables

`Configuration` is the automaton of `parse()` with its fourteen states over a tree of
sorted levels; a file is written from a tree in a layout and read back, or goes on with any
characters. `VirtualHosts` loads hosts and aliases in any order and then asks for
names and ports, as a URL and as a Host header (not as an absolute URL of HTTP/1.0 without one). `MimeTypes` reads a file through the buffer
of `fgets`: a line that does not fit goes on as a line of its own, also when it is a comment. `HeaderStore` adds and removes headers and looks for them. `DirectoryListing`
reads one directory after another, its entries in any order, into the arrays of one object,
and may fail at any of them. `Numbers` reads the digits of one number into an integer of `Modulus` values; `exact` is the number itself.

## 3. Runs

| run | bounds | what it shows |
|---|---|---|
| `Selectors` | 3 descriptors (fdset 3, two items), 2 clients of kqueue | fdset's arrays agree and it implements `FdTable`; the kernel is asked about what is inserted, in the middle of a walk too; counts of reports are exact and no event is lost, also when it has to wait in the kernel for a later batch; what stays ready is served |
| `TcpServer` | 4 descriptors, 2 clients; no listener, one address twice, two listeners; a stop; idle time 2, clock to 4 | timers and descriptors are owned by exactly one connection in use, events reach their client, no timer is overdue or early |
| `TcpServerLive` | 3 descriptors, 2 clients, clock to 7 | an idle connection is closed, a stop ends the loop, clients beyond the descriptor limit are accepted in the end |
| `Connection` | 7 scripts of two or three requests, plain and TLS, 2 requests per connection, file of 3, handshake of 2, reads of 3, send buffer of 2 | the replies are as `Pipeline` says; the server hangs up only on clients that have been answered; no state leaks between requests; no edge is lost; without TLS a timer is always set |
| `ConnectionLive` | the same, 3 requests per connection | a client that sends and reads is answered completely |
| `RedBlackTree` | 7 nodes of keys on both sides of the wrap, two of them equal; free list of 1 | in the middle of every call red-black rules and ownership of nodes, between calls iterators, `OrderedList`, every call returns |
| `Requests` | 3 bytes after 15 beginnings of a line; headers of 9 bytes; paths of 9 bytes, Range values of 9 in 8-bit arithmetic; replies of up to 3 ranges | parsers agree with grammars and references; the body has the announced length; a reply ends even if its file shrinks |
| `Tables` | 8-bit numbers of 5 characters; configurations of two levels in 5 layouts, or 5 free characters; 3 hosts; MIME files of two lines with up to 5 extensions in a buffer of 10, or 6 free characters behind 4 beginnings; 4 headers; directories of 5 entries out of 9 | what is looked up or listed is what was read |
| `TcpServerWrap` | counter of 8 ticks | **violated**: see finding 1 |
| `TcpServerEarlySignal` | one client | **violated**: finding 2 |
| `ConnectionTlsIdle` | two scripts | **violated**: finding 3 |
| `ConnectionMalformed` | two scripts | **violated**: finding 4 |

Bounds and why they are enough. In `TcpServer` a listener, a connection and one more
number that is a file, a second client or a second listener let every collision of a freed
number with a new owner occur, also within a batch. `MaxClients`, `LastArrival`, `MaxClock`
and `MaxLag` bound the environment: the clock reaches twice the idle time, so a timer is
set, replaced and expires; a lag lets deadlines pass during a batch. `Modulus` is 64 where
no wrap is wanted and 8 where it is. In the selectors three descriptors are a listener, the
one that is closed and the one that moves or is accepted in its place; under kqueue they
have up to five filters for the three places of a batch. In `Connection` the
send buffer holds two units, no more than the shortest reply with a page, and may be part
full when a reply begins, so each kind of reply is cut at every place; reads of three units
are shorter than a request and do not divide it, so requests are read in pieces and across
their border; the limit on requests is reached exactly, and in the middle of scripts of
three requests. The scripts have every kind of answer, and every sending state follows and
precedes another request. Seven nodes are enough for every case of both fixups and for
removing a node with two children whose successor is deep. In the parsers every state has
a beginning that ends in it, and the following bytes reach its successors; limits on
lengths (`RequestLineMaxLen`, `HeadersMaxLen`, `SchemeMaxLen`, `HostMaxLen`, ...) are
small enough to be met. A path of seven bytes is the shortest that leads above the root
behind a name (`a/../..`), and nine let one of its dots be encoded, or two more characters
follow. Of the two lines of a file of MIME types the first has up to three extensions, the
second competes for them with up to two, and the longer lines are cut within a word, before
a blank, or just before their end. Numbers of eight bits overflow from the third digit on, the
digits 0 and 6 of Range values give an overflow that is detected and one that is not.

Fairness. The loop of the process is one thread that never stops while it can go on: weak
fairness of its whole step, of the loop of each selector, of a step of the tree. In
`TcpServer` time passes (weak fairness of `Tick`, up to `MaxClock`); clients and signals
have no fairness. The liveness properties of `TcpServer` therefore speak of clients that
fall silent after `LastArrival`, with enough time left for their timers; `BacklogIsServed`
assumes that connections that wait have a timer (`AllTimed`), which `Connection` shows for
plain ones (`ArmedIfPlain`) and refutes for TLS (finding 3). In `ConnectionLive` the client
goes on sending and reading (weak fairness of each); it may finish after its last request,
and no timer fires, since a client that makes progress is never idle for 30 seconds.
In `RangeReply` weak fairness of the process and of the timer of an idle connection: the
reply ends or the connection does. Peers of the selectors have no fairness: the properties
are about a descriptor that is and stays ready. Under kqueue more filters may be active than
a batch has room for, again and again; `Fairness` then has the kernel report each of them
in its turn (strong fairness of the calls that report a filter), as its queue is served first
in, first out. Without it `EdgesAreTold` fails.

`CloseIsDeserved` and `AllAnswered` exclude TLS clients that have finished: `SSL_read`
is called until the buffer is full, so a close_notify behind a request fails the read and
the request with it. `CHECK_DEADLOCK FALSE` is set where bounded inputs end.

Every property of a passing run has a defect in `PROJECT.json` (an operator whose comment
begins with "Defect") that breaks it under the same configuration.

## 4. What the violations show

1. `timers::handle_expired` compares deadlines as plain unsigned numbers, the tree orders
   them by the sign of their difference. Shortly before the 32-bit millisecond counter
   wraps (every 49.7 days), connections are closed as soon as they are served.
2. `start()` clears `_M_must_stop`: a SIGTERM that arrives while the server is
   created is lost.
3. Over TLS the write that completes a reply deletes the timer which the read before it
   had set; nothing sets it again while the connection waits for its next request, so
   an idle kept-alive client is never closed. The same holds after the handshake. (Plain
   connections read once more, get EAGAIN and set it: `ArmedIfPlain`.)
4. Malformed headers are answered with an error page that may keep the connection alive,
   but stay in the input, where they are then read as a request line and answered again.

## 5. Known divergences

Met while modelling, part of the models, and without a run of their own:

- `kqueue_selector.cpp:59`: listeners are watched with EV_CLEAR, and `on_readable` accepts
  one client for each event. Of clients that connect together all but the first wait for
  the next one to connect. (`KqueueSelector` has it; epoll's listeners are level-triggered.)
- `kqueue_selector.cpp:121`: the events of a batch are dispatched by descriptor. When the
  handler of one closes the descriptor and a listener accepts a client under its number, the
  other event of the closed one calls the handler of the new one. What is checked is that this
  costs the new client none of its own edges (`NoReportIsLost`, `EdgesAreTold`), not that
  it is not called.
- `number.cpp:102`: a number counts as overflown when a step makes it smaller, which
  misses some (600 in eight bits becomes 88, larger than 60). `NumbersProofs` shows that the
  ranges of the server are small enough for this not to matter; `get_ranges()` has the same
  test, and for a file of at most a tenth of the largest `off_t` it makes no difference
  (`RangesAsAsked`).
- `connection.cpp:994`: a request line refused for its length leaves the method of the
  request before; when that was HEAD the error page goes without its body.
- `connection.cpp:1005`, `:1565`: the offset of the extension is that of an earlier segment
  or request when the file has none, and the MIME type is looked up with what is there.
- `connection.cpp:1387` and `gwebs++.conf:34`: an IPv6 literal is looked up with its
  brackets when it comes from a Host header and without when from a URL.
- `configuration.cpp:553`, `:675`: a value with a blank or a quote behind it is added there;
  when the file ends at this point, without a line end, it is added again and refused as a
  duplicate.
- `directory.cpp:117`, `:122`: an entry that compares equal to one already there is left out
  ("should not happen"), but names are compared without case: of `README` and `readme` a
  listing shows the one that `readdir_r` returns first.
- `connection.cpp:1606`: a multipart reply has a Content-Type header of its own and
  the one of the file.

## 6. Proofs

All proofs are for every value of the constants under the assumptions named in the
modules: `SizeAssumption` of `FdSet`; `TimeAssumption`, `FdAssumption`, `ConfigAssumption`,
`EffectAssumption` and `BoundAssumption` of `TcpServer`; `NodeAssumption`, `NilAssumption`,
`ModulusAssumption`, `HoldsAssumption` and `MaxErasedAssumption` of `RedBlackTree` (the nodes
are finitely many, and none is the sentinel); `WidthAssumption`,
`RangeAssumption` and `LengthAssumption` of `Numbers`; `ScriptsAssumption`,
`SizeAssumption` and `ChoiceAssumption` of `Connection` (among them: only a file is answered
with ranges, and no limit or buffer is empty); `RequestsAssumption` and `LengthsAssumption` of
`RangeReply` (the ranges lie within the file, as `get_ranges()` leaves them, and a reply has
headers); `InstanceAssumption` of `MCSelectors` (there
are descriptors, and the listener is one of them). TLC evaluates each of them in a run. The table `theorems` in `PROJECT.json` lists the results.

`FdSetProofs`: type correctness, `ArraysAgree`, `CountIsExact`,
`RemovalMovesOnlyTheLast`, and that `FdSet` implements `FdTable`. The inductive invariant
is `TypeOK`, `ArraysAgree` and `CountIsExact` together: that `_M_used++` stays inside the
array needs the count to be that of distinct descriptors not yet inserted. `CountIsExact`
and `RemovalMovesOnlyTheLast` have no run: the refinement, which has one, implies them.

### The event loop

`TcpServerProofs`: `TypeOK`, `TimersAreOwned`, `DescriptorsAgree` and
`EventsReachTheirClient`. Their conjunction is inductive once `BatchIsApart` is added: an
event whose first handler has run (`current`) is no longer in the batch, and the batch
has one event per descriptor, and outside `dispatching` both are empty. Without it a
connection closed by `on_readable` could be met again by the rest of its own event. The
descriptor half rests on one idea, stated as `Agree` with a lemma for each way the
table of descriptors changes: the lowest *free* number is given out, so it is no
listener, no socket and no file of anyone.

`NobodyIsOverdue` and `NobodyLeavesEarly` prove the action properties `NoneOverdue` and
`NoEarlyTimeout` under two hypotheses on the constants: `CounterSuffices`, the server runs
for less than the range of its counter, and `DeadlinesCompare`, the idle time and the
time of a turn of the loop are together less than half of that range. The code has 2^32
milliseconds, 30 seconds of idle time and turns of about a second; so the second always
holds, the first for 49.7 days. The run `TcpServerWrap` does without the first, and finding 1
is what happens. The invariant is `OnTime`: the queue is never further behind the clock
than one turn of the loop, and a timer holds the time it was armed plus the idle time
(`Timed`). The deadlines in the tree then lie within less than half the range of each
other, so the sign of their difference orders them as the times do (`BeforeIsLess`): that
the leftmost timer has not expired says it of all the others (`NothingOverdue`), which is
what carries `Timed` through the next wait.

### The selectors

`SelectorsProofs` proves the invariants `WatchedAsInserted` and `NoReportIsLost` of the run
`Selectors`, for the poll, select and kqueue selectors at once. Each has an inductive
invariant of its own, on what `FdSetProofs` shows of the fdset inside it (`Sound`: that
invariant, and the listener in the first position, from where nothing moves it).

- `PollInv`: poll's array runs parallel to the index of the fdset, and the count that ends
  the walk is that of the entries with a report from the position of the walk on. When a
  handler closes its descriptor the last entry takes its place and the walk does not
  advance: the entry that moves takes its report along and is still in front of the walk.
- `SelectInv`: what is watched is inserted; the highest descriptor is right or marked to be
  looked for again; the count is that of the bits still to be met in the copy, which closing a
  descriptor leaves alone. While the listener in front is looked at nothing reported has been
  closed (`SelectNew`): so the number `accept` gives out there was not inserted when the
  copy was taken and has no bit in it that would be counted twice.
- `KqueueInv`: what is active is inserted, and whatever is ready on a socket is active with
  the kernel or listed in the batch (`KqueueEdges`), which `_M_events` has room for.

The counts change by one for each position passed; `MovedForward`, `LookedAt` and
`BitsLookedAt` are the lemmas on cardinalities that say so.

### The tree

`RedBlackTreeProofs` proves `TypeOK`, `TreeIsSound` and `ImplementsList` of the run
`RedBlackTree`, for any finite set of nodes, any range of the deadlines, any limit of the
free list and any calls; `RedBlackTreeLemmas` has the lemmas about rotations, colours,
`minimum()`, `successor()` and `find()` that it rests on.

The inductive invariant `Inv` says that there are a set of linked nodes and an order of them
(a position for each) such that, in the middle of every call:

- `Laid`: the links are a binary tree in that order, and the nodes below each node are
  known (`under`): those below its left child stand before it, those below its right child
  behind it, and the parent links agree. Nothing in it mentions colours or keys. So a
  rotation keeps the order and changes two of the sets (`RotateSwings`), a removal takes one
  node out of the order (`SpliceLaid`), a node that takes over the links of another takes over
  its position (`RenameLaid`), and a new leaf gets a position beside its parent (`LinkLaid`).
  Everything that walks the tree is shown exact from it: `minimum()` by counting the nodes
  below, `successor()` by the first parent reached from the other side.
- `Even` and `Reds`: there are heights that agree on both sides of each node, and no red node
  hangs under a red one. While a fixup runs one node is exempt: for `delete_fixup` the one it
  is at, which may be `_M_nil`, counts one black more than it has; for `insert_fixup` the
  one it is at may have a red parent. Each turn moves the exemption up or ends it. `Fine` is
  this with `Laid`. The rules a run checks are not inductive as they stand: that the sibling
  of the exempt node is a node at all, which the code relies on, follows from the heights.
- Every node is in one place, linked, in the free list, in the hands of the call or with the
  allocator (`Owned`); the count is that of the linked nodes, one off until the call returns
  (`Counted`); and the place where `insert()` has come on its way down is a child of a linked
  node, on the side that the keys tell (`Hands`).

`Inv` needs nothing of the keys: the tree stays balanced and its nodes owned even when they
do not compare as they should (`InvHolds`, `TreeStaysBalanced`, `NodesStayOwned`).

`SortedInv` adds that the order is that of the keys, and that a new node hangs behind all
that are not greater. It has the hypothesis `[]KeysCompare`: the keys in use, in the tree and
in the hands of a call, compare as numbers of a line do. A sign of a difference modulo 2^32
is no order on all values, and a tree with three keys that compare in a circle has no
order to be sorted in. From it follow the exact iterators and `find()` (`TreeStaysSound`)
and the refinement `TreeImplementsList`: linking a new leaf is the `insert` of the list,
unlinking is its `erase`, every other step of a call stutters. `NearKeysCompare` shows when
the hypothesis holds: when the deadlines in use lie within half the range of each other,
across the wrap too. The server sets each by adding one idle time to its clock
(`tcp_server.cpp:98`, `tcp_connection.cpp:458`) and removes what has expired at each turn of
the loop; that they stay within less than half the range is `OnTime` of `TcpServerProofs`.
The keys of the run `RedBlackTree` do in every state, though its counter wraps.

`Inv` quantifies over orders of nodes and is not itself evaluated by TLC; what it says of a
state is checked as `RedBlackRules`, `NodesAreOwned`, `NavigationIsExact` and
`ImplementsList` in the run. To be reasoned about, `InOrderFrom` and `PathWeights` are
recursive functions of the depth.

### A connection

`ConnectionProofs` proves the invariants `TypeOK`, `CleanBetweenRequests`, `NoLostEdge` and
`ArmedIfPlain` of `Connection` for all scripts, sizes and limits, plain and TLS.
It then proves that `Connection` implements `Pipeline`
(`Implements`), that the server hangs up only on clients that have been answered
(`CloseIsDeserved`), and that a client never counts more replies than it has sent requests
(`NoReplyTooMany`; the property is the one that run `ConnectionMalformed` refutes, and has no
run that passes).

The refinement and what follows from it have the hypothesis `MalformedCloses`: a malformed
request is answered with an error and "Connection: close". The scripts of the run
`Connection` satisfy it. Where it fails, finding 4 is what happens: the rest of the request
is answered as if it were another one. The first four invariants need no hypothesis.

The inductive invariant is built from these parts, each resting on those before it.

- `Shape`: what the fields hold in each state of `run()` (`Offsets`): buffers are empty and
  no file is open while a request is read, offsets stay inside what is being sent, the limit
  on requests is not passed. And what is read and not parsed, in the socket, and not yet sent
  are together the rest of what the client sends (`Aligned`). `CleanBetweenRequests` follows
  from it; without the states in the middle of a reply it is not inductive.
- `Edges`: a flag that is down stands for an edge still to come, or for a socket with
  nothing to report. It is `NoLostEdge` for the states inside `run()` too, where the event
  loop has a second call (`alsoWritable`) still to make.
- `Timers`: without TLS whoever lowers a flag sets the timer, and nothing clears it before the
  flag is up again. This is what fails with TLS (finding 3), where a write that completes clears
  the timer that belongs to the reading flag.
- `InOrder`: the request that is read or answered is the next one of the script, read
  from where the one before it ended, and those before it left the connection open.
- `Said`: what has been sent, followed by what the fields say is still to come of the reply
  (`ToCome`), are the replies to the requests counted. It is the refinement mapping
  `said <- sent` made inductive: a unit lost, doubled or out of place breaks it.
- `Patient`: a client that has finished has sent everything, and headers that wait are
  incomplete. With it a connection that is closed while nothing of a request is left over
  has answered all.
- `Counted`: each reply has its headers once, and its requests are among those asked.

Step by step: a step of the client is `Ask` when it completes a request or several,
and stutters otherwise; the five sending steps are `Say`, or stutter when the kernel takes
nothing; dropping the connection is `HangUp`; every other step stutters. There is a lemma for each
sending state that says which part of the reply its units are; the lemmas at the beginning of
the module have what they use of appending to sequences, cutting from their front and
comparing their beginnings.

### A reply with ranges

`RangeReplyProofs` proves `TypeOK` of `RangeReply` and `BodyAsAnnounced` of the run `Requests`:
for files of any size, any number of ranges, any lengths of the headers, the type and
the boundary, any portions of a buffer or a range that the kernel takes, and a file cut short at any
time. The proof has two halves.

- `LengthsAgree`: `number::length()`, which divides by ten, gives the number of digits that
  `printf` writes. The divisions are followed down to one digit, the powers of ten up
  (`LengthHasDigits`), and a number of digits is the only one (`DigitsAreOne`).
- `SentSoFar`, the inductive invariant: in each state of `run()`, what has been sent is the
  headers, the parts before the present one, and the offset into the buffer or the range that is
  being sent. The parts are counted as `compute_content_length()` adds them up (`Sums`), with
  its footer already in the sum. The header of the first part is
  sent with the headers of the reply and not as a part, which is where an invariant that
  counts parts by `nrange` alone fails. A file that has been cut short never reaches the end of
  the range, so nothing short of it is a complete body.

### Numbers

`NumbersProofs`: the number never leaves its type; one whose digits fit the type is read
exactly (`FittingNumbersAreRead`); and when ten times the largest number asked for fits, an
accepted number is the one that was written (`ExactInSmallRange`), for every width, sign,
range and length. Its invariant adds to these `OnlyLargeNumbersAreWrong`: as long as the
overflow test has not failed, the number read differs from the one written only if that has
passed the limit of the type. The run `Tables` checks both in `NumbersAreRead`.

### Only model-checked

Liveness (`ReadyIsServed`, `EdgesAreTold`, `IdleIsClosed`, `StopEndsTheLoop`,
`BacklogIsServed`, `AllAnswered`, `CallsReturn`, `ReplyEnds`), which is out of the prover's
reach; and the parsers and tables of the runs `Requests` and `Tables`,
but for the reply with ranges and the numbers. Of these, what a fold over a text of any length
computes would need induction with an operator as parameter, which the provers do not
instantiate. Where an invariant can be carried from step to step, or a set counted
by its least element, the proof needs no such theorem: the proofs of `Numbers` and of the counts above are of that kind.

## 7. Not modelled, and why

- `port_selector.cpp`: `_M_events` is an array of int that `process()` uses as structures;
  the file does not compile, so there is no behaviour to model.
- Failing allocations, except where they are one of the outcomes of accepting.
- TLS renegotiation (`tcp_connection.cpp:314`), and the protocol itself, which is OpenSSL's.
- What the kernel does with unread input or unsent output when a socket is closed.
- The blocking variants of the I/O functions, `modify()` with epoll (it does nothing),
  `on_alarm()`, `url::parse()`, `configuration::print()`, and the setters of `dirlisting` (the
  criterion, the order, exact sizes): none has a caller.
- `FD_SET()` with a descriptor of `FD_SETSIZE` or more (`select_selector.cpp:25`), which writes
  behind the set: undefined behaviour of the library macro; the model has no set to write behind.
- Dates: a pure parser of three formats, planned.
- Strings, UTF-8, HTML escapes, buffers: storage and encoding.
- Sockets, addresses, files: thin layers over system calls; their effect is in the actions
  of `TcpServer`, `Connection` and `RangeReply`.
- The text of headers, pages and listings; letter case, where tables are compared without it; the
  encoding of the path in a redirection.

## 8. Plan

Done: the core, the selectors, the timer tree, the parsers, the tables and
listings, the range reply; the proofs of the fdset, the selectors, the event loop with its
timers, the tree below them and its refinement, the connection and its refinement, the
length of a reply with ranges, the numbers.
Next, in this order:

1. Proofs of the tables: `StoreKeepsHeaders`, `DirectoriesAreListed`, `HostsAreFound`,
   `TypesAreFound`; `NumbersAreRead` as the run states it; of the requests,
   `PathsAreResolved`.
2. `Connection`: renegotiation, and running out of memory in `process_request`.
3. Dates.
