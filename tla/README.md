# GemCaps in TLA+

A verification development of GemCaps, a Gemini capsule server on libuv and
wolfSSL. The modules model the program's own control: what each libuv callback
does to a connection, to the request it carries and to the file system work done
for it. TLC checks them on small instances; TLAPS proves, for every value of the
constants, the properties that do not depend on an instance.

    tlc -workers 2 -config MCSSLServer.cfg MCSSLServer
    tlapm SSLServerProofs.tla

## 1. The system

GemCaps runs one libuv loop in one thread. All concurrency is the order in
which the loop delivers callbacks: accepts, reads, write completions, timers,
close callbacks and file system results of several connections interleave, and
nothing runs in parallel with a callback.

| component | source | state | operations | correct when |
|---|---|---|---|---|
| SSLClient | `server.cpp` 28-270 | handle, timer, `queued_writes`, `queued_close`, `closing`, `timeout_time`, receive buffer, write requests | listen, stop_listening, setTimeout, resetTimeout, read, write, close, crash; callbacks `__on_recv`, `__on_send`, `__on_close`, `__on_timeout` | a close waits for exactly the writes before it and then happens once; no write on a shut handle; released once; no timer outlives the connection |
| SSLServer | `server.cpp` 278-413 | `clients`, TLS context, listening handle | load, listen, `__on_accept`, `_on_client_close` | `clients` is the set of live objects |
| Manager | `manager.cpp` 88-187, 300-371 | `servers`, `handlers`, `requests` | on_accept, on_read, on_close, loadServers, loadHandlers, startServers | one request per connection, dispatched once; `requests` = live connections |
| GeminiConnection | `manager.cpp` 45-85 | request, send buffer, close callback | send, close, setClientCloseCallback | everything sent is written before a graceful close |
| request parsing | `manager.cpp` 189-298 | none | parseHost/Port/Path/Query | host, port, path and query are the parts of the URL |
| FileHandler | `filehandler.cpp` 90-280, 424-513 | one `RequestContext` per request | handle and the stat, open, read, close, scan callbacks | every path ends with exactly one close of the client; a callback never meets a client that is gone; contexts are given back |
| CGIRunner, Executor | `filehandler.cpp` 290-422, `executor.cpp` | pipe, process, `alive`, `closing` | run, close, onExit; spawn, signal | output before the exit reaches the client; one close; process and pipe released |
| Cache | `cache.cpp` | map of entries, `size`, timers, callbacks | loading, cancel, add, clear, invalidate, getNotified | `size` is the sum of the loaded entries; the limit holds; each waiter is told once |
| BufferPipe | `util.cpp` | buffer, start, length, size | write, read, close | a byte queue; never touches bytes outside its buffer |
| ReusableAllocator | `shared/gemcaps/util.hpp` 144-229 | stack items, heap chunks | allocate, deallocate | an item has one owner; a chunk with an item in use is not freed |
| path utilities | `pathutils.cpp` | none | join, basename, dirname, split, isSubpath, relpath, delUps | `delUps` leaves no `..`; see tests |
| MimeTypes | `MimeTypes.cpp` | sorted table | getType | binary search finds every extension of the table; it does not (section 4) |
| start-up: main, loaders, `load`, `listen` | `main.cpp` 87-125, `manager.cpp` 88-178, `loader.cpp`, `server.cpp` 344-413 | `servers`, `handlers`, TLS contexts, listening handles | loadServers, loadHandlers, startServers | a port is taken only for a server that is kept and loaded; handlers belong to servers of the map |
| ArgParse, log, re, stringutil, uvutils, settings | | start-up only or no state | | |

How they interact: libuv calls the static callbacks of SSLClient/SSLServer;
these call the Manager through `ServerContext` and `ClientContext`; the Manager
finds a handler and passes it the GeminiConnection; the FileHandler starts
file system requests on the loop and, in their callbacks, calls `send` and
`close` of the GeminiConnection, which calls SSLClient again. wolfSSL calls
back into SSLClient for its input and output, and may write on its own
(handshake answers, alerts) in the middle of a read.

Hard behaviours: a write may complete at once, inside `_send`, or later; a close
may be deferred behind writes; the peer's end of stream, the timer, a TLS error
and the handler all close the same connection; a file system callback holds a
pointer to a connection across callbacks; the read loop calls `on_read` again
after a request was dispatched. `PROJECT.json` lists the hazards at their lines.

## 2. Modules

| module | models |
|---|---|
| `Lifecycle` | abstract: what a connection promises (below) |
| `SSLClient` | the connection object: its record, one operator per method, libuv's side of the handle |
| `SSLServer` | SSLClient under an **arbitrary** context, which calls any public method at any time |
| `GeminiServer` | SSLClient under the context the program has: read loop, Manager, GeminiConnection, FileHandler |
| `MCSSLServer`, `MCGeminiServer` | instances for TLC |
| `SSLClientProofs` | what each operator of SSLClient preserves, and that it is a step of Lifecycle |
| `SSLServerProofs`, `GeminiServerProofs` | theorems of the two specifications, with nothing assumed of peers, timers or files |
| `QuietServerProofs` | theorems of `GeminiServer` that need conditions, and the conditions |
| `Cache`, `CacheProofs` | the response cache under any user of its header, and who waits in it |
| `ByteQueue` | abstract: what a byte pipe promises |
| `BufferPipe` | the pipe down to its memory |
| `Pool` | abstract: what the users of an allocator rely on |
| `Allocator` | stack items, heap chunks, what is handed out |
| `Executor` | one operator per method of the process object |
| `ExecutorUser` | `Executor` under an arbitrary user, who may spawn it again or delete it at any time |
| `CgiRunner`, `CgiRunnerProofs` | a script's pipe, process and client: `SSLClient` and `Executor` composed; its theorems |
| `Startup` | from main to the loop, with every way a file or a server may fail |
| `PathUtils`, `RequestParser` | the functions of `pathutils.cpp` and of the header's parser, over sequences of characters |
| `FileRequest` | the two composed: header, handler, redirects, file |
| `MimeTypes` | the search in the table of extensions |
| `Parts`, `MCParts` | the parts that work alone, side by side; an instance of them for TLC |
| `PartsProofs` | theorems of the pipe, the allocator, the executor, the start-up and the search |
| `RequestProofs` | theorems of the way from a header to a file, and of the path functions |

`SSLServer` and `GeminiServer` both extend `SSLClient` and share its operators
and the variables `clients` and `conn`; the lemmas of `SSLClientProofs` are
used by both proof modules. Both implement `Lifecycle` under the mapping at the
end of `SSLClient`.

Some modules define, beside an operator, a variant whose comment starts with
*slip*: the same code with a plausible mistake. No specification uses them. They
are there to confirm that each property fails when the code is wrong in that way
(`PROJECT.json`, `mutants`).

### Lifecycle

A connection is absent, open, draining (closed by the program, writes still
out), closing, cut (reset) or gone, and has a number of pending writes. It opens
once; writes are queued only while open or draining; a graceful close happens
only when nothing is pending; after a close or a reset it only goes away.

### SSLClient

A method is an operator from the record of an object to its next record; a
callback that calls several methods is their composition (`Reply` is
`Close(Write(k, how))`). The correspondence, field by field:

| record | code |
|---|---|
| `handle` | the `uv_tcp_t`: `open` after `uv_accept`; `closing` after `uv_close`; `resetting` after `uv_tcp_close_reset`; `closed` after `__on_close` |
| `reading` | `uv_read_start` in force |
| `broken` | libuv's side: a read has failed, and the stream takes no more reads or writes |
| `inflight` | `uv_write` requests whose callback is due |
| `queued_writes`, `queued_close`, `closing` | the fields |
| `timed` | `timeout_time != 0`; arbitrary at construction (`GarbageTimeout`) |
| `armed` | the timer is active |
| `reclosed` | `uv_close` was called on a handle already shut; libuv asserts and the process ends, so a state with `reclosed` has no successor |

libuv is external. What is used of it: `uv_close` stops reading and asserts on a
handle already closing; `uv_tcp_close_reset` on a handle already shut fails
without effect (its socket is gone); libuv stops reading before it reports an
end or error; cancelled writes get their callback before the close callback
(the model lets other events come between, which allows more than libuv does); a
timer set without repeat fires once.
`uv_try_write` may take all the data or none; a partial write followed by a
deferred rest leaves the same record as a deferred write. On a stream whose read has
failed (`FailCallback`) libuv refuses both calls at once: `_send` ignores the result, so
`Send` counts a write that gets no callback. An error of the peer that a write itself
meets is reported by that write's callback, as a finished write is. Failures of `uv_write`
for want of memory are left out, and it cannot fail for its descriptor, since a write is
made only while the handle is open.

### GeminiServer

Each libuv callback is one action. The exception is the `do ... while` loop of
`__on_recv`: `OnRecv` appends what was received to `inbox` and sets `running`,
each round (one `Manager::on_read`) is `OnRead`, and no other callback starts
until the loop has ended. Rounds take TLS records in turn: a handshake flight
(`hello`), a piece of the request line without (`part`) or with (`line`) its
newline, a close notice (`notify`), or something wolfSSL rejects (`bad`). `on_read` asks for
1024 bytes, which is a whole `part` or `line`. A record of more than 1024 bytes without a
newline (`long`) takes two rounds: the first fills the header, and what wolfSSL has
decrypted and nobody has read is `rest`. The loop's condition does not see it: `hasData()`
tests the raw receive buffer, which is `inbox`. So the second round comes only when
something else was or is received.
`Segments` is the set of record sequences one read may deliver.

| action | code |
|---|---|
| `OnAccept` | `__on_accept`, `Manager::on_accept` |
| `OnRecv`, `OnRecvEnd` | `__on_recv` up to the loop; `__on_recv` with `nread < 0` |
| `OnRead`: `ReadNothing`, `ReadHello`, `ReadError`, `ReadTooLong`, `ReadPart`, `Reject`, `RefuseUnmatched`, `HandleAtOnce`, `HandleFile` | the returns of `Manager::on_read`, with the handler's `handle` and the loop condition |
| `OnWritten`, `OnTimeout`, `OnClose` | `__on_send`, `__on_timeout`, `__on_close` with `Manager::on_close`, `_on_client_close` and the destructor |
| `HandleOnStat`, `FileOnOpen`, `FileOnRead`, `FileOnClose`, `DirOnScan` | the callbacks of the same names |

`requests` is the key set of `Manager::requests`. A `ctx` is a `RequestContext`;
`pc` is the request libuv is working on for it, or `held` when there is none and
nobody will give the context back. A callback that would use a connection that no
longer exists has no defined outcome: the action is disabled and
`ClientOutlivesRequest` says that this does not come about.

Abstractions: a path, a host and a response are not spelled out; which of the
routes of `on_read` and `handle` a request takes is a choice made once per
header, restricted to `Routes`. Data is counted in blocks of 1024 bytes, the
size `send` takes and the size of libuv buffers here. cgi scripts are not part of
this module: it is the program with no `cgi_types` configured.


### Cache

One action per public method, plus `Expire` (the timer of an entry, through
`_timeout` and `_onCacheTimer`) and `Tick` (time). `cached` is the key set of the
map, `info[k]` the `CacheInfo` (flags, timer, length of the body, waiting
functions with their arguments), `size` the `unsigned int`. `jobs` belongs to the
user: how many jobs of his are loading a key.

`add` removes entries one at a time, each time the one that expires first, until
the new body fits. The order of the entries does not change meanwhile, so what is
removed is a prefix of it (`Prefixes`, `Before`), namely the shortest one that
makes room (`Removed`). When no prefix does, the loop empties the map and then
goes on for ever: `AddForever`, after which `hung` stays true.

No handler of the repository uses the cache, so the user is arbitrary. The
constant `Uses` says what he does beyond the pattern the header suggests (start a
job when nobody loads the key, end it with `add` or `cancel`): invalidate keys,
clear the cache, touch keys that are loaded. A function called by `getNotified` or
`cancel` is the last thing those methods do, so its own calls are simply the next
actions; the functions told by `add` are told in the middle of a loop over their
map, and the model has them not call the cache again.

### ByteQueue and BufferPipe

`BufferPipe` keeps the code's fields and its memory: `buffer[i + 1]` is the byte
at offset `i`, and a byte nobody has written is `Junk`. `memcpy` and `memmove`
are `Copied` and `Part`; where they would leave the memory they lose or invent
bytes, so a wrong offset shows both in `InBounds` and in the queue. `Write` follows
the code's three steps (replace the memory, move the queue to 0, append) with the
test that each makes on `size`, which is never updated. `QueueSpec` maps the part of
memory that is queued to the `queue` of `ByteQueue`.

### Allocator

An item is a pair of a chunk and a place; `avail` and `in_use` are the vectors and
sets of the code taken together, since the chunk tells which of them an item is
in. Which available item is handed out is left open (the code takes the last of a
vector). `Chunks` are the addresses the heap may return: one that was freed may
come back, which is what makes a stale pointer dangerous. `owners` counts the users
an item was given to; it is history, and `PoolSpec` is a statement about it.

### Executor and CgiRunner

`Executor` has the record of one object: its `uv_process_t` (`none`, `held`,
`back` to the allocator), whether `process->data` points to the object, `alive`,
and the child. `ExecutorUser` lets a user construct, spawn, signal and delete
objects in any order, with children that end at any moment. A spawn over a live child
(`Ready`: it is killed and forgotten, `executor.cpp:138-141`) uses its handle again; libuv
gives a handle with two children no meaning, so `child` is the one started last, and
`overrun` remembers that it happened. `CarefulSpec` is the user who never does it, and
`CgiRunner` implements that.

In `CgiRunner` a connection has been dispatched (`Handle`) and its file requests
end in `run_cgi` (`RunCgi`). From then on the pipe's reads (`OnRead`), the report of
the exit (`OnExit`), the pipe's close callback, the connection's writes, timer and
release, and the script's own steps interleave. As in the program, nothing deletes
a runner: its close callback is `GeminiConnection::on_close`'s to call, which never
runs, and so the pipe handle is closed, but the runner, its Executor and the
request context stay. `write_end` is the descriptor `pipe[1]` in the server: `run`
gives it to the child and does not close it, so a read of the pipe never meets its
end, and `ClosedOnce` rests on this. Whoever closes `pipe[1]` has to make
`close` test `closing` in the same change: the mutant of `ClosedOnce` is that fix
without the test.

`SlowScripts` is the environment's: whether a script may outlast the timer of 30
seconds. With it, `RunnerHasClient` fails like `ClientOutlivesRequest` does in
`gemini_outlives`: the timer releases the client and the runner still has it.

### Startup

Files are read in any order and what a file says is chosen when it is read: not
YAML by its name or with a setting missing (`PassOver`), a text that does not parse
(`Terminate`: the exception leaves a `noexcept` function), a server or a handler. A
server's load fails for its certificate, its key or its port, and leaves no handle;
its name is looked for after that, and a second server with a name loses to the
first and is destroyed. `ListenOnNull` is `uv_listen` on the null handle of a
server that did not load: one bad certificate ends the process. `PortsServed` says
what is left in order: ports are held for loaded servers of the map alone, and
the loop starts only with all of them loaded.

### PathUtils, RequestParser, FileRequest

Texts are sequences of characters here, because the properties are about them. A
header begins behind its first `://` and ends with its newline. `Atoi` takes blanks, a
sign and digits; a number that no `int` holds, of which C says nothing, is left out. `ParseHost` looks
for colon, slash, question mark and line end from the places the code does;
`UrlParts` is the reference, which takes an authority first and looks for a colon
in it only. `FileRequest` runs a header through the parser, the choice of a
handler, the redirect for dots, the file's name, and the two redirects after
`stat`. `validateFile` may go either way.

### MimeTypes

An extension is its rank in the order of `strcmpi`: the 349 of the table have the
even ranks, the others fall in between. `Swapped` are the two places where the table
is out of order. Each round of the loop is a step.

### Parts

Six parts that share nothing: a behaviour chooses one in its first state, and the
others rest in a fixed one. So the states of the parts add up instead of multiplying,
and each part is explored completely under its own bounds.

## 3. What TLC checks

| run | asks | states |
|---|---|---|
| `ssl_server` | do the write count, deferred close and open flag of a connection stay consistent under any calls of its context, with writes that are refused; does it live as `Lifecycle` says | 15087 |
| `gemini_serve` | one connection, every route and file outcome: is the request dispatched once, is a graceful close complete, is nothing of a request left unread, and does the connection end | 570 |
| `gemini_pair` | two connections and their file requests interleaved: does a callback ever meet a connection that is gone, is a handle ever closed twice, is a close ever forgotten, does everyone wait for something that can come | 132591 |
| `gemini_timers` | timeouts built in, requests answered at once: is an open connection always timed and a closing one never, and does a silent peer lose it | 688 |
| `cache_user` | a user who keeps to the header: is `size` right, does `add` end, does data expire | 70739 |
| `cache_any` | any user: does the limit hold, does anyone wait for loaded data, can an old timer take a key that is loaded again | 25340 |
| `cgi` | two scripts: do the callbacks find their client, are client and pipe closed once, does the end of the script end the connection | 15625 |
| `parts` | is every copy inside the memory and the pipe a queue; has an item one user, is a chunk freed when unused; does a process handle live as long as its child; are ports held only for servers; does a header lead to its parts, to a file of the folder, and to redirects that settle; is an extension found | 63685 |

The remaining runs are expected to end in a violation; section 4 says what they
found.

Bounds. Connections share nothing but the loop and the context pool, so one shows
the life of a connection and two every interference there is; the theorems hold
for any number. `MaxWrites` 2 gives a close that waits for one write and then
another. `HeaderMax` 2 blocks has a request line in one piece, in two and one
too long. `MaxChunks` 2 has a file that needs a second read; `MaxListing` is 1
where a listing fits one `send` and 2 in the run about one that does not.
`SIZE_MAX` is 7: `queued_writes` is a `size_t`, and the number only has to be above
the writes a run makes, for one completion too many to show as a wrapped count.
`MaxSize` 3 with bodies of 0 to 2 (and 4) has bodies that fit, make room by removing one
entry or two, and never fit; `UINT_MAX` 7 lets `size` wrap when the user
reloads. `Lifetimes` 0, 1, 2 has no timer, and two that differ. `MaxJobs` 2 is one
more than there should be. Pipes start with 0, 1 or 3 bytes and take writes of
0 to 2 while at most 2 are queued: a write fits, moves the queue, or replaces the
memory, after any read. Allocators have two stack items, and chunks of two at three addresses: a chunk is
filled, freed and comes back while another is partly used. Two clients run scripts
of up to two blocks of output: one that is read and one that is left. Three server files
and two handler files with two names have a duplicate, a server without handlers
and handlers of one server. Headers are all texts of up to four characters of
`: / ? h 7` with either line end, all ports of up to three of blank, `+ - 0 9 a`, and all
paths of up to five of `/ \ . a`; handlers
have no base, nested bases or a base without separator, and folders that are absolute,
relative with dots, or the root. `MaxPort` is 70, so that ports of one and two digits
lie on both sides of it. Deadlock is not checked: a connection may be idle for ever,
an aborted process stops, and bounds end the counters.

Fairness. Three kinds, kept apart because they have different grounds.
`LoopFairness`: libuv runs a callback that is due (the read loop goes on, a shut
handle is released, its writes are cancelled, a running timer fires).
`FileFairness`: a file system request completes. `PeerFairness`, only in
`ReadingPeerSpec`: the peer reads what is written to it. It is an assumption about
the environment, the code cannot bring it about, and without it
`DispatchedRequestEnds` fails in a build without timeouts. Where timeouts are built
in, `SilentPeerDropped` needs no such assumption. Liveness is checked with one
connection: with several, other connections' loops disable `OnRead(c)` again and
again, and only strong fairness, which models the loop's order of handles,
would carry over. In the cache, time passes and timers that are due run. In `CgiRunner`, libuv reports
an exit, finishes a close, and the peer reads; nothing makes a script end, and
`ScriptEndReleasesClient` speaks of scripts that did.

Each property of a passing run has a mutant in `PROJECT.json`: one definition
replaced by a slip, under which TLC finds that property violated.

## 4. What does not hold

| run | what the repository says | what the code does |
|---|---|---|
| `gemini_outlives` | `handler.hpp:133`: the client exists until it is closed | `timeout_time` (`server.hpp:46`) is not initialised and never set in the default build; if it is not 0, the first activity arms a timer that may release the client under a pending file request |
| `gemini_listing` | `filehandler.cpp:433`: the contents are read to the client | `send` writes 1024 bytes of its buffer per call and nothing writes the rest: long listings are cut |
| `gemini_reclaim` | `handler.hpp:110`: the callback for when the client gets closed | the close callback is never called (the Manager is the client's context), so request contexts are never given back |
| `cgi_lost` | `filehandler.cpp:286`: "redirect the output to the client" | `onExit` closes the pipe at once; what the script wrote and nobody has read is dropped. Which callback comes first is libuv's choice, and it reads a bounded number of buffers in a turn, so a long output is at risk in any order |

Three more configurations find a violation and are kept to be run by hand:

- `tlc -config MCGeminiTwice.cfg MCGeminiServer`: `manager.cpp:331` says "The request
  is finished", but the loop at `server.cpp:99-103` calls `on_read` again when more
  was received; the header still has its newline and is dispatched again
  (`HandledOnce`).
- `tlc -config MCCacheClear.cfg Cache`: `clear` (`cache.hpp:205`) leaves `size`; a later
  `add` may look for room in an empty cache for ever (`AddEnds`). The same loop hangs
  for a body larger than the limit.
- `tlc -config MCGeminiLong.cfg MCGeminiServer`: `manager.cpp:320` says of a header over the limit
  that the server discards it, but a line of 1025 bytes in one TLS record fills the header
  exactly, and its last byte stays in wolfSSL until more is received: the connection is
  neither read on nor reset (`LongHeaderDiscarded`). With timeouts, the timer ends it.

Met while modelling, and visible in a definition:

- The colon of a port, and the slash of a path, are looked for in the whole rest of the
  header (`manager.cpp:201, 206, 234`). A URL with a colon in its path or query, or
  with a query and no path in which there is a slash, is taken apart elsewhere or
  refused. `ParsedAsUrl` is about the others (`Ordinary`).
- `isSubpath` is also true of the proper parents of a base (`pathutils.hpp:53-60`
  speaks of children): a handler with base `/a/b` answers for `/` and `/a`.
- `delUps` treats the empty first part of an absolute path as a folder: `/a/..` and
  `/.` become the empty text and `/../a` becomes `a`. The redirect to such a target is
  empty or relative; `RedirectSettles` is about the others. An empty target names the same URL
  again: a client that asks for `/..` or `/a/..` and follows the redirect goes in a circle.
- A close may be forgotten (`server.cpp:60`). A read fails while writes are out, so the close it
  asks for is queued; the context writes once more; libuv refuses, `_send` does not look,
  and the count never reaches 0 again. `WritesAccounted` therefore says `>=` for such a
  connection, and in `Lifecycle` it is draining with a write pending for ever, which is all that
  holds: only a reset or the timer releases it. The program's own context never writes after
  a read error: what it writes comes from a read, or from a handler whose request has stopped
  the reading (`NoCloseForgotten`, theorem `ClosesAreMade`).
- `setTimeout` and `resetTimeout` do not ask whether the connection is closing
  (`server.cpp:205-220`), so a context could leave a timer running on one.
  `TimerStopsWithConnection` is about the program, which calls neither after a close.
- After `cancel` of a key whose data is loaded, the entry is no longer ready but its timer still
  runs, so functions that are then listed may be taken with it. `LoadingUntimed` is about keys
  that are being loaded.
- `basename`, `dirname` and `isrel` read the last or first character of a path that may
  be empty.
- `geojson` and `gml` (`MimeTypes.cpp:145, 150`) stand before what should precede them, and
  the search misses both; an extension that is not found gives a null pointer, which
  `file_on_open` (`filehandler.cpp:257`) hands to `StringLiteral::append`.
- `run` never closes `pipe[1]`, and nothing deletes a runner: each script costs a
  descriptor, a runner and a request context.
- `env_buf` and `args_buf` (`executor.cpp:58, 95`) are one byte shorter than what `strcpy`
  writes.

The cache is not used by the program yet. Beside `clear`, three places where its
header promises more than the class does are listed as hazards, for the day a
handler uses it: a load cancelled with no request keeps its entry
(`cache.hpp:85`), a second request with the same function replaces the argument of
the first (`cache.hpp:222-224`), and making room may remove an entry that is being
loaded, so that a second job is started (`cache.hpp:185`). The model does what the
code does in all three.

## 5. What is proved

All theorems hold for every value of the constants that meets the named
assumptions, with any number of connections, contexts, keys and bytes.

`SSLClientProofs`, `SSLServerProofs`. `SSLServer` lets the context do anything, so
its theorems hold for every program built on `SSLClient`, refused writes included. The
inductive invariant is `Sound` of every record: `queued_writes >= inflight`, with equality
until a read fails; a queued close has a counted write; `closing` exactly when the handle is
shut; a broken handle is not read; a handle that is gone has no writes. None of these is
inductive alone: that a deferred close happens needs the count, the count of a shut handle
needs that `closing` stops new writes, and that needs the flag to agree with the handle.
The operators' lemmas show that each method keeps `Sound` and is a step of `Lifecycle`
(`AStep`); composing them gives the callbacks. For `Lifecycle` the pending writes of an open
handle are those counted (`Pending`), so a refused write is one that never ends.

`GeminiServerProofs` reuses those lemmas for the callbacks of the real context and
adds `requests = clients` and the type of the new variables. Nothing is assumed of
peers, timers or files.

`QuietServerProofs` proves what `gemini_pair` and `gemini_serve` check, under
`Undisturbed`: no timer runs (`TIMEOUTS` off and `timeout_time` 0), a read brings
nothing behind a request line, and a listing fits one block. Each condition is needed: the
runs `gemini_outlives` and `gemini_listing`, and `MCGeminiTwice.cfg`, drop one each and
find a violation. The argument is a bond between a context and its connection:
while a context waits for a file request, its connection is open, has not
been asked to close, no longer reads, has dispatched exactly once and is the
connection of no other such context. So neither the peer nor TLS can end
it and only the handler's one answer does; that makes the callbacks safe, the close
unique and the response complete. The invariant follows a connection through
the phases listening, loop running, dispatched, answered, shut.

`GeminiServerProofs` also proves that nobody is forgotten. `WaitsForSomething` is not
inductive: that a connection which is neither read nor timed has a context at work on it
must be kept through every callback of every other connection. `AInv` says it: an open
connection is read, has a close queued (behind a write that libuv will report: `XInv`), or is
served by a context whose file request is still out (`Attended`). `Stays` and `Ends` sort the calls into those that
leave this alone and those that end the connection; the only call outside both is
`stop_listening` in `on_read`, and each route that makes it starts a file request or
answers. With timeouts built in, `AInv` also keeps the timer of an open connection
armed (`Watched`), which is `TimersRun`; there `WaitsForSomething` would hold for the
timer's sake alone, so the theorem says most without timeouts.

Four more hold without `Undisturbed`. `LoopReadsAll`: one read loop runs at a time and ends with
every record begun or the connection shut, and no step of `Lifecycle` opens that again;
what is left of a long record is left with the header full and not dispatched, so that the
next round can only crash the client (`Filled`, `DInv`). `TimerStops` and `ClosesAreMade`, from
`XInv`: a connection that is served by a context is not read and so its read cannot fail, nor does
a loop run on one whose read has failed (`Sealed`); so no write of the program is refused,
the count of writes is exact (`Exact`), and no call arms a timer after the close (`Timely`).
`ClosedOnceAtOnce`, for what `gemini_timers` checks: with timers, and with more data
behind a request line that is then dispatched again, a handle is still closed once as long
as no request goes to the file system (`AnswersAtOnce`). A close then comes from a round
of the loop, the end of the stream, or the last write before a queued close, and each
finds the handle open (`Single`); the double close needs a file callback that comes after a
reset (add `"serve"` to `Routes` in `MCGeminiTimers.cfg`: TLC finds it in seven states).

`CacheProofs`, about who waits: `IInv` says that an entry that is ready has nobody waiting;
it is inductive with the type of the entries. `TInv` adds `LoadingUntimed` (`Timed`): for any
user, `loading` stops the timer it meets, and only `add`, which ends the loading, starts
one. About the sums: `Held` types `size` and makes what is
not cached empty, `Within` bounds the bodies by `size` and `size` by the limit, `Sums` is
`SizeIsSum`, and `EInv` joins them. For `LimitIsKept` the user may do anything, as an entry
loaded again or a cleared cache leave `size` too large, never too small. The sums over sets
of keys are taken apart one key at a time by lemmas on `Body` (`BodySame` and its
neighbours), by induction over the subsets of a finite set. `SizeIsTheSum` needs that the user
neither clears nor reloads, `TheLoopEnds` also that every body fits the limit:
`MCCacheClear.cfg` shows what happens otherwise.

`PartsProofs` has one section per part. Theorems of the composition are about `PartsSpec`;
`SideBySide` says that its pipe and its allocator are those proved of alone.

- The pipe: `PipeInv` adds `size <= Len(buffer)` to `InBounds`, which is why a
  `size` that is never updated does no harm: the code believes in less room than
  there is, and moves or replaces more often than it must. `IsAQueue` is the
  refinement: each copy of `write` keeps the queued bytes at their new offset
  (`Holds`, `MovedHolds`, `RoomIsMade`), and `read` splits them.
- The allocator: `PoolInv` adds `Owned`, that an item's count of users is 1 when it is
  in use and 0 otherwise, to `Accounted` and `NoIdleChunk`. The last is needed to be
  inductive with them: freeing a chunk takes away available items only because its
  last used one is the one given back. `IsPool` is the refinement.
- The executor: `ChildInv` ties, for each object that was not spawned over a live child, the
  handle to the child, to the back pointer and to the life of the object, also after its
  deletion (`Held`). That the others are excluded is needed: a second spawn that fails leaves
  `alive` false, and a deletion then gives back the handle of a child yet to be reported.
- The start-up: `StartupInv` follows the servers by phase. An open port has been kept in the
  map with its TLS context from the moment its server was entered (`OpenKept`), files not yet
  read have left nothing (`Unread`), and when the loop starts all were tried (`InTurn`).
- The search: `SearchInv` says that entries outside the range still searched are not the
  extension, up to a misplaced pair (`Narrows`). So what is returned is always right and nothing
  outside a pair is missed, for any table (`SearchIsRight`); in an ordered table nothing is
  missed (`FindsInOrder`). `FindsInTheTable` is about the code's 349 entries with their
  two misplaced pairs (`TheTable`), where the middle positions of the search are
  computed, and shows that exactly `geojson` and `gml` are lost.

`RequestProofs`:

- `UrlsAreParsed`: parser and reference look for the same characters from different
  places. In a line, as `on_read` cuts it (`IsLine`: the newline is the last character), the
  first of each mark is where both look (`IsFirst`, `FirstExists`), and `Ordinary` excludes
  just the headers in which they differ. `RequestInv` says that the request is what the
  parser made.
- `FilesAreServed` and `RedirectsSettle` rest on an algebra of paths. A list of parts is
  *clean* if it has no `.` or `..` and no empty part but the first. `delUps` leaves a clean list
  (`ReducedIsClean`) and leaves one alone (`CleanIsReduced`); cutting a joined list gives the
  list back (`CutJoined`, `SplitJoined`), so `delUps` of what `delUps` made is the same
  path (`DelUpsKeeps`). What `join` puts below a folder is the folder's parts and then
  the others (`JoinedPath`), so it begins with the folder and `relpath` finds the way back
  (`FileInFolder`). A path names one file with and without a separator behind it
  (`SameFile`). `PathInv` carries this through a request: folders are clean since
  `createHandler`, a file looked up is the chosen handler's for the path, and a redirect's
  target is a path that `delUps` leaves alone and that names the same file.
- The assumption `TextOnly` says that headers, the configuration's folder and the handlers'
  hosts, bases and folders are texts. Texts are sequences over `Characters`, which is
  `STRING` with two of its members named, because the backends take a string literal for no
  member of `STRING`.

Induction. The library's induction theorems take an operator and cannot be used here;
induction on numbers is proved instead from the well-foundedness of `<` on `Nat`, with a set in
the place of the predicate (`Induction`, `SequenceInduction`). `FoldLeft` and `FoldSet` are
defined in the community modules by a recursive `CHOOSE`; lemmas show that there is such a
function and only one (`FoldDefined`, `FoldIs`), and what it does with one element more
(`FoldOfStep`). From there `Cut`, `JoinAll`, `DelUps` (`CutBy`, `JoinBy`, `ReducedBy`) and the sums
of the cache are reasoned about as the code computes them.

`CgiRunnerProofs`, under `~SlowScripts`: the invariant follows a runner from nothing
through handed over and running to over. While the pipe is open or the exit is due, the client
is open, was not asked to close, and the write end is open here, so that the pipe has no end to
report; therefore the exit is the one callback that closes, and it does once. The
connection's part is `Sound` of `SSLClientProofs`. Without the condition the first
theorem is false (above). What holds without it is proved from a weaker invariant,
`BasicInv`: each connection is `Sound` and no Executor is touched before `run_cgi`. It gives the
types; `UsesExecutors`, that `CgiRunner` implements the `CarefulSpec` of `ExecutorUser`, which never
spawns over a live child (the runner counts as the Executor's owner from the dispatch on); and `KeepsPromise`, that each step but the
dispatch itself is a step of `Lifecycle` for the connection. The dispatch, which stands for
accept, handshake and request line, is two steps of it.

Every invariant and every safety property of a passing run is stated by a theorem. The hypotheses
are of three kinds. Some are conditions of the environment that the property needs, and a run or a
configuration shows each to be needed (`Undisturbed`, `AnswersAtOnce`, `~SlowScripts`, the uses of the
cache). Some say
what a constant is a table of (`TheTable`). The others are types of inputs
(`IsLine` of headers, `TextOnly`).

Only model-checked: the liveness properties (`DispatchedRequestEnds`, `SilentPeerDropped`,
`ScriptEndReleasesClient`, `DataExpires`), as the prover has no rules for fairness and
`ENABLED`; and the runs that find a violation.

## 6. What is left out, and limits of the models

- Shutdown: `~SSLServer` with connections runs after the loop has ended, `~Executor`
  and `~CGIRunner` never (the first is modelled under an arbitrary user).
- `ArgParse` and main's options: loops over the command line before anything exists.
- How YAML becomes settings; `Executor::load` and `findPath`, run once.
- Regular expressions (`validateFile`, cgi types): either outcome.
- The environment and the argument arrays of a script, which are memory layout; the
  text of responses and listings.
- `GeminiServer` is the program with no `cgi_types`; what follows `run_cgi` is
  `CgiRunner`. Both take the outcome of the parser and of the path functions as a choice.
- Past its ten stack items the allocator hands out memory whose members were never
  constructed. `RawOnlyWhenFull` says when; what an assignment to such a string does
  has no model.
- `GeminiConnection::on_write` and `on_close` are never called and not modelled.
- Which wolfSSL call returns what for which bytes is reduced to records.
- A record of more than 1024 bytes whose first 1024 hold the newline (a request line with data
  behind it in the same record) is left out; `NothingLeftUnread` does not speak of it.
- `uv_write` that fails for want of memory; numbers in a port that no `int` holds.
- Logging, `re`, `stringutil`, `uvutils`, `settings`: no state of their own.

## 7. Plan

In order of what they add:

1. Nested calls of the cache from functions told by `add`; several listening
   servers under one Manager; a liveness argument for two connections.
2. `GeminiServer` and `CgiRunner` in one module, with contexts from `Allocator`: a
   request that is served as a file or as a script, on the same connections.
3. Proofs: steps towards liveness, which need no `ENABLED` (a quantity that each callback of
   a connection decreases).
4. `Executor`'s arguments and environment as texts, and its `findPath`.
5. `strcmpi` and the order of the table as the code has it, instead of ranks.
