# httpi in TLA+

httpi is an HTTP server and client library in C on top of a coroutine and
event library. This directory holds TLA+ models of its core, TLC runs over
small instances of them, and theorems that TLAPS proves for every instance.
Paths below are relative to the repository (`src/lib/httpi_io.c` and so on).

## 1. The system

| Part | Where | State it keeps | Operations |
|---|---|---|---|
| Connection loop | `src/lib/httpi_io.c`, `src/http.c` | `conn->req`: `buf`, `data_len`, `request_len`, `content_len`, `consumed_content`, `is_chunked`, `must_close`, `state`; `conn->headers` | `http_process_connection`, `get_request_response`, `get_message`, `read_message`, `http_read`, `_read_inner`, `_read_all` |
| Routes and routing | `httpi_io.c` (`set_handler_type`), `httpi_request.c` | `ctx->host.handlers`, the `handlers` of every domain, what a request looked up | set, update, delete, look up, `http_handle_request` |
| Responses | `mod/mod_response.c`, `httpi_io.c` | `req.state`, response headers, throttle | `http_response_start/add/send`, `http_write`, `http_chunk`, `http_error_send` |
| WebDAV locks | `httpi_request.c` | `ctx->webdav_lock`, ten slots under `ctx->nonce_mutex` | `dav_lock_file`, `dav_unlock_file` |
| Files, PUT, DELETE, ranges | `httpi_request.c` | the file system | one function per method |
| WebSocket | `httpi_ws.c` | reassembly buffer, `req.in_websocket_handling`, `must_close` | read loop, write, client thread |
| Hash table, map | `src/hashtable.c`, `src/map.c` | buckets, size, capacity; a linked list beside it | put, get, delete, grow; push, pop, shift, remove, iterate |
| Server lifecycle | `httpi_start.c` | `ctx->status`, listening sockets, domains | `httpi_setup`, `http_server`, `http_accept`, `http_stop`, `http_free_ini`, `http_add_domain` |
| Client | `httpi_io.c`, `mod_response.c` | a connection with a context of its own | `http_connect_impl`, `http_get_response`, `http_download`, `http_upload` |
| Authorization | `httpi_authorize.c` | nonce base and count of `ctx` | `authorize`, `parse_auth_header` |
| Options, ACL, ports, patterns | `httpi_options.c` | `ctx->host.config` | parsing, `http_match_prefix`, `http_switch_domain` |
| HTTP/2, zlib, QuickJS, JSON, url tool, SQLite | `mod/*`, `json.c`, `parson.c`, `app/url.c` | own | outside the core |

How they meet. A listener coroutine (`http_server_task`) accepts a socket and
starts a guarded coroutine per connection (`http_handler`, cleaned up by
`httpi_cleanup`). That coroutine runs the connection loop; for each request the
loop chooses a domain, calls `http_handle_request`, which looks up routes under
`ctx->nonce_mutex` and calls the handler after releasing it. A handler reads
the body through `http_read`, which shares the buffer with the loop, and writes
through the response functions, whose `req.state` the loop's refusals share
too. `http_stop` may be called from any thread or from the Ctrl-C handler: it
only sets `ctx->status`, waits a fixed time and frees the context.

What is hard about it:

* one buffer and six counters are shared by the loop, the framing code and any
  handler, over all requests of a connection; what is reset between two
  requests, and what is not, decides where the next request is looked for;
* the loop must end whatever a client leaves out, and must not go on behind a
  request that was refused;
* routes are edited while requests walk the list, domains hang on to the same
  list, and a request uses what it found after the lock was released;
* the hash table frees values at places that depend on which of its three kinds
  of user it has, and its growth, its tombstones and its probes meet in orders
  no test writes down;
* WebDAV locks are edited under a lock and answered after it, and expire;
* every call of a handler meets whatever `req.state` the calls before it left,
  and an error may call back into the application in the middle of a response;
* a throttled write is cut into slices with sleeps in between, in which the
  clock, the socket and a server stop move on;
* a websocket frame may lie in the queue, run over its end, or arrive while any
  coroutine writes or closes the same connection;
* stopping the server frees the context while coroutines may still use it.

What makes each part correct, in a sentence. Connection: every byte of the
stream belongs to one head or one body and the requests are handled once and in
order. Routes: the list is an ordered table without leaks or dangling cells and
behind the steps that answer before it, no protected URI is served without its
check; an added domain answers as the host. Responses: every response has one
status line, then headers, then a body, and nothing is sent twice. WebSocket:
messages are delivered whole and in order and a close ends the loop. Hash
table: it is a dictionary as long as its users only use it in the ways they do.
WebDAV locks: a resource has one owner, whose lock is not taken before its time.
Lifecycle: nothing is used after it is freed.

## 2. Modules

| Module | What it is |
|---|---|
| `Connection` | the keep-alive loop of one connection with its client, its handler and a server stop |
| `RequestPipeline` | the abstract promise: requests are handled one at a time, each once, in order, none behind a refused or closing one |
| `MCConnection` | twenty client streams for TLC |
| `ConnectionProofs` | the theorems about the buffer and the bodies of `Connection` |
| `PipelineProofs` | framed streams stay in step, and `Connection` implements `RequestPipeline` |
| `RouteRegistry` | the list of routes, domains, requests that walk them, server stop |
| `RouteTable` | the abstract promise: an ordered table with one handler for each type and URI |
| `MCRouteRegistry` | an instance with prefix, pattern and exact routes |
| `RouteRegistryProofs` | the theorems about `RouteRegistry`, with the refinement of `RouteTable` |
| `HashTable` | the open addressing table: probing, tombstones, growth, and what each operation frees |
| `Dictionary` | the abstract promise: a lookup answers with what was stored last |
| `MCHashTable` | an instance with colliding keys |
| `HashTableProofs` | the theorems about `HashTable`, with the refinement of `Dictionary` |
| `DavLocks` | the WebDAV lock table, its requests and the clock |
| `LockService` | the abstract promise: one holder per resource, who loses it when it lapsed or to a full table |
| `DavLocksProofs` | the theorems about `DavLocks`, with the refinement of `LockService` |
| `MCDavLocks` | an instance of it |
| `WebSocket` | one websocket connection: the reader, writers, waiters, PINGs, closing from either side |
| `MessageChannel` | the abstract promise: the messages for the handler arrive whole, each once, in order |
| `MCWebSocket` | eight peer streams for TLC |
| `WebSocketProofs` | the theorems about `WebSocket`, with the refinement of `MessageChannel` |
| `Response` | what is sent on one connection: any calls in any order, and the slices of a throttled write |
| `MCResponse` | an instance of it |
| `ResponseProofs` | the theorems about `Response`: heads, slices, chunks, the throttle |
| `ResponseBodies` | the lengths that are delivered, and the progress of a call |

### Connection

The client's bytes are positions `1..n` of a stream; a message is the place of
its head and body in it, its `Content-Length`, `Transfer-Encoding`,
`Connection`, whether its method has a body, and what is wrong with it. The
buffer is the stretch `base+1 .. base+data_len` of the stream, so the memmove
of the loop is an assignment to `base`; if code ever left bytes of two
different stretches behind each other, `base + data_len` would no longer be the
last byte taken off the socket, which is what `BufferContiguous` says.

| Action | Code |
|---|---|
| `Scan`, `Recv`, `RecvFails` | one turn of `read_message` (`get_http_header_len`, the stop and size checks, `tls_reader`) |
| `NoMessage` | `get_message` fails: 413, 400 or a silent close, then `http_error` |
| `Refuse` | `parse_http`, host, length, coding and URI checks that fail, then `http_error` |
| `Dispatch` | a request is accepted: `get_request_response` sets the framing, `http_handle_request` resets `req.state` |
| `HandlerRead`, `BodyRecv`, `BodyEnds`, `ChunksEnd` | `http_read` / `_read_inner` / `_read_all` called by a handler with any length |
| `HandlerReturns` | the handler returns, having sent nothing, a response or an error page |
| `Finish` | `keep_alive`, `discard_len`, the memmove, the next turn or the end |
| `Stop` | `http_stop` sets `ctx->status` |

Two simplifications. A chunked body is read without modelling the chunk lines:
`http_read` then may take any number of bytes and end or fail at any time; the
loop closes every connection that had a chunked body, because it wants
`is_chunked == 4` and no code sets 4. And when a head is looked for in the
middle of a body (which the code can do, see 4) the outcome is one of the three
that the first line of such a text can have.

### RouteRegistry

Memory is a set of cells; `cell[c]` is the `uri_handler_info` in it or `None`.
Walks and edits of the list hold `ctx->nonce_mutex` in the code and are single
steps here. A request is a record that moves through `lookup`, `auth` and
`serve`, between which every other action may run, as it may in the code.

| Action | Code |
|---|---|
| `UpdateRoute`, `AddRoute`, `RemoveRoute` | the three endings of `set_handler_type` |
| `BuildDomain`, `LinkDomain` | `http_add_domain` before and under the lock |
| `BeginRequest` | `http_switch_domain` |
| `AnswerEarly` | steps 1.2, 3 and 4: the redirect to https, the application's callback `handler`, the CORS preflight; each may answer and return, a protected URI too, before any check |
| `LookUp`, `Authorize`, `Serve` | steps 5, 6 and 7 with `get_request_handler`; a callback that declines leads back to 6 for a file |
| `FreeRoutes`, `UseFreed` | `http_free_ini` and the next use of the context by a request |

Steps 3 and 4 may so answer for a protected URI without a check; of the callback
the code says so itself ("called before an authorization check",
`httpi_request.c:2533`). `ProtectedIsChecked` is about what comes behind them: a
route's callback or a file, of the host or of any domain. The history `alike`
holds the domains whose copied head is still the host's first route. A request
of such a domain gets the host's callback, is authorized when and only when the
host protects the URI, and meets no freed route, whatever was edited behind the
first (`DomainAnswersAlike`). A copy made of an empty list never joins `alike`,
and all leave it when the first route is removed; `NoFreedRoute` shows what a
request can meet then.

### HashTable

One table, of one of the three kinds in use, which differ in what is freed:
`"string"` (`hash_put_str`, copies nobody frees: headers, parameters, cookies),
`"object"` (`hash_put`: sessions, dispositions) and `"map"` (pointers under
keys that are freed: the tables of `map.c`). A table is `sound` until an
operation frees something twice or keeps a pointer to freed memory (`damaged`:
undefined behaviour, the model stops there), probes for ever (`stuck`) or is
freed (`released`).

| Action | Code |
|---|---|
| `Put` | `hash_operation`, with `hash_grow` inside it |
| `Replace` | `hash_replace`, which `map_put` calls for a key that is present |
| `Get` | `hash_get`, `hash_get_pair`, `hash_has` |
| `Delete` | `hash_delete` with `hash_put_tombstone` |
| `Free` | `hash_free` |

The hash of a key is a number, wrapped by the capacity as in `hash_lp_idx`.
The table is not locked by the code; each belongs to one connection or scope,
so its operations do not overlap and are single steps here.

### DavLocks

| Action | Code |
|---|---|
| `LockFile` | `dav_lock_file` up to `atomic_unlock`: the search, which clears expired locks of others and renews the user's own; the free slot; the eviction |
| `SendToken`, `SendBody` | the headers and the body of its 200 answer, which read the slot after the lock is released |
| `UnlockFile` | `dav_unlock_file`, which changes nothing |
| `Tick` | the clock of `events_now` |

A token is the record it is hashed from (path, time, user).

### WebSocket

The peer's bytes are positions of a stream, as in `Connection`; a frame is the
place of its header and payload in it. The queue behind the upgrade request in
`conn->req.buf` is the stretch `at+1 .. at+queued`, and the payload buffer is
the set of positions copied into it, so that a payload put together from the
queue and from later reads is whole exactly when it is the stretch behind its
header.

| Action | Code |
|---|---|
| `Refuse`, `Accept`, `ReadyReturns` | `http_websocket_request`; for a client the start of its thread |
| `LoopEnds`, `NeedMore`, `TakeFrame` | one turn of `http_read_websocket` over the queue: header complete or not, payload queued or not, the memmove |
| `OverflowRecv`, `OverflowFails` | the reads of a payload that runs over the end of the queue |
| `HandlePong`, `HandlePing` | PONG and PING when `enable_ping_pong` is set |
| `CallHandler`, `CannotInflate`, `InflateSpins`, `HandlerReturns` | decompression, the data handler and what ends the loop |
| `Recv`, `RecvFails`, `RecvTimeout` | the read at the end of a turn; after a timeout a PING, up to `MAX_UNANSWERED_PING` |
| `ReaderLeaves` | behind the loop |
| `BeginWrite`, `LockWrite`, `WriteHead`, `WritePayload`, `WriteFails` | `http_websocket_write_exec` under `req.mutex`, by any coroutine and by the reader's callbacks |
| `ServerClose`, `ClientClose`, `ClientFree`, `UseFreed` | `http_close_connection` and what still runs behind it |
| `Stop` | `http_stop` |
| `SeesReady`, `WaitReturns` | `http_websocket_wait`: it leaves its loop, because the flag is set or the connection of a server is gone; it clears the flag. One that stays in the loop changes nothing |

Threads. Coroutines of one thread take turns where they yield; those of other
threads run at the same time. Where the scheduler places them is not the code's
to say (the reading task of a client is started as a "~threaded~ task",
`httpi_ws.c:958`), so `thread` is any of `Placings`, and `Runs` says who can go
on: nobody whose thread is held by a coroutine that spins for `req.mutex`
(`atomic_lock` is a spin lock that never yields, `include/catomics.h:712-720`),
that has found the flag of `http_websocket_wait` and not yet cleared it, or that
inflates for ever. The holder of the mutex yields in `http_write`; if another
coroutine of its thread then wants the mutex, both stand still for good
(`MutexStuck`). Waiters are coroutines of their own: one that writes and waits in
turn is a writer and a waiter of one thread.

Simplified: header, mask and extension arithmetic; a PONG echoes whether the
PING had a payload, not what was in it; a control payload has at most 125 bytes;
a socket that failed a write takes nothing more; the upgrade request leaves room
in the buffer for one frame header.

### Response

A call is the sequence of pieces it writes, each with its kind, its length, the
`req.state` it leaves and whether the caller gives up on a short write. The calls
of one connection are made by one coroutine, so only the socket, the clock and
`http_stop` act between two pieces, and between two slices of one.

| Action | Code |
|---|---|
| `FirstSlice`, `NextSlice`, `LoopStops` | `http_write` with its throttle and `_write_all`: the write up to the loop, a turn of the loop, a stop during its yields |
| `Start`, `Add`, `Send` | `http_response_start`, `_add`, `_send` |
| `Write`, `Chunk` | `http_write` and `http_chunk` called by a handler |
| `Ok` | `http_ok`, `http_redirect` |
| `ServeFile` | `handle_static_file_request` with `parse_range_header`'s count and `http_send_file_data` |
| `ServeCompressed` | `http_compressed_data` |
| `Error`, `ErrorCallback`, `ErrorCallbackReturns` | `http_error_send`: its callback, the calls that makes, its own page or a page from a file |
| `NextRequest`, `Tick`, `Stop` | the keep-alive loop, the clock, `http_stop` |

## 3. Runs

| Run | What it checks | Result |
|---|---|---|
| `connection` | types; the buffer is one piece of the stream; body reads stay in the body; the first body is exact; requests once and in order; on framed streams the loop implements `RequestPipeline`, so the n-th request is the n-th message; nothing after `must_close`; the coroutine ends | holds |
| `connection_in_sync` | every request begins where a message does, on every stream whose messages declare their length | violated (finding) |
| `connection_refusals` | a refused message is answered with a whole response | violated (finding) |
| `routes` | types; the chain; a callback or file of a protected URI is reached only through its check, on every domain; a domain answers as the host while the first route stays; `RouteTable`; exact routes | holds |
| `routes_no_freed_route` | no request walks a freed route while the server runs | violated (finding) |
| `hashtable` | types; `size` counts the pairs; every pair is found from its home and only once; a growing table has no tombstone; tables of strings are harmed only by the reuse of a deleted pair; the table implements `Dictionary` until an operation fails | holds |
| `hashtable_wait_free` | every operation ends | violated (finding) |
| `dav_locks` | types; a resource has one owner; a lock that has not expired is only evicted from a full table, as the oldest; the table implements `LockService` | holds |
| `dav_locks_tokens` | a user who is told that a resource is locked gets his own token | violated (finding) |
| `websocket` | types; the queue begins at a frame whenever a header is looked for; frames of different coroutines never mix; the mutex is held only while a message is written, or lost with a deflater that could not be made; PINGs are bounded; on the reader's thread a wait returns for the last message and alone; the reader implements `MessageChannel`; a silent peer is dropped and a close or a stop ends the loop, but for the places where the reader stands still | holds |
| `websocket_freed_connection` | no coroutine uses a connection that was freed | violated (finding) |
| `response` | types; one status line, headers, one blank line, then data; chunks stay whole; a throttle delays and does not cut; slices join; a kept connection delivered the length it declared; every call returns | holds |

Bounds. Connection: a buffer of four units and streams of up to six, so that a
head or a body fits, just fits, or does not; reads of up to three; the streams
in `MCConnection` are chosen so that each branch of the loop is taken, with up
to three messages, which is one more than any single hand-over needs. A stream
is finite, hence so is the state space: no counter is cut off. Routes: three
cells, three URIs (an exact one, a prefix, a pattern), one protected URI, one
additional domain, one request at a time; the list operations distinguish the
first, a middle and the last cell, and three cells have all of them. Two
handlers suffice to see an update. Cells and handlers are interchangeable, so
symmetry is sound; there is no liveness property in that run. Hash table: three
buckets that grow to twelve under four keys; three keys share a home in the
small table and their chain runs over its end, two collide in the large one;
two values tell an update from the value before. Four keys fill the small table
and force the growth, and deletes in all orders put a tombstone anywhere in a
chain. WebDAV: two users, two resources, two slots, two requests, a duration of
one tick and a clock (`MaxTime`) that lets a lock expire, be taken by the other
user and expire again; renewals fill the second slot, so that one resource can
occupy the whole table and the other must evict. WebSocket: eight streams of at
most three frames, which between them put two frames into one queue, run a
payload over its end, compress one, end with a close frame that has another
frame behind it, and declare a length beyond the limit; `Room` is 2, so that the
queue just fits a header of two units or a frame of two; a payload of two units
(`MemSize` 1) needs a `malloc` that may fail; `MaxUnansweredPing` is 1, so that a
second PING is due and refused; one writer beside the reader, one message of the
application, small or large; two waiters; all coroutines on one thread, where
reader and writer can block each other, or a writer and a waiter on another than
the reader and the other waiter. Response: no throttle, one below and one above the
length of most pieces, and changes between the two; a file of two blocks
(`FileSize` 2, `FileBuf` 1) with ranges inside, at and past its end; writes of up
to two units; three calls over two requests, the fewest in which an error and
its callback meet a response that has begun and one request leaves `req.state`,
budget and connection to the next.

"Deadlock" is off where things end: a connection that closes, a stopped server,
a freed table, the bounded calls and requests of a connection.

Fairness (`FairSpec` of `Connection`). The coroutine keeps running; a read
returns, because `http_accept` puts `request_timeout` on the socket
(`httpi_start.c:197`), which makes `RecvFails` and `BodyEnds` possible at every
moment; a handler that could return again and again does so in the end (strong
fairness of `HandlerReturns`). Nothing is asked of the client: it may never
send another byte. `Stop` is not fair. `FairSpec` of `WebSocket`: coroutines
run in the end while their thread is not held by another, callbacks return, a
read of the loop returns because the socket has a timeout, and so does a write.
All of it is weak fairness: a spin lock promises nobody a turn, so a writer gets
the mutex only because the others come to the end of their writes (`MaxWrites`,
and the PINGs are bounded). The reader can still stand still for ever, in four
places that `Held` names and the two liveness properties exclude: a peer that
falls silent in the middle of a frame (the overflow case retries a timeout for
ever), an empty compressed frame, a mutex that was never released, and a mutex
whose holder shares its thread with a coroutine that spins for it, where the
reader or a coroutine of its thread spins too.
`FairSpec` of `Response`: a write that can go on does.

## 4. Where the code and its documentation disagree

Each of the violated properties is a finding in `PROJECT.json`:

* `AlwaysInSync`: `consumed_content` is never reset between requests.
* `RefusalAnswered`: the first refusal meets `conn->headers == NULL`, a later
  one a stale `req.state`.
* `NoFreedRoute`: a domain keeps a copy of the head pointer of the list.
* `WaitFree`: the load factor is compared with an integer quotient, so a table
  fills up before it grows, and the lookup of an absent key in a full table
  never ends.
* `TokenIsTheirs`: with a full table LOCK answers 200 with the token and owner
  of the lock it has just evicted and stores nothing; and the answer reads the
  slot after another request may have taken it.
* `NeverUsesFreed`: `http_close_connection` frees a client's connection and
  context at once (`httpi_io.c:1724-1728`), while the comment at
  `httpi_ws.c:959-961` says that the reading task stops by itself; it is not
  waited for, and neither is a coroutine that writes.

Seen while modelling, without a run of their own:

* `conn->headers` outlives its request, so a GET without a length takes over an
  earlier `Content-Length`; the comment at `httpi_io.c:1592` says "There is no
  exception". `Overlay` and `BodyFraming` model it, and `HandlesPipeline`
  excludes it by `Framed`.
* The 413 branch of `get_message` (`httpi_io.c:1463`) is unreachable:
  `read_message` returns -2 for a head that does not fit, and the client is
  told 400.
* A domain added while the list of routes is empty keeps `NULL` and never sees
  a route that is set later.
* `hash_put` on a deleted pair frees its value a second time and leaves its key
  `NULL` (`hashtable.c:252-259`); `hash_put` on a key a map already has frees
  its value twice; a growing table of pointers keeps pointers to the values it
  frees (`hashtable.c:206-210`). `Damage` models all three. Headers that were
  received are only put and looked up, which is safe; the headers of a response
  that is built are also deleted (`http_response_str`, `http.c:732-740`), and a
  put behind that may reuse a deleted pair.
* `hash_grow` asks the new buckets for its tombstones (`hashtable.c:206`). It
  does no harm, because a table that grows has none.
* A renewed WebDAV lock takes a second slot (`httpi_request.c:983`), and UNLOCK
  answers 204 but leaves the lock in place (`httpi_request.c:1072`).
* A throttle that is lowered between two requests of the same second makes the
  budget of `http_write` negative: it returns 0 on an open connection, which
  `httpi.h:231-235` reserves for a closed one, and refuses writes until the
  second is over. `ThrottleDelaysOnly` says so; `ChunksWhole` says that it never
  tears a chunk.
* The loop of `http_write` sleeps for a number of yields, not for a second, so
  `throttle` does not bound the bytes per second (`httpi_internal.h:464`).
* A range whose last position is not below the size declares one byte too many
  (`httpi_request.c:1721`); one that ends before it begins, or begins behind the
  file, declares a negative length; a file that shrinks while it is sent keeps
  the connection with a body that is too short. `LengthDelivered` excludes the
  three.
* `http_response_send` always returns 0, where its comment offers -4; an error
  page from a file is sent with status 200; compressed data ends with its end
  marker also behind an error.
* The sixth PING goes unanswered before the peer is dropped, where the comment
  says five; an uncompressed large message sends its header only; a failed
  `http_websocket_deflate_init` keeps `req.mutex` for ever (`httpi_ws.c:664`);
  an empty compressed frame spins for ever; a timeout in the overflow case is
  retried whatever `must_close` and `ctx->status` say. `Held`, `MutexInUse` and
  `FramesUnmixed` name the exceptions.
* `req.mutex` is a spin lock held over the yields of `http_write`
  (`httpi_ws.c:661-732`): two coroutines of one thread that write to one
  websocket, or one of them and the reader with a PING or PONG, can stop their
  thread for ever, a later close notwithstanding. `Held` names it.
* `http_websocket_wait` tests and clears its flag without a lock
  (`httpi_ws.c:764-769`). On the reader's thread that is enough
  (`WaitMeansMessage`); from another thread one message can wake two waiters and
  a message that comes between test and clear is lost. A waiter of a client whose
  reader has left waits for ever, and one of a server returns, without a message,
  from a connection that was freed.
* `http_connect_impl` with a failed socket frees the connection but neither its
  buffer nor its context (`httpi_io.c:2402`, not modelled).
* The payload buffer of a websocket frame has `data_len` bytes, and inflating
  writes four behind them (not modelled: lengths of buffers in bytes).
* `websocket_timeout` is an option nothing reads.

## 5. Proofs

`ConnectionProofs` proves for every set of client streams whose messages are
typed, every positive buffer size and read length, and both settings of
`enable_keep_alive` (assumption `ConstantsOK`):

| Theorem | Property |
|---|---|
| `Invariant` | the inductive invariant `IInv` |
| `TypeCorrect` | `TypeOK`; in particular `data_len` stays within `0..BufSize` |
| `BufferStaysContiguous` | `BufferContiguous` |
| `ReadsStayInBody` | `BodyWithinMessage` |
| `RequestsInOrder` | `ServedInOrder` |
| `FirstBodyIsExact` | `FirstBodyExact` |
| `SilentAfterMustClose` | `NothingAfterMustClose` |
| `LoopTurnsAreBounded` | the loop takes at most one turn more than the stream has bytes |
| `RefusalsFailTwoWays` | which refusals crash, which lose their status line, which are answered |

None of these is inductive alone. `IInv` adds how far the buffer, the body
already read and the socket are apart at every place of the loop: while a head
is read `taken` is `base + data_len`; while a body of declared length is read
`taken` exceeds neither the buffer nor the end of that body; when a head was
found `request_len` lies within the buffer; and every request served so far
began before `base + data_len` is reached again. That makes the new value of `base` in `Finish` the
end of the stretch the handler left off at, which is the one step at which the
buffer could tear. `FirstBodyIsExact` needs a second invariant on the first
request, that `consumed` counts exactly the positions handed out.
`TurnsBounded`, behind `LoopTurnsAreBounded`, says that each turn but the one
under way used up at least one position of the stream.

`PipelineProofs` builds on `IInv` and, under the same assumptions and
`StreamsInOrder` (the messages of a stream lie one behind the other):

| Theorem | Property |
|---|---|
| `FramedStaysInSync` | `InSync`: on a framed stream the n-th request is the n-th message (no run repeats it: `HandlesPipeline` says more) |
| `ImplementsPipeline` | `HandlesPipeline`: `Spec` implements `RequestPipeline` |

`SyncInv` says for every place of the loop where the next message begins:
`AtNextMessage` while a head is looked for, `InMessage` while one is handled,
`ServedFirst` and `HeadersOfServed` about what was served before. The step that
needs an induction over the stream is `HeadOfNext`: the head found at the place
behind n messages is that of message n+1. It is argued by a least
counterexample, since the induction theorems of the library take an operator.

`RouteRegistryProofs` proves for any cells, types, handlers, domains and
connections, any URIs and any two relations of prefixes and patterns between
them (`RegistryConstants`, with finitely many cells, and `NoneIsNoRoute`):

| Theorem | Property |
|---|---|
| `ShapeStays` | `TypeOK` |
| `ListIsOneChain` | `ChainIntact` |
| `DomainsAnswerAlike` | `DomainAnswersAlike` |
| `ProtectedStaysChecked` | `ProtectedIsChecked` |
| `ExactAlwaysWins` | `ExactRouteWins` |
| `ListIsTable` | `ImplementsTable`: `Spec` implements `RouteTable` |
| `FreedRoutesAreLeftBehind` | where a lookup can meet a freed route, and where never |

The walk along the pointers is a recursive function over the number of cells;
`WalkOfList` shows that it returns a list whenever there is one, again by a
least counterexample. `ListInv` then speaks of that list: its cells are linked
one to the next, cover every cell in use, and no two have the same key. The
three edits of `set_handler_type` are a replacement, an append and a removal of
it (`UpdateKeepsList`, `AddKeepsList`, `RemoveKeepsList`), which is also the
refinement. `ProtectedIsChecked` needs `Guarded`: whatever a request looked up
before an edit, a URI that is still protected then is one it must be checked
for. `DomainsAnswerAlike` rests on `AlikeInv`: a domain in `alike` holds the
host's own head, and that route lives, so domain and host walk one chain.

`HashTableProofs` proves for any keys and values, any hash of each key other
than 0, any initial capacity, growth factor and kinds of table
(`TableConstants`, `MarkersAreNoPairs`):

| Theorem | Property |
|---|---|
| `ShapeStays` | `TypeOK` |
| `SizeIsExact` | `SizeCounts` |
| `PairsAreFound` | `Reachable` |
| `GrowthMissesNothing` | `GrowsWithoutTombstones` |
| `StringsStaySafe` | `StringsSafe` |
| `TableIsDictionary` | `IsDictionary`: `Spec` implements `Dictionary` |
| `LookupsEndUnlessFull` | a get or delete hangs exactly when its key is absent and no bucket is empty |
| `PutsAlwaysEnd` | a put always finds a bucket to stop at |

`HInv` is `TypeOK`, `SizeCounts` and `Reachable` together, none of which is
inductive alone: a put stops at the right bucket only if pairs are reachable,
and a growth keeps them only if the count shows that the table was full
(`GrowsWhenFull`). That the probes from a home visit every bucket
(`ProbeOnto`) is arithmetic of remainders; the rehash, a recursive function over
the buckets, is unfolded step by step (`MoveStep`) by a least counterexample.

`DavLocksProofs` proves for every set of users, resources and requests, every
number of slots, duration and bound on the clock (assumption `LockConstants`):

| Theorem | Property |
|---|---|
| `TypeCorrect` | `TypeOK`; in particular a granted request refers to a slot of the table |
| `OneOwnerAlways` | `OneOwner` |
| `ValidLockStaysAlways` | `ValidLockStays` |
| `TableImplementsService` | `ImplementsService`: `Spec` implements `LockService` |
| `AnswersAreTheirsWhileHeld` | when the token and the owner of an answer are right, and how they come to be wrong |

`OneOwner` is inductive with `TypeOK`: if the user has a lock on the resource
then by `OneOwner` all its locks are the user's; if he has none and is not
refused, the search has cleared every lock on it (`SearchLeavesOwn`). For
`ValidLockStays`, the search clears no lock that has not expired, and a table
without a free slot in which the user has no lock was not changed by the search
at all, so the oldest lock after it is the oldest before it. That the set of
slots has a least member is `LeastIsLeast`, from the well-foundedness of `<`.

The refinement maps the table to who holds each resource (the user of its first
slot, by `OneOwner` the user of all of them), which holds have lapsed and
whether the table is full. A granted LOCK is a `Take` of the user: `WhoMayTake`
shows that one who is not refused finds the resource free, his own or lapsed.
The eviction from a full table is an `Evict`, because the oldest slot may be the
holder's only one or his second. A refused LOCK that cleared expired slots before
it met a valid one leaves that one, so the holder stays. `UnlockFile` is a
stutter: that is what the code does, and `LockService` has no step that gives a
resource back.

`AnswersAreTheirsWhileHeld` rests on `Stamped` (a lock carries the token made
for it, since the search changes times and paths only) and takes from
`ValidLockStays` how a pending request can lose its slot.

`WebSocketProofs` proves for any streams of frames that lie one behind the
other, any size of the queue, any writers and waiters on any threads, messages
and number of PINGs (`SocketConstants`):

| Theorem | Property |
|---|---|
| `TypeCorrect` | `TypeOK` |
| `QueueBeginsAtFrame` | `QueueAtFrame` |
| `FramesNeverMix` | `FramesUnmixed` |
| `MutexIsInUse` | `MutexInUse` |
| `PingsAreBounded` | `PingsBounded` |
| `WaitReturnsForMessage` | `WaitMeansMessage` |
| `ImplementsChannel` | `DeliversChannel`: `Spec` implements `MessageChannel` |
| `CloseLeadsOut` | a close is never undone, and from then on each step of the reader leads towards its end |

One invariant per concern, so that a step that touches only another keeps it by
`UNCHANGED`: `LockInv` (who writes holds the mutex, and an unfinished frame has
its writer), `PingInv` (the history of unanswered PINGs is `ping_count` or less
wherever it matters), `WaitInv` (a set flag stands for a message no wait returned
for; with `Runs` nobody of the thread acts between test and clear), `QueueInv` (the queue is a stretch of the
stream that begins at a frame) and `ReadInv` (frames are taken one behind the
other, `cur` is the last one taken, its payload was put together without a gap,
and `Heard`: nothing was delivered behind a message that ends the loop).
`NextFrame` connects the last two: the only frame that can begin where the last
one ended is the next. `CloseLeadsOut` needs `ClosedByBoth`: the start of a
client's thread sets `ctx->status` to running again, but only
`http_close_connection` can have changed it before, which also set `must_close`.

`ResponseProofs` proves for any throttles, file, block size, lengths and number
of calls and requests (`ResponseConstants`):

| Theorem | Property |
|---|---|
| `TypeCorrect` | `TypeOK` |
| `SlicesAlwaysJoin` | `SlicesJoin` |
| `ThrottleOnlyDelays` | `ThrottleDelaysOnly` |
| `HeadComesInOrder` | `HeadInOrder` |
| `ChunksStayWhole` | `ChunksWhole` |

`SliceInv` is about the slices of the write in progress. `HeadInv` relates what
is on the wire to what is still to write: everything sent may be followed by
every piece to come, `state = 0` means that nothing was sent and `state = 1` that
only a status line and headers were. `ChunkInv` says that the rest of a call
never begins in the middle of a chunk unless the wire ends in its first half,
and that writes are only refused before the first that is not: once a part of
this second's budget is spent under the throttle of this request it is never
overdrawn (`FirstFacts`, `NextFacts`). Hence a chunk whose size went out has all
of its parts, and one whose size was refused is given up.

`ResponseBodies` goes on from there, under the same assumptions:

| Theorem | Property |
|---|---|
| `LengthAlwaysDelivered` | `LengthDelivered` |
| `CallsAdvance` | a step inside a call brings it nearer to its end or leaves it alone: what `CallsReturn` rests on without fairness |

`BalanceInv` is the invariant: while a response has promised a length that its
file can keep and no write was refused, what was sent of its body and what the
open call still has to write add up to that length. The blocks of a file add up
to what was to be read (`BlocksAddUp`), a range inside the file has the length
it declares (`RangeIsRead`), and a write moves a piece from one sum to the other.
Sums of a sequence are a recursive function, `Total`; that it is defined at every
length (`SumsExist`) is argued by a least counterexample, and `TotalConcat`,
that the sum of two sequences joined is the sum of theirs, likewise.

### The limits of the findings

A run that finds a violation shows one behaviour; for five of the six findings a
theorem says where the disagreement ends, so that a reader knows what can still be
relied on:

| Finding | What is proved to hold |
|---|---|
| `AlwaysInSync` | `FramedStaysInSync`: on a stream whose messages state their framing requests and messages agree |
| `RefusalAnswered` | `RefusalsFailTwoWays`: the process dies only on a refusal before anything was parsed, a status line is missing only after a served request, a parsed first request is answered in full |
| `NoFreedRoute` | `FreedRoutesAreLeftBehind`: only an added domain whose copied head was deleted, never the main host |
| `WaitFree` | `LookupsEndUnlessFull` (with absent keys and no empty bucket, and only then), `PutsAlwaysEnd` |
| `TokenIsTheirs` | `AnswersAreTheirsWhileHeld`: only after a grant by a full table, an expiry before the answer, or an eviction |

The sixth, `NeverUsesFreed`, has no such theorem: every step of a client's
coroutine after `http_close_connection` is a use of what was freed, which is the
whole of it.

### Only model-checked

The liveness properties (`Terminates`, `CallsReturn`, `SilentPeerDropped`,
`CloseEndsLoop`) need fairness and ENABLED, which the prover does not reason
about. A safety part of each is proved: that the turns of the loop are bounded
(`LoopTurnsAreBounded`), that each step inside a call lowers its measure
(`CallsAdvance`), that unanswered PINGs are (`PingsAreBounded`) and that a closed
reader only moves towards its end (`CloseLeadsOut`). That the reader and the calls
do keep moving, by the fairness assumed, is left to TLC.

## 6. Not modelled, and why

`PROJECT.json` names every component with its status. By lines most of the
repository is the vendored amalgamation `mod/sqlite3.c`; with the other vendored
libraries (cJSON, parson) and the tools on top of the library (`app/url.c`) it
is outside the core. Of httpi's own code these have no model:

* **PUT, DELETE, MKCOL, MOVE, PROPFIND, directory listings, downloads and
  uploads**: sequential work on the file system, one early return per failure;
  no second actor and no state that outlives the call.
* **The list and the iterators of `map.c`**: sequential; `HashTable` has every
  call `map.c` makes of the table. `map_pop` and `map_unshift` leave stale
  pointers (hazard list), of which the repository says nothing.
* **Listeners, accepts, `go_guard` coroutines, `httpi_cleanup`**: scheduled by
  the external event library; what they do to a connection (a new connection, a
  stop, a freed context) is in `Connection`, `RouteRegistry`, `Response` and
  `WebSocket`. `http_stop` promises nothing beyond its fixed sleep, so a model of
  it would have no property to hold.
* **Reading a response (`http_get_response`)**: uses the reading functions of
  `Connection`; its own state (what it resets between two responses) is listed
  as a hazard without a property.
* **The two locks `nonce_mutex` and `req.mutex` together**: a close handler that
  edits routes while `close_connection` holds the spin lock waits for itself;
  what a handler calls is the application's.
* **Parsing, ACL, ports, options, `http_match_prefix`, authorization**: pure
  functions on text, taken as inputs by the models.
* **A file whose `fseek` fails** (`httpi_request.c:1568`) sends an error page
  behind a head that is out already. `Response` has it as two calls of one
  request, a head without a body and an `Error`, not as one outcome of
  `ServeFile`.
* **HTTP/2** is not compiled by default; **JSON, QuickJS, zlib, events, TLS** are
  external.

What would extend the project: the refinement of a response by the calls of
`RouteRegistry`'s handlers, so that a served request and what it sends are one
run; a client of `Connection` that reads one response after another; and
`RouteRegistry` with more than one request at a time.
