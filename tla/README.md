# A TLA+ model of Dian

Dian is a small media protocol in the style of RTSP: a client opens a TCP
connection, asks for a session with SETUP, plays a file or a range of it with
PLAY, and ends the session with TEARDOWN.  The repository holds a Python client
and server (`src/model-2.3/dian`) and a C++ server for Windows (`src/cpp/src`)
which the Python client can also talk to (`src/model-2.3/testc-cpp.py`).

This directory holds TLA+ modules that model both servers and the client, TLC
configurations that check them on small instances, and proofs, checked by TLAPS
for every size, about both servers, the client, ranges, sending a file, and
reading the heads of requests.
Paths below are relative to `src/`; line numbers are those of the source files.

## 1. The system

| Component | Source | State | Operations | Model |
|---|---|---|---|---|
| Python worker pool | `src/model-2.3/dian/server.py` | `_socket`, the dict `_sessions`, the locals `socket` and `req` of each worker | accept, read, OPTIONS, SETUP, PLAY, TEARDOWN, the two reset handlers, start | `DianServer` |
| Python sessions and messages | `src/model-2.3/dian/base.py` | `Session.socket`, `.file`, `.request`; `SocketStreamReader._max_read`, `._have_read` | `Session.__init__`, `play`, `close`; `Request.unparse`; `Response.response`, `unparse`; `read_until`, `read`, `readall`, `__del__` | `DianServer`, `PlayRange`, `DianWire`, `HeadReader` |
| Python client | `src/model-2.3/dian/client.py` | its socket, its session id, the response it holds | `connect`, `setup`, `play`, `options`, `teardown`, `disconnect` | peers of `DianServer`; `DianWire`; `DianSystem` |
| C++ threaded server | `src/cpp/src/server.cpp`, `server.hpp` | the map `sessions`, `sessions_lock`, the locals `client`, `request` of each thread | `start`, `_handle` | `RtspServer` |
| C++ play callback | `src/cpp/src/server-main.cpp` | none that lasts: the stream it opens is a local variable | the lambda `pcallback` | `RtspServer` (Play, Dispose), `PlayRange`, `DianWire`, `FileSend` |
| C++ sockets, readers, messages | `src/cpp/src/base.cpp`, `base.hpp` | a SOCKET handle, an error code, `Response::sended`, file positions | `accept`, `send`, `recvUntil`, `close`, the destructor, `parseThis`, `Response::send`, the readers | partly: `RtspServer`, `PlayRange`, `FileSend`, `HeadReader` |
| C++ coroutine sockets | `src/cpp/src/abase.*` | | | not modelled: nothing uses it yet (`README.md:36`) |
| Thread-local dict | `src/model-2.3/dian/ulits.py` | | | not modelled: imported, never used |
| Earlier versions | `src/model-1.1.py`, `src/model-2.3/old` | | | not modelled: superseded |
| Test programs | `src/model-2.3/test*.py` | one client and one thread each | `options_test`, `dian_test` | partly: `DianSystem` (`testc.py`) |
| asio, async_simple | `src/cpp/include` | | | not modelled: third party |

How they interact.  The workers of either server share a listening socket and a
table of sessions; each serves one connection at a time, from accept to its
end.  The Python workers have no lock: one dict operation is atomic under the
interpreter lock, a sequence of them is not.  The C++ threads have a mutex, which
they release between looking a session up, using it and erasing it.  Everything
else passes through TCP: requests one way, a head and perhaps a body the other.

What is hard here:

* the gaps between two accesses to the table of sessions;
* peers that close or reset at any moment, and what each `except` or `catch` then
  does; on the Python side the errno decides, on the C++ side a code that is
  never set;
* locals that outlive an iteration (`req`), handles that outlive their socket;
* telling one response from the next in a stream, when what is announced is not
  what is sent, or what is read is not what was announced;
* lines read byte by byte up to a limit, by loops that test where they are only
  after a step;
* a file in text mode, whose positions do not count what is read from it.

`PROJECT.json` lists these hazards at their lines, with the properties for them.

## 2. The modules

    SessionRegistry         what a server promises about its sessions (abstract)
       ^ implemented by
    DianServer              the Python worker pool and its peers
       DianServerProperties    its properties and its inductive invariant
          DianServerProofs        theorems
          MCDianServer            TLC: pool_sessions, pool_resets, pool_faults
       DianSystem              the clients of testc.py, composed with the pool
          DianSystemProofs        theorems
          MCDianSystem            TLC: test_program

    PlayRange               lengths announced and sent by a PLAY, both servers
       PlayRangeProofs         theorems
       Exchange                what a connection promises its client (abstract)
          ^ implemented by
       DianWire                one connection: server, TCP, client
          DianWireProofs          theorems
          MCDianWire              TLC: wire_steps, wire_readall
       FileSend                the C++ loop that sends a file as a body
          FileSendProofs          theorems
          MCFileSend              TLC: file_send

    RtspServer              the C++ threads, sockets and handles, and their peers
       RtspServerProperties    its properties and its inductive invariant
          RtspServerProofs        theorems
          MCRtspServer            TLC: rtsp_safety, rtsp_faults, rtsp_answers,
                                       rtsp_unique

    HeadReader              heads of requests, read byte by byte by either server
       HeadReaderLemmas        what its operators compute, for sequences of any length
          HeadReaderProofs        theorems
       MCHeadReader            TLC: head_reader

The definitions commented as mutants in the modules are not part of the model:
each changes one operator the way a plausible mistake would, to make sure that
the property that goes with it notices (`PROJECT.json`, "mutants").

### DianServer

A worker (`pc`, `cur`, `req`, `sock`) runs `_thread_boot`; `cur` is the local
`socket`, `sock` is `req.sock`, and both survive the end of an iteration, as
Python locals do.  `sessions[s]` is `_sessions[s].socket`, `NoConn` for a missing
key.  Each access to the dict starts a step of its own:

| Code | Action | `pc` |
|---|---|---|
| `accept` (34) | Accept | accept -> read |
| `Request.unparse` (39) returns, raises "Invalid head", meets the end of the stream, or fails | Read, ReadGarbled, ReadEof, ReadReset, ReadFails | read -> handle, dead, accept |
| 46-51 | Options | handle -> body |
| SETUP, 52-66, `Session.__init__` | SetupRefused, SetupGranted | handle -> body, dead |
| `in self._sessions` (72, 89) | Lookup | handle -> found |
| `_sessions[session].socket != socket` (75, 92) | CheckOwner | found -> owned |
| `_sessions[session].play` (79, 81) | Play | owned -> media |
| the answer, `close`, `pop` (95, 96, 97) | TeardownAnswer, (SendBody,) TeardownClose, TeardownPop | owned -> lastbody -> closing -> popping -> accept |
| the second send of an answer (base.py:136-139) | SendBody | body, media -> read; lastbody -> closing |
| all joins return (116-118) | Stop | |

`Response.response` sends twice, and so does the model: `Respond` sends the head
(base.py:134-135), after which a peer has its answer and may ask again or leave, and
`SendBody` what follows it, on the socket kept in `out`; the body may be empty.
Either send has every outcome of a send (`SendOn`): it succeeds, also when the peer
has closed and does not read it; the reset is raised and the handler takes it;
another OSError ends the worker.  A PLAY whose file is to be read backwards raises
between the two, once the head is out.  The refusals of the table go the same way
(`Refuse`, to `"body"`).  `ResetErrno` is the errno of
ConnectionResetError: only 10054 makes the handlers close and leave, anything
else falls through (40-43, 101-104) and the worker goes on with the request it
read before.  A worker whose exception nobody catches is dead for ever.

`grant`, `known` and `cause` are history: who an id was made for and with which
credentials, which ids left the server, what ended a worker.  The uuids are
distinct (`Fresh`) and nobody guesses one (`Send`).  A request arrives as a whole
here; `HeadReader` has its bytes.  The media itself is left out.

### DianSystem

The clients of `testc.py` on top of `DianServer`: a looker runs `options_test`
and leaves, then each tester runs `dian_test`, which is setup, a PLAY of a slice, a
PLAY of all, teardown.  A client waits for each answer, keeps the session id its
SETUP was told, and raises on a bad status or at the end of the stream; then
`__del__` closes the connection.  The actions of the server are those of `DianServer`
(`Serve`, `StopServing`), and a client's are its peer actions constrained by
`at`, `calls` and `session`.  A call returns with the head, and a PLAY's once the
second send is made (`MediaPending`), as `readall()` waits for the media.
`connect()` waits in the client's kernel while the
backlog is full.  A close counts as an end of file or as a reset, which is what
the kernel makes of it when bytes of an answer were left unread.  The answer to a
TEARDOWN has no headers, so a surplus line end follows its head (base.py:147), which
the client leaves unread: it may close, and reset the connection, before the server
makes the second send of that answer.  `Abandoned` is such a client, as long as its
session is in the dict; `Losses` are these and the lookers.  `key` is chosen
at the start: the one the server knows, or another.  `DianSystemProofs` shows that
every step of the system is a step of the pool or leaves it alone, so the system
implements `DianServer!Spec`.

### PlayRange and DianWire

`PlayRange` computes, for a file size and a range, the status, the
Content-Length and the number of bytes sent, for `Session.play` and for the C++
callback.  `DianWire` puts a server with these answers, a TCP stream that
delivers them in pieces of any size, and the client on one connection.  The
client reads a head, then its body with one `recv` of what Content-Length leaves
(`ReadAll`), or does not read it, in which case `__del__` reads it once the next
response has been parsed (`Drain`).  A length may be announced that is negative, but
only by the answer whose body ends its worker: no response follows, so a negative
rest is never drained.

`Exchange` is what the user of the client counts on: ask, read an answer whose
length is the one that goes with just that request, read a body of just that
length, ask again.  It knows no stream, no pieces, no reader and no status; once
something has slipped (`Slipped`, three causes named in `DianWire`) it promises
nothing any more.

### FileSend

`socket::send(StreamReader&)` asks its reader for a chunk until it gets an empty
one, and sends each chunk as long as it was asked to be.  The stream is a text
stream: `Chars` counts a CR LF as one character, `Stops` are the positions where a
read may end, and a read that meets the end of the file sets failbit, after which
`tellg()` is -1 and `Left` is computed from that: `size + 1` in a
FileStreamReader, and in a RangeFileStreamReader what the comparison of -1 with a
`size_t` makes of it, which differs between a 64-bit and a 32-bit build (`wide`).
`good` counts the bytes that came from the file.

### RtspServer

A thread knows a connection by its SOCKET handle only; `conn` is the kernel's
table of handles, and `Mine(t)` is the connection the handle of `t` stands for
now.  `CloseHandle` closes whatever that is, and is used by `close()` and by the
destructor.  A step lasts from one lock, unlock or send to the next: what happens
in one critical section is one step, and `mutex` is not free between two steps
only when an exception left it locked.  `"blank"` is a session that
`operator[]` made.  When a read fails with any code but 10054 the thread handles as
much of the request as had been parsed (`ReadFails`): nothing, or the method with or
without the Session, CSeq and Transport of what came (`Parts`).  `req.fate` chooses what the parts of the data the model does
not hold lead to: an answer, a refusal, or an exception before or after `getURI`.
Windows' `std::mutex` lets its owner lock it again, which `Lock` allows.

A PLAY that was answered goes through one more point, `"played"`.  The callback
gave its response a reader of a local `ifstream` (base.cpp:515) and has returned;
the destructor of the response deletes the reader, and that one closes the stream
(base.hpp:311, base.cpp:321), which no longer exists.  This is undefined
behaviour, so `Dispose` lets either nothing happen or the process end.  `crashed`
tells the two ends of the process apart: `"thrown"`, by an exception nobody caught,
and `"dangling"`.

### HeadReader

`RtspServer` and `DianServer` take a request, or `"GARBLED"`, from a connection in
one step.  `HeadReader` is that step: `recvUntil` gathers a line byte by byte, up to
`MaxLine` of them (1024 in the code), and `parseThis` takes each line apart with
scans of the form `while (*tmp++ != d && *tmp != 0)` (`Scan`); `read_until` gathers
one without a limit, and two regular expressions match it (`PyRequest`, `PyHeader`,
whose lazy and greedy parts are the first and the last position that fits).  The
bytes are those `Request.parse` writes (`Written`), or no request at all.

`Byte` has one value for every kind of byte the loops and expressions tell apart.
Two details are kept because they decide where a line ends: the delimiter is two
bytes long and is compared after the first byte already, with whatever is before
the buffer, so a LF that begins a line may end it (the second disjunct of `Recv`);
and `recv` returning 0 at the end of the connection leaves a 0 that is taken for a
byte (`RecvEof`), so only the limit ends that line.

## 3. The runs

| Run | Instance | Shows |
|---|---|---|
| `pool_sessions` | 2 workers, 2 connections, 2 ids, errno 10054, keys on | TypeOK, OneWorkerPerConn, OwnedSession, KeyErrorOnlyForeign, HandlesOwnRequest, OrphanStable, ImplementsRegistry |
| `pool_resets` | the same with errno 104 | PoolInv, MediaOnlyToGrantee |
| `pool_faults` | 1 worker, 2 connections, 2 ids, errno 104, every kind of request | PoolInv |
| `wire_steps` | either server, files of 0-2 bytes, positions 0-4, 3 requests | TypeOK, InStep, HarmNeedsSlip, WireInv, ImplementsExchange |
| `wire_readall` | one request, a file of 2 bytes | a violation of ReadAllReturnsAll |
| `rtsp_safety` | 2 threads, 2 connections, 2 handles, 1 id, resets | TypeOK, OnlyFailuresEndService, OwnHandle, BlankNeedsSharing, RtspInv |
| `rtsp_faults` | 1 thread, every kind of request | OnlyFailuresEndService |
| `rtsp_answers` | 2 threads, 2 connections, 1 id, no resets | Answered |
| `rtsp_unique` | 2 threads, 2 ids, SETUP only | a violation of UniqueId |
| `head_reader` | both servers, up to 2 requests with 0-2 headers, and damaged, cut or made-up bytes, with and without a close; lines of up to 8 bytes | TypeOK, ParsesAsSent, HeadEndsAtBlankLine, NoticesEnd, NearsEnd |
| `file_send` | files of 0-6 bytes with every placement of CR LF, every range, chunks of 2, both builds | TypeOK, SendsAsComputed, NeverPastRange, Ends |
| `test_program` | 2 workers, one `options_test`, two `dian_test`, either key, errno 104 | ClientTypeOK, WorkersLost, SystemInv, TestFinishes, SessionsReleased, ClientsEnd |

What the properties say, in short:

* **OneWorkerPerConn** two workers never read one connection.
* **OwnedSession** what a worker found to be its own session stays in the
  unlocked dict until that worker removes it, so the accesses at 79, 81, 96 and 97
  cannot fail.
* **KeyErrorOnlyForeign** the KeyError of 75 and 92 is possible, but only for a
  worker that was handed another connection's session, torn down meanwhile.
* **HandlesOwnRequest**, **OwnedAnswersOwn** what the stale `req` of a reset may
  do: with errno 10054 no worker handles another connection's request; with any
  errno the answers about a session, head and body, go to its owner (the second
  follows from PoolInv, and is a theorem).
* **MediaOnlyToGrantee** a 206 reaches only the connection the session was set up
  on, with the right key if keys are asked for, and comes from the worker that
  serves it and handles a PLAY of that session.  In `pool_resets` the two
  connections are served at once, each with a session the other may name.
* **OrphanStable** a session that lost its worker stays in the dict for ever: the
  leak is permanent.
* **ImplementsRegistry** the unlocked dict behaves as `SessionRegistry`.
* **InStep** and **HarmNeedsSlip**: as long as ranges are harmless (inside the
  file; for C++, not ending exactly at its size) and each body is read and came
  in one piece, the client finds each response where it begins; it fails, blocks
  or steals bytes only after a slip of one of these kinds.
* **ImplementsExchange**: until then the connection is an `Exchange`; no answer is
  read twice, skipped, or taken for the answer to another request.
* **ParsesAsSent** the requests a peer sends one after the other are read as just
  these requests, and nothing is left over.  Its conditions are the finding of the
  run: a Python server only reads a request without headers right if it is the
  last, since it is written with a surplus line end, and a C++ server only reads
  urls without spaces, in lines of at most 1024 bytes.
* **HeadEndsAtBlankLine** whatever the bytes, even if a line was too long and was
  cut, the C++ server only hands a head on at a blank line the peer sent; a
  CR without a LF is the exception, because of the comparison before the buffer.
* **NoticesEnd** a peer that closes is noticed, by a head that does not parse:
  the C++ loop fills its line with zeros first.  **NearsEnd** says why: once all
  bytes were received, each step, also a recv that returns 0, decreases
  `StepsLeft`, by which the refusal is at most that many steps away.
* **OnlyFailuresEndService** `std::terminate` and a mutex locked for ever need a
  peer's reset, or a connection another thread's destructor closed.
* **OwnHandle** until such a destructor ran, each thread has an open handle of
  its own.
* **BlankNeedsSharing** a session comes back after its TEARDOWN only if two
  connections used its id.
* **Answered** each request on an accepted connection is answered, unless the
  stream that dangles after a PLAY takes the process down.
* **SendsAsComputed** a file without CR LF is sent chunk by chunk as PlayRange
  computes it in one go; this is what lets `DianWire` use those numbers.
* **NeverPastRange**, **Ends** the text stream is harmful in some cases only: a
  range in a 64-bit build stops, at or before its announced length (what it
  sends past the end of the file's characters is the rest of a buffer nobody
  filled); a whole file with CR LF, or any range in a 32-bit build, may be sent
  for ever.
* **WorkersLost**, **TestFinishes**, **SessionsReleased** what the test program costs
  the server.  `options_test` kills a worker.  A `dian_test` gives its worker back
  and leaves no session behind, unless its close resets the connection between the
  two sends of its last answer: then its session stays, and where the errno is not
  10054 its worker dies at the next read.  Nothing else costs a worker, so the
  clients all finish unless as many were lost in these two ways as there are.
* **PoolInv**, **WireInv**, **RtspInv**, **SystemInv** are the inductive invariants of
  section 4.
* **ClientsEnd** no client hangs, whichever key it uses: with one the server refuses
  each `dian_test` costs a worker; when none is left, start() returns, and the
  clients that still wait are told.

The two violations are statements of the documentation or of a comment the
code does not keep: `readall` reads the whole content (`DETAIL.md:36`), and a SETUP
generates a unique id (`server.cpp:127`).

### Bounds

Two workers and two connections are enough for every race the code has: each
involves one key and two actors, one of which looks the key up while the other
changes it.  Two ids let a connection own one session and name another's.
`pool_faults` has one worker, since its question, which way through a handler spoils
what, has one actor; with two ids it may tear one session of a connection down and
serve the other connection while the second session is still in the dict.  A
connection number stands for one connection ever made, and links only go forward;
the number of requests on each is not bounded, except in `DianWire`
(`MaxRequests` = 3: the response that slips, the one that suffers, one after
it).  Files of up to two bytes with positions up to four have ranges before,
inside, at, over and past the end of the file.  In `rtsp_safety` two handles for
two connections let a handle be closed twice with a new connection between.
Files of up to six
bytes sent two at a time take the loop round three times, with room for three CR
LF, at, before and over the border of a chunk; `MaxSent` = 20 stops the sends that
never end, well past every announced length.  `test_program` has the
worker `options_test` loses and one more for both `dian_test`: more clients than
workers, and with the first `dian_test` abandoning its answer, none for the second.
`rtsp_faults` has one thread because its question, which way through `_handle`
can end the process, has one actor.  In `head_reader` a line of eight bytes holds the
shortest request line and headers that just fit, and headers one and two bytes
too long, so that the cut falls before, inside and behind the CR LF; one request is
damaged at every byte, in every way; two requests follow each other with every set
of headers in the first.  A random id of the C++ server is one of
`SessionIds`: the model makes a collision likely, never impossible.

### Symmetry and deadlock

Threads, connections, handles and ids are interchangeable, and the runs of
invariants and action properties use that; the runs of `Answered` do not.
Deadlock is not checked: the system stops legitimately when every connection was
made and closed, and the Python server when all its workers are dead.

### Fairness

`pool_*`, `wire_*` and `rtsp_safety` check safety only.  `head_reader` assumes that the
thread that reads is scheduled, and nothing of the peer, who has sent
all it will.  `rtsp_answers` assumes weak
fairness of each thread, `WF_vars(Thread(t))`: the operating system schedules
every thread that can take a step.  Nothing is assumed of peers, who may leave a
connection idle for ever, so Answered speaks of connections that
were accepted.  Weak fairness is enough although the lock comes and goes: a
step is enabled as soon as no exception keeps the mutex.  Three things excuse the
server: the peer went away, somebody was hurt (a reset, or a connection closed
by another thread), and SETUP found all ids of the instance used up, which
is a bound of the model (the code draws numbers for ever).

`file_send` assumes that the thread that sends is scheduled, and nothing of the
peer (`SendFails` is not fair).  Its sends beyond `MaxSent` are cut off, so the
cases of Ends are those that end within the bound, and the others are left out by
the property itself.  `test_program` assumes weak fairness of each worker, of the
thread in start(), and of each client's thread: all are threads the operating
system schedules, and each waits only in accept, recv, connect or join.

## 4. The proofs

`DianServerProofs` proves, for any sets of workers, connections, ids and requests,
with or without keys, and for both errnos, from `ConstantAssumption` only:

* `PoolInvariant`: `Spec => []PoolInv`, and from it `PoolTypes`,
  `PoolOneWorkerPerConn`, `PoolOwnedSession`, `PoolKeyErrorOnlyForeign`,
  `PoolOwnedAnswersOwn`;
* `PoolHandlesOwnRequest`, an invariant by itself: with errno 10054 every reset
  leaves the loop, so `req` is of the connection that is being served;
* `PoolOrphanStable` and `PoolMediaOnlyToGrantee`, action properties;
* `PoolImplementsRegistry`: the pool refines `SessionRegistry`.

The argument.  `OwnedSession` by itself is not inductive: what prevents another
worker from removing the session between two accesses is that it could only do so
after passing the test of line 92 with its own socket, and then two workers would
have the same connection, which `OneWorkerPerConn` excludes.  So the
invariant joins the two, and adds what they rest on: the connection a worker
serves has left the queue (`LinksAccepted`); a session belongs to the connection
its id was made for, and no id is used twice (`SessionsGranted`); whoever names
an id names one that exists (`NamedIdsGranted`), without which the race of
`KeyErrorOnlyForeign` could find an id that is yet to be made; and a request
handled again after a reset is one of a connection that is closed, which cannot
name a session of the current one (`RequestsRead`).  Between the two sends of an
answer `out` is the connection it goes to, and `OwnedSession` holds there too: when
the second send has been made, the session is still there to be closed.  `FoundSession` carries the
result of the lookup to the test that follows.  `pool_resets` and
`pool_faults` check PoolInv with TLC.  The proof has one lemma per group of actions; each says which parts of
the state the action leaves alone and cites, for the rest, the conjuncts it needs.

The refinement maps `issued` to the ids of `grant`, `owner` to `sessions` and
`shown` to the last answer of each connection that was a 206.  Play is Serve
(the head, which is what the peer is told),
TeardownPop is Retire, SetupGranted is Issue, other answers are Tell, and
everything else stutters.

`PlayRangeProofs` proves about ranges of any size: both servers answer a range
inside the file exactly (`InFileRangesAreExact`); the Python server is exact for
those and for empty ranges only (`PyExactIff`); the C++ server is off by at most
one byte, for a range that ends at the size of the file (`CppOneByteOff`).

`FileSendProofs` proves about a file and a chunk of any size that the loop keeps
`SendInv` (`SendInvariant`), and from it `FileSendTypes`, `FileSentAsComputed` and
`RangeNeverPast`.  `SendInv` adds to the types what a reader's fields were computed
from (`Reader`), that a good stream has advanced at least as far as the loop has
sent (`Advanced`), and that a stream without CR LF has advanced exactly as far and
stays good (`Plain`); the two properties say nothing of the position, so neither is
inductive by itself.

`DianWireProofs` proves about files and ranges of any size, any number of requests
and either server, from `WireAssumption`: `WireInvariant`, and from it `WireTypes`,
`WireInStep` and `WireHarmNeedsSlip`.  `WireInv` adds `InPlace`: without a slip there
are just three situations, waiting for just the answer to the request, having read
a head with just its body to come, and having read everything.  `InStep` alone does
not say what is behind the head, nor that the worker is alive, so a step could
leave it.  `HarmlessResponse` is the lemma that a harmless request is answered by a
head and a body of the announced length, which rests on the sizes of `PlayRange`.

`WireImplementsExchange` is the refinement.  It maps `length` to the length in the
first piece of what the server would answer to each request (`Response`), `told` to
the limit of the reader the client holds, `lost` to `Slipped`, and `turn` to what is
outstanding: an answer while the client waits, a body while the reader is not
exhausted.  A request is Ask, the end of the wait Answer, reading or draining a body
Take; the steps of the server and of the stream stutter, and a step that slips is
Slip.  Each case needs `InPlace` of the state before: only with it is the head the
client finds the one for the request it made.

`RtspServerProofs` proves about any threads, connections, handles, ids and requests,
from the constant assumption of `RtspServer`: `RtspInvariant`, and from it
`RtspTypes`, `RtspOnlyFailuresEndService`, `RtspOwnHandle`, `RtspBlankNeedsSharing`.
Neither of the last three is inductive.  `OwnHandle` needs that the kernel gave no
connection two handles (`HandlesDistinct`), so that closing one's own handle takes
nobody else's away; `BlankNeedsSharing` needs that what a PLAY found is still there
unless its id is shared (`FoundStays`), and that whoever names an id was noted as
its user (`UsersNoted`): then the thread that erased it served another connection
or, by `OwnHandle`, was this one.

`DianSystemProofs` proves about any number of workers, testers and lookers, from
`ConstantAssumption` and `SystemAssumption` (there are finitely many connections,
and the calls of the two programs are among the requests): `SystemInvariant`,
`SystemImplementsPool`, `ClientTypes` and `WorkersCounted`.  The last one counts: a
dead worker served a looker or an abandoned tester, and no two of them the same
(`DeadWorkers`), so the dead workers inject into `Losses`.  That no other tester
costs a worker is `TestersServed`: the tester's worker reads or handles just the
request the tester has made, the session in it is the tester's own, and the tester
leaves only once it has the head of the answer to its TEARDOWN.  From there the
worker has one send, the close and the pop before it; only a reset before that send
takes it back to the read, on a connection that is broken and with the session
still in the dict, which is what `Abandoned` says and nothing afterwards changes
(`PartingTester`).  `PoolInv` is a conjunct of `SystemInv` because that argument
needs it: a session stays the tester's between two calls only because no other
worker serves the same connection.

`HeadReaderProofs` proves about either server, requests and bytes of any kind and
length, and any limit of a line, from `HeadAssumption`: `HeadTypes`,
`HeadParsesAsSent`, `HeadBlankLine` and the action property `HeadNearsEnd`.  The
assumption says that the requests are requests, that a limit leaves room for more
than a line end, and that the keys in one request differ, which they do because
`Request.parse` takes the headers from a dict; with a key twice the server would
keep the later value, and `Meant` would not say which.

* `HeadTypes` and `HeadNearsEnd` rest on `TypeInv` and `LineFits` (a line that is
  not yet ended is shorter than the limit, one that is ended is no longer).
* `HeadBlankLine` rests on `BlankLines`: the line is, but for what recv left at the
  end of the connection (`Gathered`), the last bytes received; it has no line end
  before its own; and where it began was behind a line end, for the line after a
  head behind two, or else a CR was alone.  What makes it inductive is that
  `parseThis` only takes a line that ends in CR LF for a header or the blank line:
  a line that was cut at the limit fails that test (`AcceptedEnds`, `BlankEnds`).
* `HeadParsesAsSent` rests on `InOrder`: as long as all requests keep to the rules,
  the first n of them were handled as they were meant, and either nothing is left,
  or the server is underway in the next one: its request line, its k-th header
  with the first k - 1 already in the head, or, in the C++ server, the surplus line
  end behind a request without headers.  `Awaits(c, l)` says that the line the
  server gathers is a prefix of the line `l` that stands at position c of what was
  sent.  The step from one head to the next (`StepEnd`) needs that the headers
  gathered, key by key, are all of them and no others (`KeptAll`).

Neither `HeadBlankLine` nor `HeadParsesAsSent` is inductive by itself: both speak of
a head only when it is complete, and say nothing of the line before.

`HeadReaderLemmas` has what these proofs need of the operators: what `Scan`, `Parts`,
`Trim` and the regular expressions find in a line (`ScanFinds`, `PartsFind`,
`MatchedIs`), that a line of the client's is taken apart into just what it was made
of (`CppRequestLine`, `CppHeaderLine`, `PyRequestLine`, `PyHeaderLine`: the round trips
of writing and parsing), and where the lines of a request are in the bytes sent
(`Flattened`, `WrittenIs`).  They are about sequences of any length, so some need
induction over data.  The library's induction theorems take an operator, which no
prover here can instantiate; `SetInduction` states induction for a set of
naturals instead and follows from the fact that < is well-founded on Nat, and the
recursive functions are shown equal to their unfolding with it (`FlatteningDef`,
`CutsDef`).

## 5. Only model-checked

`Answered`, `Ends`, `TestFinishes`, `SessionsReleased`, `ClientsEnd` and `NoticesEnd`
are liveness properties, which the prover does not handle; `NearsEnd`, the decreasing
bound behind `NoticesEnd`, is proved.  Every invariant and action property a
passing run checks, and every refinement, is a theorem.  `UniqueId` and
`ReadAllReturnsAll` do not hold.

## 6. Not modelled, and why

* The text of the heads of responses, and the bytes of the media: no property
  tells them apart.  In `RtspServer` and `DianServer` a head that does not parse is
  `"GARBLED"`; which heads do is `HeadReader`.  Bytes that are no UTF-8, at which
  `decode()` raises as "Invalid head" does.  The numbers of a version, which
  nothing reads.
* The wait for memory, disk or threads, and exceptions of `open` other than a
  directory's.
* The callbacks for SETUP and TEARDOWN and the authentication of the C++ server,
  which `server-main.cpp` does not install, are only fates of a request.
* A file that changes while it is played; Ctrl-Z, which ends a text stream;
  in `DianWire`, files with CR LF sent by the C++ server (`FileSend` has those).
* What of base.cpp the server never calls: `connect`, `recv`, `recvLine`, and the
  reading side of its SocketStreamReader and StringStreamReader; and the buffer
  classes, which only this code's own loops use.
* `testc-cpp.py` against the C++ server: its `options_test` connects to port 554,
  while `server-main.cpp` listens on 664, so as it stands it ends at its first
  `connect`.  What the C++ server answers to the calls of its `dian_test` is in
  `DianWire`.
* `abase.*`, the coroutine sockets: "not applied yet" (`README.md:36`).  Nothing
  includes them, so each sequence of calls, and each thread that would resume
  a coroutine, would be invented here.
* `old/dian.py`, `old/dian_server.py` and `model-1.1.py` are superseded; the old
  server raises at every request (it subscripts a `threading.local`).  `ulits.py` is
  imported and not used.  asio and async_simple are libraries nothing but
  `abase.*` uses; they are most of the lines of the repository.

## 7. The plan

Done: the modules above, with the proofs of the inductive invariants of both
servers, the wire, the file loop, the test program and the reading of heads, and
the refinements.  What is left:

1. Bounds like `NearsEnd` for the other liveness properties: `Ends` (what a file
   that ends has left to send) and `TestFinishes` (the calls left to the clients).
2. `dian_test` of `testc-cpp.py` against `RtspServer`, on the port the server
   listens on, with the workers of the C++ server that it gives back.
