# Specifications of the web service

This directory models the web service of `src/webservice` in TLA+: what its
sessions, its threads and their shared list do, what becomes of its memory and
its descriptors when a call fails, what makes all that correct, which of it TLC
checks on small instances and which TLAPS proves for every value of the
constants. File names and line numbers are those of `src/`; without a directory
they are in `src/webservice`.

## The system

The service answers each client with a joke. A client's request makes its
*session* ask two upstream servers at the same time, one for a name and one for
a joke; when both have replied, the name is put into the joke and sent back.

| component | source | state it keeps | operations | interacts with | correct means |
|---|---|---|---|---|---|
| session | `session.c` | phase, three HTTP sessions, strings of the replies, three counters, a reference to itself | accept, request complete, name resolved, connected, reply, close, free | http_session (callbacks), resolver, http_service (list) | freed once, by whichever callback comes last and not before the response is out; a late answer of the resolver finds out that the session is gone |
| http_session | `http_session.c` | parser and its resting state, body, bytes parsed, channel | read, write and event callbacks, formatting | tcp_socket below, session above | each byte is parsed once, whatever the pieces it arrives in |
| reference | `reference.h` | pointer, strong count, weak count | new, dec, weak inc, weak dec, get | session (strong), DNS requests (weak) | goes with its last holder |
| tcp_socket, io_channel | `tcp_socket.c`, `io_channel.h` | a bufferevent or a listener, EOF flag | listen, accept, connect, events, free | libevent, http_session, http_service | each descriptor and each bufferevent has one owner on every failing path |
| http_service | `http_service.c` | listeners, workers, list of sessions, mutex, two signal events | init, start, stop, finalise, add and remove a session | worker, list, session, signals | finalises alone; frees what it made, bases last |
| worker | `worker.c` | event base, resolver base, thread, prologue | loop, start, stop, failure | pthread, http_service | stopped and joined once |
| threads and locks | `pthread*.c` | POSIX objects | start, join, signal, lock, unlock | worker, http_service, hashtable | mutual exclusion |
| list | `../common/list.c` | nodes linked through the addresses of links | push front, back, before; remove; pop | http_service | links, back links and tail agree |
| hashtable, slist | `hashtable.c`, `../common/slist.c` | buckets under a read-write lock | add, find, free | nothing in the program | one value per key; a value found stays |
| joke_create | `session.c:88-130` | none (pure) | replace a token in a text | session | the block counted is the block filled |
| main program | `tigera_webserver.c` | options | init, start, finalise | http_service | no use of what init has freed |

What is hard about it, with the line where each bites, is in `PROJECT.json`
under `hazards`. In short:

* **A session's callbacks come in any order.** Two resolutions, two
  connections, two replies and the client's own channel progress and fail
  independently, and most callbacks may free the whole session. A resolver's
  answer may come after that, and only a weak reference tells.
* **Closing.** A session is to be freed once, after its response is written, by
  whichever callback comes last.
* **Pieces.** A message arrives in any division into chunks; the parser is
  paused and resumed, bytes are counted in one place and drained in another,
  and reading stops when the input buffer is full.
* **Failing calls.** Nearly every call may fail, and then the one that made
  something has to free it and the next one has not to.
* **Threads.** Workers change one list under one mutex; the main thread frees
  that list without it, which is sound only after every worker has been joined.
* **Signals.** They arrive at any time, also from workers that fail, also while
  the service is stopping.

## Modules

```
Reference ── Session ── SessionInv ─┬─ MCSession          (runs of a session)
                                    └─ SessionProofs      (proofs)
Chains ── List ─┬─ MCList ····· ListSeq                   (refinement)
                │    └─ ListProofs                        (proofs: chains, lists)
                └─ HttpService ·· SessionRegistry         (refinement)
                       └─ HttpServiceInv ─┬─ MCHttpService       (runs of the service)
                                          └─ HttpServiceProofs ·· ListProofs
HttpSession ·· HttpMessage                                (refinement)
      ├─ MCHttpSession
      └─ HttpSessionProofs
TcpSocket ─┬─ MCTcpSocket
           └─ TcpSocketProofs
Chains ── Hashtable ·· Dictionary                         (refinement)
              ├─ MCHashtable
              └─ HashtableProofs ·· ListProofs
JokeResponse ─┬─ MCJokeResponse
              └─ JokeResponseProofs
ServiceLifecycle ── ServiceLifecycleProofs                (is its own run)
```

A line is EXTENDS, dots are INSTANCE: with a refinement mapping, or of a module
for its lemmas. Definitions
marked "Mutant" are mistakes the code could have made; they are part of no
specification and show that the properties would notice.

The modules overlap where components meet, each at its own grain. Session takes
a channel as open, closing or dead, and a message as incomplete, complete or
malformed: HttpSession is what lies below a message, TcpSocket what lies below a
channel, JokeResponse what lies below "the response is written". HttpService
takes a session as something that is accepted and removed: Session is what
happens in between. ServiceLifecycle is what happens before HttpService begins
and after it ends.

### Reference

`reference.h` as pure operators from a cell to the cell each function leaves. A
cell has a block state (`none` is the NULL reference), a pointer (set or not)
and the two counts.

### Session

One session of `session.c` and the callbacks of its three HTTP sessions
(`http_session.c`). A worker runs one callback at a time, so **an action is one
callback run to its end**, with every call it makes: `dnsname_resolved_cb`
includes the connect it starts or the removal of the session;
`http_response` includes the response to the client when the reply was the
second. Between callbacks the environment acts: connections are established,
lost, readable, shut down or drained, and libevent has callbacks due. libevent
defers the callbacks of a channel and runs those that are due in the order
connected, read, write, event (`RunsBefore`); freeing a channel cancels them.

| variable | in the code |
|---|---|
| `mem[s]` | the heap block of the session: not allocated, live, freed |
| `sess[s]` | its fields: `state`, the counters, `name_replied` and `joke_replied` (`replied`), `name`, `surname` and `joke` (`strings`: which are not NULL) |
| `http[s][i]` | its `http_sessions[i]`: the connection, the parser's resting state, the EOF flag, whether the output buffer holds data, the callbacks due |
| `cell[s]` | the reference in `session->me` |
| `dns[s]` | the upstreams whose `dns_request` is in flight |
| `again[s]` | how often `message_complete` has run again on the client's request |
| `lost[s][i]` | the requests in flight under a reference that `session->me` no longer names |
| `fault` | why nothing more is said of the process: undefined behaviour, or a channel lost |

Abstractions. The bytes of a message: a read callback leaves the parser where
it was or inside a message, finds the message complete, or fails. The JSON of a
reply is acceptable or not. Every allocation that the code checks may fail when
`AllocMayFail`.

Data of the client may arrive at any time, behind its request too. If it is read
while the response is in the output buffer, `message_complete` runs again
(`http_session.c:378-386`) and **the session takes its request a second time**:
the flags of the replies are not reset, `session->me` is overwritten with the
strong count of the old reference never given back, and a failing
`reference_new` or resolution removes the session with its response
(`session.c:554-583`). All of that is in the model. What the session promises, it
promises for a request taken once (`TakenOnce`); what becomes of one that is
taken again is the subject of two violation runs.

After a value of `fault` other than `none` nothing more is claimed.
`late_write`: `evdns_getaddrinfo` calls back before it returns, and the request
it is then assigned to has been freed. `double_free`:
`bufferevent_socket_connect` fails at once, `tcp_socket_connect` frees the
bufferevent it made and `http_session_free` frees it again
(`tcp_socket.c:163-170`, `session.c:426-430`). `null_deref` and `use_after_free`
need a request taken again: `strlen` of a string that is NULL, and a late answer
whose lost reference still points to a freed session. `lost_channel` also does,
and is a bound of the model rather than undefined behaviour: a second resolution
overwrites the channel of a first, whose callbacks go on using the session.

Left out: the branch of `dnsname_resolve` for a thread without a resolver base
(`session.c:525-533`), because every callback of a session runs on a worker;
and the timeout branch of `http_session_event_cb`, because no timeout is ever
set on a channel.

Sessions share nothing but the process and the list (module HttpService), so
the steps of one say nothing about another; TLC runs one session and the proofs
cover any set of them.

### HttpSession, HttpMessage

The read loop of `http_session_read_cb` with `http_request_parse`. What the peer
will send is `stream`, in which a byte is known by what the parser makes of it
(blank line, first byte, head, end of the headers, body, last byte, malformed).
The input buffer is the part from `drained + 1` to `arrived`, in chunks that end
at `cuts`. **An action is one call of `http_parser_execute`** or one round of the
loop: the parser passes over a whole chunk, or a callback pauses it.

| variable | in the code |
|---|---|
| `role`, `stream` | whose session it is, and the bytes of its peer |
| `arrived`, `cuts`, `drained` | the channel's input `evbuffer` |
| `len`, `state`, `body` | the fields of `struct http_session` |
| `mode` | what `http_parser` expects next |
| `at`, `vec` | where the loop is, and where its next chunk begins |
| `given` | the body at each call of `message_complete` |
| `written`, `out`, `eof`, `due`, `gone` | the channel and its master, as in Session |

`http_parser` is third-party code (version 2.8.0,
`../install_dependencies.sh:11`): it is taken to pause where its callbacks ask it
to, and, paused in `on_headers_complete`, to have left the last line feed, which
the loop has it parse by itself (`http_session.c:241-251`). It skips blanks
before a request, and calls `on_message_begin` for each blank before a response
and again for its first byte; a pause that leaves the state as it was ends the
loop with the rest unparsed (`http_session.c:355-360`). Chunked bodies, whose
framing the code leaves to the parser, are not modelled. The branch of
the read callback for an empty buffer is left out: libevent calls it when data
has arrived, and nothing drains it in between.

`HttpMessage` says what a reader of a stream promises, without chunks, lengths
or states: the first message, with its body and nothing else, is handed on when
all of it is there.

### TcpSocket

Who owns a connection: the descriptor that `socket()` or a listener returns, the
bufferevent or evconnlistener that takes it over (`BEV_OPT_CLOSE_ON_FREE`), the
`tcp_socket` that holds that one, the session that holds the channel. An action
is the part of a handler between two calls that may fail; the handlers of
several sessions and listeners interleave, because descriptors are one table for
all threads and a closed number is given out again.

| variable | in the code |
|---|---|
| `table[f]` | the kernel's descriptors: the channel each was opened for |
| `at[p]`, `slot[s]`, `fd[p]` | a handler's place, the channel it works on, its local `fd` |
| `bev[c]`, `bevfd[c]`, `calls` | the block of each bufferevent or listener, its descriptor, and whether its callbacks are set |
| `block[c]`, `field[c]`, `listen` | the `tcp_socket`: its block, its union, and the flag that tells the union apart |
| `held[s]` | the channels in `session->http_sessions` |
| `stopped` | the workers have been joined, and main frees what is left |
| `refused` | history: channels whose connect failed on the bufferevent made for it |
| `fault` | channels whose bufferevent was freed again, or as what it is not |

An upstream that has replied is freed in a callback of its own and its slot of
`http_sessions` reset, while the session lives or behind which it is removed
(`session.c:260-261`, `321-322`); `session_free` then skips it. A session connects
each slot once: the second connect of one that takes its request again, which
may overwrite a channel, is left to Session (`lost_channel`).

Closing -1, which the error paths do, closes nothing. What travels through a
channel is left out; HttpSession and Session have that.

### JokeResponse

`client_response_create` with both calls of `joke_create`, and
`http_response_write`. **A step of `joke_create` is a round of one of its
loops**, on a text of letters. Each string has a heap block (`block`), and
`fields` says which of them the session still points to. Lengths fit an `int`.

### Chains, List, ListSeq, MCList

`Chains` says what a loop over linked nodes visits, as the least set that has the
first node and, with a node, the next: `list_foreach` and the loops of
`slist.c` both go along such a chain, and nothing has to be counted to reason
about them.

`common/list.c` down to its pointers. A node's `previous` and the list's `tail`
hold the address of a link, which is either `&list->head` (`HEAD`) or
`&n->next` (written `n`); `link[HEAD]` is `list->head` and `link[n]` is
`n->next`. The steps of `list_push_back` and `list_remove` that HttpService
interleaves are operators of their own. `ListSeq` is a sequence; `MCList` runs
every operation on a list and shows that it implements `ListSeq`. What
`list_foreach` visits is `Items`: the nodes `Visit` comes to one after the other,
as many as the list has.

### HttpService, SessionRegistry

`http_service.c`, `worker.c` and the parts of `pthread*.c` they use. Thread 0 is
main, the workers are 1 to `NWorkers`. A step is what runs between two accesses
to shared memory: pushing a session on the list is locking, linking, moving the
tail with unlocking; removing one is locking, a step per node searched,
unlinking, mending the links behind, freeing with unlocking.

| variable | in the code |
|---|---|
| `main`, `at` | where main is in start, loop, stop, finalise; its loop counter |
| `failed` | history: `thread_start` or `event_base_loopexit` has failed |
| `killed` | a signal whose event has been removed has ended the process |
| `fault` | a thread has reached for a node, a list or an event base that was freed |
| `armed` | signals whose event is added (`ev_sigterm`, `ev_sigint`) |
| `pending` | signals caught whose event has not run; `event_del` drops it |
| `worker`, `job`, `cursor` | where each worker is, its session, its `node` in a loop |
| `exitreq` | workers with a `loopexit` timer, which waits for a loop to run it |
| `joins` | calls of `pthread_join` on each worker |
| `lock` | the holder of `session_mutex` |
| `list` | `http_service.sessions` |
| `life`, `owner` | sessions: live or freed (once, twice), and the worker they belong to |

The model begins after a successful `http_service_init`. `SessionRegistry` is
what the service promises without threads or pointers: a set of sessions, where
each is created, registered, taken off, freed once. HttpService implements it
with `members` as what `list_foreach` would visit and `open` as "main has not
begun to finalise": a session is registered at the instant its node is linked
and taken off at the instant the link before it is changed. Once a worker could
not be started or stopped main frees beside running workers: what they then
reach for is freed nodes, the freed list or its NULL pointer
(`http_service.c:207-212`), or an event base, and with that the model stops
(`fault`). That this happens only after such a failure, kept in the history
variable `failed`, is `NothingFreedUsed`.

### ServiceLifecycle

`http_service_init`, `http_service_start` and `http_service_fini` as `main`
calls them, whatever they return, with every call of init allowed to fail. An
action is one call: also in `worker_new`, and in `worker_free`, which frees the
resolver, the base, the thread and the worker in steps of their own, called on
the error path of `worker_new` and by `http_service_fini` (`worker.c:98-155`).
`alive` is what has been allocated and not freed, `known` what the program still
has a pointer to, `at`, `caller` and `index` where main is, `nworkers` the field
of that name, `fault` the use of NULL as a pointer. A failed init has finalised
before main starts the service, so that start finds what fini has left; threads
are HttpService's subject, here they only listen, accept and remove.

### Hashtable, Dictionary

`hashtable.c` with `slist.c`, shared by threads under a read-write lock. No part
of the program uses it; it is modelled as the component it is. **A step is one
access to shared memory**, so that a reader would meet a half made change if the
lock let it. `head`, `next`, `key` are the chains, `collisions` the counter,
`writer` and `readers` the lock, `at`, `arg`, `cursor` and `result` the threads,
`freed` the calls of `value_free`. Each add brings a value of its own, which
stands for its node as well. `hashtable_get_collisions`, which reads the counter
without the lock, is left out: it has no caller and changes nothing.

`Dictionary` is a map on which add and find take effect at one instant between
call and return, and which keeps the first value of a key. Hashtable implements
it: a find takes effect with its result, an add when it moves the head, finds
the key or has no memory.

## What the runs check

| run | instance | shows |
|---|---|---|
| `session` | one session, failing allocations, data behind the request at any time, its request taken up to three times, fair | `TypeOK`; `RefSafe` (reference protocol, and no cell left behind); `NoFault` (no use after free, no NULL string); `CountersAgree` (counters, and each upstream in exactly one stage); `ResponseComplete` (answered once, with all strings); `NoOrphan` and `ResponseNotDiscarded` (an answered session is going to be closed, and not before its response is out); `Answered` (a complete request is answered or given up) |
| `list` | five nodes | `ListWellLinked`, and `IsSequence` (refinement) |
| `service` | two workers, three sessions, fair; `thread_start` and `loopexit` may fail | `TypeOK`, `ListAgrees`, `MutexInv`, `FiniAlone`, `FailureIsCaught`, `JoinOnce`, `NothingFreedUsed` (what was freed is used only if a start or stop failed); `ImplementsRegistry` (refinement); `Shutdown` (a signal or a failing worker ends the service) |
| `http_session` | messages without a body, with up to four body bytes and two bytes behind them, or with a body that ends with the connection, in every division into chunks; a watermark of three bytes | `InStep` (drained, `len`, parser and body agree after every call); `WithinLimit` (what is longer than the watermark, or ends with the connection, is never handed on); `ImplementsMessage` (refinement); `HandedOn` (what fits is, unless it is a response behind a blank, or the connection or the session ends) |
| `tcp_socket` | two sessions, two listeners, five descriptors, every call failing or not | `OneOwner`, `CallbackFindsChannel`, `HeldOrLost`, `FreedOnce` |
| `joke_response` | every joke of up to five letters, seven names, four surnames | `WithinBlock` (the second scan fills exactly what the first has counted); `TokenReplaced` and `BothReplaced` (against a reference definition); `StringsOwned` |
| `lifecycle` | three workers, every call of init failing or not | `BaseOutlives` (bases are freed last), `FaultAfterFailure`, `AllFreed` |
| `hashtable` | two threads, three keys in two buckets, three nodes, fair | `Exclusion`, `OneValue`, `ValuesFreed`, `FoundStays`; `ImplementsDictionary` (refinement); `FindReturns` |
| `reentry_null`, `reentry_discard`, `inline_answer`, `start_returns` | small instances of Session and HttpService | a statement of the source that its code does not keep (below) |

Deadlock is checked in the list and service runs (an ended process stutters).
In the others the system may come to rest: a freed session, a channel that is
gone, a table that has been freed, a service that has ended.

**Bounds.**

* Session: one session, because sessions are independent; its own state is
  unbounded in nothing but `again`. `MaxAgain` bounds how often a session takes
  its request again, 2 in the `session` run: the client sends no more data after
  that while it waits. An answered session has no resolution in flight, so it is
  the second time its request is taken again that a request may lose its
  reference. In the violation runs 1 is enough.
* Service: two workers and three sessions make the list long enough for a
  removal at the head, in the middle and at the tail while the other worker
  waits, pushes or fails. List: five nodes let an operation have two neighbours
  on either side.
* HttpSession: a watermark of three bytes is below the longest bodies and above
  the shortest messages, so that reading stops and goes on within a message, and
  a message may be too long; two bytes behind a message are enough for a second
  call of `message_complete` and for what comes after it.
* TcpSocket: two sessions and five descriptors let a number be closed by one
  session and given to another, and let descriptors run short.
* Hashtable: two keys share a bucket and one is alone; three nodes are one for
  each key, and adds beyond that fail as for lack of memory. `MaxCount` caps the
  counter of collisions, which nothing else reads.
* JokeResponse: tokens of two letters; five letters hold two adjacent tokens
  with one letter before, between or behind them, and names and surnames that
  are empty, shorter, as long, longer, or the token itself.

**Fairness.** Session: every callback that is due runs (the loop never stops
while a session lives), the resolver answers or times out (`worker.c:105-116`
sets a timeout and three attempts), a connection is established or refused, the
client's kernel takes the output, an upstream keeps sending while its connection
is open, and of infinitely many reads one ends the message (strong fairness). An
upstream that closes in the middle of its reply is excluded from the claim
(`Stalled`): nothing in the code ends such a session. HttpSession: the loop runs
what is due, and the peer sends its stream to the end unless it closes or the
connection is lost. Service: main and the workers do not stop inside their own
code, the mutex is handed out (sessions are finitely many, so a waiting worker
is not overtaken for ever), and a loopexit timer, due at once, runs. No client
and no signal need arrive. Hashtable: no thread stops inside an operation, and a
writer that unlocks lets in the readers that wait (strong fairness of
`rwlock_rdlock`); a writer may wait for ever while readers keep coming, so
nothing is claimed of when an add returns.

## Where code and comments disagree

Each has a run that TLC finds violated.

* `reentry_null`. Data behind the request that is read while the response is
  being written calls `client_msg_complete` again: the parser's state is left at
  `HTTP_MESSAGE_COMPLETE` (the reset at `http_session.c:388` is commented out).
  The flags `name_replied` and `joke_replied` (`session.c:49-50`) outlive the
  strings they stand for: the first reply to the request taken again makes a
  response, and `strlen` is called on NULL (`session.c:146`, `180`).
* `reentry_discard`. `session.c:203-206`: the channel is ready to close once all
  pending data is written. If something fails while the request is taken again,
  the session is removed with its response.
* `inline_answer`. `evdns_getaddrinfo` may call back before it returns; the
  request it is then assigned to has been freed (`session.c:538-539`).
* `start_returns`. `http_service.h:19-21`: `http_service_start` blocks until a
  signal. If the second of two threads cannot be started it returns, and main,
  which ignores the result, begins to finalise beside the first, which runs.

Seen, and part of the models without a run of their own:

* A third harm of a request taken again: `session->me` is overwritten and the
  strong count of the old reference never given back, so that the answer to a
  request under it uses a freed session, where `session.c:39` and `457` say that
  it finds the session gone (`lost_request_resolved`; `NoFault` names it).
* `http_session.c:282-285`: a client that closes without sending data has its
  session deallocated. `client_ready_to_close` does that only in
  `CLIENT_RESPONSE` (`session.c:82`); the session stays until shutdown.
* `session.c:202-207` says that an answered session waits for the client's EOF;
  it is closed when the output buffer is empty (`http_session.c:290`).
* `main` goes on after a failed `http_service_init` (`tigera_webserver.c:131-133`),
  which has freed what `http_service_start` uses: the condition of
  `FaultAfterFailure`.
* A connect that fails at once frees its bufferevent twice (`FreedOnce` allows
  this and nothing else).
* A connection accepted without memory for its channel keeps its bufferevent and
  descriptor for ever (`Lost`, `tcp_socket.c:56`).
* A response whose headers cannot be written loses its body
  (`StringsOwned`, `http_session.c:141-174`); init that fails before it has set
  `nworkers` loses the listeners made, and the mutex is never freed
  (`AllFreed`, `http_service.c:203-254`).
* A response behind a blank is read no further than its first byte until more of
  it arrives (`BlankBefore`, the premise of `HandedOn`), and the body buffer of
  the blank is leaked: `http_session.c:31-42`, `357-359`.
* A message longer than the read watermark is never handed on, nor is a body
  that ends with the connection (`WithinLimit`).
* An empty name may join the letters around its token to a surname's token, and
  a name may bring one with it, or part of one that the letters around complete
  (`Apart`, the premise of `BothReplaced`).

## What is proved

Every theorem is about the whole specification, without fairness, and for every
value of its constants that the module's ASSUME allows. The source comments
above each theorem name the code it is about.

**`SessionProofs`**, for every set of sessions, every bound and whatever the
clients send and when: `TypeCorrect`, `MemorySafe`, `ReferenceProtocol`,
`Bookkeeping`, `AnswerComplete`, `AnsweredIsClosed` (`NoOrphan`) and
`NeverDiscarded`: all the safety properties of the `session` run. But for the
first they are about sessions that have taken their request once, because the
code breaks them for the others: `MemorySafe` says that a session taken again is
the only way to a NULL string, a freed session or a lost channel, and
`NeverDiscarded` that it is the only way, but for a failed connection, in which
a response is discarded.

The argument is one inductive invariant, `IInv` (module SessionInv). None of the
properties is inductive alone: that a late answer finds its cell needs the
weak count to be the number of requests in flight; that the counters agree
needs each upstream to be in one stage; that an answered session will be closed
needs the relation between the client's parser, its output and the callbacks
due. `IInv` is stated over the values of one session, so that a step of one
session leaves the others' part untouched, and the proof has one lemma for each
callback and each step of the environment. A session taken again never counts as
taken once later (`AgainGrows`), so that `IInv` may say nothing of it.

**`ListProofs`**, for every set of nodes. `StaysWellLinked`: after any sequence
of calls the links are one chain from the head to the tail, mirrored by the back
links. That alone does not keep itself, because `list_push_back` leaves the next
pointer of its node as `node_new` made it: the invariant `Good` adds that the
nodes off the list have none. The module first proves what a loop over links
visits, for every link (`FromStep`, `FromFrame`, `NoReturn`, ...). Where one
would use induction over the loop, the proofs show that the nodes with the
property are a closed set; From is the least one. The set of nodes need not even
be finite.

`ImplementsSequence` is the refinement `IsSequence`: `list_foreach` visits a
sequence, and each operation does to it what its name says of a sequence. The
invariant `InOrder` adds to `Good` that some sequence spells the list (`Spells`:
its elements are the list's nodes, each once, and the links lead from one to the
next). What `list_foreach` visits is defined by recursion; it is shown to be that
sequence without induction, since the recursion has a solution, the sequence, and
a place where another one differs would have a first (`VisitIs`). The three pushes
are again one insertion, behind a place of the sequence (`InsertSpells`), and
`list_remove` its inverse (`RemoveSpells`).

**`HttpServiceProofs`**, for every number of workers and set of sessions. The
stop of the service first. `MutualExclusion` (one worker in a critical section,
holding the mutex) and `JoinsOnce` hold whatever fails. `FinalisesAlone`,
`FailuresAreCaught` and `WaitsForSignal` hold until a worker could not be
started or stopped (`failed`). The invariant `StopInv` ties which signal events
are added to how far main has come, and main's counter to the workers joined:
with an event removed every worker has exited, so neither a second signal nor a
late failure finds anything to disturb.

Then the list, with the lemmas of ListProofs. `ListIsRight` (`ListAgrees`): until
`http_service_fini`, whenever nobody holds the mutex the list is well linked
and holds the live sessions but those not added yet. The invariant `ListInv` says
what the list is in the middle of an operation, too: what the first step of
`list_push_back` or of `list_remove` leaves becomes well linked with the second
(`Shaped`), and whoever searches finds its session ahead of its cursor
(`Agreed`).
`IsRegistry` is the refinement `ImplementsRegistry`: up to the first failure the
service creates, registers, takes off and frees each session once; in
`http_service_fini` the live sessions are those ahead of main's cursor
(`Freeing`). `TypeCorrect` holds whatever fails, also beside a main that frees the
list under running workers, up to the step that reaches for what was freed;
`HarmedOnlyIfFailed` (`NothingFreedUsed`) says that such a step is taken, and a
session freed twice, only if a worker could not be started or stopped
(`Unharmed`).

**`HttpSessionProofs`**, for every set of streams, every division into chunks
and every watermark. `StaysInStep` (`InStep`), `LongNotHandedOn` (`WithinLimit`)
and `IsReader`, the refinement `ImplementsMessage`: the first message is handed
on when all of it is there, with its body and nothing else, and its bytes and no
others are drained. The invariant `ReadInv` says for each state of the session
what the bytes parsed were, how many of them are drained and what `body`
therefore is (`Consumed`), and that the buffer stays within its watermark with
the loop's next chunk right behind what is parsed (`Buffered`). Blanks before a
response leave the session in `HTTP_MESSAGE_PARSE_BEGIN` with nothing but blanks
parsed, which `Consumed` has to allow for.

**`JokeResponseProofs`**, for all texts and tokens, also tokens that overlap
themselves. `FillsItsBlock` (`WithinBlock`): the second loop writes inside the
block the first has counted and fills it. `ReplacesTokens` (`TokenReplaced`): a
call of `joke_create` replaces each token where it first matches, and nothing
else. `ReplacesBoth` (`BothReplaced`): the two calls together replace both
tokens in the client's joke, for tokens of which the name's never begins inside
the surname's, as the program's are, and for a name that is not empty and over
which the surname's token cannot be laid, at any place and even in part, so as
to agree with it (`Apart`): nearly every name, but not one that contains the
surname's token, begins with an end of it, or ends with a beginning of it.
`FreedByOwner` (`StringsOwned`): whatever fails, each string is freed by its
owner. The loops jump from token to token, the definition of the result goes
letter by letter. What ties them is the function from each position of the joke
to what the text becomes from there on (`Rewrites`): its length is what the
first loop has yet to count, its value what the second has yet to write
(`Progress`). It exists, and has its value behind a run of letters without a
token, because a set of numbers has a least element. The functions are defined
for a set of tokens with what stands for each, so that two passes can be
compared with one pass for both, position by position from the end
(`TwoPasses`): where the name's token is, the second pass goes through the name
without a match (`NotInName`); where the surname's is, the first has left it
(`NoNameInside`); elsewhere the first has made no token there was none of
(`NothingNew`). The invariant `PassesInv` adds what each of the two calls is
given.

**`TcpSocketProofs`**, for every set of sessions, listeners and descriptors.
`DescriptorsOwned` (a descriptor has one owner, the one it was opened for) holds
whatever fails; `CallbacksFindChannels` and `BufferEventsHeld` hold up to the
first block freed twice, and `FreedTwiceOnlyIfRefused` says that there is only
one way to that. The invariant says, for each step of a handler, what its
channel already has (`Stage`), and for the other channels of its session that
they are held with a bufferevent, or without one and without a pointer, because
they were not made yet or were freed on their reply (`SlotRest`): that nobody
else owns what an error path closes is only then a matter of where the handler
is.

**`ServiceLifecycleProofs`**, for every number of workers. `BasesFreedLast` and
`NothingElseLeft` hold whatever fails; the first goes through `worker_free` call
by call, where the resolver is freed before its base. `NoFaultUnlessFailed` is
that main uses NULL as a pointer only in runs in which a call of init has
failed. The invariant `LInv` says for each place main can be at which things it
has a pointer to (`Pointers`, `Unfailing`), what may still be registered with a
base (`Registered`) and what `http_service_fini` has already freed (`Gone`).

**`HashtableProofs`**, for every set of threads, keys, buckets and nodes.
`AddIsAlone`: whoever is inside an operation holds the lock as that operation
takes it, and an add has no company; the invariant adds to `Exclusion` that a
writer and readers never hold the lock together. `KeysHaveOneValue`
(`OneValue`), `ValuesFoundStay` (`FoundStays`), `ValuesAreFreed` (`ValuesFreed`)
and `IsDictionary` (`ImplementsDictionary`) rest on `TableInv`: no two links
lead to one node and every chain ends (`Linked`, `Placed`), a search has passed
no node of its key (`Searching`), a node about to be stored is on no chain and
the first of its key (`Pushing`), and a value is held by a chain or by the
thread that is about to store it (`Allocated`).

Each inductive invariant was first checked by TLC on the instance of its run.

Only model-checked: the liveness properties (`Answered`, `Shutdown`,
`HandedOn`, `FindReturns`), which are about fairness, and the four properties
that TLC shows to be violated. Every safety property, action property and
refinement of the other runs is a theorem.

## Not modelled

* What a session does after a second resolution has overwritten a channel: its
  callbacks go on, and nothing frees it (`lost_channel`, `session.c:434`).
* Chunked bodies: their framing is `http_parser`'s, and no callback of the code
  sees it.
* The text of requests and of the response's headers, and JSON: formatting that
  no decision depends on but "it failed". The failures of `http_request_write`
  between two headers, which all end in the removal of the session.
* Timeouts: `http_session_event_cb` has a branch for them, but none is ever set
  on a channel.
* `list_push_back` without memory for its node (`list.c:69`): it dereferences
  NULL and ends the process.
* The errors of lock calls, which their callers ignore; functions
  of the components that have no caller (`tcp_socket_read`, `_write`,
  `_shutdown`, `worker_join`, `reference_inc`, `slist_free`).
* Logging, argument parsing and `daemonize` (no state, or pure I/O), and the test
  programs, which are read as the specification of what they call.
