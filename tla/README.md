# Plib_ios: a TLA+ model of the messenger client

Plib_ios is a client library. It turns requests of an application into binary
messages for a messenger server, and what the server sends into objects for the
application. The host (the app around it) owns the web socket and calls the library
back. This directory models the library's control (its threads, queues, timers and
connection) and what it does with the bytes of a message. The reference is the code
under `src/plib` and `src/d-mon` in its Linux/iOS build (`ANDROID_WRAP` not defined).

## 1. Inventory

| Part | State | Operations | Meets |
| --- | --- | --- | --- |
| Queue (`utils/MpscPollableQueue.h`, `SpinLock.h`) | `writer_vector_`, `reader_vector_`, `reader_pos_`, `wait_event_fd_`, the flag of the lock | `writer_put`, `reader_wait_nonblock`, `reader_get_unsafe` | application and Procc on `input_queue_`; Procc, network thread and application on `output_queue_` |
| Procc (`ClientImpl.cpp` 4422-4441, 4569-4714, 55-58) | the thread, its place in a batch | `init`, `loop`, a turn, the null request of `~Impl` | input queue, timers, connection, destructor |
| Requests (389-4420) | the message in hand | `send`, `OnRequest`, 55 handlers that build and send a message | connection (gates), timers, builder, host (`bin_stream`) |
| Timers (285-299, 4443-4567, 5181-5186) | `itimers`, `timers`, `timers_lock` | `StartTimer`, `TestTimers`, `OnTimer`, the tail of `BinStream` | Procc and the network thread |
| Connection (4569-4789, 5250-5479) | `on`, `constate`, `code`, `number`, `reg_tick`, all unlocked | Procc's switch; `OnConnect`, `OnDisconnect`, `StrStream`, the registrar's answers; Online, Offline, Logout, RegistrationRequired_Cnf | Procc and the network thread; host (`sock_command`) |
| Answers (4791-7685) | the object in hand | `BinStream`, 59 handlers that decode a message and call `SendResp` | network thread to `output_queue_`; parser |
| Builder (`d-mon/dptlv.cpp`, `dptlv.h`, `dptlvt.h`) | an array, its size, a cursor, a state | `Init`, `SetHeader`, `Seek`, `AddwTwLV` and its kin | request handlers |
| Parser (`d-mon/dttablepoint.h`, `dpointer.h`) | a table of pointers into the message | `Parse`, the lookups `DTP_...` | answer handlers |
| Objects (`plib/pl_api.h`) | members with widths | | both |
| Texts (`d-mon/dpstring.cpp`, `dfstring.h`) | an array, its size, a length | `Set`, `Add...`, `Trim...`, `operator +=` | hashes, digests and log lines |
| Characters, MD5 (`d-mon/dstr.cpp`, `dsymbconv.cpp`, `def`) | none | conversions, a digest | texts, `GenMD5` |

Three threads run: the application's (`Send`, `Receive`), `Procc` (requests, timers,
connection; a turn every 10 ms) and the host's network thread, which calls `OnConnect`,
`OnDisconnect`, `StrStream` and `BinStream`. Only the queues and the timers have locks.

What is hard here: two unlocked threads on one connect state; a timer that is started
after the message has gone and erased after the answer has been handed over, under an id
the application may have used again meanwhile; a hand-copied correspondence of request,
answer and timeout, 55 times over, and of parameter, width and member, some 300 times; a
queue whose `get` checks nothing; a destructor that does not wait for its thread; lengths
off the network that steer a walk over memory; builders whose refusals nobody looks at.
`PROJECT.json` lists the hazards with their lines.

What makes each part correct: the queue is a FIFO channel; every request gets an
answer of its own class, once, or a timeout when the answer fails to come; the connect
state follows the connection, and a client told to go online gets there; a message holds
what was accepted for it and nothing else; an object holds what its message says, and no
message leads a handler outside its bytes.

## 2. Modules

| Module | Models | Uses |
| --- | --- | --- |
| `FifoChannel` | what a queue promises (abstract) | |
| `MpscPollableQueue` | queue, spin lock, writers, `receive` | implements `FifoChannel` |
| `ProccThread` | Procc's loop, its turns and its end | |
| `MessengerApi` | the tables: request handlers, `BinStream`, `OnTimer` | |
| `RequestTimers` | life of a request on both threads; tables are parameters | |
| `MCRequestTimers` | `RequestTimers` with the tables of `MessengerApi` | both |
| `MCTimerTables` | the same, and the hypothesis of two theorems on the tables | `MCRequestTimers` |
| `IdReuse` | the same timers when ids are used again | |
| `Connection` | connect state, host socket, server session | |
| `PrimitveTLV` | the builder's calls that the client uses, as operators | |
| `MessageBuilder` | a handler at work in one array, nested builders included, read back by `TlvItems` | `PrimitveTLV`, `TlvItems` |
| `TlvItems` | what a list of parameters says (reference) | |
| `MCMessageBuilder` | `MessageBuilder` with the values that are tried | `MessageBuilder` |
| `TlvCalls` | the guards and lengths of all writing calls of the class | |
| `ApiObjects` | the classes of `pl_api.h`: members and their widths | |
| `RequestSchemas` | for every request handler its parameters | |
| `RequestBuilder` | a request handler going through them; they are parameters | `PrimitveTLV` |
| `MCRequestBuilder` | `RequestBuilder` with all handlers and classes, and that its tables agree | the three above, `AnswerSchemas` |
| `AnswerSchemas` | for every answer handler the fields it takes | |
| `AnswerDecoder` | the walk over a message and the table; schemas are parameters | |
| `DecoderReference` | what an answer handler should make of a message (reference) | `AnswerDecoder`, `TlvItems` |
| `MCAnswerDecoder` | the decoder and its reference with all handlers | `DecoderReference`, `AnswerSchemas`, `ApiObjects` |
| `DPString` | which bytes the calls of the text class write | |
| `...Proofs` | theorems about `MpscPollableQueue` (and `ProccThread`), `RequestTimers` (and `RequestBuilder`), `IdReuse`, `Connection`, `MessageBuilder`, `TlvCalls`, `AnswerDecoder`, `DPString`, each beside its module | |

Definitions whose comment begins with *Mutant* are slips of the code used to see that
a property notices them; no specification uses them.

**MpscPollableQueue.** A writer's `writer_put` is: call, lock, read the vector, write it
back, unlock. `push_back` is cut in two so that a missing lock would show. The reader
polls without the lock, then takes it, swaps or notes `wait_event_fd_`, unlocks, gets.
`last` is what the latest poll gave. In this build nobody waits on `wait_event_fd_`
(`reader_wait` is compiled out): that the flag is true when it is read
(`NoLostWakeup`) is what a reader that waits would need. It and `MutualExclusion` are proved and
are no properties of the run; a lock that excludes nobody breaks `RefinesFifo`.

**ProccThread.** Requests have no contents here, so any number can be sent. The queue is
the FIFO channel. The destructor posts its null request and destroys the members in the
order C++ does, the last declared first: the timers, then the joinable thread, which ends
the process. Procc may touch the timers in between (`dead`).

**MessengerApi.** A request handler is its gate (which connect states let it through),
its wire command, the command of its timer, and the class of its refusal. The answer
handlers are the class they hand to `SendResp`.

**RequestTimers.** Procc takes a request, tests the gate, sends, starts the timer: a step
each, since the connection changes and the answer may arrive between any two. `StartTimer`
and the erase in `BinStream` are each one critical section and so one step. `TestTimers`
reads the tick, locks, expires entry by entry, unlocks. `age` in an entry, `overheard` and
`overtaken` are history: no step depends on the last two, and `age` only bounds the clock.

**IdReuse.** The same handlers without gates and tables; the application sends under an id
again once it has got an answer under it. A request is its number, so that the model can
say for whom an answer was meant, which the client cannot. A reply is made an answer of, or
has no case in `BinStream`'s switch, as a `cancel_rsp` has none (the model leaves open which
requests are of that kind); and the server sends messages of its own that carry an id in use.
All of them end in the erase. `fresh` are the requests whose id nothing was left of when they
were sent, `cut` those whose timer went with the reply to an earlier request, `overheard`
those whose timer went with a message that answered nothing; all three are history.

**Connection.** Every handler that reads `on` or `constate` and then writes is cut in two:
`pstate` is what Procc read, `nstate` and `non` what the network thread read. A callback
writes the state, then reports the status, then (for `not_found`) clears the code, then
asks for one. Where `wait_disconnect` is written and then the host told to close the socket
(`OnRequest_Offline`, for Offline_Req and for a logout's reply), the two are a step each
(`ppc` and `npc` are "drop" in between). `late` is history: a thread wrote, or reported, on a view that was no longer
true, or an answer came that nobody waited for any more. A view of `on` is outdated also
when `on` was cleared and set again in between (`StaleNet`, see section 4). The socket and the server are
modelled from how the client uses them: events arrive in order, a server takes only Open
on a fresh connection, a new `connect` replaces the old socket, whose events may still
be queued (`old`). The strings `code` and `number` are empty or not, and the application may
give either empty; `blank` is history and says that the latest question was answered so. A concurrent
`clear` and test of `code` is taken to see it before or after. `Request_Online_id`
only labels what is sent and is left out.

**MessageBuilder** keeps every byte of a small array. A nested parameter is written by a
second builder four bytes ahead in what is left of the first; then tag and length go into
the gap and the first one seeks over the value. **RequestBuilder** keeps only lengths, at
the real sizes of the arrays (256 to 65535) and of `TxMax`, and goes through the
parameters of each of the handlers of `RequestSchemas`, their conditions and vectors
included. **TlvCalls** covers the other calls of the class, with the cursor and the
bytes they touch. The sums that `AddwTdLV` and `AdddTdLV` test are of `size_t` and do not wrap
in the model, as they do not where `size_t` has 64 bits.

**AnswerDecoder** is the two shapes that all answer handlers have: a table, out of which
fields are taken, each under its condition on the length, and a list, acted on as it is
walked. A value that holds parameters is decoded by a function on the stack. What an
integer read beyond its parameter yields is `Unknown`. `Careless` are the three places
whose condition does not cover what they read (`file_hash` 6691, `loop` 5785 and 5818).

**DPString** keeps where the text ends, whether a zero is there, and one past the last
byte the latest call wrote. The calls fall into three groups: those that count the zero,
those that do not, and those that test another number than they write (*wild*).

## 3. Runs

| Run | Bounds | States | Shows |
| --- | --- | --- | --- |
| `queue` | 2 writers, 2 values, 3 in flight, 2 polls a receive | 52 thousand | safe get, FIFO refinement, everything put is received |
| `procc_thread` | 6 requests in the queue, any number in all | 286 | Procc leaves when asked, with nothing left behind; only a flood keeps it from its timers; what it touches after the destructor |
| `timers_safety` | 2 ids, requests Msg, Cancel, Ping, one unasked message under our ids, clock of 4 ticks, timeout 2 | 4 million | answers at most once per cause, what can cancel a timer, no early timeout |
| `timers_api` | 1 id, all 55 requests | 312 thousand | the three tables agree, each request is answered |
| `id_reuse` | 1 id, 4 requests, one unasked message, clock of 3 ticks, timeout 1 | 1.4 million | a request whose id is quiet is safe from its predecessors; who takes the timers of the others, and of it; each is answered, unless an erase for another message took its timer |
| `connection_safety` | 4 requests, 2 troubles | 16 million | when the client can get stuck; online means registered; codes and statuses |
| `connection_liveness` | 3 requests, 2 troubles | 1.9 million | the client gets online |
| `builder` | array of 23 bytes, bytes of 5 values, depth 3, 9 calls, a value too long for a length | 503 thousand | nothing outside, nothing unwritten, and a round trip |
| `tlv_calls` | arrays of up to 11 bytes, bytes of 2 values, every length | 8 thousand | which calls may overstep; lengths are true |
| `requests` | all handlers at real sizes; texts of 0, 120, 121, 360, 40000 and 65540 characters; 2 elements | 3.2 million | parameters are lost only if there is no room; members are read in their widths |
| `decoder` | all handlers with one parameter of 7 lengths, with two, and with all their parameters at once, of 1, 2, 4 or 8 bytes; the six handlers with lists inside; messages of up to 21 bytes also cut, or with a byte of the outer three headers changed | 114 thousand | every field against a reference; no walk and no read outside; members hold, texts arrive whole, no parameter takes another's place; every walk ends |
| `strings` | arrays of 1, 2, 9, 19 bytes; byte of 14, dword of 60 values | 29 thousand | who writes behind the array and how far |

*Why the bounds are enough.* Three values in flight put one in each vector and one in a
writer's hand, and let a swap meet a put. Two ids let one timer stand before another;
Cancel has an answer that `BinStream` does not dispatch, Ping a timer without a case, Msg
is the common shape. A clock of 4 ticks wraps inside every timeout; `MaxStall` says that
no entry waits as long as the tick count's period (49 days). Four requests under the
one id of `id_reuse` are one in the application's hands, one before it whose reply is late,
one whose entry is still queued and one that was refused; the one unasked message can hit
any of them. A second id adds only entries that stand before these in `itimers`, and their
own earlier ones do that already; what two ids do to each other is in `timers_safety`. A
clock of 3 ticks has an entry that is not due, one that is and one that is late. Four
requests are SetSubcriberInfo, Online, Offline, Online; two troubles are a loss during the
recovery from another, or a refusal beside an early timeout.
The array of `builder` holds a nest of depth 3, and is full within the calls; with bytes of
5 values a length wraps at 25. The texts of `requests` are as long as a phone number or a
name allows (120), just more, half of a small array and more, more than any but the
largest, and more than 16 bits. In `decoder` an integer of each width that the handlers read
(1, 2, 4, 8) arrives in its member, alone or behind one other parameter, and beside all of
them, so that a condition on several is met; the texts are empty, short, and longer than the limits.
Bytes have 16 values, so that a length of 235
is beyond `FragmentMax` (234, for 60000), 234 beyond a signed word (128, for 32768), and 17
beyond what `DTP_PPARAMETERB` keeps. The 21 bytes of `MaxDamaged` hold a list's entry in an
entry with a value of 8 bytes inside, or of one byte and a second parameter behind it; what
is longer is the same headers with more behind them. The arrays of `strings` are one with
room for the zero only, one with a character, and two in which numbers fit and do not fit; a byte of 14
values wraps inside the larger one.

*Fairness.* Threads are scheduled (weak fairness of the writers, the reader, Procc and the
network thread); time passes. The spin lock gives no turn, so acquiring it is strongly
fair: a contender's test-and-set finds it free now and then, since every critical section
is short. `std::mutex` of the timers needs only weak fairness, for the network thread
takes it once per message. What strong fairness of the spin lock leaves out is a thread that
finds it taken each time it tries: the code has nothing against that, and `DeliversAll` does not
say that it cannot happen. In `Connection` an attempt to connect ends and the server
answers what reaches it; losses and refusals are bounded. In `AnswerDecoder` a handler runs
on. Nothing is assumed of the application, apart from calling `receive` in
`queue`; in `ProccThread` it may send for ever.

Deadlock is not looked for where the modelled part comes to its end: a message sent, an
object made, a process ended, a text outside its array.

*What the runs show of the code's limits.* These hold of the code, and the properties
name them as exceptions:
- a request can be answered twice, by a reply and a timeout, in two windows
  (`TwiceOnlyByRace`): the reply before `StartTimer`, and the timeout between the switch of
  `BinStream` and its erase; a reply after the timeout is passed on as well;
- a message of the server's own that carries a pending id, or an answer that no case
  handles (`cancel_rsp`), cancels the timer: the request may stay unanswered (`overheard`
  in `PendingIsTimed` and `EventuallyAnswered`);
- Ping and TestMsg time out in silence;
- an id used again right after its answer is not safe: the old entry of `itimers` times
  the new request out early, a late reply answers it, and the erase of `BinStream` may take
  its timer, after which only a reply answers it (`cut`). `FreshIsOwn`, `FreshIsNotEarly`
  and `UntimedOnlyByErase` say that nothing of this happens to an id that is left alone
  until its entry is gone. What may happen to that one, too, is a message that answers
  nothing (`overheard`): a Cancel_Req whose `cancel_rsp` comes is never answered;
- an application that never lets `input_queue_` run empty stops timers and connection
  (`StarvedOnlyByFlood`); after the destructor's null request Procc may use destroyed
  timers, until it has taken that request (`DeadOnlyBeforeNull`);
- the client can get stuck: `on` with a state nobody moves, or off with a state in which
  Online_Req is dropped. `StuckOnlyByRace` says it takes an unsynchronised write or a late
  answer, never only losses and refusals;
- an application that answers the question for a code with an empty one is not asked again:
  the client stays in `need_req` until it is given a code or the connection is lost (`blank` in
  `NeedReqIsAsked` and `GoesOnline`);
- after an answer that came later than its 10 s, two registrations run side by side and
  their answers can undo each other for ever; `GoesOnline` excludes it;
- a parameter that does not fit is left out and the rest is sent; with two or three bytes
  left a nested parameter leaves its tag without a length behind; a text beyond 65535
  characters is sent as its remainder;
- `OnRequest_TestMsgCnf` casts its request to the class of another (1332); `ReadsMember`, a
  part of `TablesAgree`, leaves it out. `SetUserStatus` sends one byte of a member that has two;
- `file_hash` and `loop` are read without regard to what is there (`Careless`);
  `FS_GetFile_Rsp::len` is negative for fragments of 32768 bytes and more; `nums_viewer` is
  appended to `nums_del`, `dest_num` is taken when there is a `sour_addr`, `index` goes to
  `chat_id`, and a text of 256 characters and more is cut where `DTP_PPARAMETERB` takes it.
  `AnswerSchemas` says so, and the reference decodes by the same schemas, so that `Decoded`
  cannot tell; `WholeTexts` and `FilledOnce` can, and name these places as their exceptions;
- `AddTLV_dword`, `SetPrimitveWord`, `SetPrimitveDword` and `AddBin` with a length near 2^32
  write outside (`Careless` of `TlvCalls`); the client calls none of them;
- half of the calls of `DPString` let the zero fall behind the array; `AddRnd_...` and
  `AddDumpByte0x` with a separator write more than they test for. The client's own uses fit.

No document or comment of the repository claims otherwise, so there is no finding.

## 4. Proofs

All proofs are for any value of the constants that the named assumptions allow.

`MpscPollableQueueProofs` proves, for any set of writers, any values and any bounds,
from `QueueAssumption` (the special values are distinct, the bounds are numbers):
`TypeCorrect`, `Exclusion`, `GetIsSafe`, `WakeupIsKept` (`TypeOK`, `MutualExclusion`,
`ReadyIsUnread` and `NoLostWakeup`) and `Refinement` (`Spec => RefinesFifo`).
The inductive invariant `IInv` adds two facts to the four. `WriterView`: what a writer
inside `push_back` has read is still the vector, and it holds a value; without it the
write-back could lose a value. `ReaderView`: the reader has a poll left, and asks for more
only when its count is 0; without it the swap could drop counted values. The refinement
maps the channel to what the reader has not taken followed by `writer_vector_`:
`PushBackWrite` is a put (`PushIsPut`), `reader_get_unsafe` a get (`TakeIsGet`, from
`TakeHead` and `HeadTailCons` about sequences), `SwapEmpty` a miss, `SwapFull` changes nothing
(`SwapIsHidden`), and no other step touches the channel.
Its last part is about `ProccThread`, the reader of such a channel, in a queue of any
length: `NullIsAhead` (`ProccSpec => DeadOnlyBeforeNull`) follows from `NullAhead`:
once the destructor has begun and until Procc has left, the null request is in the queue,
since what is appended comes behind it and what is taken is another request.

`RequestTimersProofs` proves, for any ids, any tables, any clock and any number of requests,
from `TimersAssumption` (the timeout is shorter than `MaxStall`, that than the clock's
period; special values are distinct), `TypeCorrect`, `BothOnlyByRace`, `StaysSettled`,
`NeverEarly` and `ScanMissesNone`. The properties speak of answers, and what could give
another answer lies elsewhere, so the inductive invariant `IInv` follows a request through
all its places. `Hands`: each id is in the input queue once, or in Procc's hand, or past
it. `Untouched`: a request Procc has not finished with has no timer and no refusal or
timeout. `Entries`: a command in the map has its one entry in the queue. `Once`: an answer
of a kind leaves nothing that could make a second. `Race`: a request with both reply and
timer is in one of the two windows. `Timing`: the age of an entry is the distance of its tick
from the clock modulo its period, older entries come first, and the tick that `TestTimers`
read is no later than the clock; it needs that no entry waits for a whole period. Two more
theorems, `AnswersMatch` and `PendingAreTimed`, have the hypothesis `TablesAgree(Names)`:
handler, `BinStream` and `OnTimer` name the same answer, and what has a timeout has a
refusal. It is a fact of the 55 hand-written rows of the tables; `MCTimerTables`, the module
of `timers_safety`, has it as an assumption for all of them, which TLC evaluates.

The last part of the module is about the message of a request: `LossNeedsFull`
(`BuildSpec => []LostOnlyIfFull`) says of `RequestBuilder`, for any operations of a handler
and any lengths, that a parameter is missing or cut only when all of them together are larger
than the array. The invariant `AllThere` is an alternative: either nothing is lost and each
builder on the stack begins four bytes behind what the one around it has used (`Exact`), or
more is wanted already than there is room. It rests on `RequestAssumption` (an array has room
for its header and is shorter than the largest length; operations have the shapes of
`RequestSchemas`), which TLC evaluates in the run `requests` on the operations of all
handlers.

`IdReuseProofs` proves, for any ids, any clock and any number of requests under each id, from
`ReuseAssumption`, `TypeCorrect`, `FreshGetsItsOwn`, `TimerLostOnlyToErase` and
`FreshNeverEarly`. The argument is one notion, `Traced(n)`: request n is in the input queue, in
Procc's hand, in `itimers`, at the server, or about to be erased for. Only `send` makes a
trace of a request that has left none (`TracesFade`), and whoever answers does so for a
request that had left one (`SpeaksForTraced`). So a request that found its id without traces
stays the only one with any (`Alone`), and gets only its own answers (`Own`). `Mapped` says
that the command in the map always has its own request's entry still in the queue, since
the first entry of an id to expire takes the command with it. `Covered` says that a waiting
request is in hand, timed, cut or overheard, and that a reply of which an answer was made has closed
its id, so that an open id belongs to a later request.

`ConnectionProofs` proves, for any number of requests and troubles, `TypeCorrect`,
`CodeIsKept`, `CodeIsAskedFor`, `StatusIsTrue`, `OnlineMeansRegistered` and `NeverStuckInTime`:
all safety properties of the connection. `CodeKept` and `StatusAgrees` are inductive as they
stand, given the types. `Asked` strengthens `NeedReqIsAsked` to the moments in which a
callback is on its way to ask, and Procc about to use the code up. The other two need
`Calm`: while no thread has acted on an outdated view, the server stands behind
every answer on its way, or `OnDisconnect` follows it (`Answered`); no Open follows a
registration (`OpenFirst`); each state has the socket and the session it needs, or the loss
is on its way (`Linked`); and `on` and `constate` agree, but for the thread between the two
writes (`Agree`). Proving it corrected the model. A logout reads `on` and the state and
clears `on`; Offline and Online, run by Procc before it writes `wait_disconnect`, set `on` again
and may bring back the very state it read. The write then leaves a client that is on
in `wait_disconnect`, stuck, though the state had not changed. `StaleNet` compared the state
only, and the run, with its four requests, does not reach this; `StaleNet` now counts an
`on` that was set again as an outdated view, which it is.

`MessageBuilderProofs` proves, from `BuilderAssumption` (an array shorter than the largest
length, as 65535 bytes are), `TypeCorrect`, `StaysInBounds`, `AllIsWritten` and
`NestedAlwaysWhole`. None is inductive alone: that a nested value is whole needs that the
inner builder ends where the outer one ends, four bytes on (`InBounds`), and that all
bytes under a cursor are written needs the same of the gap before the inner builder.
Lemmas say what a store changes in memory, and one step each what a call does to the
innermost builder and to the one below it. `ReadsBack` (`Spec => []RoundTrip`) says of a
message of any size and nesting that a reader finds the parameters that were accepted, in
their order. Its invariant `RInv` adds two facts to that of the bounds. `Apart`: a nested
builder's bytes, if it has any, lie behind all that those around it have used, so that none
writes over another. `Told`: for each builder on the stack, the bytes under its cursor read as
what it accepted. The reference reads by recursion over the message; it is a recursive
function (`Walk`), whose values exist because a least position without one does not
(`LeastOf`), and which a lemma unfolds one parameter at a time.

`AnswerDecoderProofs` proves `TypeCorrect`, `StaysInside` and `ReadsStayInside`
for any schemas and any message, from `DecoderAssumption` and `SchemaAssumption`: the
condition of a field that is read as an integer covers its width, but for the careless
ones. TLC evaluates that assumption on the schemas of all handlers. The invariant says of
each frame on the stack that its position, its end and all its table points to lie in
order inside the message, and that ends do not grow towards the top.
`DecodesRight` (`Spec => []Decoded`) says that an object is what `DecoderReference` makes of
the message. The reference keeps no positions and no stack: a function makes of its bytes
what its rules say of the list of parameters in them (`TlvItems`), and of a parameter that
holds a list what the function of that list makes of its value. It needs
`ReferenceAssumption`: no function calls itself, also not through others, so that each has a
`Depth`; a table has a place for each tag that is taken; the ways a value is taken are the
known ones. TLC evaluates this, too, on the schemas of all handlers. The reference is
recursive three times, over a list, over the parts joined and over the functions; each has a
lemma that solutions exist, from a least length or depth without one, and one that unfolds it
(`WalkUnfolds`, `JoinedUnfolds`, `DecodeUnfolds`). The invariant `MidwayAll` says of every
function on the stack from which byte on it was given the message and how far it is: in
`Parse`, where the table says of every tag what the last parameter so far with it does; among
the fields; or in the loop over a list. What it has made, with what the function above it
still owes it, is what the reference makes up to there, and what that one owes is all that
the reference makes of its bytes. `OneOnWalk` takes a parameter off the list for each that
`Fits`, `NotedSays` and `HoldsIs` are about the table, `ValueIs` about the conversions, and
`ReplaceRight`, `PushRight` and `PopRight` about the stack.

`TlvCallsProofs` proves, for any array and any widths with `CallsAssumption` (arrays well
below the range of a dword), `CursorNearEnd`, `CallsStayInside` and `LengthsTrue`. The careless
calls can leave the cursor up to three bytes behind the array, no further, so that the sums
that the other calls test do not wrap; that is the invariant, `Cursor`.

`DPStringProofs` proves `TypeCorrect`, `StayNear` (`Spec => StaysNear`) and `ResultsAreTrue`
(`Spec => ResultIsTrue`) for any array and any lengths of numbers, from `StringAssumption`
(arrays well below 2^32 bytes, without which the sums of the strict calls would wrap too).
The action properties follow from the types alone, one lemma per group of calls.

TLC checked the inductive invariants of the timers, of the ids used again and of the
connection on the instances of the runs before they were proved.

Only model-checked:
- liveness, since fairness is out of the prover's reach: `DeliversAll`, `StarvedOnlyByFlood`,
  `LeavesWhenAsked`, `EventuallyAnswered`, `AnsweredUnlessErased`, `GoesOnline`, `Terminates`;
- what is a fact of the tables of all handlers and is computed, not deduced: `MembersHold`,
  `WholeTexts`, `FilledOnce`, `TablesAgree` of the requests' parameters, and the `TablesAgree` that the two theorems of
  `RequestTimersProofs` take as their hypothesis.

A module's `TypeOK` is proved where it has a theorem `TypeCorrect` and is no property of a run.

## 5. Not modelled

- MD5 and the digest of `GenRegisterAuth`: a hash of concrete bytes. The parameters it
  sends are in `RequestSchemas`.
- `dstr.cpp` and `dsymbconv.cpp`: functions of characters and code tables, without state.
  `DPString` keeps the lengths of what they write; of all of them the client calls the
  fixed hexadecimal numbers.
- Logging: changes no state. `Client`: forwards.
- `SIP_..._Cnf_ex` (318-387): nobody calls them. The date calls of `DPString` are not
  compiled in.
- `loop()` takes the whole batch a poll announces, with the same two calls as `receive`; in
  `RequestTimers`, `IdReuse` and `ProccThread` the queue is the FIFO channel that the
  refinement justifies.

## 6. Plan

1. Done: queue, tables, timers, ids used again, connection, Procc's life, builder, parser,
   requests, answers, texts; proofs of all safety properties of queue, Procc's life, timers,
   ids used again, connection, builder, TLV calls and texts, of the requests' losses, and of
   the decoder's bounds and results.
2. The client as a whole: connection, requests and timers composed, with the gates of
   `RequestTimers` read from `constate`, and a logout that ends the connection.
