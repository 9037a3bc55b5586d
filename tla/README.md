# A verification project for FoldCloudTeacher

FoldCloudTeacher is the teacher's side of a cloud classroom. Two programs run on
the teacher's machine:

* **FoldCloudTeacher** (`src/FoldCloudTeacher`, Qt): a floating window from which
  the teacher selects a class, watches the list of students and starts or stops
  the demonstration of the screen;
* **AVCapture** (`src/AVCapture`, Win32): captures the screen, encodes it and
  sends it to the students' machines. It is started by the first program and
  obeys its commands, which come over a local TCP connection.

`src/Eclass_Client` is a test program with near copies of the teacher's connection
code.

The TLA+ modules here model the parts in which threads, callbacks and messages
meet; TLC checks them on small instances and TLAPS proves some of the results for
every value of the constants. The modules are translated from the source, and
`PROJECT.json` ("map") names the lines each definition stands for.

## Inventory

| part | state | operations | talks to |
|---|---|---|---|
| frame ring (`cyclic_buf.cpp`) | `p_index`, `c_index`, `valid[]`, the slots | `produce_data`, `consume_get`, `consume` | capture thread writes, send thread reads, control thread frees a slot on a stop; no lock |
| capture thread (`AVCaptureThrd`) | the frame, `count_p`, `bfirst`, `nloop` | one round: wait for `g_hEvent`, test `g_bAVCatpure`, choose I or P, capture, `produce_data` | ring, flag, event, captureScreen |
| captureScreen (`ScreenCapture.cpp`) | the session, the device, decoder, encoder, the pool of surfaces, `m_pFrame` | `Init`, `GetH264FrameData`, `Destory` | capture thread, the media runtime, the allocator |
| surface allocator (`simple_allocator_dx9.cpp`) | three maps of responses, a reference count | `dx9_simple_alloc`, `dx9_simple_free` | captureScreen and the media runtime |
| send thread (`AVProcess`) | `g_szDataBuf_V` | one round: `consume_get`, test the flag, copy, two `send_data`, `consume` | ring, flag, client table |
| video client table (`MyTcpServer`) | `g_iTotalConn` and three arrays | `AcceptThread`, `WorkerThread`, `send_data`, `Cleanup`, `disConnectAll` | four threads, no lock |
| control channel (`SimpleServer`) | `g_fdClientSock`, `clientNum` | `AcceptThread`, `WorkerThread` | teacher's program; sets the flag, calls `disConnectAll` |
| demonstration button (`FlodCloudWidget`) | `m_bstart`, the button's text | `on_demostrate_clicked`, `av_singal_start`, `av_singal_stop` | classroom service through `myHttp`, control channel |
| HTTP (`myHttp`) | a reply, a 5 s timer, a nested event loop | `Post`, `Get`, `GetData` | classroom service, the GUI's event loop |
| student list (`thread.cpp`, `streamparsexml.cpp`, `message.cpp`, `mytableview.cpp`, `stulist.cpp`) | `g_xmldata`, `g_stu2List`, the table's model, `m_ntype`, `g_mutex` | `Thread` polls, `DataThread` parses and fills rows, the GUI switches pages, handles clicks and ends both threads | service; two threads and the GUI share everything |
| class selection (`classesform.cpp`) | `m_list_classt`, `m_list_rooms`, `g_ndex`, three labels, `m_selcalss` | load, turn the page, start a class | service through `myHttp`, JSON answers |
| JSON answers (`myjson.cpp`) | none | `GetClassTemplate`, `GetRoomId`, `GetRespose` | the two above |
| student connections (`tcpserver.cpp`) | `g_userlist`, a timer | accept, heartbeat, errors | nobody: never started |
| audio (`audio.cpp`, `MyRingBuffer.cpp`) | a ring buffer | capture, resample | nobody: never started |

What is hard in it:

* **Concurrency without locks.** AVCapture has seven threads (capture, send,
  two acceptors, two workers, main) and not one lock in use. The ring depends on the order of
  single loads and stores, the table on indices that stay what they were.
* **Control against data.** A stop arrives at any point of the capture and send
  threads. It neither waits for them nor empties the ring.
* **A lock that not everyone takes.** `g_mutex` keeps `Thread` and `DataThread`
  apart; the GUI thread reads and empties what they fill without it.
* **Nested event loops.** Every HTTP request of the GUI handles further clicks
  while it waits.
* **Failure.** Clients leave in the middle of a broadcast; answers come late,
  twice as late as the timer, not at all, or in a form that is misread; `Init`
  returns at the first of fifteen calls that fails, and its result is ignored.
* **Shared ownership.** The decoder and captureScreen hold the same response of
  the allocator and both free it.

What makes each part correct is stated as properties in its module, and
`PROJECT.json` ("hazards") lists what can go wrong, at its line, with the
properties that would notice.

## Modules

### CyclicBuf, FrameFifo, FrameRing, FrameRing_proofs: the ring

`CyclicBuf` has the ring as a record and the loads and stores of its functions
as operators. `cyclic_buf_produce_data` is three of them (`Claim` moves `p_index`,
the `memcpy`, `Publish` sets the flag), since the other thread can run in between.

`FrameRing` interleaves the two threads while the demonstration is on. A frame is
its number, and the content of a slot is `Torn` from the claim to the end of the
`memcpy`. `FrameFifo` says what a user of the ring expects: a queue that loses a
frame only when it is full. `FrameRing` implements it through a refinement
mapping (`Queued` reads the valid slots from the oldest, a frame counts as taken
when its slot is released).

The ring has one flaw that all the properties have to speak of. The first
`consume_get` looks at `p_index` and not at `valid[0]`. So the send thread can
take slot 0 while frame 0 is being written:

* frame 0 may be sent torn (`OnlyFirstTorn`: it is the only one);
* if the send thread releases slot 0 before frame 0 is published (`early`), the
  flag of slot 0 stays set behind it. Frame 0 is then sent again a turn later,
  and from then on the two threads are out of step: the frame put in slot 0 is
  sent behind those of the following slots. `InOrder` holds only without
  `early`; `LateByLessThanATurn` bounds the disorder, and `UnracedSpec` excludes
  the race for the refinement.

### StreamControl, StreamControl_proofs: starts and stops

The ring again, now with `g_bAVCatpure`, `g_hEvent` and the control thread. The
state is finite without a bound on the number of frames: of a frame we keep only
whether it was captured before a stop (`old`), whether it is torn, and whether it
has been copied before. `causes` records the three steps after which the ring is
no longer a queue: `early`, as above; `freed`, when `disConnectAll`'s
`cyclic_buf_consume` clears the flag of a slot the send thread is about to copy;
`passed`, when the send thread, finding the flag clear, goes on to the next slot
without releasing this one.

What holds: nothing is torn or sent twice without `early` or `freed`; after a
restart at most `Num` + 1 old frames are sent; the two threads block each other
(`Wedged`) only after `passed`; and if the demonstration stays on, frames
are sent for ever or the ring is wedged for ever. The wedge is a real
state of the program: the send thread has passed over a valid slot, the producer
comes round to it and refuses every frame, and the consumer waits at an empty
slot for a frame that the producer cannot put there.

### SurfaceAllocator, ScreenCapture, CaptureThread, CaptureThread_proofs: the capture

`SurfaceAllocator` has the allocator as a record and its calls as operators. What
matters in it is that a response is known by the address of its array: whatever
is not in `allocResponses` is taken for the decode response, whose count decides
when the surfaces are released. The comment at `simple_allocator_dx9.cpp:256` says
that manual allocation comes first; `Init` initialises the decoder before, so the
response is the decoder's, and captureScreen's pool is that one.

`ScreenCapture` has one action per call of `Init` (fifteen, in `Calls`), each of which
may fail or warn, the loop of `GetH264FrameData` and the four steps of `Destory`. The
media runtime is external: it may answer "again", keep surfaces locked as long as
it likes, allocate, or not. The array of surfaces an allocation loses when it
fails is not looked at; neither is the Direct3D 11 allocator, which nothing selects.

`CaptureThread` is the thread around it: the choice of I frames, the pause while
`g_bAVCatpure` is FALSE, the crash when a negative status becomes a length, and
the first steps of `~MyTcpServer`. `Word` is 2^32 in the code and `Wrap` 65535. The tick
rule subtracts the newer tick from the older one: it holds only for gaps near
2^32 ms. That no more than five P frames are asked for in a row must come from `nloop`
alone, through every wrap (`PRunBounded`). Of the frames captured since a start the first is an I frame,
unless all of the first four rounds came to nothing or the thread slept through
the stop (`FirstIsI`). What a viewer gets first is another matter: the ring may
refuse that frame or replay older ones (`ReplayBounded`), and a viewer may join in
the middle of a session.

### ClientTable, MCClientTable, ClientTable_proofs: the video clients

Four threads use the table. `Freed` is what `Cleanup` does to the arrays: close
entry `index`, move the last entry into it, decrement. A thread that keeps an
index across a blocking call (`WorkerThread` across its two waits, `send_data`
across `send`, `disConnectAll` across nothing but its own increment) may use it
when it is another client's, or nobody's. The model records that in `stale` and
stops there, because the arrays may be corrupt from then on (a negative count, a
write through a NULL block).

Three things are atomic: a call of `Cleanup`, a round of `AcceptThread`, and reading
the arrays at an index for the arguments of one call. In the code they are not;
the model thus shows what would remain wrong if each took a lock. What lies
between them is apart. `send_data2` tests the flag (`SendTest`), sends (`SendOk`,
`SendFails`), and its caller cleans up after -1 (`SendCleanup`); a stop, a start, an
accept or another `Cleanup` may come before any of these. So it is with the worker:
`WorkerAsk` takes the client at the index, `WorkerResult` waits for his bytes,
`WorkerData` or `WorkerClose` uses the index once more. The number of a closed socket is
taken not to be given to a new one, and a send to send everything.
`MaxConnAssumption` says that there are no more clients than entries, which the
code nowhere tests.

Up to the first stale index the table is well formed (`WellFormed`). `InnocentKept`
says how a client that stays can be closed while the demonstration is on. One way is
that index. The other needs none: a stop's `disConnectAll` jumps over the client
it has moved into the entry just freed; `send_data2` takes this survivor, finds
the flag clear and returns -1; a start sets the flag; then `Cleanup` closes him.
There is no third.

A broadcast is two passes, the header's and the payload's: a client accepted
between them gets a payload without a header (`global.h:22` has the header in
front). `UndisturbedReachesAll` therefore speaks of each pass for itself, and of passes during
which nobody came or went (`reached` and `disturbed` begin anew with each); that a pass
does not reach all clients otherwise is shown by the run BroadcastReachesAll.

### ControlChannel, ControlChannel_proofs: commands

`AcceptThread` puts each connection of the teacher's program into the `fd_set`,
`WorkerThread` polls it. `FD_SET` is two steps (store, count) so that an `FD_CLR`
can fall between them (`clash`), and `clientNum++` and `clientNum--` are a load and a
store each, so that they can be lost (`miscount`). `FD_CLR` is one step: it removes
the entry and moves the others down. Each connection carries one command: that is how
`av_singal_start` and `av_singal_stop` use it.

Two comments are not kept, and the properties say so in their premises. The pass
over the ready sockets (`SimpleServer.cpp:139`) skips one when `FD_CLR` moves the next
entry under the index (`skipped`), and a later command may be obeyed first. The accept
that returns when a client connects (`SimpleServer.cpp:109`) never does so again once
the set was full: `AcceptThread` leaves its loop (`Obeyed` excepts it).

### DemoToggle: the button

`loops` is the stack of `GetData` calls, each in its nested event loop. Only the
innermost can return. The service and the network are external: requests are
served in any order, refused or lost. `Timeout` may hit an outer loop whose
answer has come but which cannot return yet: its timer is then no longer active
and `GetData` takes the answer for a timeout. `LatestDecides` says that a newest
request that succeeds decides everything, whatever became of the older ones,
unless the service served it before an older one.

### Demonstration, Demonstration_proofs: from the button to the capture

EXTENDS DemoToggle, INSTANCEs ControlChannel and joins them (its own definitions end in
`All`, `Free` or `Sending` where DemoToggle has one of that name): an answered request
connects to AVCapture with the command `m_bstart` stands for (`Send`), may fail to
(`Unsent`), and the GUI thread does nothing else until the connection is closed
again; `WorkerThread` sets `g_bAVCatpure` by the command of each connection. `ClassroomSees`
says that once nothing is under way, a newest request that was granted has made
button, service and capture agree. The four exceptions are real: the service
reorders, a command is not sent and never repeated, an `FD_CLR` lets a later command
overtake, the set is damaged. `g_bAVCatpure` begins TRUE (`MyTcpServer.cpp:33`, `44`): before
the first command AVCapture behaves as if it had been told to start. `Settles` is the liveness of the whole.

### JsonAnswer, ClassSelection, MCClassSelection, ClassSelection_proofs: the classes

`JsonAnswer` has the answers of the service by their form and fields, and what
`MyJson` takes from them: that "data" replaces "success", that an answer which is not
understood counts as a yes, and that names lose what is not Latin-1 (`Latin1` is a
constant). A letter that is Latin-1 and not ASCII survives `toLatin1` as a byte that
is no UTF-8, so the parser rejects the whole answer (`Accented`, `Legible`). `ClassSelection` loads classes and rooms, pages through them and starts
classes; a label is the place in the list of the class it shows. Three things a
user can see follow from the code, and the properties name them as exceptions:
the third label is emptied on the last page, so a list that fills it hides its
last class (`WalkedThrough`); a class is looked up by its name, so equal names start
another one (`YellowRuns`); a refusal whitens the label of its own call, whatever
that label shows by now (`HighlightKept`, which excepts the label such a call whitens,
also where its `ndex` was left unset by a click on an empty label). A turn back shows the page it is at and moves
then, so the first turn in the other direction goes one page too far. An `ndex`
nobody has set is any value `SetClassState` can tell apart (`Garbage`).

### StudentList, MCStudentList, StudentList_proofs: the students' table

`Thread` asks the service for the list with `g_mutex` held and sleeps with it
held; `DataThread`, when it gets the mutex, rebuilds `g_stu2List` (`ParseOne`
drops repetitions) and then deals the students into the rows (`DealRow`). The
GUI thread switches the page, which empties the rows, and looks up the number of
a clicked row in `g_stu2List`. A student is what the service says of one: id, name and seat, so with another
seat he is another value. What the service lists is external and changes at any
time (`Change`); one answer does not give one id to two values. An answer may be
empty (`PollEmpty`), and the one with the raised hands is another than the one
with the students.

The rows are searched by their text (`SeatIsRead`). A row reads "name - seat", and
`_isExist_seat` takes what follows the first "-", trimmed, for the seat. For a name
with a "-" that is not the seat; neither is it for a seat with a space at an end.
Such students are the set `Misread`; what is read from their rows is taken to be
nobody's seat. A student whose seat is read from no row is put into the row of his
number, over whoever is there, and no row is ever removed. So a misread student is
put again at every answer, and can be in two rows when the order of the list
changes, as can one whose seat changes; a student who has left stays visible until
he is put over; two with the same seat share one row; the rows can be a
permutation of the list; and a listed student who is put over comes back only with
the next answer. What holds is:

* no seat is read from two rows (`OneRowPerSeat`), whatever is put over whom and whenever
  the GUI thread empties the table: two rows of one student need a "-" in his
  name or another seat;
* a click finds the student it hit as long as the service's list only grew at its
  end. The exception is a click in the middle of a parse, which may run behind the end of the list
  (`PickHasCause`). After any other change a click may find somebody else: that
  is a state of the program, and the reason for the property's premise;
* under a list that no longer changes the rows converge: every listed student is
  shown, or another with his seat (`ShownOrStarved`);
* `~FlodCloudWidget` gets past its waits for both threads, though `DataThread` may wait
  for `g_mutex` as long as `Thread` runs (`ShutdownEnds`): it stops `Thread` first.

`QList::at` behind the end is undefined; the model stops there.

## Runs

| run | module | bounds | shows |
|---|---|---|---|
| FrameRing | FrameRing | `Num` = 3, `MaxFrame` = 8 | types, exclusion, torn, order, loss, delivery |
| FrameRingFifo | FrameRing | `Num` = 3, `MaxFrame` = 8 | the ring implements `FrameFifo` without the first-poll race |
| StreamControl | StreamControl | `Num` = 3 | what starts and stops do to the frames; frames for ever or wedged for ever |
| Capture | CaptureThread | pools of 1 and 2, `Wrap` = 10, `Word` = 16, `Period` = 4, three gaps | surfaces backed and freed once, I frames, every call returns |
| ClientTable | MCClientTable | 3 connections, 3 entries | the table up to the first stale index, who is closed, whom a pass reaches |
| BroadcastReachesAll | MCClientTable | same | *violated*: a client is passed over |
| ControlChannel | ControlChannel | `FdSize` = 3, 4 connections | the set, the count, the order, every command obeyed |
| DemoToggle | DemoToggle | 4 clicks | the latest request decides, every click returns |
| Demonstration | Demonstration | 3 clicks, `FdSize` = 2 | button, classroom and capture agree; everything comes to rest |
| StudentList | MCStudentList | 4 students, two with one seat, one misread; lists of up to 2 | no seat read twice, what a click finds |
| StudentsShown | MCStudentList | 3 students, two with one seat, one misread; lists of up to 2; no clicks | every listed student is shown, or DataThread starves; the program ends |
| ClassSelection | MCClassSelection | 2 clicks, lists of 2 to 7 classes | which classes can be seen, whether the yellow one runs |

**Why these bounds.** The ring's slots differ only in that slot 0 is the first:
three slots have a slot 0, a successor and a predecessor that are all different,
and eight frames turn the ring more than twice, so a slot is reused after it was
reused. StreamControl has no bound on frames, stops or starts; the one on
`replayed` (`Num` + 2) is one above what the property allows. Three clients are
the least with an entry before and an entry after the one that is freed, and a
third that is moved; connections are never reused, so a table of three entries is
filled and emptied. In Capture a pool of two surfaces (the decoder's) and one of
one (captureScreen's own) tell the two responses apart; `Wrap` = 10 lets `nloop` reach
5 between two wraps; of the three gaps one makes the tick rule hold and two do
not. In ControlChannel four connections pass through a set of
three, so the set is full and has room again. Four clicks nest in every way
three requests can be reordered, and one more. In Demonstration the third click
finds a set of two full. In ClassSelection the lists have every remainder of the
division by three, with and without equal names, and one list of three pages;
two clicks are the least of which one can be refused inside the other. In StudentList a list of two has a
row that another student can be put over while the other one is kept. Of the four
students `s1` and `s3` have the same seat, `s2` has one for himself, and `s4` is misread;
StudentsShown does without `s2`.

**Deadlock.** StreamControl is checked for deadlock: its control thread can
always go on. The other models stop when their bound is reached (frames,
connections, clicks), at the end of the program (StudentsShown, Capture) or where
its behaviour is no longer defined (a stale index, `QList::at` behind the end, a NULL
pool, a negative length, a negative `ndex`); their runs say `CHECK_DEADLOCK FALSE`.

**Restrictions of two runs.** StudentList checks `OpenSpec`, in which the destructor
does not begin: its properties are about what the threads show meanwhile.
StudentsShown checks `UnclickedSpec`: no clicks, and once the destructor has begun
the service's list stays and the rows are empty. Neither property depends on what
is left out: a click writes only `gui`, and the end of the threads reads neither
the service nor the rows. In both, of the answers with raised hands only two
occur (`FewHands`), one hand or none: whose hand it is, nothing on the students'
page reads.

**Fairness.** `AVProcess` polls with `Sleep(1)`, its sends block only as long as a
client does not read: weak fairness of the send thread (FrameRing). For `Resumes`
also of the capture thread and of the end of a stop. The capture thread is
scheduled: weak fairness of `Thread` (Capture). That takes the runtime's calls to
return, the ones that wait without a limit (`SyncOperation`) too, and says nothing of
what they return;
`CallReturns` has to except a runtime that says "again" for ever. SimpleServer's
threads poll with `Sleep(10)`, and the teacher's program closes every connection
it makes: weak fairness of both threads and of `Finish`. The 5 s timer fires and
an innermost event loop that has been quit returns: weak fairness of `Timeout`
and `Return`. Demonstration has the fairness of its parts, each of AVCapture's threads
for itself. Nothing obliges anyone to start, stop, click, connect, answer or
capture. The code gives no reason for strong fairness in these modules, and none
is assumed. In StudentList that has a consequence: `Thread` gives `g_mutex` back
only to take it again at once, so nothing says that `DataThread` ever gets it,
and `ShownOrStarved` has to take it as a premise.

**Type invariants.** Every component has its `TypeOK`. Where it is proved for all
values of the constants (below) only FrameRing's run checks it as well; the
others spend their time on what is not about types. Every `TypeOK` is proved.

**Mutants.** Next to some definitions stands a mutated form of it (a dropped
guard, an index that does not wrap, a missing release...), listed in
`PROJECT.json`: with it in place, the run of the property fails. They are used
nowhere else.

## Disagreements between the code and its comments

The violated run: `send_data`'s comment (`MyTcpServer.cpp:264`) says that it
broadcasts to all clients, and a send that fails makes it pass over the client that
`Cleanup` moves into the freed entry. Met while modelling, and part of the models
rather than runs of their own: the pass over the ready sockets, the accept that
returns, the header in front of its payload (above), and the order of the
allocations (above). `GetData`'s comment, `myhttp.cpp:85`, calls it synchronous: it is for
its caller, not for the program, whose nested event loop goes on handling clicks.
That is what DemoToggle and ClassSelection model.

## Proofs

Every safety property of the passing runs is proved, and so is the refinement of
`FrameFifo`; what is left to TLC is named at the end of this section. The proofs
assume what the modules' `ASSUME`s say of the constants and no more. None of the properties
is inductive; what each proof adds is said here. TLC checked the invariants on
the run's instance, or a smaller one, before they were proved.

`FrameRing_proofs` proves, for every number of slots and frames (`Num` positive,
`MaxFrame` natural), that `Spec` implies `TypeOK`, `NoOverlap`, `OnlyFirstTorn`,
`NoLostFrame`, `InOrder` and `LateByLessThanATurn`, and that `UnracedSpec` implements
`FrameFifo`. It begins with lemmas about the ring's operators: the arithmetic of
`Succ`, how far a slot is ahead of another (`Ahead`), and which fields an operator
changes (`StreamControl_proofs` begins with the same ones). Then

* `IInv` says where the flag of the slot a thread is at stands: clear in the
  producer's slot while it writes, set in the consumer's slot while it copies or
  sends. Both cannot hold of one slot, which is `NoOverlap`. The exception, the
  first poll, is part of the invariant: until frame 0 is published the consumer
  may be at slot 0 with the flag clear. A slot with its flag set is not torn; so
  what the consumer copies is not torn either, the exception aside, and that
  exception can end in one `Append` only, at position 1 of `out`;
* `ContentsKnown` follows a frame from its slot through the send thread's hand into
  `out`, which gives `NoLostFrame`, whatever has happened to the order;
* without `early` the threads are in step (`InStep`): the valid slots follow one
  another from the oldest to the one written next, frames ascending, and whatever
  was sent is older than they are. With `early` they are out of step (`OutOfStep`): slot
  0 stays valid until the send thread has been round the others, the frames in
  the slots have consecutive numbers counted from slot 0's, and what was sent
  belongs to earlier turns or to the slots passed in this one. One step leads from
  the one to the other (`EarlyRelease`). `InOrder` and `LateByLessThanATurn` are read off
  the two (`OrderInv`);
* for the refinement, in step, the queue of the mapping is `[k |-> data of the slot
  k - 1 ahead of the oldest]` (`QueuedForm`); so `Publish` appends to it, `Release` takes its
  head, a refusal finds `Num` frames in it, and every other step leaves it as it is.

`StreamControl_proofs` proves, for every number of slots, that `Spec` implies
`TypeOK`, `TornHasCause`, `NoFrameTwice`, `WedgeHasCause` and `ReplayBounded`. Here the flag of
the slot in use may be cleared by a stop, so the first invariant has two halves.
One holds whatever has happened: the slot being written is not valid, and a valid
slot is whole. The other holds while neither `early` nor `freed` is in `causes`: the
slot about to be copied is valid (so nobody is writing it), and a valid slot that
has been copied is the one the send thread is about to release. `passed` does not
appear in it: a slot that was passed over was not copied. For the standstill, as
long as nothing was passed over, valid slots leave no gap (`Filled`): if a slot from the
capture thread's on is valid, so is every slot from the send thread's up to it.
For the replay, the old frames that can still be sent (waiting in a slot, on
their way into one, or in the send thread's hand) are at most `Num` + 1 less those
already replayed (`Budget`): every step that sends one takes it from that sum.

`CaptureThread_proofs` proves, for every pool and every `Word`, `Wrap` and `Period` that
satisfy the module's assumptions, `TypeOK` and the six invariants of its run. The choice of
frames and the surfaces have nothing to do with each other, and each has an
invariant of its own. For the frames: the P frames asked for in a row are fewer
than `nloop`, but for one before the first I frame and the one a wrap brings
(`RunCounted`); and while all rounds of a session came to nothing, `count_p` is their number
(`CountsRounds`), so that the first frame comes while it is below 4, which is `FirstIsI`. For the
surfaces: `Init` and `Destory` make their calls in order, so what is in `up` is known from
`stage` (`InOrder`); while the count is not -1 it is the number of holders (`Counted`); the
decoder and captureScreen hold the same response or one of them none
(`OneResponse`); and what is held is allocated (`LiveIsHeld`). A scan that begins with a
surface in hand is one of a further turn of the loop (`KeptIsRetried`), which is why the
surface it finds in the first turn is unlocked (`FreshInputUnlocked`).

`ClientTable_proofs` proves, for every finite set of clients that fits in the table,
`TypeOK`, `WellFormed`, `InnocentKept` and `UndisturbedReachesAll`. As long as no stale index
has been used, entry i's socket, event and block belong together, all entries
differ, every open connection has one. A thread that holds a client holds an
entry's, or a closed one's (`HeldOK`): so a `Cleanup` whose index is not stale closes the client the
thread means. For the worker he is one whose `WSARecv` completed without bytes, and who
left therefore; for the send thread one whose send failed, or one it was refused for
(`InnocentKept`, an action property). That a client which is accepted finds room
needs a count: the entries inject into the clients other than it (`Room`).

`ControlChannel_proofs` proves, for every `FD_SETSIZE` and number of connections, `TypeOK` and
the three invariants of its run, in three layers. Whatever has happened, indices stay
within the set and, unless both threads count at once, `clientNum` is at least the
entries less those being removed or numbered. Until an `FD_SET` and an `FD_CLR` meet,
the array is ascending, which makes `FD_CLR` remove exactly the entry under the
index, and its entries are the accepted connections that are not closed. Until,
besides, an entry is moved under the index, the pass has every unread command
that is older than one it has, and leaves none behind its index: so the next
command obeyed is the oldest unread one.

`Demonstration_proofs` proves, for every number of clicks and every `FD_SETSIZE`, `TypeOK`,
`LatestDecides` and `ClassroomSees`. The first two are about the button alone: of the newest
request only, `m_bstart` is what it asked for; with success it is the newest served;
and behind its loop text and command follow `m_bstart`, since every loop that returns
later reads `m_bstart` too. Then every step of the whole is shown to be a step or a
stutter of DemoToggle and one of ControlChannel (`PartsAreImplemented`), so that what is proved
of either holds in the whole: the theorems of `ControlChannel_proofs` are used there
through its instance. What joins the two is in `Sent`: `av` is the last command sent,
`g_bAVCatpure` is the last one obeyed, and unless a command was not sent every connection's
is obeyed or still to be read. At rest none is left to be read, and the order
of the channel makes the last one obeyed the last one sent. As the flag begins TRUE
without a command, one more fact is needed: a newest request that succeeded has
sent a command, unless it was lost (`Commanded`).

`ClassSelection_proofs` proves, for every number of clicks, all lists and all answers, `TypeOK`,
`WalkedThrough`, `YellowRuns` and `HighlightKept`. For the pages: those before the page to come, and
those up to the one shown last, have been seen (`Pages`), and a page after the last is
never reached. For the clicks (`CallsInv`): the calls on the stack are numbered in the
order they were made, so at most one is the last click's; its request asks for the
class that was meant, if its name is the only one of its kind; if it was granted it
is the newest served; and without a reordering the newest request served decides
which class runs. That `GetSelClassid` finds a class at all needs the greatest element
of a set of places to exist; `MaxIsMember` has that from the well-foundedness of `<`.

`StudentList_proofs` proves, for every set of students and length of the list, `TypeOK`,
`OneRowPerSeat` (theorem `SeatsDiffer`) and `PickHasCause`, whatever the seats and whoever is
misread. While `DataThread` parses, the list is shorter than the number of the record it
reads, and a row is given only to a student whose seat is read from none. For the
clicks, a student's place in the service's list is the number of different
students up to where he is first named (`PlaceIn`). As long as that list only grew, `g_stu2List`
and the rows hold every student at his place, though answer, list and rows may be
of different ages (`Placed`), and whoever is shown is in the next list too (`Covered`); so row
and list agree wherever both have an entry.

Each proof has a lemma for the initial state and one per action or per part of
the invariant for the steps; the theorems put them together.

Only model-checked: all liveness (`Delivered`, `Resumes`, `CallReturns`, `Obeyed`, `ClicksReturn`,
`Settles`, `ShownOrStarved`, `ShutdownEnds`, `CallsReturn`), since TLAPS as used here has no reasoning
about fairness or `ENABLED`. Results about operators defined by recursion over data
would need induction theorems with operator parameters, which these provers cannot
instantiate; no module here is recursive.

## Not modelled

* Audio, the student connections (`TcpServer`), the waiting list (`myqlist.cpp`): nothing
  in the program starts or uses them. A model of them would have no state the
  program can be in.
* `Eclass_Client`: a test program; what it shares with the teacher's is modelled there.
* The Direct3D 11 allocator and the system-memory branches, which are never selected;
  `dx9_simple_lock`, `unlock`, `gethdl`, which keep no state.
* The media runtime, the service, Qt and winsock: external, modelled by what the code
  relies on.
* The list of raised hands: its rows are never filled and its notices have no
  receiver.
* Races inside Qt's containers, and inside `Cleanup` and `AcceptThread` of `MyTcpServer`;
  more than 64 clients; the destructor's calls of `Cleanup`, which the end of the process
  follows at once.
* `GetData` with a NULL reply: `Get` and `Post` of Qt never return one.
* The two kinds of nested calls of the GUI at once: a class started inside a
  demonstration's event loop only delays its return, which the models allow.
* A partial send (`MyTcpServer.cpp:345` would send the same bytes again, for ever) and a
  command that arrives in two parts (`SimpleServer.cpp:144` would read two commands):
  sends are complete or fail, and a command is one value.
* Values that are undefined or left over: `m_tcpserverThrd` (`flodcloudwidget.cpp:104`) is
  read without ever being set; one `StruInfo` serves all records
  (`streamparsexml.cpp:193`), so a field missing in a record keeps the last student's.
* Logging, message boxes, mouse handling, layout.

## What is left to do

1. **ClientTableRaces**: `Cleanup` and `AcceptThread` taken apart into their loads and
   stores, and the exit of the program.
2. **Proofs**: what the allocator's operators promise by themselves (`SurfaceAllocator`), apart
   from the capture thread that uses them; ClientTable's broadcast as the
   implementation of one that sends to all clients at once, while nobody comes or
   goes.
