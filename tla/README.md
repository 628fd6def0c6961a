# A TLA+ model of the group-key server

The repository is a prototype of group key management: a server (epoll, MySQL, GMP) holds a residue
number system of primes, gives every registered account one prime, keeps the set of members that are
active at the moment, and with each change of that set broadcasts a new group key that only the active
members can decrypt (XH cipher, Chinese remainder theorem). A client logs in, obtains its prime, joins
and then decrypts one group key after the other. This directory models the two programs, checks the
models with TLC and proves the central properties of the key store, the group, the message stream, the timers and the log with TLAPS.

## Inventory

| Component | State it keeps | Operations | Modelled in |
|---|---|---|---|
| `cipher/XH_Cipher` with the tables `xh_keys`, `users` | `_members`, `_available`, `_active_members`, two products, the lower bound of the next prime, `_m`; rows with `used`, `key_id` | `sys_init_fromDb`, `allocation`, `sys_extend_Db`, `member_join`, `member_leave`, `encrypt` | `KeyStore` |
| `server/server`, `server/epoller` | `clients_`, the events of a batch, `gk_` | `start` (loop), `dealListen`, `dealRead` and its `onRead_*`, `dealWrite`, `onWrite_newKey`, `closeConn` | `GroupServer` |
| `conn/conn` | descriptor, two buffers, login state, `cipher_member_` | `init`, `closeFd`, `read`, `write`, `userVerify` | `GroupServer` |
| `client/client` | `mod_`, `gk_cipher_`, `r_`, `gk_`, where `start` is | `start`, `readFd`, `writeFd`, `decrypt` | `GroupSystem` |
| `log/log`, `log/blockqueue` | deque, mutexes, wait sets, current file | `write`, `flush`, `push_back`, `pop`, `Close`, `~Log` | `AsyncLog` |
| `buffer/buffer` | one byte vector, two positions | `Append`, `ReadFd`, `WriteFd`, `MakeSpace_`, `RetrieveAll`, `getMessage`, `addMessage` | `MessageBuffer`, `MessageStream`; as a queue of messages in `GroupServer` |
| `timer/heaptimer` | heap, index of each id | `add`, `adjust`, `doWork`, `del_`, `clear`, `tick`, `getNextTick` | `HeapTimer`; the server adds no timer |
| `pool/sqlconnpool`, `sqlconnRAII` | queue of connections, semaphore | `GetConn`, `FreeConn` | no: one thread uses it, one connection at a time |
| `cipher/XH_Cipher/Utility`, `XH_Member::decrypt` | none | hash, residue, xor | `CipherNumbers`; the condition under which it decrypts, in `KeyStore` |
| `cipher/PH_Cipher` | members with key pairs, the products of both kinds of moduli, master key | as `XH_Cipher`, and `master_key_init` | `CipherNumbers`; neither program is built with it |

How they interact: the client and the server exchange `#title:content#` messages over TCP; the event
loop calls handlers, handlers call the cipher and MySQL synchronously; `onWrite_newKey` walks over all
connections, so a handler of one connection changes the buffers and the epoll registration of others.
Both programs hand each log line to a write thread.

What is hard here:

* Ownership of a key is recorded in two tables by two statements, while the set of free keys is rebuilt
  from one of them. Queries can fail and the process can die anywhere.
* The group is kept in five places that have to agree: `_active_members`, `_active_mod_product`, the
  coefficients of `_members`, the `_isactive` flag in each `Conn`, and what each client believes.
* The events of one `epoll_wait` are a snapshot. Peers go on while it is worked off, and handlers re-arm
  one-shot descriptors whose own event is still to come.
* The client takes the next message for the answer to its request; broadcasts use the same stream.
* The log holds one mutex around a bounded queue whose consumer needs that mutex.
* A message is cut anywhere by partial writes and reads, into an array that is compacted, grown and used
  again for other connections, with old bytes behind the valid ones.
* The timer heap moves entries that an index points to, and reads a clock that goes on between two reads.
* The ciphers keep sums and products incrementally and rebuild them when the system grows.

`PROJECT.json` lists these hazards at their lines, with the properties that watch over them.

## Modules

| Module | Contents |
|---|---|
| `KeyAllocator` | abstract specification: a user is given a key once, keeps it, shares it with nobody |
| `KeyStore` | the cipher and its tables, one action per handler, plus crashes inside and between handlers |
| `KeyStoreModes` | EXTENDS `KeyStore`: two regimes of faults, chosen at the start, so that one run checks both |
| `MCKeyStore` | accounts and their symmetry for TLC |
| `KeyStoreProofs`, `KeyStoreModesProofs` | the theorems about them |
| `GroupServer` | EXTENDS `KeyStore`: epoll, connections, sockets, every handler |
| `GroupSystem` | EXTENDS `GroupServer`: the clients, the whole system, its properties |
| `GroupSystemProofs` | the theorems that hold whatever clients and peers do |
| `GroupClientProofs` | EXTENDS `GroupSystemProofs`: the conversation of the server with the clients of the repository, and the theorems that rest on it |
| `MCGroupSystem` | processes, accounts and casts for TLC; `SettledSpec`, a start from a later state |
| `MessageQueue` | abstract specification: messages are taken whole, in order, once; a new connection starts empty |
| `MessageBuffer` | `Buffer` as operators on an array and two positions |
| `MessageStream` | EXTENDS `MessageBuffer`: two buffers with a socket between them; implements `MessageQueue` |
| `MessageBufferProofs` | EXTENDS `MessageStream`: lemmas about the operators of `MessageBuffer` and about `FlattenSeq` |
| `MessageStreamProofs` | the theorems about `MessageStream` |
| `Timers` | abstract specification: a set of timers, the first one due is served first, the others are left alone |
| `HeapTimer` | the heap, its index and the loop that asks it; implements `Timers` |
| `HeapTimerProofs` | the theorems about it |
| `CipherNumbers` | both ciphers in numbers |
| `MCMessageStream`, `MCHeapTimer`, `MCCipherNumbers` | messages, timers and random keys for TLC |
| `AsyncLog` | the log of both programs, on its own |
| `AsyncLogProofs` | the theorems about `AsyncLog` |

### KeyStore

A prime is named by its place in the sequence `mpz_nextprime` runs through, so `_modulus_lower_bound` is
a number and `init_members(n)` is the next `n` numbers. A product of distinct primes is the set of its
factors. A handler is one action because the server has one thread; a query that fails ends the handler
at that statement, with what was executed before it in the database. `CrashExtending` and
`CrashBetweenUpdates` are deaths in the middle of a handler; a death at any other point of it leaves
what `Crash` leaves before or after. `rekey` is the set of moduli that decrypt the last rekeying
message: the comment above `DecryptsUnder` derives the condition from the CRT sum in `encrypt`.

`_available` is an unordered set: any of its elements can be handed out next. The start of the very first
prime (`_bit_length`) is fixed because GMP's generator is seeded by default.

`KeyStoreModes` adds one variable that never changes: `tidy` says that the memory is not lost while a key is
torn (one of the two UPDATEs of an allocation done, the other not). Ownership is promised in that regime;
types, records and the stability of answers in both.

### GroupServer and GroupSystem

`conn[f]` is the `Conn` of descriptor `f`, kept when it is closed as `clients_` keeps it, with the
`cipher_member_` that `Conn::init` does not reset. `armed[f]` is the one-shot registration, `batch` the
events of the last `epoll_wait` not yet handled. Sockets are queues of whole messages; a request of a process
in `Splits` can arrive in two parts. Two kinds of damaged requests are told apart: one without a delimiter is
taken from the buffer, one that does not start with a border stays in front of all later input. `link[p]` is the
state of a connection as the server would see it: `fin` and `rst` are the ends a dead process leaves. A message
carries a number in place of its digits, and a rekeying message the moduli it decrypts under, from which the
client's `decrypt` yields the key or `Junk`.

A client of the repository is a position in the script of `Client::start` (`phase`), named after the
message it waits for. `Peers` are clients of another make that send any requests: `mem_leave`, a second
`allocation`, unknown and damaged requests come only from them.

`GroupServer` uses the actions of `KeyStore` unchanged (`Join`, `Leave`, `Drop`, `AllocateNew`, ...), and
adds what the handler does to the connection.

`ActiveIsConnected`, `OneConnPerModulus`, `ScriptIsFollowed` and the action property `NewKeyReachesMembers` have the
premise `OnlyClients`, no peer has connected yet. It is not a matter of taste. A `Conn` keeps its flag and its
modulus over `init`, and `dealRead` closes the connection without `member_leave` when `read` reports an error; a peer,
which can be active and still send, leaves such a connection behind, and the next process with that descriptor
counts as active without having joined (`GroupDropped` has the beginning of it). A client of the repository does not
get there: it sends nothing once it is active. `JoinedIsMember`, `OutputIsWatched` and `EveryConnWatched` have no such premise.

### MessageBuffer and MessageStream

A buffer is the record of its array and its two positions; `Appended`, `MakeSpace`, `Filled` and `GetMessage` follow
the code to the byte, because which old bytes stand where is what can go wrong. `Beyond` is what the byte
behind the end of the array can read as. `MessageStream` puts two of them at the ends of a connection: one end
is a `Conn`, whose buffers are emptied by `Conn::init` and used again, the other a client process with new
ones; `Renew` is the next connection. `flight` is a history variable: the messages added
and not yet found. A failing assertion is `ret = 1`, after which the reader stops.

Which end is the `Conn` is chosen at the start, because the two do not read alike, and `reading` is the place of the
one that reads. `Client::readFd` looks for a message, reads once when there is none (it blocks until something comes) and
looks again. The server waits for a read event (`Event`); `dealRead` then reads until nothing is there and looks
once, takes at most one message and arms the connection again, so what lies behind that message is looked at when more data
comes; and when the peer hangs up, the loop closes the connection without reading what has arrived (server.cpp:57, the branch
for a hang-up comes before the one for input). `AllDelivered` names these exceptions; the one in the middle is `HeldBack`. A
client of the repository does not meet it, as it waits for each answer before it sends again. Messages to a client are not
held back: group keys that arrive together are found one after the other.

`GroupServer` uses the queue that `MessageStream` implements, with one difference the run `MessageBorder`
shows: the process that reads can abort.

### HeapTimer

A time is what is left of it, counted in half milliseconds so that `duration_cast` has something to drop.
`pc` follows the loop of `Server::start`: `tick` inside `getNextTick`, the second reading of the clock, the wait,
the handlers, `tick` again. `Pass` lets half a millisecond go by in the wait or between any two readings.
A round of the loops of `siftup_` and `siftdown_` is an operator (`UpRound`, `DownRound`); the loops are
recursive functions of the number of rounds. `siftup_` has no stop at the root: `(0 - 1) / 2` in `size_t` addresses the node in front of the array, and what is
read there decides between nothing and an assertion that fails; `aborted` is both.

Handlers call `add`, `adjust`, `doWork` and `clear` at any time. Three things are assumed of them, as the two
disabled calls in `server.cpp` suggest: a timer is added with its period, `doWork` is for timers whose callback
leaves the heap alone, and the callback of a cyclic timer touches only its own timer.

### CipherNumbers

`method` chooses the class. A member is a prime, in PH a safe one; both ciphers keep `x`, `y` and two products
over the residue moduli. Random encryption keys are drawn from `EncSample`; a hash is any function from moduli
to numbers. `KeyStoreView` ties it to `KeyStore`, which works with sets of factors: a modulus reads all group
keys exactly if it is active and a factor of both products. The numbers are small because TLC computes in 32
bits: `MaxActive` keeps the square of the active product below 2^31.

### AsyncLog

The main thread and the write thread, one step per critical section. `Log::mtx_` is held across several
steps of `write`; the mutex of the deque never is. A line is the number of the call that made it.

### Slips

Next to some operators stands a second one with the same parameters that is never used by the
specification: a wrong version, as a slip in the code would make it. They are named in the head of each
module. Each property is known to fail when the slip named with it in `PROJECT.json` takes the place of
the operator.

## What is checked

| Run | Instance | Shows |
|---|---|---|
| `KeyStore` | 3 accounts, 4 primes, `_m` = 2, failing queries, every crash | `KeyStoreTypeOK`, `RecordsAgree`, `AllocationIsStable`; `KeysUniqueWhenTidy`, `AvailableUnownedWhenTidy`, refinement `TidyIsAllocator` |
| `GroupTwo` | 2 clients from an empty database, deaths, `_m` = 1 so that the second client causes an extension, fairness | `GroupSystemTypeOK`, `OutputIsWatched`, `RekeyCoversGroup`, `NewKeyReachesMembers`, `GroupAgrees`, `StartedIsServed` |
| `GroupSettled` | three casts, each with one process in the group at the start: 3 clients with accounts of their own; 3 clients of one account, one with a wrong password; a peer and a client with split requests. Deaths, failing queries | `JoinedIsMember`, `ScriptIsFollowed`, `ActiveIsConnected`, `OneConnPerModulus`, `EveryConnWatched` |
| `MessageStream` | either end the `Conn`, 3 messages of 4 and 6 bytes on each connection, arrays of 5 bytes, a socket of 2, fairness | `StreamTypeOK`, `StreamIntact`, `BuffersAreBounded`, `AllDelivered`, refinement `ImplementsMessageQueue` |
| `HeapTimer` | 4 timers of two periods, one cyclic | `HeapTimerTypeOK`, `HeapIsSound`, `NoneOverdue`, `SleepsTillFirst`, refinement `ImplementsTimers` |
| `CipherNumbers` | XH and PH, up to 4 members, hashes of 2 bits | `CipherTypeOK`, `MembersDecrypt`, `KeyStoreView`, `MasterKeyStable` |
| `AsyncLog` | 6 lines, deque of 2, files of 2 lines, 1 change of date, fairness | `AsyncLogTypeOK`, `WriterNeverWaits`, `NothingLost`, `QueuedInOrder`, `FilesAreBounded`, `LinesReachFile`, `ClosedInTimeReturns` |

Five more show the code at odds with its own comments and assertions:

| Run | Comment | What happens |
|---|---|---|
| `KeyStoreTorn` | XH_Cipher.cpp:137, a key that is not in use is available | the server stops between the two UPDATEs of an allocation; after the restart the key of an account is available |
| `KeyStoreHalfExtended` | XH_Cipher.h:44, x * y mod m_i = 1 | an INSERT fails in `sys_extend_Db`; a key handed out afterwards has no coefficients, its member cannot decrypt |
| `GroupDropped` | server.cpp:59, an active member that is gone leaves the group | it does not when `read` reports the loss, or when it asked for its allocation again |
| `GroupStranded` | server.h:38, a new key triggers a write event | an incomplete request in the same batch arms the connection for input only |
| `MessageBorder` | buffer.cpp:31, `assert(len <= ReadableBytes())` | an incomplete message ends just in front of the border an earlier one left in the array; `getMessage` takes it for complete and the assertion fails |

Four more things the models show that no comment speaks about, so no run is about them. `JoinedIsMember` leaves
out accounts with a second login: the second connection of an account is told that it joined, but
`member_join` does not activate it, so it is not written to (`OneConnPerModulus` is the other side of that).
`readFd` of the client takes the end of file for data and looks again for ever (`NothingThere`). A modulus of
PH whose random encryption key is `(p - 1) / 2` has no decryption key (`MembersDecrypt` says that these members,
and only those, do not read). `getNextTick` tests an unsigned value for being negative, so a process that is held up
for two milliseconds within it sleeps until the next event (`SleepsTillFirst` leaves that case out with `late`).

The run `HeapTimer` also gets to the place where `siftup_` looks past the root (`StrayLarge`): when the memory in front of
the array reads as a later time, the assertion of heaptimer.cpp:18 fails, and the properties speak of the time before
that. The server adds no timer today, so this is not a run of its own.

Two limits of what the runs and theorems say. `generate_safe_prime` accepts a candidate only when
`mpz_probab_prime_p` answers exactly 2 (PH_Cipher.cpp:296), "certainly prime"; for the small primes of `CipherNumbers` GMP
can say so, for numbers of the size the class asks for it answers 1, and the search would not end. The class is in no
build. And log files are opened with mode `a`: `FilesAreBounded` and `FilesStayShort` are about one run of a process,
a restart on the same day appends to the file that is there.

`AsyncLog` also shows how `~Log` can hang: `pop` looks at `isClose_` only after a wait, so when `Close()`
runs while the thread still writes its last line, the thread starts to wait afterwards and the join never
ends. No comment promises otherwise, so this is not a run of its own; `ClosedInTimeReturns` states the
case that returns.

### Bounds

* `MaxKey`: 4 with `InitM` = 2 is the first set of keys and one extension; an allocation that would
  exceed it is not taken. The next extension doubles `_m` again and does nothing new.
* 3 accounts exhaust the first set of keys and force the extension.
* `MaxFd` is the number of processes, so `accept` always finds a descriptor. A process connects once; a
  descriptor is reused by the next process.
* `SockBuf` = 2 is less than the 3 messages an answer to `mem_join` puts into the buffer, so short writes
  happen, and the broadcast of a second join meets a full socket.
* `MaxSends` = 2: with `SettledSpec` the peer is already in the group, so one request that changes its
  state and a second one, or one split over two segments, are enough to meet the other client's events.
* Three clients from an empty database are beyond TLC here. `SettledSpec` starts them when accounts are
  registered and one client has joined; the way there is what `GroupTwo` covers.
* `InitSize` = 5 is more than the short frame and less than the long one, and `WireSize` = 2 less than both: arrays are
  compacted, grown and filled over their end into the array on the stack, and every frame is cut. `MaxSent` = 3
  messages of which `Window` = 2 are under way are enough for old bytes of a message to lie behind a later one.
  `MessageStream` lets the byte behind the array be a border, `MessageBorder` does not, so that its
  counterexample needs nothing undefined. Two messages in a read buffer at a time are what `HeldBack` needs.
* 4 timers make a heap with three levels, in which removing one moves another up or down. `MaxDelay` is as long as
  the 2 ms from which a late reading matters; `MaxOverdue` stops the clock for a loop that does not come back.
* `HashBits` = 2 makes 7 and 11 the first moduli; `MaxMembers` = 4 is an extension after a start with 1 or 2 rows.
* `Capacity` = 2, `FileLines` = 2, `MaxCalls` = 6: the deque fills with a line in the hand of the thread,
  and two files are completed.

`CHECK_DEADLOCK FALSE` is set where the system may stop: all processes have ended, or everybody waits for
a message nobody has to send; in `AsyncLog`, the program has ended; in `HeapTimer`, an assertion
has failed or the clock has come to its bound; in `CipherNumbers`,
the bounds on keys are reached.

### Fairness

`GroupTwo`: weak fairness of the server, a loop that never rests while epoll reports something, and of
each client, which is blocked in `readFd` until a message is there. Connecting and dying are never forced.
`MessageStream`: weak fairness of writing, of the steps of a handler that has begun, and of a client, which calls `readFd`
for each message it waits for, at last in the loop that receives group keys. The event of a `Conn` is fair only while
the peer is there (`open /\ Event`): with the peer gone it may be a hang-up instead. No second look is fair, or even
possible, for a `Conn` without a new event. A `Conn` writes on as long as it has output and the peer reads, since `dealWrite`
arms the event again; in the order of `GroupStranded` it goes on when the rest of that request comes, which the
client is writing at that time. Nobody has to add messages or to end.
`AsyncLog`: weak fairness of each thread inside a call; no call has to be made. A mutex is assumed not to
be taken for ever by a thread that releases it, which holds in the model because calls are finite in number.

## What is proved

`KeyStoreProofs` holds for every set of accounts, every `MaxKey` and every `InitM` > 0, under
`KeyStoreAssumption` only:

* `TypeCorrect`: `KeyStoreSpec => []KeyStoreTypeOK`.
* `RecordsAlwaysAgree`, `AllocationStable`: with every fault, tables, answers and memory agree, and an
  answer once given is never changed. The invariant is inductive as it stands, together with the types.
* `KeysAreUnique`, `AvailableUnowned`: under `TidySpec`. `KeysUnique` alone is not inductive: the next
  allocation takes a key from `available`, which says nothing of owners. `Ownership` adds that no available
  key is owned, that used rows are rows, and that no key is owned by two accounts while it is up; a restart
  preserves it because nothing is torn at that moment, which is what `TidySpec` says.
* `StoreImplementsAllocator`: every step of `TidySpec` is a `Give` of `KeyAllocator` or leaves `told` alone.
* `RekeyReachesGroup`: when no query can fail, `rekey = active`, crashes and restarts included (the run
  `GroupTwo` checks it without them). It needs `Coefficients`: members and the
  factors the coefficients were made from are equal while the server is up, and the active product is the
  active set.

`KeyStoreModesProofs` brings them to the specification the run checks: a behaviour of `ModeSpec` is one of
`KeyStoreSpec`, and one of `TidySpec` when `tidy` was chosen (`TidyModeIsTidy`), because `tidy` never changes. Hence
`ModesAreCorrect`, `UniqueWhenTidy`, `UnownedWhenTidy` and `TidyImplementsAllocator`, the refinement, whose mapping is
`told` in the tidy regime and constant in the other.

### The group, whatever clients and peers do

`GroupSystemProofs` holds for any sets of processes, accounts, descriptors and split requests, any sizes of sockets and
batches, with failing queries and dying processes; what it assumes of the constants is `KeyStoreAssumption`,
`GroupServerAssumption` and `GroupSystemAssumption`.

* `GroupTypesAreCorrect`: `GroupSystemSpec => []GroupSystemTypeOK`. The types alone are not inductive: a handler runs
  for a descriptor of the batch, and what it does is only defined for an open one. `TypeInv` adds `BatchIsOpen`, the
  batch holds events of open connections only and one for each. It stays true because a handler closes no connection but
  its own, and its event is the one that is taken out.
* `GroupImplementsAllocator`. `KeyStep` shows, handler by handler, that a step of the system is a step of `KeyStore`
  or leaves the keys alone; so the invariants of the key store (`KeyInv`) and its refinement of `KeyAllocator` carry over.
* `GroupRekeyCoversGroup`: with `QueryMayFail = FALSE`, `rekey = active` after every handler.
* `NoConnIsForgotten` (`EveryConnWatched`): an open connection is watched by epoll or its event is in the batch.
* `EachServedOnce` (`ConnsDiffer`): a connected process is in the backlog or served by one descriptor, never by two. The
  step to think about is `DealListen`, which accepts the whole backlog and gives the i-th process the i-th free descriptor.
* `OutputGoesOut`: with `Splits = {}`, a connection with output is watched for writing or handled in this batch. With
  split requests it is false in general, which `GroupStranded` shows; the run `GroupTwo` checks it.

### The group and the clients of the repository

The first part of `GroupClientProofs` is about the time until a peer connects. Its invariant has two parts.

`KnownInv` holds always: `TypeInv`, `KeyInv`, `ConnsDiffer`, `LinksAgree` (a connection is open exactly while
its process runs, one that was not accepted has nothing to read, a hang-up is of a process that is gone) and
`WaitersWait` (a client in the backlog has sent its login and not been answered).

`ClientInv` holds as long as `OnlyClients` does. It relates what is nowhere else related: where a client is in its
script, what is under way to it, and what the server has noted in the `Conn`. `Out(f)` is what the client has still
to read, the socket followed by the write buffer. For each open connection

* `ServedRightly`: at most one request of the script is on its way, and none from a member; who is active or about
  to be has the modulus that is on record for its account; only a member was sent a group key;
* `Conversing`: `InStep`, the position in the script, the request and `Out` fit together; `Holds`, the modulus the
  client holds or is about to read is the one of the connection and of the table; `Settled`, an active connection
  is one whose client has left the login phase behind; `Joined`, who has been told that it joined, or will read so, is active, if
  its account is its own.

A closed connection is `Idle`: not active, nothing to write. `ActiveAgrees` says that the active set consists of the moduli
of active connections, one connection for each. None of these is inductive without the others: that a broadcast is not
taken for the answer to a request needs that a member sends none; that it sends none needs the position in the script; that
`member_leave` takes out the right modulus needs that no second connection holds it.

The theorems: `GroupIsConnected` (`ActiveIsConnected`), `OneMemberPerModulus` (`OneConnPerModulus`),
`ClientsFollowScript` (`ScriptIsFollowed`), `EachKeyGoesToGroup` (each new key is written to the connections of
the group and to no others, also when queries fail) and, with `QueryMayFail = FALSE`, `NewKeysReachMembers`
(`NewKeyReachesMembers`: they are also the ones that decrypt it).

The second part proves `JoinedClientsAreMembers` (`JoinedIsMember`), with peers. Here none of the above can be relied on: a
client that has just connected can get a descriptor that a peer left active, and is then written group keys before it
has joined, or between two of its answers. What saves the property is that the client takes the first such message for
an answer and soon ends. `AloneInv` says this of every process that is not a peer and has its account for itself:

* `Talk`: it is on course or lost. `OnCourse` lists the places of the script with the request or the answer that is under
  way, group keys behind the answer to the login included, and what the `Conn` holds then: `Allotted`, the modulus on record
  and not active yet, from the allocation to the join; `BelongsTo`, active, with the same modulus on both sides and in the
  group, after it. `Lost` is a client that will read a number where it expects an answer: it is at the readFd of
  the allocation, or before it with enough group keys in front of it to read another one there, and will end.
* `KeyIsMine`: nobody else has its modulus in a `Conn`, and the modulus is not in the group before it has asked to join.
  This needs `OwnersStarted`, that the modulus of an account nobody has logged in to is in no `Conn`, and `ModsHeld`,
  that every modulus in use was handed out, so that a new one is in nobody's hands (`KeyHandedOut`).
* `UsersAgree`: a connection is logged in to the account of its process.

The allocation is where the stale flag goes: `onRead_allocation` overwrites modulus and flag, and the flag is off, because a
modulus nobody else has is not active. So `Allotted` holds whatever the descriptor carried before.

### The log

`AsyncLogProofs` holds for every capacity of the deque, length of a file and number of lines.

* `MainNeverWaits` (`WriterNeverWaits`). The property alone is not inductive; `RoomToPush`
  adds that there is room whenever the main thread is about to push, which stays true because after
  `TestFull` only the write thread touches the deque, and it takes lines out.
* `LogTypesAreCorrect`, from `PlaceInv`: which thread is where, and who holds `Log::mtx_`.
* `QueuedLinesInOrder` and `NoLineIsLost`, from `LinesInv`: the lines that went through the deque, those in files, the one in the
  hand of the write thread and those in the deque, taken in this order, are increasing; every line that has left
  the hand of the main thread is in one of these places, and in the files at most once.
* `FilesStayShort` (`FilesAreBounded`). It needs `OpenIsShort`: the lines in the open file, together with those that wait
  and may go there, are no more than the lines logged since it was opened, the capacity of the deque and one.

### Messages in a stream of bytes

`MessageStreamProofs` holds for any messages over any letters, any size of the first array and of the socket, any
number of messages, and whatever byte stands behind an array; it assumes `BufferAssumption` (the border, the
delimiter and the 0 are no letters) and `StreamAssumption`. The server sends fixed words and numbers, which are of such
letters; of a user name and a password given to the client this is a premise, the code does not check it.

* `MessageBufferProofs` says what each operation does to the readable bytes. `AddMessage` puts the frame behind them
  (`MessageIsAdded`) and `Filled` what was read (`FilledProperties`), whether the array had room, was compacted or grew,
  and by how much it can grow (`SpaceIsMade`). `GetMessage` returns exactly the message when its whole frame
  is in front, and leaves what follows (`MessageIsFound`); when less is there it changes nothing, although the byte it
  looks at behind them may make it abort (`NothingIsFound`).
* `StreamTypesHold` and `StreamStaysIntact` (`StreamTypeOK`, `StreamIntact`): the two are inductive together. `LookFinds` is the
  step to think about: by `StreamIntact` the readable bytes of the reader are a beginning of the frames of `flight`,
  so they begin with the first frame or are a part of it.
* `StreamImplementsQueue` (`ImplementsMessageQueue`): `Add` is `Put`, a `Look` that finds a message is `Take`, `Renew`
  is `Renew`, and the other steps change nothing of the queue.
* `StreamBuffersAreBounded` (`BuffersAreBounded`), when `Messages` is finite and not empty, which gives `LongestFrame` a
  meaning: by `StreamIntact` what is in the buffers is under way, hence at most `Window` frames.

The bytes of the frames are `FlattenSeq` of a sequence, a recursive function. The induction rules of the
library take an operator as a parameter, which the provers cannot instantiate; `SetOfAllNumbers` does the same for a
set instead of a predicate, from the least number that is not in it, and `FlattenAppend` and `FlattenHead` follow from it.

### Timers

`HeapTimerProofs` holds for any ids, any periods greater than 0 and any bounds of the clock, under `HeapTimerAssumption`.
It has three layers:

* The order. A heap is a function from places to times, `Ordered`. `UpFrom` and `DownFrom` are ordered but for
  one place whose time may belong further up or further down; a swap with the parent, or with the earlier
  child, moves that place (`UpOne`, `DownOne`) and the loops end when there is none (`UpEnd`, `DownEnd`).
  `Spans`, that the parent of the place is not later than its children, is what makes the swap safe.
* The array and its index. `Indexed` says that `ref_` is the inverse of `heap_`. `SwapNode_` keeps it and leaves everybody's
  time (`SwapKeeps`), so the loops do: `Rising` and `Sinking` are their invariants, and
  since the place halves or doubles with each round, the number of rounds the model allows is enough
  (`SiftUpOrders`, `SiftDownSinks`). An entry put in the middle of the heap belongs up or down,
  never both, so `siftdown_` and then `siftup_` if nothing moved restores the order (`SiftOrders`).
* The loop. `HeapInv` is `Sound` (index, order, and no timer has more left than its period) with the types, `NoneOverdue` and
  `SleepsTillFirst`. The order alone is not inductive: `adjust` only calls `siftdown_`, which is right because a
  timer that is adjusted never moves forward; that is the bound by the period. `NoneOverdue` is about
  all timers while `tick` looks at the first, which is the earliest by the order (`FirstIsLeast`); and `SleepsTillFirst` needs `NoneOverdue`, since
  an unsigned `res` is only right when it is not negative.

`HeapTimerTypeCorrect`, `HeapStaysSound`, `NoTimerIsPassedOver` and `LoopSleepsTillFirst` are the four invariants of the run.
`HeapImplementsTimers` is the refinement: each operation changes one timer of the set as `Timers` says.

### What is only model-checked

* All liveness (`StartedIsServed`, `GroupAgrees`, `AllDelivered`, `LinesReachFile`, `ClosedInTimeReturns`, the
  liveness of the abstract specifications): temporal reasoning about fairness and ENABLED is not available here.
* `CipherNumbers`. It uses `Bitwise`, which the prover does not take; and that the sums decrypt rests on the Chinese
  remainder theorem for products of any length and on Fermat's little theorem, inductions over data that the library's
  rules do not reach.

## What is not modelled, and why

* SHA-256 and GMP, which are libraries; keys of a real size. In the group a key is its number and a ciphertext the
  set of moduli it decrypts under.
* A server that ends while clients are connected (`KeyStore` has the restart, without clients), hence the
  error returns of `readFd` and `writeFd`.
* `accept` without a free descriptor; a second free of a result in `userVerify` when its last query fails.
* The text of log lines, and what `Log::write` does to its buffer when a line is longer than it.
* The connection pool: one thread takes one connection at a time, so nobody ever waits for another.
* The tables of `PH_Cipher` and its variants without a database (`sys_init`, `sys_extend`), which nothing calls.
* Callbacks of timers that touch other timers.

## Plan

1. `GroupRestart`: compose the crash and restart of `KeyStore` with clients; the error returns of the client.
2. `accept` without a free descriptor, on the edge-triggered listening socket.
3. An abstract specification of the group (join, leave, new key) implemented by `GroupSystem`.
