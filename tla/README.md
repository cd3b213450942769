# A TLA+ verification of cjson-bd

cjson-bd is a small client/server database of users written in C: a threaded TCP
server (`src/spr.c`) serves text commands over one in-memory table
(`src/dbs/dbs.c`, `src/dbs/table/user_table.c`) that is saved to and reloaded
from a text file; a client (`src/client.c`) finds the server through an external
resource locator over UDP (`src/lib/slr.c`).

This directory models the table, the service over it, the sessions that carry
its requests, the way from a typed line to the parameters of a request, and how
the programs find each other. TLC checks the models; TLAPS proves the main results
for every size.

## Inventory

| component | state | operations | talks to |
|---|---|---|---|
| user table, `dbs/table/user_table.c` | linked list of `user_t`, `rows`, `last_uid`, `first`, `last`, `mutex_user_table`, the table file | init, insert, delete, update, three lookups, two listings, commit, rollback | the file system; called by the service |
| database service, `dbs/dbs.c` | `connection_lock`, `mutex_dbs`; per connection: `con` (the uid), `user_type`, `result`, counters | connect, create, search, delete, changepass, list, block, unblock, commit, rollback, exit | the table; called by the server threads |
| server, `spr.c` | per thread: `in_session`, the request, its parameters | accept, receive with timeout, dispatch, answer, thread exit | the service, the socket library, the locator |
| socket library, `lib/socket.c` | per socket: buffer, `nbytes`, `expire_timeout` | read n bytes, read a short, write, timeouts | the kernel |
| packets and codes, `lib/common.c` | none | packet constructors, `cmdtous` | |
| client, `client.c`, and `lib/prompt.c` | the command being run | request, await the answer, print | the server |
| locator requests, `lib/slr.c` | one UDP exchange | obtain an id, register or locate a resource | the external SLR |

Where it is hard:

* **Concurrency.** A thread per client. A table function holds
  `mutex_user_table` during its walk; a `dbs_` function makes several such
  calls, and one call of `_check_preconditions` under `mutex_dbs`, and holds
  nothing in between. Lookups return pointers that outlive the mutex.
* **The list.** Hand-written pointer surgery with three quantities that must
  agree (`rows`, `last`, `last_uid`), identified by comparing uids.
* **Persistence.** Commit truncates the file, then writes it; rollback and
  restart parse it with `strtok`.
* **Sessions.** `connection_lock` is taken by a user, not by a connection, and
  nothing releases it but `desbloquear`.
* **Framing.** Short reads and writes, timeouts in the middle of a packet, the end
  of the stream read as zeroes, resets and SIGPIPE, texts longer than the buffer of
  their reader, a body without a terminator.
* **The locator.** Datagrams sent once and awaited without a timeout, on a port
  that all programs of a host share.

What makes each part correct: uids are unique and grow along the list; `rows`
counts the rows; what was committed is what a restart or a rollback finds; users
have distinct logins and emails; a session keeps denoting who logged in; a block
excludes other users and is lifted by its owner only; every request is answered;
no freed row is read; the user is shown the answer to the command typed, and the
command is served with the words typed; a session that is over frees its thread and
leaves the others alone; a client reaches the resource it looks for. Several of these do not hold, or hold with conditions. The
properties below state which.

## Modules

| module | what it is |
|---|---|
| `UserTable` | `user_table.c`: one action per function |
| `UserDirectory` | what the table promises, without pointers |
| `UserTableContract` | the refinement mapping from the first to the second |
| `UserTableHeap` | the list of `user_table.c` as pointers, shown to implement `UserTable` |
| `Dbs` | `dbs.c` as the threads of `spr.c` run it, over `UserTable` |
| `Wire` | operation codes and packets, `common.h` and `common.c` |
| `Session` | one session: `client.c` and `procesar` over one connection, with `socket.c` |
| `Exchange` | what a session promises its user, without bytes |
| `SessionContract` | the refinement mapping from `Session` to `Exchange` |
| `CommandLine` | `prompt.c`, `cmdtous`, `requesttoparams`: from a line to parameters |
| `Slr` | `slr.c` and the start of both programs, over a faulty network |
| `MCUserTable`, `MCUserTableHeap`, `MCDbs`, `MCSession`, `MCCommandLine`, `MCSlr` | instances for TLC |
| `UserTableProofs`, `UserTableContractProofs`, `UserTableHeapProofs`, `DbsProofs`, `SlrProofs`, `SessionProofs`, `CommandLineProofs` | theorems and proofs |
| `Induction` | induction over the naturals and intervals of them, for the proofs |

`Dbs`, `Session`, `CommandLine` and `Slr` are views of the same programs that meet
in few places, and each abstracts what the others have. For `Session` the database
is any source of results; for `Dbs` a request is a record that arrives or does not;
`CommandLine` says which parameters that record has; `Slr` ends where a session
begins (`connected`) and a server accepts (`serving`).

### UserTable

`heap` is the sequence of rows malloc'd by the process, a pointer is an index of
it, `freed` the pointers passed to `free`, `chain` the list as a walk along
`next` finds it. `chain` may contain freed rows, because the code can leave them
linked: that is the point of the representation. `rows`, `lastUid` and `file` are
the variables of the same name. `saving` says that `mutex_user_table` is held by
a commit between its `fopen("w")` and its `fclose`.

Every other function is atomic, since it makes all its accesses under
`mutex_user_table`. Each function reads a set of positions of the list
(`Visited`, `VisitedByUid`, `Searched`). If they are all live it returns;
otherwise `Fault` tells what happens. Running off the list is a null pointer and
kills the process (`mode = "down"`: only the file survives and the process may be
started again). Reading a freed row or the uninitialised `ptrs[0]` is undefined
behaviour (`mode = "undefined"`): the model claims nothing of what follows and
takes no further step, which is why the runs do not check deadlock. Undefined
behaviour that happens to do no harm is covered too where the code has a harmless
outcome: an empty file is loaded both ways.

What the module keeps exactly as the code has it:

* `ptrant`: the search loops of delete and update advance `ptr` before they set
  `ptrant`, so only the second row is unlinked properly;
* the first of several rows is never compared, and is therefore refused;
* deleting the only row leaves `rows` at 1 and answers 0;
* a search (`findbyfield`) follows `next` until NULL, while lookups and listings
  count `rows`;
* `_load_table` sets `last_uid` from the last line, does not reset the table for
  an empty file, and frees nothing;
* a file that cannot be opened, be there one or not, makes init begin with the
  administrator alone, and commit and rollback answer -1.

Abstractions:

* A text is the sequence of words that `|` separates. `LineOf` concatenates the
  columns and `Column` takes the k-th non-empty word, as `fprintf` and `strtok`
  do, so texts with `|` or no characters are mangled as in the program. Newlines
  in a text are not modelled: the repository's client sends one line of its
  terminal and strips the newline (`prompt.c:38-42`), and the file format has one
  line per user.
* The column `name` is left out (no lookup uses it; it is a text like `email`).
* Blocks are never reused by `malloc`, and rows never change once written, so
  that reading a row is one access.
* A crash during a commit leaves a prefix of the lines, the last one possibly
  cut between two words or inside one. Of a list with a freed row in it, these are the
  lines of the rows before the first freed one: `_save_table` writes each row before it
  follows `next`. A cut within the uid is the cut that leaves no word after it; both make
  `_load_table` fail.
* The lengths of buffers and of `malloc` calls are not modelled.

### UserDirectory and UserTableContract

`UserDirectory` says what the table does when seen from outside. `dir` is the users
that can be told, in order; `saved` its copy; `busy` that the copy is being rewritten;
`broken` that `dir` is not all of the directory, which only a rollback or a restart
repairs. `UserTableContract` maps the list to it: `dir` is the rows a walk reads before it
meets a freed one (`Front`, `Listing`), and `broken` holds unless every linked row is live
and counted (`Damaged`). A broken directory is not beyond description: the second of the
users before the freed row may still be removed or replaced, one behind it may be
removed or replaced in vain (`Break` again, nearer to the front), nobody can be added who
could be told, no save ends, and a crash during a save keeps a prefix of those users
(`Stop`). The property `DirectorySpec` shows that every step of the table is one of the
directory's. It holds for texts without `|`, none of them empty.

### UserTableHeap

`UserTable` takes for granted what the pointer operations do to the walk, in
particular that `insert` appends (`last->next = u` does so only if `last` is where the
walk ends) and that the freed rows which delete and update leave linked stay linked.
`UserTableHeap` has the pointers instead: `next[p]` is the field of row p, `first` and
`last` are the fields of `user_table`, a pointer is an index of `heap` and NULL is 0.
`round(i)` gives `ptr` and `ptrant` as the search loop of delete and update has them in
its i-th round, and `Reads(uid)` the pointers the call reads, in order; the first of them
that is NULL or freed ends the call (`Fault`). `Chain` is what a walk along `next`
finds, and `ListSpec`, that is `UserTable`'s `Spec` with `chain` replaced by it, is what
the module is shown to implement. What a function does to the file, and only to it, is
taken from `UserTable`.

### Dbs

`Dbs` extends `UserTable` with one thread per session. `pc[s]` names the next
access the thread makes to shared state: its table call, `connection_lock`, or a
row it reached through a pointer it kept (`held`). Local code between two
accesses goes with the first. So

    create = _check_preconditions ; create_find_user ; create_find_email ;
             create_insert ; create_answer

are five steps between which other threads run. `user[s]` is the row
`dbs_connect` copied `con` and `user_type` from, `req[s]` the request, `draft[s]`
the row `changepass` prepared or `delete` read its uid from.

`procesar` contributes `Accept`, `Receive` (the tests of the session flag, the
switch), `Send`, and `HangUp` (the 300 s timeout, or a failed write). A request
carries `ok = FALSE` when its body has fewer words than the operation takes;
`requesttoparams` then leaves parameters NULL, stale or uninitialised, so the
request is answered INVALID_PARAMS or is undefined behaviour (`stale_params`). A session
whose user was read from a line with uid 0 passes for one that never logged in, and is
answered NOT_CONNECT (`Refusal`, `salir`).
`Stop` is the death of the process at any moment (also by SIGPIPE) and `Start`
its restart.

Left out: the statistics `salir` prints, the lengths of texts in the answer buffer.
What `write` and `read` do to bytes is in `Session`.

### Session, Exchange and SessionContract

Both programs use `socket.c`, so its state is a function of the end, `"client"` or
`"server"`: `in` the bytes on their way to it, `out` those it still has to write,
`expire_timeout`, `op`, `len`, `text`. `pc` names the next read or write. A read of
n bytes (`Reads`) takes n bytes, or times out with fewer of them consumed, or ends
early at the end of the stream or of a connection that was reset; the rest of the
buffer is zero, as `__readn` clears it. The code then looks at `expire_timeout`, in
the loops, or does not, in the greeting. A length cut after its first byte is a smaller
number, or zero; of a text longer than 255 bytes it may be as large as a multiple of
256, and a text of so many zeroes is then served or shown. A write may be short; a write to a peer that
has closed brings a reset (`rst`), and a write after the reset fails or raises
SIGPIPE, which kills the process. `closes` is `socket_destroy` or the kernel's
clean-up, and sends a reset if bytes were left unread.

`socket_create` leaves `expire_timeout` as `malloc` returned it: the client's is
`"no"` or `"garbage"`. `socket_destroy` frees two pointers the server never set:
`thread_exit` ends the thread, or the process (`"corrupt"`). Either end may die at any
time.

Texts are a few bytes and `MAX_BUFFER_DATA_SIZE` is 4, so that one listing does not
fit the client's buffer, as listings of over 1023 bytes do not fit the program's. The
listing then stays in the stream, where it is taken for the next header: that it begins
with `LIST_HEADER`, as in the program, is an assumption on the constants, for bytes
that look like an answer would be shown as one.

`Exchange` is a question, its answer, the next question. It allows one answer to be
shown in part, with nothing after it. `SessionContract` maps the phases of the client
to it.

### CommandLine

A line is a word, what follows it, and whether the input ends there. A command word
is its place in the alphabet, which is all that the comparisons of `cmdtous` use: the
commands are even, words between them odd. What follows is characters: two letters, a
space, a tab. `types` is the client's turn (`prompt_read_command`, `cmdtous`),
`splits` and `passes` the server's (`requesttoparams` or no parameters), `answers` frees
the request, so that the parameters left in `params` point to freed memory.
`socket_readnchar` allocates no room for a terminator: `Junk` is what may follow
in memory before a zero. `Spec` starts with parameters never assigned.

### Slr

The programs of a set of hosts, the datagrams under way and the locator. `pc` follows
`register_resource_at_slr` or `locate_resource_from_slr` from the socket to the second
answer, then the server binds its address and serves, the client connects from port
3490 again. `queue[p]` is what the socket of p has received; a datagram for a host goes
to any socket bound to the port there, one per datagram, by the kernel's choice, or is
dropped. The network may lose and duplicate datagrams (`Faults`, `MaxDuplicates`) and
reorders them freely. The SLR (`slr`, `Answers`: external) answers ERROR, or grants, or
locates a registered address. Its answers end with the delimiter, as `__read` expects;
`by` and `copy` in a datagram are history that no program reads. `missed[p]` remembers
that a datagram of the exchange of p did not reach p.

## Runs

The longest runs take under three minutes with two workers.

| run | instance | shows |
|---|---|---|
| `TableFaults` | 2 saved users (plain), 2 entries (a text with `\|`, an empty login), 1 password, 4 rows, 3 uids | `TypeOK`, `UidsIncrease`, `RowsCountLive` |
| `TableContract` | no file at first, 1 plain entry, 4 rows, 4 uids | `DirectorySpec` |
| `HeapList` | 3 saved users, 1 plain entry, 1 password, 4 rows, 4 uids | `HeapTypeOK`, `LastIsTail`, `ListSpec` |
| `DbsAlone` | 1 session, every operation, refused and malformed requests, users that share a login or an email, 4 rows, 3 uids | `DbsTypeOK`, `UniqueUsers`, `HeldRowsAllocated`, `TableSpec` |
| `DbsIdentity` | 2 sessions that create, delete, change passwords, leave, 5 rows, 4 uids | `IdentityStable`, `OkActsOnNamed` |
| `DbsBlocking` | 3 sessions that block, unblock, delete, change passwords | `ExclusiveOnceDrained`, `OrphanLockIsForever` |
| `DbsLiveness` | 2 sessions of two users, commits, no request that mallocs | `DbsTypeOK`, `Answered`, `BlockTakesEffect` |
| `Session` | 3 commands (no body, a body, salir), 4 results, one of them too long for the buffer, under `FairSpec` | `SessionTypeOK`, `ServedIsAsked`, `ExchangeSpec`, `RequestEnds`, `ThreadEnds`, `IdleIsDropped` |
| `CommandWords` | all 23 words alone, four commands with all tails of up to 5 characters, nothing or one or two characters after the body in memory | `CommandTypeOK`, `SplitIsExact`, `TypedWordsArrive` |
| `Slr` | a server and a client on one host, loss, one duplicate, kills, under `FairSpec` | `SlrTypeOK`, `FoundWasAsked`, `StuckOnlyIfMissed` |
| `TableUnlink` | 3 saved users | violates `DeletedIsUnlinked` |
| `DbsDuplicate` | 2 sessions that create users | violates `UniqueUsers` |

The bounds `MaxNodes` (rows malloc'd by one process) and `MaxUid` stand in the
guards of the actions that grow. They are enough because the list code
distinguishes the only row, the second, and the third or later: three or more
linked rows and a row freed and relinked occur in all table runs. Four rows and uids let
`TableContract` reach the crash of a commit of a broken list that leaves the users before
the freed row, the removal or replacement of the second user of such a list, and the
rollback that repairs it; that a list is broken twice (`Break` of a broken directory)
takes more rows than the run has, and is covered by the proof only. Two sessions
suffice for the races (`DbsDuplicate` has a counterexample with two);
`DbsBlocking` uses three so that a holder, a straggler of another user and a
newcomer coexist. Sessions of `Dbs` are symmetric
in the runs without liveness properties. `DbsIdentity` has no commits, which multiply the
files a restart may find and change no row: two of them overlap in `DbsLiveness`, and
`IdentityIsStable` and `OkActsOnItsUser` (below) are proved with them.

In `Session` a read treats its bytes one by one, so packets of four to nine bytes cut
at every place show what longer ones do, but for one thing: the first byte of their
lengths is zero, and a length cut after it says nothing. Texts of 256 bytes and more, and
those of the program's buffer of 1024 bytes, are covered by `SessionProofs`. One session
suffices because sessions share nothing there but the process. Tails of five characters reach every mix of words and
separators for the operations with up to three parameters, and end of line after the
first separators for the one with five. A server and a client on one host can take
each other's answers, and a duplicate can be taken for a later one; `SlrProofs` covers
any number of programs, hosts and duplicates.

### What the properties say

* `UidsIncrease`: uids grow along the live part of the list and in the file, and
  none exceeds `last_uid`. It is what makes `last->uid == user->uid` mean "the last
  row", and what keeps insert from reusing a uid after a rollback or a crash has
  moved `last_uid` back.
* `RowsCountLive`: `rows` counts the linked, allocated rows. With
  `TableUnlink` it says more than it seems: after a delete of a third row the list
  is longer than `rows`, and it is the walk that goes wrong, not the counter.
* `LastIsTail`: although `last` is moved by comparing uids and may be a freed row, it is
  where the walk ends, so `insert` links the new user where lookups will find it.
* `ListSpec`: no operation on pointers does more to the list, or less, than `UserTable`
  says; with it, what is checked and proved of `UserTable` speaks of the pointers.
* `ExclusiveOnceDrained`: a block is not exclusive when it is granted: a request that
  passed the test before may still change the table or the lock. It becomes so once the
  requests admitted before it have been answered, and stays so until a session of the
  holder drops it.
* `BlockTakesEffect`: that moment comes.
* `OrphanLockIsForever`: what a block costs when its holder leaves: nobody logs
  in and nothing changes until the process is restarted.
* `UniqueUsers`: true with one client, false with two (`DbsDuplicate`).
* `HeldRowsAllocated`: true with one client. With two, a row may be freed between
  a lookup and the use of its pointer; the model then has undefined behaviour.
* `IdentityStable`: true as long as nobody rolls back. After a rollback `last_uid`
  is lower and a new user can get the uid of a session that is still open.
* `OkActsOnNamed`: a delete or change of password answered OK took effect on the user
  it names, although uid and row are looked up in separate critical sections. True as
  long as nobody rolls back (see below).
* `ServedIsAsked`: the thread serves the request its client made, whole, in order and
  once; the exception is a client that is gone, whose last request may be served cut
  and whose end of stream is served as requests of code 0.
* `ExchangeSpec`: the user is shown the answer to the command just typed. It is what
  timeouts inside a packet, late answers and texts that do not fit could break.
* `RequestEnds`, `ThreadEnds`, `IdleIsDropped`: nobody waits for ever: the client for an
  answer, the server for a client that has gone or is silent.
* `SplitIsExact`, `TypedWordsArrive`: the parameters are the words of the line, and no
  slot holds a word of an earlier request. For a line with single spaces, exactly, if a
  zero happens to follow the body in memory; otherwise the last word is continued by what
  follows. For other lines, up to the separators that were cut.
* `FoundWasAsked`: whatever happens to the datagrams, the address a client tries was
  registered for a resource a program of its host asked about. When it is alone on its
  host, that is the resource it looks for (`LocatedAlwaysAsked`, below).
* `StuckOnlyIfMissed`: an exchange hangs only because a datagram was lost, or went to
  another program of the host.
* `TableSpec`: the service calls the table with arguments `UserTable` allows:
  entries, uids of rows of the table, and copies of such rows.

### Fairness

`FairSpec` asks strong fairness of each thread's own steps once a request is in:
the kernel schedules every thread, and a waiter of a pthread mutex gets it if it
is released again and again. Strong, not weak, because a commit of another thread
may hold `mutex_user_table` each time the waiter looks. Sending the answer, and
receiving another request, are not fair: they depend on the client, and the
results hold for clients that stop reading. Starting the process is not fair
either. The liveness run has no request that mallocs rows, so that no bound of
the model can stop a thread.

`Session!FairSpec` asks weak fairness of each program's own steps and of the kernel's
delivery of a reset. A read that can only time out does: `SO_RCVTIMEO` is set on both
sockets (300 s and 30 s). Typing is not fair, so a user may stay silent.

`Slr!FairSpec` asks weak fairness of each program once it is started, and of the network
and the SLR together: an undelivered datagram is delivered or answered in the end.
Duplication, loss, death and the start of programs are not fair.

## Findings

Each is a run whose property TLC violates.

1. `TableUnlink`: deleting the third or a later user frees the row, leaves it
   linked, and answers "OK" (`dbs.h:71`). `user_table.c:206-213`; the same loop
   is in update (`250-259`).
2. `DbsDuplicate`: two users with one login, in spite of "El login ya esta
   registrado." (`dbs.h:61`). `dbs.c:111-129`.

### What the models contain besides

These follow from the code and are in the models as it has them; the properties are stated
so as to be true of them.

* Deleting the only user frees it and answers "No se ha borrado el usuario."
  (`user_table.c:187-194`); for `UserDirectory` the directory is then `broken`.
* Requests admitted before a block still change the table after it
  (`dbs.c:499-506`), and may take over or lift the block itself (`dbs.c:342-376`);
  hence "once drained" in `ExclusiveOnceDrained`.
* After a rollback, a password change whose draft was copied before it may replace a
  user created since under the same uid, and is answered OK (`dbs.c:269-283`); hence
  `DbsIdentity` has no rollback.
* `socket_create` never assigns `expire_timeout` (`socket.c:42-83`): the client may leave
  after its first request although nothing timed out. It is the value `"garbage"`
  in `Session`; `RequestEnds` counts leaving as an end.
* A write to a client that reset the connection raises SIGPIPE (`socket.c:326`), which
  nobody handles: the label `"killed"`. A thread's exit frees two pointers nobody set
  (`socket.c:219-226`): the label `"corrupt"`.
* A parameter without a word keeps what its slot held (`spr.c:66`): `Uninitialised` or
  `Freed`.
* A body has no terminator (`socket.c:147`): `Junk`.
* Programs of one host share a UDP port and compare only the code of an answer
  (`slr.c:18`): a client may be given the address meant for another, which is why
  `FoundWasAsked` speaks of the programs of the host.
* A start that cannot open the table file takes it for a missing one
  (`user_table.c:119-120`): the administrator is alone in the table, and the next commit
  overwrites the users saved. `DirectorySpec` allows it (`Open`).
* A refusal by the SLR does not stop a server (`slr.c:150-159`): it serves and nobody
  can find it.

## Proofs

The theorems about the table and the service hold for every set of entries, passwords,
requests and sessions, every initial file whose uids increase, and every bound. They use
the named assumptions of `UserTable`, `UserTableContract`, `UserTableHeap` and `Dbs` (the
types of the constants, and that marks such as `Lost` are no directories). Five of them
need more, because without it they are false:

* `AloneHoldsAllocated` and `UsersAreUnique` assume one session. The run `DbsDuplicate`
  shows two threads of `crear` making two users of one name, since the lookup and the
  insert are two sections of the mutex; and a thread may print a row that another one
  has just freed.
* `IdentityIsStable` and `OkActsOnItsUser` assume that rollbacks are not asked for, as the
  run `DbsIdentity` does: `user_table_rollback` moves `last_uid` back, and the uid of a
  session is then given to somebody else.
* `UsersAreUnique` also assumes plain texts (no `|` in them, which would spill them into the
  next column when the file is read back) and an initial file without namesakes.
* `TableIsDirectory` assumes plain texts too, and none of them empty: an empty column
  vanishes from its line, and a rollback then restores another user, or kills the process.
  What the initial file holds is not restricted.

The theorems of `SlrProofs` hold for every set of programs, hosts, addresses and resources, every set of
faults and every number of duplicates, under the named assumptions of `Slr`: servers and
clients are disjoint, the locator is no host, and the markers are no addresses. Those of
`SessionProofs` hold for every set of commands and results and every size of the buffer,
under the named assumptions of `Session`: texts contain no zero byte, a command fits the
buffer (`prompt.c` reads 256 bytes, the buffer has 1024), lengths fit an unsigned short, a
text too long for the buffer begins as listings do, and `NULL` is neither a text nor an
answer. Those of `CommandLineProofs` hold for every set of lines, of any length, and for
whatever follows a body in memory, over the alphabet of `CommandLine`, under its named
assumptions: what follows the word of a line is empty or begins with white space, and
`NULL`, `Uninitialised` and `Freed` are no texts.

| theorem | statement | argument |
|---|---|---|
| `TypeCorrect` | `Spec => []TypeOK` | `TypeOK` is inductive; one lemma per action. The work is in the list: `CutSeq` and `SpliceSeq` say what deleting and replacing do to `chain` |
| `UidsAlwaysIncrease` | `Spec => []UidsIncrease` | inductive together with `TypeOK`. The order of the live rows is preserved since each change keeps the others in place, in the list and in the file; a rewrite after a crash keeps a prefix |
| `RowsAlwaysCountLive` | `Spec => []RowsCountLive` | needs both invariants above: a delete found at position k removes exactly one live row because no other live row has that uid |
| `TableIsDirectory` | `Spec => DirectorySpec`: `UserTable` implements `UserDirectory` | see below |
| `ServiceUsesTable` | `DbsSpec => Spec` | the invariant `ServeInv`: each thread's carried data is fit for its next access (`Fit`). A pointer read is a row of the heap, a draft is a copy of one, a request past the tests is well-formed. Rows never move while the process is up (`RowsStay`), so other threads stay fit. `WalkFaults` reduces every fault of a walk to one of the table's |
| `TableInService` | the three invariants of the table, for the table in the service | by `ServiceUsesTable` |
| `BlockIsExclusive` | `DbsSpec => ExclusiveOnceDrained` | each step is of a thread outside the gate, which changes nothing shared and enters only if the lock is free or its own (`Outside`), or inside it, and then on the holder's side (`Inside`) |
| `DbsTypeCorrect` | `DbsSpec => []DbsTypeOK` | not inductive alone: `DbsTypeInv` adds that a thread between requests holds nothing, and that the mutex is held across steps exactly by the thread that commits |
| `AloneHoldsAllocated` | `DbsSpec => []HeldRowsAllocated`, for one session | every handler gives its pointers up before it takes the mutex again, so whatever it frees it no longer holds; what a lookup or a listing returns was read, hence allocated |
| `IdentityIsStable` | `DbsSpec => IdentityStable`, without rollback | `IdentityInv`: a uid that a thread or a session carries was given out (`UidsGiven`), and every row, live or freed, that bears it denotes one user (`OneUserPerUid`, `Denotes`). A delete frees rows and an insert takes a uid above all given |
| `OkActsOnItsUser` | `DbsSpec => OkActsOnNamed`, without rollback | the same invariant: what a thread targets (`Targets`) is the user its request names |
| `UsersAreUnique` | `DbsSpec => []UniqueUsers`, for one session and plain texts | `UniqueInv`: names differ in the list and in the file (`Names`), and a thread past its lookups for `crear` knows that nobody has the name (`Clear`). That a lookup that found nobody looked at everybody is `RowsCountLive` (`Unfound`); that a saved row is read back as it was is where the texts must be plain |
| `HeapTypeCorrect` | `Spec => []HeapTypeOK` of `UserTableHeap` | part of `HeapInv`, below |
| `LastAlwaysTail` | `Spec => []LastIsTail` | the last place of the walk is `last_user`, by the same invariant |
| `PointersAreList` | `Spec => ListSpec`: `UserTableHeap` implements `UserTable` | see below |
| `ExchangesTypeCorrect` | `Spec => []SlrTypeOK` | inductive as part of `SlrInv` below; one lemma per action. A datagram delivered to a host is an answer because the locator is no host |
| `FoundAlwaysAsked` | `Spec => []FoundWasAsked` | `FoundWasAsked` alone is not inductive: the invariant `SlrInv` adds that every datagram under way, and every one received, tells the truth (`AnswersTrue`): a request names its sender's resource, an answer with an address names one registered for it, and lies in a queue of the host it was sent to. Registrations only grow, so truth stays (`StepKeepsInv`) |
| `LocatedAlwaysAsked` | `Spec => []LocatedIsAsked`, if no two programs share a host | from `FoundAlwaysAsked`, since the program that asked can only be the client |
| `OrphanIsForever` | `DbsSpec => OrphanLockIsForever` | by the same split: with no session of the holder nobody is inside the gate |
| `SessionTypeCorrect` | `Spec => []SessionTypeOK` | inductive; the work is that a read leaves bytes in the buffer, and a packet is made of bytes |
| `SessionInvariant` | `Spec => []SessionInv` | see below |
| `ServedCorrect` | `Spec => []ServedIsAsked` | a part of `SessionInv` (`ServerInv`) |
| `SessionIsExchange` | `Spec => ExchangeSpec` | one lemma per program: in states of `SessionInv` each step changes the history variables and the client's phase as an action of `Exchange` does, or not at all |
| `CommandInvariant` | `Spec => []CommandInv` of `CommandLine` | see below |
| `CommandTypeCorrect` | `Spec => []CommandTypeOK` | a part of `CommandInv` |
| `SplitAlwaysExact` | `Spec => []SplitIsExact` | from `CommandInv`: what `requesttoparams` leaves in `params` is the body cut at its first separators (`ServedReadsSame`, `ServedWords`, `ServedCounts`) |
| `TypedWordsAlwaysArrive` | `Spec => []TypedWordsArrive` | from the same: the body begins with what was typed (`Follows`), and between words that one space parts nothing is cut but that space (`ServedTail`) |

`TableIsDirectory` needs to know how far the list is the directory, and when it is all of
it. `Reaches(f)` says that the first f rows are live and no more are, which is what
`Front` amounts to for some f (`ReachesSome`, `ListingIs`). A list in which no linked row
is freed is also counted, but for the one that lost its only row (`CountsAll`, from
`RowsCountLive`: the places of such a list and its live rows correspond one to one), so a
running table is whole, or has a freed row in it, or lost its only row (`Standings`). The
directory leaves a broken state by `Revert`, `Stop` and `GetLost` only, so the proof has
to exclude that an insert, a delete or an update mends one: that a freed row, once linked,
stays linked. `DeadKeepsTwo` is the invariant for it: such a list counts two users or more,
so the branches for a table of no row and of one row, which throw the list away, are not
taken. It is inductive because a delete of the second user, the only one that lowers the
count and keeps a freed row, has read the first row, the second and the last and found
them allocated, so that with a freed row among them there were three (`DeadMeansThree`).
A change finds its row within the front, since it has read every row before it
(`ReachesFound`): at the second place it removes or replaces that user and the front
keeps the rest (`SecondDeleted`, `SecondSpliced`), behind it it cuts the front there
(`Breaks`, `LaterStays`). The other half is the file: what a commit writes, a rollback or
a restart reads as it was (`ReadsBack`, for `HeapPlain` rows), and a line cut by a crash,
if it reads at all, differs in its last column (`ReadsCut`). What a crash of a commit has
written is a prefix of the front, because `Kill` writes rows read and `Front` is the rows
that can be (`KillShows`).

In `UserTableHeap` the list is what a walk from `first_user` along `next` meets, the
function `Follow`. It is a recursive definition, which the proof system reads as the
choice of a function with that equation; that there is one, and only one, is proved by
induction on the steps of the walk (`Walks`, over the lemmas of `Induction`). `ListInv` is
then a statement about a sequence: some chain without repetition is linked by the cells
(`Linked`), starts at `first`, ends at `last`, and `ChainIs` says that `Follow` finds that
chain and no other. Each function of the table is shown to take one linked chain to
another: `Inserted` (an append), `CutAt` (a delete; `Unlinks` and `Relinks` say what happens to
the cells before and after the one removed, at the head, in the middle and at the tail),
`SplicedAt` (an update), `ListLoaded` (a load). These are `Cut`, `Splice` and `Append` of
`UserTable`, so each step maps to the step of that name. The searches need their own
argument: the C loops stop at a null pointer or a match, the table's definitions are over
positions; `SearchEnds` and `SameSearch` say that they end at the same place with the same
`ptrant`, and `ReadsPlaces` and `SoundReads` that they read the same rows, and so fault
together (`FaultAt`). `user_table_findbyfield` of `UserTable` collects matches by
recursion too (`Collects`).

`ServedIsAsked` speaks of the moment a request is served, and nothing in it says how the
thread came to have it. `SessionInv` follows the bytes. `Coming(e)` is what is on its way
to the end e: what the kernel holds and what the peer has still to write. `ServerInv` says
that it is the client's question from where the thread is in it (`Rest`), and a prefix of
that if the client is gone; `ClientInv` the same of the answer and the client, all of it as
long as the server is there (`Follows`). An answer that did not fit leaves its rest in the
stream: then what comes begins as a listing does, which the client takes for no answer
(`AfterSpoilt`). None of this would last if the two ends could speak at once: `InTurn` says
that while the client has its answer the thread is before its next request and nothing of
one came, so that a question typed meets an empty stream. The invariant was checked by TLC
on the `Session` instance before it was proved. Planning its proof showed a form of
`ServedIsAsked` and of `Exchange` that TLC had accepted to be false for texts of 256 bytes
and more, for the reason given under `Session`; both say now what the code does.

`SplitIsExact` is about the end of two loops: the one of `requesttoparams` over the bytes
of the body, and the one that reads a parameter up to the first zero. `Split` is a recursive
function of the characters read, so it is first shown to be the function with that equation
(`SplitIsLoop`), and then `Found`, the invariant of the loop, is proved by induction on the
characters read (`SplitFound`): where the parameters start, that each start but the first
follows a cut, that every cut is a separator, and that a separator left alone comes after
the last start. One case of the loop is easily forgotten: a separator that is the last
character is cut and starts nothing (`CutsLast`), so there is a cut without a start.
`EndOf` is where a parameter ends: the next cut, or the end of the body (`StringEnds`), so
that the k-th parameter ends right before the start of the next (`WordBefore`). Joining
the parameters again (`ArrivedIs`) gives the body back, separators read as spaces
(`Like`), but for such a cut at its end. `CommandInv` carries this from step to step:
`Received` says what the body is made of, `Sliced` what the slots hold of it while they
are in use, and otherwise no slot holds a text. TLC checked it on the instance of
`CommandWords` before it was proved. `cmdtous` is a tree of comparisons; that it finds every
command and no other word is `CommandsFound`.

Every invariant and every action property of the passing runs is a theorem. Only
model-checked are the liveness properties `Answered`, `BlockTakesEffect`, `RequestEnds`,
`ThreadEnds`, `IdleIsDropped` and `StuckOnlyIfMissed`, which the proof system cannot reason
about (fairness and ENABLED are outside it). `AloneHoldsAllocated`, `IdentityIsStable`,
`OkActsOnItsUser`, `UsersAreUnique` and `TableIsDirectory` are proved under the hypotheses
above, which the runs of these properties share.

## Not modelled

`user_table_free` and `dbs_stop` (never reached: the accept loop does not end),
`check_ip`, `socket_requestn` and `_user_field_value` (never called), the prompt's
layout, the parsing of the program's arguments, the statistics of `salir`, the build
files. `get_my_ip` (`common.c:32-65`) takes the address of the second IPv4
interface; what it finds is the constant `HostOf` of `Slr`, and neither its failure nor
an address it leaves unset is followed.

Lengths of texts inside memory blocks: `_user_create` copies a terminator past each of
its blocks (`user_table.c:132`), `_load_table` reads lines of any length into 256 bytes
(`user_table.c:19`), listings are printed into 4096 bytes (`dbs.c:188`), lines typed may
exceed the prompt's 256 (`prompt.c:37`), the locator's packets are sent longer than they
are written (`common.c:98-143`), an IP of 15 characters does not fit its 15 bytes
(`common.c:52`). Each is a fault of one call for one input, which no order of steps
brings about or prevents.

## What could come next

* What remains true of sessions and of `changepass` drafts when users roll back.
