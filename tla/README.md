# Systems-Fundamentals in TLA+

The repository holds five programs. This project models the parts of them in
which several actors, signals or long call sequences meet, checks the models
with TLC on small instances and proves most of their safety properties with
TLAPS for instances of any size.

## Inventory

| Part | State | Operations | What makes it hard |
|---|---|---|---|
| **Jeux** client registry (`hw5/src/client_registry.c`) | `count`, `connections[]`, semaphores `mutex`, `pin`, `cli` | register, unregister, lookup, all_players, shutdown_all, wait_for_empty, fini | one thread per connection; lookups without a lock; reused descriptors; error returns under the mutex; shutdown by signal |
| Jeux start and shutdown (`main.c`) | – | accept loop, SIGHUP, terminate | the handler against service threads |
| Jeux clients (`client.c`) | reference count, player, `invs[]`, mutex | login, logout, make/revoke/decline/accept invitation, resign, move, send | two clients' threads work on the same invitation, lists and mutexes; packets that fail |
| Jeux invitations (`invitation.c`) | source, target, state, game, count, mutex | create, ref, unref, accept, close | states read before the lock is taken |
| Jeux players (`player.c`, `player_registry.c`) | name, rating, count, mutex; `players[]` | register, ref, unref, post_result | two locks, integer rounding, references shared by three owners |
| Jeux game, service loop | object files (`server.c` is commented out) | – | external: modelled from the calls |
| **Legion** (`hw4/src/cli.c`) | table of daemons, signal mask, alarm, log files | register, unregister, start, stop, logrotate, quit; SIGCHLD, SIGALRM, SIGINT handlers; children | handlers between any two steps, coalescing signals, a timeout racing a death, restarts |
| **finddup** (`hw2/src/finddup.c`) | list of files with length, CRC, inode, flags | build, sort, scan1, scan2, scan3 | completeness of a sort-and-scan algorithm with in-place moves; integer width |
| **sfmm** (`hw3/src/sfmm.c`) | heap, free lists, quick lists and counters, `last_block_allocated` | malloc, realloc, free | block accounting over long call sequences: cached neighbour bits, blocks found by size, lists at their limit, a heap that grows |
| **dtmf** (`hw1/src`) | options, sample index, the detector's current tone | main, validargs, generate, detect | indices counted in text, samples and blocks by two programs of a pipeline; state carried from block to block; ends of files in the middle of something |

The components interact as follows. `main` accepts a connection and starts a
service thread, which registers a client, serves its requests by calling
`client_*`, `creg_*`, `preg_*`, and at the end of the connection logs out,
unregisters and closes. `client_*` calls `inv_*`, the game and
`player_post_result`. Legion, finddup, sfmm and dtmf are programs of their own.

Correctness, part by part: the registry is an exact bounded set, admits as many
clients as it has room for and drains at shutdown; an invitation's state, its
game and both clients' lists agree and every lock that is taken is released;
players are neither freed early nor given points from nowhere; a daemon name
designates one entry, an entry's status tells what became of its process, and
no child is lost; finddup's reports are sound and complete; sfmm's blocks tile
the heap, its lists hold free blocks only and what a program holds is not
touched; the detector reports the tones it hears, all long ones, and gives back
what the generator was asked for.

## Modules

| Module | Models | Runs |
|---|---|---|
| `AbstractRegistry` | what the registry promises: a set of at most `MAX_CLIENTS` clients and a wait that returns when it is empty | as `ImplementsAbstract` |
| `ClientRegistry` | registry, client life cycle, login, start and shutdown | `registry_*` |
| `Invitations` | invitations, games, client lists, packets, logout | `inv_*` |
| `Players` | player registry, references, ratings | `players*` |
| `Legion` | the daemon manager, its handlers and children | `legion_*` |
| `Finddup` | finddup's algorithm | `finddup*` |
| `Sfmm` | the allocator | `sfmm`, `sfmm_twins` |
| `Dtmf` | options, generator, detector, audio files | `dtmf` |
| `ClientRegistryProofs`, `InvitationsProofs`, `PlayersProofs`, `LegionProofs`, `FinddupProofs`, `SfmmProofs`, `DtmfProofs` | the proofs about each | tlapm |
| `LeastElement` | induction over the natural numbers, for the proofs | tlapm |
| `MC...` | symmetry sets, file contents for `Finddup`, scenarios for `Dtmf` | |

**ClientRegistry.** A connection, its thread and its CLIENT are one element of
`Conns`. A step is the code between two points where another thread can matter:
a semaphore operation, or an access to shared memory without the mutex. So
`creg_register` is `RegisterPin`, `RegisterLock`, `RegisterStore` or
`RegisterFails`, `RegisterDone`; `creg_unregister` is `UnregisterCli`, `Lock`,
`Find`, `Swap`, `Shrink`, `Done`, because lookups can see `connections[]`
between the swap and the decrement. `creg_lookup` and `creg_all_players` are
`ScanLoad`, `ScanDeref`, `ScanEnd` and a return. What is read from a freed
client is arbitrary. `missed` is a history variable for the listing. The
service loop, available as an object file, is external.

**Invitations.** The thread of a client runs one operation at a time; `pc` is
its place in it. Each `P` is a guard, each stretch under a semaphore one step
unless a second semaphore is taken inside. Unlocked reads whose result is used
later (state in `inv_accept`, game in revoke and decline, winner and end of
game in `client_make_move`) are steps of their own. The use of a freed object
or of a player that is NULL ends the behaviour in `undefined`. `game` counts
the GAME objects an invitation has had, because two racing accepts create two.
`stuck` records the clients whose mutex a failed ENDED packet left held.

**Players.** Registration under the registry's mutex, the three owners of a
reference, and `player_post_result` with its two locks, posted by the thread
of either player of a game. Ratings are computed as
the code does: int quotient in the exponent, int scores, truncation.

**Legion.** One process: `pc` is the place in `run_cli` or, while it is
interrupted, `"chld"`. A pending SIGCHLD that is not masked is delivered before
the manager takes another step; the alarm may expire whenever it is set.
`waitpid` and `read` block and are restarted, `sigsuspend` ends. Daemons
synchronize, ignore SIGTERM, exit or die as they like. Logs are numbered
versions that remember which process wrote them. After `quit` nothing is
followed further. The flags that choose stop's message are left out.

**Finddup.** Paths, inodes and contents are small sets; every file system of
the given size is an initial state. `filelist`, `ix`, `ix2`, `lastix`,
`lnkmatch` and `headfn` are the program's variables, with indices from 1; one
turn of a loop is one action: `Build` a path, `MarkLink` and `NextInode` the
first loop of `scan2`, `MarkDup`, `PassOver` and `NextRun` the second,
`ReportDup` and `EndMatch` `scan3`. `headfn = 0` stands for `inmatch = 0`.
`comp1` returns a difference as an int, so a difference greater than `INT_MAX`
wraps. `qsort` is modelled by the contract of the C library: the result is a
rearrangement of the list, any one, and it is in order if the comparison is
consistent. What the sort does with an inconsistent comparison is left open.

**Sfmm.** The heap is a record: header words by address, footer words by
address, end, free lists, quick lists, their counters, `last_block_allocated`,
and whether a write went astray. Addresses count from the first block, words
are real sizes with their two bits. The helpers have the names of the C
functions and map a heap to a heap; an action is a call of the program, or one
turn of a loop inside it (`Grow`, `Flush`, `FreeOld`). `index` is the list that
`sf_free` found for its block and keeps while it flushes it. `live` is what the
program holds, block by block, with the size it asked for. The row at the end
of the heap is never written by the code and read as a header all the same: it
holds any word of `Unwritten`. After every step `Intact` decides whether the
heap is still sound; once it is not, nothing is said of what follows. The model
was compared with the compiled allocator on 600 random call sequences: as long
as the heap is sound, the two agree block by block and list by list.

**Dtmf.** Two processes run `main` in a pipeline, `gen` writing audio and `det`
reading it as it comes; a recording may take the place of `gen`. A command line
is a mode, flag and argument pairs and perhaps one argument too many; an
argument is the sequence of its characters. `validargs` copies one parser for
every argument count and position, which the model states once (`TakeFlag`) and
applies as the branches do. A text is a list of lines and the way it ends
(`ending`): after the last symbol, with a newline, with an empty line, inside a
number, after a tab. Audio is a sequence of segments. What the Goertzel filters
find in a block is the tone's spectrum if one tone fills the block, silence if
nothing sounds, and any spectrum of `Spectra` otherwise; the three tests of a
tone are those of the code. Indices are real: block sizes are given with `-b`,
240 samples are `MIN_DTMF_DURATION`. `duration`, `curr_row` and `curr_col` are
not initialized in the code and start with any value. Of the compiled program,
1263 random pipelines whose events fill whole blocks printed exactly the events
the model's rules give.

## Runs

Each run asks one question. Passing runs, with what they show and why the
bounds suffice:

- `registry_serve` – three connections for two places and three descriptors:
  one has to wait, descriptors and entries are reused, and entries are removed
  from the first and the last position. `PinAccounting`, `NoEarlyReturn`,
  `UnregisterNeverWaits`, and under fairness `ServiceEnds` and
  `AdmissionProceeds`: if the clients that are served close their connections,
  whoever waits in `P(pin)` is let in. Deadlock is checked.
- `registry_shutdown` – the same with unlocked scans, a failing `malloc` and
  SIGHUP at any time: `TypeOK`, `MutualExclusion`, `RegistryExact`,
  `ScanSeesClients`, `ImplementsAbstract`, and `AllPlayersListed`: USERS lists
  everybody who is logged in throughout, unless an entry is moved meanwhile.
- `inv_games` – all requests of two clients on one invitation, with packets
  that may fail: `TypeOK`, `MutexesAccounted`, `StateMatchesGame`,
  `PeersShareInvitations`, `WinnerCredited`: whom the ENDED packets and the
  posted result name as winner has the role of the game's result, also when the
  peer resigned or moved on meanwhile. Two clients are the two parties of an
  invitation.
- `inv_two` – two invitations at a time: `GameRemovalHitsOwn`.
- `legion_rotate` – two names, two entries, three children, three log versions
  and logrotate's restarts: `TypeOK`, `ActiveUnreaped`, `NamesUnique`,
  `StatusTellsFate`, `LogsOrdered`.
- `legion_start` – without logrotate, under fairness: `EveryChildAccounted`,
  `StartReturns`.
- `finddup` – all lists of up to four paths over three inodes, with and without
  option `-l`. Of the contents two have equal length and CRC, one has their
  length and another CRC, one has another length, one is empty, and `INT_MAX`
  is greater than any difference: `ReportedAreDuplicates`,
  `DuplicatesReported`, `LinksReported`. Four paths are enough for a link that
  is moved away from its file and for a run with a file between duplicates.
- `players` – two threads, two names, a stored name that may not be found
  again, fifteen results in any order, enough for a rating difference above
  400, where the exponent becomes 1: `ReferencesHeld`, `LockedUntouched`,
  `NoPointsFromNowhere`, `WinnerGains`. Ratings stay positive within this bound;
  a negative rating would be rounded upwards, so the former is stated for
  ratings that are not negative.

- `sfmm` – five calls with sizes 0, 8, 200, 204 and 3800 on at most two pages
  and quick lists of one block, so that one free fills a list and the next
  flushes it, and one large request makes the heap grow. 8 bytes go to a quick
  list, 200 and 204 to a free list (they share a block size, and shrinking 204
  to 200 or less meets the edges of `sf_realloc`), 3800 takes most of a page.
  `ReleaseKeepsHeap`, `MallocKeepsHeap`, `ShrinkKeepsHeap`: a step keeps the
  heap sound unless it is in one of the situations the property names, each of
  which is a defect of the code (below). `QuickListsBounded`. Lists of two
  blocks, up to seven calls and four pages have been checked likewise.
- `dtmf` – command lines with every argument alone, good ones in every order,
  repeated flags and a fourth one; texts of up to three events with block sizes
  100, 120 (two blocks are exactly 240 samples) and 300 (one block is long
  enough), with and without a noise file; recordings that end before, with and
  inside a block, six blocks of six spectra in every order. `OptionsAsGiven`,
  `EventsAreTones`, `EventsSeparate`, `LoneTonesReported`, `RoundTrip`.
  `EventsAreTones` lets an event mix tones that share a frequency, as the code
  does; `LoneTonesReported` speaks of long tones that touch no such tone and
  wants them reported with their own blocks and symbol. The length of the audio is 1000 instead of 12400 samples, and `INT_MAX` is 32767,
  so that an overflowing `-t` is among the arguments.

`CHECK_DEADLOCK FALSE` is set where the modelled code really stops: a bounded
supply of pids, posts or calls is used up, a program has ended, a mutex is left
held, undefined behaviour has been reached. `MaxSlots`, `MaxPids`, `MaxRefs`,
`MaxPosts`, `MaxPaths`, `MaxPages`, `MaxLive`, `MaxCalls` are the bounds, each
named in its module.

Two runs end in a violation. Each shows that the code does not do what a
header or a test says; `PROJECT.json` quotes the lines.

- `registry_hangup`, `ShutdownCompletes`: `creg_wait_for_empty` waits for
  `count = 0` while it holds the mutex that `creg_unregister` needs.
- `sfmm_twins`, `HeapStaysSound`: allocate four blocks of 200 bytes, free the
  first, the third and the second. Joining the second with its neighbours,
  `remove_from_free_list` looks for a block by its header word, finds the other
  free block of that size first, and the joined block overlaps a block in use.

Six more configurations end in a violation and are kept for reference, outside
the regular runs:

- `inv_final.cfg`, `ClosedIsFinal`: `inv_accept` tests the state before it
  takes the mutex, so a closed invitation can become accepted
  (`invitation.h:26-32` says otherwise).
- `legion_hang.cfg`, `WaitsAreBounded`: `handle_sigchld` waits without
  `WNOHANG` for every active daemon, whichever has died, so `CHILD_TIMEOUT`
  (`legion.h:28-29`) bounds nothing when another daemon is active.
- `players_draw.cfg`, `DrawBetweenEquals`: scores are ints, so a draw between
  equals costs both players 16 points (`player.h:96-97`).
- `dtmf_short.cfg`, `ReportedLongEnough`: a tone of two blocks, 200 samples, is
  reported, because the duration that is tested includes the block that ended
  the tone (`dtmf.c:346-350` says shorter events are discarded).
- `inv_posted.cfg`, `PostedAsPlayed`: `client_make_move` reads the winner, then asks
  whether the game is over. The opponent, who has got the MOVED packet, makes
  the winning move in between; the game is over, the winner is the one read
  before, nobody, and a draw is posted (`client.h:301-302` says the result is).
- `dtmf_alike.cfg`, `LongTonesReported`: 300 samples of `1` and then 300 of `2`, both
  of row 697, are reported as `0 600 2`. An event ends at a different tone only
  if both frequencies change (`dtmf.c:343-346` says "a different tone").

### Further disagreements

The modules also reach the following behaviours, each of which departs from a
header, comment or help text. No run is kept for them.

| Where | What |
|---|---|
| `client.c:75` | two threads that log in under one name at the same time both succeed |
| `client_registry.c:110` | `creg_lookup` reads `connections[i]` a second time, so it may return a client other than the match, and it takes no reference |
| `client_registry.c:124` | USERS overlooks a client that is moved to a place the walk has passed |
| `client_registry.c:96` | a scan may follow a pointer to a freed client |
| `client_registry.c:51` | a failed `client_create` returns with the mutex held |
| `main.c:97` | a thread that registers after the wait lets `creg_fini` find a client |
| `client.c:411` | the source can accept its own invitation |
| `client.c:245` | removing an invitation without a game may drop the reference of another one |
| `client.c:484` | the game is resigned before the invitation is closed; the close may fail |
| `client.c:599` | both players' threads may announce the end of one game and post it |
| `client.c:613` | the ENDED packets of a drawn game name the mover's role as the winner's (`protocol.h:83` has "none") |
| `client.c:255` | a removed invitation stays in `invs[]` after it has been freed |
| `client.c:645` | the opponent's player may be NULL when the result is posted |
| `client.c:601`, `player.c:63` | two mutexes are taken in opposite orders by two threads |
| `invitation.c:147` | a second close returns with the invitation's mutex held |
| `cli.c:201` | the alarm ends `sigsuspend`, which the comment excludes |
| `cli.c:298` | a daemon that dies while it starts stays `active` |
| `cli.c:83` | a daemon that dies while it stops stays `stopping` |
| `cli.c:551` | logrotate may restart a daemon whose old process still runs |
| `cli.c:582` | from the second rotation on the current log is truncated by the restart |
| `finddup.c:280` | CRC differences that do not fit an int make the order intransitive and duplicates can be missed |
| `player.c:20` | a name is stored without its terminator and may not be found again |
| `sfmm.c:755`, `770` | joining with the block before loses the previous-allocated bit of the result |
| `sfmm.c:275`, `363` | whether the last block was allocated is asked of the block after it |
| `sfmm.c:498-528` | when the heap grows after `last_block_allocated` was left set, or its last block's footer is stale, the wrong block is joined; the class of the joined block is computed with its bits |
| `sfmm.c:220`, `724` | the row at the end of the heap is read as a header and is never written |
| `sfmm.c:919` | realloc to within 8 bytes of the block's size wraps around |
| `sfmm.c:932` | the end cut off by realloc is in no list and has no footer unless the block after it is free (`sfmm_tests.c:242` expects it in a list) |
| `sfmm.c:823` | after a flush the quick list's counter stays at its maximum, so every later free flushes again (`sfmm.h:154-158`) |
| `sfmm.c:876` | realloc of an invalid pointer aborts; `sfmm.h:216` says EINVAL |
| `dtmf.c:134` | the first digit of the first event is skipped: an event at 800 starts at 0 |
| `dtmf.c:49` | an empty line, or the end of the text inside a number, is never left |
| `dtmf.c:177` | without a noise file the audio ends with the last event; with one it is padded after the first event and the others are dropped; the noise itself is not read, and a low level makes the tones softer, not louder (`const.h:26-29`) |
| `dtmf.c:519` | the final event is decided by the duration at the last whole block, or by an uninitialized one: an event without samples, or one in a file shorter than a block, may be reported; so may empty ones when a block is longer than 240 samples |
| `dtmf.c:418` | the last sample of the last block may be used and counted twice |
| `dtmf.c:630` | the character after the `-` of a level is not tested; large numbers overflow |
| `audio.c:66` | annotation after the header is read as samples (`dtmf.c:335-336`) |
| `main.c:26` (hw1) | `-t` is stored and not used; the program returns failure always |
| `protocol.c:40` | a connection that ends inside a packet passes for a whole packet |

## Fairness

Threads that can take a step eventually do (weak fairness per thread; the
kernel schedules all of them), and a woken semaphore waiter is any of them:
nothing is assumed about who wins. Peers owe nothing: they need not close or
send. `AdmissionProceeds` has their closing as its hypothesis. There is a finite
number of connections, each served once; weak fairness would not protect a
waiter from an endless stream of others, and neither do semaphores. In Legion the manager runs when it can, a set alarm expires, and SIGKILL
takes effect; daemons owe nothing.

## Proofs

Every proof is for any value of the constants that satisfies the named
assumption of its module. The bounds of a module (`MaxPids`, `MaxPages`, ...)
are constants like the others, so they may be as large as one likes. Each
module of proofs has one inductive invariant `IInv`, one lemma per action that
the action keeps it, and theorems that read the properties off it. The
invariants were checked with TLC before they were proved.

### Registry (`ClientRegistryProofs`)

For every set of connections, descriptors and names and every
`MAX_CLIENTS > 0` (`RegistryAssumption`; only `Conns` need be finite):
`TypeCorrect`, `MutexExcludes`, `RegistryIsExact`, `PlacesCounted`,
`ErrorReturnsUnreached`, `CliNeverWaits`, `ScansSeeClients`, `UsersListsAll` and
`RegistryImplementsAbstract`. `IInv` consists of

- `TypeOK`, `MutualExclusion`;
- `FdsDistinct`: threads that are alive have different descriptors, so the
  search by descriptor finds the thread's own entry;
- `Entries`: the listed entries are the registered clients, without duplicates,
  and entries below `count` are clients;
- `Locals`: what a scanning or unregistering thread has loaded is a client and
  its index is in range, and an index found under the mutex stays valid;
- `Counters`: `count`, `cli` and `pin` are the cardinalities of the sets of
  threads at the corresponding points. This is what makes the error returns
  unreachable: a thread let in by `pin` that has not stored its client yet
  leaves at least one entry free, and a thread waiting in `P(cli)` has a token
  that is not spoken for.

The semaphores count threads, so the cases for `P` and `V` use two lemmas on
cardinality (`OneMore`, `OneLess`); the removal uses `SwapRemove`: overwriting
an entry by the last and dropping the last removes exactly that entry. For the
refinement, registration maps to `Register`; the client leaves the abstract set
at the swap or, when it is the last entry, at the decrement of `count`
(`SwapRefines`, `ShrinkRefines`); everything else stutters. `UsersListsAll`
needs a second invariant, `Unseen`: whom a listing still owes is ahead of its
walk, in the entry it has loaded or in a later one.

### Invitations (`InvitationsProofs`)

For any clients and invitations, any choice of requests, with or without
packets that fail (`InvitationsAssumption`): `TypeCorrect`, `StateTellsGame`,
`MutexesOwned`, `PeersShare`, `WinnersAreCredited`, `RemovalHitsOwn`. TLC checks
them with two clients; the proof covers more clients and more invitations.
Besides the properties `IInv` has

- `Allocated`, `Lists`: an invitation has both parties or neither, one of them
  has the first role, it is listed by them only, and by each at most once;
- `WinnerKept`: a winner that a thread has read stays the result of its game.
  `WinnersAreCredited` follows from it and from the roles: the peer of a thread
  that ends a game is the other party, so exactly one of the two has the role;
- `Threads`: what the locals of a thread stand for at every point of every
  operation. A game number read without a lock is at most the current one; the
  invitation a thread works on stays in its list and, once the peer is known,
  in the peer's;
- `Accepts`: both parties may have passed the unlocked test of `inv_accept`;
  once one has created the game at most one is left to do so, and none after
  that, so an invitation has at most two games;
- `InvMutexes`, `ClientMutexes`, `PlayerMutexes`: who holds what, as a function
  of the points the threads are at.

Most steps are quiet, they change only the thread's own variables, and are
dealt with once (`QuietStep`, `QuietGo`, `QuietReturn`).

### Players (`PlayersProofs`)

For any finite set of threads and any names (`PlayersAssumption`; finiteness is
what makes the number of uses of a player a number): `ReferencesAreHeld`,
`LockedPlayersUntouched`, `WinnersGain`, `PointsAreConserved`. `IInv` adds that
a thread's locals are indices of registered players, and that the mutex of the
first player is held by a posting thread and by no other. The arithmetic of a
result is proved for all ratings: `pow10`, a recursive function, is shown to
satisfy its equation and to be positive (`PowExists`, `PowPositive`), the two
expected scores are fractions that add up to one, and truncation towards zero
loses points as long as ratings are not negative. `PointsAreConserved` also
needs that the sum over a sequence changes by what two entries change
(`TotalChange`). Both use `LeastElement`.

### Legion (`LegionProofs`)

For any names, table size, supply of pids and `LOG_VERSIONS > 1`
(`LegionAssumption`): `TypeCorrect`, `OneDaemonPerName`, `ActiveNotWaitedFor`,
`TableTellsFate`, `LogVersionsInOrder` and `ChildrenAccounted`. `IInv` adds

- `Control`: where the manager is, in its own code or in what a handler has
  interrupted, what its index, the mask and the alarm are there;
- `Table`: what each status says of the entry's process, and that no two
  entries share one;
- `Children`: pids are given out in order, a child that has not yet executed
  its daemon is the one the manager is starting, and a log belongs to a process
  that has started. `LogsOrdered` is inductive with it: a new log has the
  largest pid and takes the lowest number;
- `Accounted`, without logrotate: a process not waited for is the one of an
  entry in use.

`ChildrenAccounted` has the hypothesis `~Rotates`. With logrotate the statement
is false: the old process is replaced in the table before it has been waited
for, and when the new one fails to start the entry becomes inactive.

### DTMF (`DtmfProofs`)

For every scenario, recording, set of spectra and length
(`DtmfAssumption`: a command line is a mode and pairs of a flag and a sequence
of characters, a text's numbers and a recording's length are natural numbers, a
spectrum gives one to each of the eight frequencies): `ReportsTones`,
`ReportsApart`, `NoLoneToneMissed`, `ArgumentsStored`. While the detector is in
its loop, `IInv` says that the blocks heard follow each other (`InOrder`), how `start`, `end`, the
previous frequencies and the duration relate to them (`Position`), that every
long tone that is over has been reported (`PastReported`), and that there is a
block from which on everything heard belongs to the current tone and before
which it does not (`RunFrom`). The last is what the variable `start` stands
for. `duration` is only known to be at least `end - start`: it counts the
block that ends a tone, which is why short tones may be reported and long ones
are not missed. The block size is only known to be in the range `validargs`
accepts (`OptionsInRange`).

The invariant follows what the detector takes for one tone, a chain of blocks
each of which shares a frequency with the next (`EventsWhole`,
`ChainsReported`): an event is a whole chain, and every long chain is in one.
The theorems are about tones. Blocks of one tone are a chain, so no event cuts
a tone. If in addition no block next to them shares a frequency, the event that
has them has no other block, and its last block, which gives the symbol, is
one of them.

`ArgumentsStored` is `OptionsAsGiven` for command lines and numbers of any
length. `Number` and `Decimal` are recursive functions; that they exist, and
that they agree on digits whose value fits an int, is proved by induction over
the positions of the argument (`ReadingExists`, `DigitsRead`, by `UpTo` of
`LeastElement`). `FlagTaken` then shows that one more option keeps the parser's
state equal to what the options read so far say (`After`), and `GenerateRead`
that a fourth option of `-g` must repeat a flag. The hypothesis of the property
(`Proper`) leaves out numbers that overflow, where the code wraps, and a
character after `-` that is not a digit, which the code does not test.

### Sfmm (`SfmmProofs`)

For every sequence of requests, number of pages and `QUICK_LIST_MAX`
(`SfmmAssumption`): `QuickListsStayBounded`, also when the heap has been
damaged. Every helper that has nothing to do with quick lists is shown to leave
them and their counters alone (`SameSplitting`, `SameGrow`, `SameCoalesce`,
...); then three operations remain. Taking a block lowers the counter with the
list. Putting one back raises it, below the maximum. While a list is flushed
its counter stays at the maximum (`Flushing`) and the list gets shorter, so the
block that is put into the empty list at the end still fits.

### Finddup (`FinddupProofs`)

For every file system, list of paths and `INT_MAX` (`FinddupAssumption`:
lengths and CRCs are natural numbers, inode numbers positive ones):

- `DuplicatesAreReal` and `LinksAreReal`, soundness of the two reports, without
  any hypothesis on the sort. `comp1` may overflow and the list come out in any
  order; nothing wrong is reported.
- `NoDuplicateMissed` and `LinksListed`, completeness, for lengths, CRCs and
  inode numbers whose differences fit an int (`DifferencesFit`). The hypothesis
  is needed: without an order equal files need not be neighbours, and the scans
  only look at neighbours (`finddup.c:280` in the table above). 32-bit CRCs do
  not satisfy it in general, small files with CRCs in one half of the range do.

`IInv` has one part per phase. That the list holds every regular, non-empty
path exactly once (`Files`, `Distinct`, `AllListed`) runs through all of them;
a sort and a move are both a `Shuffle`, which keeps it. When the comparison is
an order (`NearConsistent`), sorting puts equal lengths together, so that
`scan1` gives every file a CRC that needs one (`CrcsDone`); the second sort
puts equal keys and the links of an inode together (`KeysTogether`,
`InodesTogether`). In the second loop of `scan2` the invariant has to follow
the entries that `MarkDup` moves: the duplicates found are behind `ix` up to
`lastix`, where one more may stand, because `lastix` is not advanced past a
duplicate that needs no move; everything up to `ix2` has the key of `ix`, so a
move leaves the sequence of keys as it is (`MovedKeys`); and a link that is
taken for a duplicate without being compared (`lnkmatch`) still follows a file
of its inode, or the file before it has just matched (the last two parts of
`RunOf`). `Gathered` says that equal contents are together as far as the loop
has come. For `scan3` a duplicate has the contents of its neighbour, so the
file that heads a run has the contents of all of it (`Heads`).

### Only model-checked

- Liveness: `ServiceEnds`, `AdmissionProceeds`, `StartReturns`, and the
  violation of `ShutdownCompletes`.
- `ReleaseKeepsHeap`, `MallocKeepsHeap`, `ShrinkKeepsHeap` of `Sfmm`: that a
  heap is sound is a statement about a walk over its blocks, of any length.
- `RoundTrip` of `Dtmf`: it relates the whole text to the whole output through
  the segments and the blocks of both programs.

## Not modelled

Packet layout and byte-level I/O (`protocol.c`), `csapp.c` and `getopt.c`
(vendored), `crc32.c` (a constant operator of `Finddup`), command-line parsing,
string building and memory layout of `cli.c` and `finddup.c`, the game's rules,
`preg_fini`, array bounds of `invs[150]` and `players[250]`, a SIGHUP delivered
to a service thread. In `Sfmm` the payloads, and what a program may do after
the heap is damaged. In `Dtmf` the numerical signal processing, lines of a text
that are not numbers and a symbol separated by tabs, an odd byte at the end of
the audio, the effect of a detector that exits on the generator, an empty name
after `-n` (which the code takes for a file), and the leakage between
frequencies in small blocks: a block filled by one tone has that tone's
spectrum, which `RoundTrip` uses for blocks of 100 samples and more. In
`Finddup` the message for an empty file, which the code also prints for an
empty path that is not a regular file. The unlocked test that follows a
decrement of a reference count (`invitation.c:68`) is part of the decrement.

## Plan

New questions join the run of their module where its bounds allow, so that the
project keeps one run per question. What is left is proof:

1. `Sfmm`: lemmas on the helpers (`get_aligned_block` is large enough and a
   multiple of 16, the size classes partition the sizes).
2. `Dtmf`: that `RoundTrip` holds for a text of one line.
