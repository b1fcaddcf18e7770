--------------------------- MODULE CacheHierarchy ---------------------------
(***************************************************************************)
(* The cache hierarchy (Cache.h, Cache.cpp) and the answers it takes to    *)
(* the cores (Processor::receive): an L1 and an L2 for each host core, an  *)
(* L1 for each NLP core, and the host's last-level cache below them all,   *)
(* with one CacheSystem.                                                   *)
(*                                                                         *)
(* The blocks of the model fall into one set of each cache, the case in    *)
(* which lines compete.  Addresses are blocks and carry no data: what is   *)
(* followed is which lines are there, locked and dirty.  The memory below  *)
(* is external: it accepts requests or not, and answers reads in any       *)
(* order.  A core's window is the number of its reads not yet ready.       *)
(*                                                                         *)
(* A core's tick begins with the loops of Cache::tick over the retry lists *)
(* of its caches.  They are unfolded, one send at a time: retrying names   *)
(* the caches whose loops are still to run, and nothing else moves until   *)
(* there is none.                                                          *)
(***************************************************************************)
EXTENDS Integers, Sequences, FiniteSets, SequencesExt

CONSTANTS
  HostCores, NlpCores,  \* the cores, by kind
  FirstCore,            \* the host core with id 0
  InOrder,              \* the cores with tick_inOrder
  Turns,                \* the order of a cycle's ticks: cores and "cachesys"
  Blocks,
  Uses,                 \* the blocks each core reads and writes
  Processes,            \* of each process of the host: its cores
  Assoc, MshrNum,       \* of each level: assoc, mshr_entry_num
  Latency,              \* of each level: latency, in cycles
  InvalidateTime,       \* what invalidations add to the time of a write-back
  Depth,                \* bound: the unready reads of a core's window
  MaxWait,              \* bound: the length of wait_list
  AtMemoryMax           \* reads the memory holds, for each core and block

Cores == HostCores \cup NlpCores
Levels == {"L1", "L2", "L3"}

ASSUME CoreAssumption ==
  /\ IsFiniteSet(Cores) /\ IsFiniteSet(Blocks)
  /\ FirstCore \in HostCores /\ HostCores \cap NlpCores = {} /\ InOrder \subseteq Cores
  /\ Turns \in Seq(Cores \cup {"cachesys"})
  /\ Uses \in [Cores -> SUBSET Blocks] /\ Processes \subseteq SUBSET HostCores

ASSUME SizeAssumption ==
  /\ {Assoc, MshrNum, Latency} \subseteq [Levels -> Nat \ {0}]
  /\ InvalidateTime \in Nat /\ MaxWait \in Nat /\ Depth \in [Cores -> Nat]

(* The caches and how concatlower has linked them *)
L1(c) == <<"L1", c>>
LLC == <<"L3", FirstCore>>
Caches == {L1(c) : c \in Cores} \cup {<<"L2", c>> : c \in HostCores} \cup {LLC}
Lower(k) == IF k[1] = "L1" /\ k[2] \in HostCores THEN <<"L2", k[2]>> ELSE LLC
Above(k) == IF k = LLC THEN Caches \ {LLC} ELSE {x \in Caches \ {LLC} : Lower(x) = k}

VARIABLES
  lines,        \* of each cache: the set's lines, the least recently used first
  mshr,         \* of each cache: the blocks of mshr_entries
  retry,        \* of each cache: retry_list
  hit_list, wait_list,   \* of the CacheSystem; left is the time still to go
  aborted,      \* an assertion of the code has failed
  waiting,      \* of each core: unready reads of its window, by block
  at_memory,    \* reads the memory has still to answer, by core and block
  turn,         \* position in Turns of the tick under way
  retrying,     \* the caches whose retry loops that tick has still to run
  place,        \* position of the loop under way in its retry_list
  unwritten     \* history: blocks written since their last write to memory

cacheVars == <<lines, mshr, retry, hit_list, wait_list, aborted>>
loopVars == <<retrying, place>>
vars == <<cacheVars, waiting, at_memory, turn, loopVars, unwritten>>

(* What a call on the caches reads and changes, as one value *)
State == [lines |-> lines, mshr |-> mshr, retry |-> retry,
          hit_list |-> hit_list, wait_list |-> wait_list, aborted |-> aborted]

Become(s) ==
  /\ lines' = s.lines /\ mshr' = s.mshr /\ retry' = s.retry
  /\ hit_list' = s.hit_list /\ wait_list' = s.wait_list /\ aborted' = s.aborted

----------------------------------------------------------------------------
(* Lines of a set *)

Line(b, core, lock, dirty) == [blk |-> b, core |-> core, lock |-> lock, dirty |-> dirty]
Holds(s, k, b) == \E i \in DOMAIN s.lines[k] : s.lines[k][i].blk = b
Way(s, k, b) == CHOOSE i \in DOMAIN s.lines[k] : s.lines[k][i].blk = b
LineOf(s, k, b) == s.lines[k][Way(s, k, b)]
Locked(s, k, b) == Holds(s, k, b) /\ LineOf(s, k, b).lock
Without(s, k, b) == RemoveAt(s.lines[k], Way(s, k, b))

(* Lines changed in place: that of b by a merged miss, those of the blocks *)
(* bs by their data                                                        *)
Merged(ls, b, write) ==
  [i \in DOMAIN ls |-> IF ls[i].blk = b THEN [ls[i] EXCEPT !.dirty = @ \/ write] ELSE ls[i]]
Filled(ls, bs) ==
  [i \in DOMAIN ls |-> IF ls[i].blk \in bs THEN [ls[i] EXCEPT !.lock = FALSE] ELSE ls[i]]

(* The caches above k that invalidate and check_unlock come to: they go up *)
(* from a cache only when it holds the block.                              *)
WrongReached(s, k, b) == {}
Reached(s, k, b) ==
  {x \in Above(k) : Holds(s, x, b) /\ (Lower(x) # k => Holds(s, Lower(x), b))}

(* check_unlock for the line of b in k and all above it *)
WrongUnlocked(s, k, b) == ~LineOf(s, k, b).lock
Unlocked(s, k, b) == \A x \in {k} \cup Reached(s, k, b) : ~LineOf(s, x, b).lock

(* The lines allocate_line may evict, and the first of them *)
Victims(s, k) == {i \in DOMAIN s.lines[k] : Unlocked(s, k, s.lines[k][i].blk)}
Victim(s, k) == s.lines[k][CHOOSE i \in Victims(s, k) : \A j \in Victims(s, k) : i <= j]

(* A full set without a line to evict: all_sets_locked, or no victim *)
NoRoom(s, k) == Len(s.lines[k]) = Assoc[k[1]] /\ Victims(s, k) = {}

(* A write-back queued for the memory *)
WriteBack(b, core, left) == [blk |-> b, core |-> core, write |-> TRUE, left |-> left]

(* evict: invalidate above, then evictline below or write back to memory.  *)
(* invalidate reads the dirty bit of a line it has just erased: the        *)
(* allocator leaves that part of the node alone, so the old value is read. *)
Evict(s, k, victim) ==
  LET b == victim.blk
      gone == {k} \cup Reached(s, k, b)
      dirty == \E x \in gone : LineOf(s, x, b).dirty
      inclusive == Holds(s, Lower(k), b)
      below == LineOf(s, Lower(k), b)
  IN  [s EXCEPT
        !.lines = [x \in Caches |->
          IF x \in gone THEN Without(s, x, b)
          ELSE IF k # LLC /\ x = Lower(k) /\ inclusive
               THEN Append(Without(s, x, b),
                           Line(b, below.core, FALSE, dirty \/ below.dirty))
               ELSE s.lines[x]],
        !.aborted = @ \/ (k # LLC /\ ~inclusive)
                      \/ \E x \in gone \ {k} : LineOf(s, x, b).lock,
        !.wait_list = IF k = LLC /\ dirty
                      THEN Append(@, WriteBack(b, victim.core,
                                               Latency["L3"] + InvalidateTime))
                      ELSE @]

(* allocate_line: a new line, locked and not yet dirty *)
Allocate(s, k, r) ==
  LET room == IF Len(s.lines[k]) = Assoc[k[1]] THEN Evict(s, k, Victim(s, k)) ELSE s
  IN  [room EXCEPT !.lines[k] = Append(@, Line(r.blk, r.core, TRUE, r.write)),
                   !.mshr[k] = @ \cup {r.blk},
                   !.aborted = @ \/ Holds(s, k, r.blk)]

Accepted(s) == [ok |-> TRUE, st |-> s]
Refused(s) == [ok |-> FALSE, st |-> s]

(* A hit takes the line to the end of the set *)
WrongTouched(l, r) == Line(r.blk, r.core, FALSE, r.write)
Touched(l, r) == Line(r.blk, r.core, FALSE, l.dirty \/ r.write)

WrongMshrFull(s, k) == Cardinality(s.mshr[k]) > MshrNum[k[1]]
MshrFull(s, k) == Cardinality(s.mshr[k]) = MshrNum[k[1]]

(* Cache::send to k, given what comes of a miss that finds room: a hit and *)
(* a miss that merges end here, and so does one that finds no room.        *)
Sent(s, k, r, miss) ==
  IF Holds(s, k, r.blk) /\ ~Locked(s, k, r.blk)
  THEN Accepted([s EXCEPT
         !.lines[k] = Append(Without(s, k, r.blk), Touched(LineOf(s, k, r.blk), r)),
         !.hit_list = @ \cup {[blk |-> r.blk, core |-> r.core, left |-> Latency[k[1]]]}])
  ELSE IF r.blk \in s.mshr[k]
  THEN Accepted([s EXCEPT !.lines[k] = Merged(@, r.blk, r.write)])
  ELSE IF MshrFull(s, k) \/ NoRoom(s, k)
  THEN Refused(s)
  ELSE miss

(* A miss goes on as a read, from LLC to the memory and elsewhere to the   *)
(* next level; one the next level refuses is kept for Cache::tick.         *)
AsRead(r) == [r EXCEPT !.write = FALSE]

ToMemory(s, r) ==
  Accepted([Allocate(s, LLC, r) EXCEPT
    !.wait_list = Append(@, [blk |-> r.blk, core |-> r.core, write |-> FALSE,
                             left |-> Latency["L3"]])])

Passed(new, k, r, below) ==
  IF below.ok THEN below ELSE Accepted([new EXCEPT !.retry[k] = Append(@, AsRead(r))])

(* Cache::send to LLC, to a cache right above it, and to any cache *)
SendLast(s, r) == Sent(s, LLC, r, ToMemory(s, r))

SendNext(s, k, r) ==
  LET new == Allocate(s, k, r)
  IN  Sent(s, k, r, Passed(new, k, r, SendLast(new, AsRead(r))))

Send(s, k, r) ==
  LET new == Allocate(s, k, r)
  IN  IF k = LLC THEN SendLast(s, r)
      ELSE IF Lower(k) = LLC THEN SendNext(s, k, r)
      ELSE Sent(s, k, r, Passed(new, k, r, SendNext(new, Lower(k), AsRead(r))))

(* Cache::callback: LLC's goes up to every cache.  The NLP processor's     *)
(* receive calls back its cores' own L1 caches only: its LLC is not the    *)
(* one they use.                                                           *)
WrongCalledBack(core) == {LLC}
CalledBack(core) == IF core \in NlpCores THEN {L1(c) : c \in NlpCores} ELSE Caches

Answered(k, rs) == {r.blk : r \in {x \in rs : k \in CalledBack(x.core)}}

WrongCallback(s, rs) ==
  [s EXCEPT !.lines = [k \in Caches |-> Filled(s.lines[k], Answered(k, rs))]]

(* The callbacks of the answers rs; their order makes no difference. *)
Callback(s, rs) ==
  LET hit(k) == Answered(k, rs) \cap s.mshr[k]
  IN  [s EXCEPT
        !.lines = [k \in Caches |-> Filled(s.lines[k], hit(k))],
        !.mshr = [k \in Caches |-> s.mshr[k] \ hit(k)]]

(* The windows once the answers rs have come: set_ready marks every entry  *)
(* of the block, in the window of the core the request came from           *)
Ready(rs) ==
  [c \in Cores |-> [b \in Blocks |->
    IF \E r \in rs : r.core = c /\ r.blk = b THEN 0 ELSE waiting[c][b]]]

----------------------------------------------------------------------------
(* Actions *)

Init ==
  /\ lines = [k \in Caches |-> <<>>]
  /\ mshr = [k \in Caches |-> {}]
  /\ retry = [k \in Caches |-> <<>>]
  /\ hit_list = {} /\ wait_list = <<>>
  /\ aborted = FALSE
  /\ waiting = [c \in Cores |-> [b \in Blocks |-> 0]]
  /\ at_memory = [c \in Cores |-> [b \in Blocks |-> 0]]
  /\ turn = Len(Turns)
  /\ retrying = <<>> /\ place = 1
  /\ unwritten = {}

NextTurn == (turn % Len(Turns)) + 1
Runs == ~aborted /\ retrying = <<>>
Begins(who) == Runs /\ Turns[NextTurn] = who /\ turn' = NextTurn
IsTicking(c) == Runs /\ Turns[turn] = c

(* The blocks s has queued to be written back.  One of which a first-level *)
(* cache has a newer write is not among them: the line of that write waits *)
(* for data, and invalidate did not come to it.                            *)
WrittenBack(s) ==
  LET newer(b) == \E c \in Cores : Holds(s, L1(c), b) /\ LineOf(s, L1(c), b).dirty
  IN  {b \in Blocks : ~newer(b) /\ \E i \in DOMAIN s.wait_list :
         i > Len(wait_list) /\ s.wait_list[i].write /\ s.wait_list[i].blk = b}

(* A core's tick begins: tick_outOrder ticks the caches, tick_inOrder not. *)
(* Cache::tick of the first level ticks the level below first, unless it   *)
(* is the last.                                                            *)
Ticked(c) ==
  IF c \in InOrder THEN <<>>
  ELSE IF c \in HostCores THEN <<Lower(L1(c)), L1(c)>> ELSE <<L1(c)>>

Loops(c) == SelectSeq(Ticked(c), LAMBDA k : retry[k] # <<>>)

CoreTick(c) ==
  /\ Begins(c)
  /\ retrying' = Loops(c) /\ place' = 1
  /\ UNCHANGED <<cacheVars, waiting, at_memory, unwritten>>

(* One round of the loop of Cache::tick over retry_list: it steps past the *)
(* entry that follows an erased one, and past the end of the list it comes *)
(* to the first entry again.                                               *)
AfterErased(rest) == IF place > Len(rest) THEN 1 ELSE place + 1

Resend(k) ==
  /\ ~aborted /\ retrying # <<>> /\ k = Head(retrying) /\ place <= Len(retry[k])
  /\ \E sent \in {Send(State, Lower(k), retry[k][place])} :
       LET rest == RemoveAt(retry[k], place) IN
       IF sent.ok
         THEN /\ Become([sent.st EXCEPT !.retry[k] = rest])
              /\ unwritten' = unwritten \ WrittenBack(sent.st)
              /\ place' = AfterErased(rest)
         ELSE place' = place + 1 /\ UNCHANGED <<cacheVars, unwritten>>
  /\ UNCHANGED <<waiting, at_memory, turn, retrying>>

EndLoop ==
  /\ ~aborted /\ retrying # <<>> /\ place > Len(retry[Head(retrying)])
  /\ retrying' = Tail(retrying) /\ place' = 1
  /\ UNCHANGED <<cacheVars, waiting, at_memory, turn, unwritten>>

(* A core sends a read or a write to its first-level cache; one refused is *)
(* tried anew in a later tick.  A read takes an entry of the window.  An   *)
(* in-order core has no window: it stops for a fetch of an instruction     *)
(* until that is answered, and for no other read.                          *)
InFlight(c) == {b \in Blocks : waiting[c][b] > 0}
HasRoom(c) == FoldSet(LAMBDA b, n : n + waiting[c][b], 0, Blocks) < Depth[c]
MaySend(c, write) == IF c \in InOrder THEN InFlight(c) = {} ELSE write \/ HasRoom(c)
WaitsFor(c, write) ==
  IF write THEN {FALSE} ELSE IF c \in InOrder THEN BOOLEAN ELSE {TRUE}

Execute(c, b, write) ==
  /\ IsTicking(c)
  /\ MaySend(c, write)
  /\ Len(wait_list) < MaxWait
  /\ \E sent \in {Send(State, L1(c), [blk |-> b, core |-> c, write |-> write])} :
       /\ sent.ok
       /\ Become(sent.st)
       /\ unwritten' = (unwritten \ WrittenBack(sent.st)) \cup (IF write THEN {b} ELSE {})
  /\ \E waits \in WaitsFor(c, write) :
       waiting' = IF waits THEN [waiting EXCEPT ![c][b] = @ + 1] ELSE waiting
  /\ UNCHANGED <<at_memory, turn, loopVars>>

(* CacheSystem::tick.  Of the entries of wait_list that are due, those     *)
(* before the first that is not, the memory takes some; then the hits that *)
(* are due call back.                                                      *)
Later(left) == IF left = 0 THEN 0 ELSE left - 1
Elapsed == [i \in DOMAIN wait_list |-> [wait_list[i] EXCEPT !.left = Later(@)]]
Due == {i \in DOMAIN wait_list : \A j \in 1 .. i : Elapsed[j].left = 0}

OrdersOf(S) == {f \in [1 .. Cardinality(S) -> S] : IsInjective(f)}

Takes(taken) ==
  /\ Begins("cachesys")
  /\ \E kept \in OrdersOf(DOMAIN wait_list \ taken) :
       /\ \A i, j \in DOMAIN kept : i < j => kept[i] < kept[j]
       /\ wait_list' = [i \in DOMAIN kept |-> Elapsed[kept[i]]]
  /\ LET fetched(c, b) == {i \in taken : /\ wait_list[i].core = c /\ wait_list[i].blk = b
                                         /\ ~wait_list[i].write}
     IN  at_memory' = [c \in Cores |-> [b \in Blocks |->
              at_memory[c][b] + Cardinality(fetched(c, b))]]
  /\ \A c \in Cores, b \in Blocks : at_memory'[c][b] <= AtMemoryMax

CacheSystemTick(taken) ==
  /\ Takes(taken)
  /\ LET hits == {h \in hit_list : h.left = 1}
         s == [State EXCEPT !.wait_list = wait_list',
                !.hit_list = {[h EXCEPT !.left = @ - 1] : h \in hit_list \ hits}]
     IN  /\ \E t \in {Callback(s, hits)} : Become(t)
         /\ waiting' = Ready(hits)
  /\ UNCHANGED <<loopVars, unwritten>>

(* The memory answers a read: Processor::receive *)
Answers(c, b) ==
  /\ Runs /\ turn = Len(Turns)
  /\ at_memory[c][b] > 0
  /\ at_memory' = [at_memory EXCEPT ![c][b] = @ - 1]

Answer(c, b) ==
  /\ Answers(c, b)
  /\ LET answers == {[blk |-> b, core |-> c]}
     IN  /\ \E s \in {Callback(State, answers)} : Become(s)
         /\ waiting' = Ready(answers)
  /\ UNCHANGED <<turn, loopVars, unwritten>>

(* can_context_switch, called by core c each tick until it returns TRUE,   *)
(* for the cores of a process, in their order: each must be drained, and   *)
(* before the next is looked at all dirty lines of all cores are flushed.  *)
(* The writes go to the memory, or those it refuses to wait_list, under    *)
(* core id 0 whatever core wrote.  All this is done without an NLP side    *)
(* and with debug_context_swithing on.                                     *)
Drained(c) ==
  /\ InFlight(c) = {}
  /\ \A k \in {L1(c), <<"L2", c>>, LLC} : retry[k] = <<>> /\ mshr[k] = {}

Dirty(k, b) == Holds(State, k, b) /\ LineOf(State, k, b).dirty
DirtyCopies == {copy \in Caches \X Blocks : Dirty(copy[1], copy[2])}

Flush(refused) ==
  /\ lines' = [k \in Caches |-> [i \in DOMAIN lines[k] |-> [lines[k][i] EXCEPT !.dirty = FALSE]]]
  /\ \E writes \in OrdersOf(refused) :
       wait_list' = wait_list \o
         [i \in DOMAIN writes |-> WriteBack(writes[i][2], FirstCore, 0)]
  /\ unwritten' = {}
  /\ UNCHANGED <<mshr, retry, hit_list, aborted>>

FirstOf(process) ==
  Turns[CHOOSE i \in DOMAIN Turns : /\ Turns[i] \in process
                                    /\ \A j \in 1 .. i - 1 : Turns[j] \notin process]

TryContextSwitch(c, process) ==
  /\ NlpCores = {} /\ IsTicking(c) /\ c \in process
  /\ Drained(FirstOf(process))
  /\ \E refused \in SUBSET DirtyCopies :
       /\ Len(wait_list) + Cardinality(refused) <= MaxWait
       /\ Flush(refused)
  /\ UNCHANGED <<waiting, at_memory, turn, loopVars>>

Next ==
  \/ \E c \in Cores : CoreTick(c)
  \/ \E k \in Caches \ {LLC} : Resend(k)
  \/ EndLoop
  \/ \E c \in Cores, write \in BOOLEAN : \E b \in Uses[c] : Execute(c, b, write)
  \/ \E taken \in SUBSET Due : CacheSystemTick(taken)
  \/ \E c \in Cores : \E b \in Uses[c] : Answer(c, b)
  \/ \E process \in Processes : \E c \in process : TryContextSwitch(c, process)

Spec == Init /\ [][Next]_vars

Fairness ==
  /\ WF_turn(\E who \in Cores \cup {"cachesys"} : Begins(who))
  /\ WF_vars(EndLoop \/ \E k \in Caches \ {LLC} : Resend(k))
  /\ SF_turn(Takes(Due))
  /\ \A c \in Cores : \A b \in Uses[c] : SF_at_memory(Answers(c, b))

FairSpec == Spec /\ Fairness

----------------------------------------------------------------------------
(* Properties *)

(* A set never holds more lines than its ways, nor two lines of a block,   *)
(* and the MSHRs of a cache are never more than it has, whatever misses,   *)
(* merges and retries the cores cause (Cache::send, allocate_line).        *)
TypeOK ==
  /\ lines \in [Caches -> Seq([blk : Blocks, core : Cores, lock : BOOLEAN, dirty : BOOLEAN])]
  /\ mshr \in [Caches -> SUBSET Blocks]
  /\ retry \in [Caches -> Seq([blk : Blocks, core : Cores, write : {FALSE}])]
  /\ wait_list \in Seq([blk : Blocks, core : Cores, write : BOOLEAN, left : Nat])
  /\ \A k \in Caches :
       /\ Len(lines[k]) <= Assoc[k[1]] /\ Cardinality(mshr[k]) <= MshrNum[k[1]]
       /\ \A i, j \in DOMAIN lines[k] : i # j => lines[k][i].blk # lines[k][j].blk
  /\ hit_list \subseteq [blk : Blocks, core : Cores, left : Nat \ {0}]
  /\ waiting \in [Cores -> [Blocks -> Nat]]
  /\ place \in Nat \ {0}

(* No assertion of Cache.cpp fails: what is invalidated is never locked,   *)
(* what a level evicts is in the level below it ("check inclusive cache"), *)
(* and a line is never allocated twice.                                    *)
NeverAborts == ~aborted

(* Exactly the locked lines have an MSHR entry: an entry is left behind by *)
(* no eviction and by no callback of another cache, so no line stays       *)
(* locked and no MSHR is lost (hit_mshr, callback, evict).                 *)
MshrTracksLocks ==
  \A k \in Caches : mshr[k] = {b \in Blocks : Locked(State, k, b)}

(* A miss that is kept to be sent again still waits: no answer to an       *)
(* earlier fetch of its block, nor a hit that calls back late, has         *)
(* released its MSHR meanwhile (Cache::tick, Cache::callback).  It is what *)
(* the theorems on the properties around it assume where levels may be     *)
(* full; without it NeverAborts fails.                                     *)
RetriesWait ==
  \A k \in Caches : \A i \in DOMAIN retry[k] : retry[k][i].blk \in mshr[k]

(* Inclusion between fills: a line that has its data is in the cache below *)
(* as well, even where the miss that brought it was refused below and      *)
(* retried (evict, invalidate, Cache::tick).                               *)
Inclusive ==
  \A k \in Caches \ {LLC}, b \in Blocks :
    Holds(State, k, b) /\ ~Locked(State, k, b) => Holds(State, Lower(k), b)

(* A block written and not since written back to memory is dirty in some   *)
(* cache, through hits, merges into a miss, evictions downward and         *)
(* invalidations; and no cache is dirty with a block that is not.          *)
DirtyIsKept == unwritten = {b \in Blocks : \E k \in Caches : Dirty(k, b)}

(* What a core reads is answered: however its miss was merged, refused,    *)
(* retried or made to wait for memory, its window entry becomes ready      *)
(* (Processor::receive, Core::receive).                                    *)
EveryReadAnswered ==
  \A c \in Cores : \A b \in Uses[c] : waiting[c][b] > 0 ~> waiting[c][b] = 0
=============================================================================
