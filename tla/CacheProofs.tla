----------------------------- MODULE CacheProofs -----------------------------
(***************************************************************************)
(* Theorems about CacheHierarchy, for any cores and blocks, private or     *)
(* shared, and any sizes and latencies: what its sets and MSHRs may hold,  *)
(* and that no write is forgotten; and for the host's cores, that the      *)
(* levels agree on lines, MSHRs and dirty bits where no callback releases  *)
(* a miss still to be sent again, as none does where there is room.        *)
(***************************************************************************)
EXTENDS CacheHierarchy, FiniteSetTheorems, SequenceTheorems, WellFoundedInduction, TLAPS

----------------------------------------------------------------------------
(* The caches *)

LEMMA LevelFacts ==
  ASSUME NEW k \in Caches
  PROVE  /\ k[1] \in Levels /\ k[2] \in Cores
         /\ k = LLC \/ (k[1] = "L1" /\ k = L1(k[2])) \/ (k[1] = "L2" /\ k[2] \in HostCores)
         /\ Assoc[k[1]] \in Nat \ {0} /\ MshrNum[k[1]] \in Nat \ {0}
         /\ Latency[k[1]] \in Nat \ {0}
  <1>1. /\ k[1] \in Levels /\ k[2] \in Cores
        /\ k = LLC \/ (k[1] = "L1" /\ k = L1(k[2])) \/ (k[1] = "L2" /\ k[2] \in HostCores)
    BY CoreAssumption DEF Caches, LLC, L1, Cores, Levels
  <1> QED
    BY <1>1, SizeAssumption

LEMMA CacheFacts ==
  /\ LLC \in Caches /\ LLC[1] = "L3" /\ FirstCore \in Cores
  /\ \A c \in Cores : L1(c) \in Caches \ {LLC} /\ L1(c)[1] = "L1"
  /\ \A k \in Caches : Lower(k) \in Caches /\ Lower(k)[1] # "L1"
  /\ \A k \in Caches \ {LLC} : Lower(k) # k /\ Lower(Lower(k)) = LLC /\ Lower(k) \notin Above(k)
  /\ \A k \in Caches : Above(k) \subseteq Caches \ {LLC} /\ k \notin Above(k)
  <1>1. LLC \in Caches /\ LLC[1] = "L3" /\ FirstCore \in Cores
    BY CoreAssumption DEF Caches, LLC, Cores
  <1>2. \A c \in Cores : L1(c) \in Caches \ {LLC} /\ L1(c)[1] = "L1"
    BY DEF Caches, LLC, L1
  <1>3. ASSUME NEW k \in Caches
        PROVE  /\ Lower(k) \in Caches /\ Lower(k)[1] # "L1" /\ Lower(Lower(k)) = LLC
               /\ Lower(k) = LLC \/ (k[1] = "L1" /\ Lower(k)[1] = "L2")
    BY <1>1 DEF Lower, Caches, LLC
  <1>4. ASSUME NEW k \in Caches \ {LLC} PROVE Lower(k) # k
    BY <1>3, <1>1, <1>4
  <1>5. ASSUME NEW k \in Caches PROVE Above(k) \subseteq Caches \ {LLC} /\ k \notin Above(k)
    BY <1>4 DEF Above
  <1>6. ASSUME NEW k \in Caches \ {LLC} PROVE Lower(k) \notin Above(k)
    <2>1. CASE Lower(k) = LLC
      BY <2>1, <1>5
    <2>2. CASE Lower(k) # LLC
      BY <2>2, <1>3 DEF Above
    <2> QED
      BY <2>1, <2>2
  <1> QED
    BY <1>1, <1>2, <1>3, <1>4, <1>5, <1>6

----------------------------------------------------------------------------
(* The lines of a set *)

LineSet == [blk : Blocks, core : Cores, lock : BOOLEAN, dirty : BOOLEAN]
LinesOf(ls) == {ls[i] : i \in DOMAIN ls}
Unique(ls) == \A i, j \in DOMAIN ls : i # j => ls[i].blk # ls[j].blk

(* A sequence without its entry i *)
LEMMA RemoveAtFacts ==
  ASSUME NEW S, NEW q \in Seq(S), NEW i \in DOMAIN q
  PROVE  /\ RemoveAt(q, i) \in Seq(S) /\ Len(RemoveAt(q, i)) = Len(q) - 1
         /\ \A j \in 1 .. Len(q) - 1 : RemoveAt(q, i)[j] = IF j < i THEN q[j] ELSE q[j + 1]
  <1> DEFINE a == SubSeq(q, 1, i - 1)
             c == SubSeq(q, i + 1, Len(q))
             n == Len(q)
  <1>1. n \in Nat /\ i \in 1 .. n /\ \A j \in 1 .. n : q[j] \in S
    OBVIOUS
  <1>2. a \in Seq(S) /\ Len(a) = i - 1 /\ \A j \in 1 .. i - 1 : a[j] = q[j]
    BY <1>1
  <1>3. c \in Seq(S) /\ Len(c) = n - i /\ \A j \in 1 .. n - i : c[j] = q[i + j]
    BY <1>1
  <1> HIDE DEF a, c, n
  <1>4. /\ a \o c \in Seq(S) /\ Len(a \o c) = Len(a) + Len(c)
        /\ \A j \in 1 .. Len(a) + Len(c) :
             (a \o c)[j] = IF j <= Len(a) THEN a[j] ELSE c[j - Len(a)]
    BY <1>2, <1>3, ConcatProperties
  <1>5. ASSUME NEW j \in 1 .. n - 1
        PROVE  (a \o c)[j] = IF j < i THEN q[j] ELSE q[j + 1]
    <2>1. j \in 1 .. Len(a) + Len(c) /\ (j <= Len(a) <=> j < i)
      BY <1>1, <1>2, <1>3
    <2>2. j < i => a[j] = q[j]
      BY <1>1, <1>2
    <2>3. ~(j < i) => c[j - Len(a)] = q[j + 1]
      <3>1. ~(j < i) => j - Len(a) \in 1 .. n - i /\ i + (j - Len(a)) = j + 1
        BY <1>1, <1>2
      <3> QED
        BY <1>3, <3>1
    <2> QED
      BY <1>4, <2>1, <2>2, <2>3
  <1>6. Len(a) + Len(c) = n - 1
    BY <1>1, <1>2, <1>3
  <1> QED
    BY <1>4, <1>5, <1>6 DEF RemoveAt, a, c, n

LEMMA Removed ==
  ASSUME NEW ls \in Seq(LineSet), Unique(ls), NEW i \in DOMAIN ls
  PROVE  LET rest == RemoveAt(ls, i) IN
         /\ rest \in Seq(LineSet) /\ Len(rest) = Len(ls) - 1 /\ Unique(rest)
         /\ LinesOf(rest) = LinesOf(ls) \ {ls[i]}
         /\ \A l \in LinesOf(rest) : l.blk # ls[i].blk
  <1> DEFINE rest == RemoveAt(ls, i)
  <1>1. /\ rest \in Seq(LineSet) /\ Len(rest) = Len(ls) - 1
        /\ \A j \in 1 .. Len(ls) - 1 : rest[j] = IF j < i THEN ls[j] ELSE ls[j + 1]
    BY RemoveAtFacts
  <1> HIDE DEF rest
  <1>2. DOMAIN rest = 1 .. Len(ls) - 1 /\ DOMAIN ls = 1 .. Len(ls) /\ Len(ls) \in Nat
    BY <1>1
  <1>3. ASSUME NEW j \in DOMAIN rest
        PROVE  \E m \in DOMAIN ls : m # i /\ rest[j] = ls[m] /\ m = IF j < i THEN j ELSE j + 1
    BY <1>1, <1>2
  <1>4. Unique(rest)
    <2> SUFFICES ASSUME NEW j \in DOMAIN rest, NEW h \in DOMAIN rest, j # h
                 PROVE  rest[j].blk # rest[h].blk
      BY DEF Unique
    <2>1. PICK m \in DOMAIN ls : rest[j] = ls[m] /\ m = IF j < i THEN j ELSE j + 1
      BY <1>3
    <2>2. PICK n \in DOMAIN ls : rest[h] = ls[n] /\ n = IF h < i THEN h ELSE h + 1
      BY <1>3
    <2>3. m # n
      BY <1>2, <2>1, <2>2
    <2> QED
      BY <2>1, <2>2, <2>3 DEF Unique
  <1>5. \A l \in LinesOf(rest) : l \in LinesOf(ls) /\ l.blk # ls[i].blk
    BY <1>3 DEF LinesOf, Unique
  <1>6. ASSUME NEW m \in DOMAIN ls, m # i PROVE ls[m] \in LinesOf(rest)
    <2>1. CASE m < i
      BY <1>1, <1>2, <2>1 DEF LinesOf
    <2>2. CASE m > i
      <3>1. m - 1 \in DOMAIN rest /\ rest[m - 1] = ls[m]
        BY <1>1, <1>2, <2>2
      <3> QED
        BY <3>1 DEF LinesOf
    <2> QED
      BY <1>2, <1>6, <2>1, <2>2
  <1>7. LinesOf(rest) = LinesOf(ls) \ {ls[i]}
    BY <1>5, <1>6 DEF LinesOf
  <1> QED
    BY <1>1, <1>4, <1>5, <1>7 DEF rest

LEMMA Appended ==
  ASSUME NEW ls \in Seq(LineSet), Unique(ls), NEW l \in LineSet,
         \A m \in LinesOf(ls) : m.blk # l.blk
  PROVE  /\ Append(ls, l) \in Seq(LineSet) /\ Len(Append(ls, l)) = Len(ls) + 1
         /\ Unique(Append(ls, l)) /\ LinesOf(Append(ls, l)) = LinesOf(ls) \cup {l}
  <1> DEFINE new == Append(ls, l)
  <1>1. /\ new \in Seq(LineSet) /\ Len(new) = Len(ls) + 1 /\ Len(ls) \in Nat
        /\ DOMAIN ls = 1 .. Len(ls) /\ DOMAIN new = 1 .. Len(ls) + 1
        /\ \A i \in DOMAIN ls : new[i] = ls[i]
        /\ new[Len(ls) + 1] = l
    OBVIOUS
  <1> HIDE DEF new
  <1>2. \A i \in DOMAIN new : i \in DOMAIN ls \/ i = Len(ls) + 1
    BY <1>1
  <1>3. Unique(new)
    BY <1>1, <1>2 DEF Unique, LinesOf
  <1>4. LinesOf(new) = LinesOf(ls) \cup {l}
    BY <1>1, <1>2 DEF LinesOf
  <1> QED
    BY <1>1, <1>3, <1>4 DEF new

(* Lines changed in place *)
LEMMA InPlace ==
  ASSUME NEW ls \in Seq(LineSet), Unique(ls), NEW new \in [DOMAIN ls -> LineSet],
         \A i \in DOMAIN ls : new[i].blk = ls[i].blk
  PROVE  new \in Seq(LineSet) /\ Len(new) = Len(ls) /\ Unique(new)
  <1>1. DOMAIN ls = 1 .. Len(ls) /\ Len(ls) \in Nat
    OBVIOUS
  <1>2. new \in Seq(LineSet) /\ Len(new) = Len(ls)
    BY <1>1
  <1> QED
    BY <1>2 DEF Unique

----------------------------------------------------------------------------
(* The state of the caches: what is kept of it *)

ReadSet == [blk : Blocks, core : Cores, write : {FALSE}]
HitSet == [blk : Blocks, core : Cores, left : Nat \ {0}]
EntrySet == [blk : Blocks, core : Cores, write : BOOLEAN, left : Nat]

StateSet ==
  [lines : [Caches -> Seq(LineSet)], mshr : [Caches -> SUBSET Blocks],
   retry : [Caches -> Seq(ReadSet)], hit_list : SUBSET HitSet,
   wait_list : Seq(EntrySet), aborted : BOOLEAN]

View(s, k) == LinesOf(s.lines[k])

(* A set has no more lines than ways, and one for a block; there are no    *)
(* more MSHRs than entries; each locked line has its MSHR, and in a first  *)
(* level each MSHR a locked line.                                          *)
SetInv(s, k) ==
  /\ Len(s.lines[k]) <= Assoc[k[1]] /\ Unique(s.lines[k])
  /\ IsFiniteSet(s.mshr[k]) /\ Cardinality(s.mshr[k]) <= MshrNum[k[1]]
  /\ \A l \in View(s, k) : l.lock => l.blk \in s.mshr[k]
  /\ k[1] = "L1" => \A b \in s.mshr[k] : \E l \in View(s, k) : l.blk = b /\ l.lock

StateInv(s) == s \in StateSet /\ \A k \in Caches : SetInv(s, k)

DirtyIn(s, b) == \E k \in Caches : \E l \in View(s, k) : l.blk = b /\ l.dirty

(* b was written back between s and t *)
WrittenTo(s, t, b) ==
  \E i \in DOMAIN t.wait_list :
    i > Len(s.wait_list) /\ t.wait_list[i].write /\ t.wait_list[i].blk = b

(* From s to t no block stops to be dirty but by being written back; and   *)
(* the block own does not stop at all.                                     *)
Keeps(s, t, own) ==
  /\ s.aborted => t.aborted
  /\ Len(s.wait_list) <= Len(t.wait_list)
  /\ \A i \in DOMAIN s.wait_list : t.wait_list[i] = s.wait_list[i]
  /\ t.aborted \/ \A b \in Blocks :
       DirtyIn(s, b) => DirtyIn(t, b) \/ (b # own /\ WrittenTo(s, t, b))

(* Whether k has a line of b, one with its data, one that waits for it *)
HasLine(s, k, b) == \E l \in View(s, k) : l.blk = b
HasData(s, k, b) == \E l \in View(s, k) : l.blk = b /\ ~l.lock
HasLock(s, k, b) == \E l \in View(s, k) : l.blk = b /\ l.lock

(* What the eviction of b from k leaves: no line of b in k nor above it,   *)
(* and below, where there was one, one with the data.                      *)
Evicted(s, k, b, t) ==
  LET gone == {k} \cup Reached(s, k, b) IN
  /\ \A x \in gone :
       /\ x \in Caches /\ ~HasLock(s, x, b)
       /\ View(t, x) = {l \in View(s, x) : l.blk # b}
  /\ \A x \in Caches \ gone :
       \/ View(t, x) = View(s, x)
       \/ /\ k # LLC /\ x = Lower(k) /\ HasLine(s, x, b)
          /\ \E n : /\ n.blk = b /\ ~n.lock /\ (n.dirty => DirtyIn(s, b))
                   /\ View(t, x) = {l \in View(s, x) : l.blk # b} \cup {n}
  /\ t.mshr = s.mshr /\ t.retry = s.retry
  /\ k # LLC => t.wait_list = s.wait_list
  /\ \A c \in Blocks : WrittenTo(s, t, c) => c = b
  /\ t.aborted => s.aborted \/ (k # LLC /\ ~HasLine(s, Lower(k), b))

(* What a miss leaves that gets a line and an MSHR in k *)
Allocated(s, k, r, t) ==
  \E room :
    /\ room \in StateSet /\ ~HasLine(room, k, r.blk)
    /\ room = s \/ \E v \in View(s, k) :
                    /\ v.blk # r.blk /\ Unlocked(s, k, v.blk)
                    /\ Evicted(s, k, v.blk, room)
    /\ \A x \in Caches \ {k} : View(t, x) = View(room, x)
    /\ View(t, k) = View(room, k) \cup {Line(r.blk, r.core, TRUE, r.write)}
    /\ t.mshr = [s.mshr EXCEPT ![k] = @ \cup {r.blk}]
    /\ t.retry = s.retry /\ t.wait_list = room.wait_list /\ t.aborted = room.aborted

(* What a hit or a merged miss leaves: the lines there were *)
Touches(s, r, t) ==
  /\ t.mshr = s.mshr /\ t.retry = s.retry
  /\ t.wait_list = s.wait_list /\ t.aborted = s.aborted
  /\ \A x \in Caches :
       /\ \A l \in View(t, x) : \E m \in View(s, x) :
            /\ m.blk = l.blk /\ m.lock = l.lock
            /\ l.dirty => m.dirty \/ (l.blk = r.blk /\ r.write)
       /\ \A m \in View(s, x) : \E l \in View(t, x) : l.blk = m.blk /\ l.lock = m.lock

(* What callbacks leave: the lines there were, fewer of them locked *)
Released(s, t) ==
  /\ t.retry = s.retry /\ t.wait_list = s.wait_list /\ t.aborted = s.aborted
  /\ \A x \in Caches :
       /\ t.mshr[x] \subseteq s.mshr[x]
       /\ \A l \in View(t, x) : \E m \in View(s, x) :
            m.blk = l.blk /\ m.dirty = l.dirty /\ (l.lock <=> m.lock /\ m.blk \in t.mshr[x])
       /\ \A m \in View(s, x) : \E l \in View(t, x) :
            m.blk = l.blk /\ m.dirty = l.dirty /\ (l.lock <=> m.lock /\ m.blk \in t.mshr[x])

LEMMA KeepsOn ==
  ASSUME NEW s \in StateSet, NEW t \in StateSet, NEW u \in StateSet, NEW own,
         Keeps(s, t, own), Keeps(t, u, own)
  PROVE  Keeps(s, u, own)
  <1> DEFINE a == s.wait_list
             b == t.wait_list
             c == u.wait_list
  <1>1. a \in Seq(EntrySet) /\ b \in Seq(EntrySet) /\ c \in Seq(EntrySet)
    BY DEF StateSet
  <1>2. /\ Len(a) <= Len(b) /\ Len(b) <= Len(c)
        /\ \A i \in DOMAIN a : b[i] = a[i]
        /\ \A i \in DOMAIN b : c[i] = b[i]
    BY DEF Keeps
  <1>3. Len(a) <= Len(c) /\ \A i \in DOMAIN a : c[i] = a[i]
    BY <1>1, <1>2
  <1>4. \A x : WrittenTo(s, t, x) \/ WrittenTo(t, u, x) => WrittenTo(s, u, x)
    <2> SUFFICES ASSUME NEW x, WrittenTo(s, t, x) \/ WrittenTo(t, u, x)
                 PROVE  WrittenTo(s, u, x)
      OBVIOUS
    <2>1. CASE WrittenTo(s, t, x)
      BY <1>1, <1>2, <2>1 DEF WrittenTo
    <2>2. CASE WrittenTo(t, u, x)
      BY <1>1, <1>2, <2>2 DEF WrittenTo
    <2> QED
      BY <2>1, <2>2
  <1>5. (s.aborted => u.aborted) /\ (t.aborted => u.aborted)
    BY DEF Keeps
  <1>6. ASSUME ~u.aborted, NEW x \in Blocks, DirtyIn(s, x)
        PROVE  DirtyIn(u, x) \/ (x # own /\ WrittenTo(s, u, x))
    <2>1. DirtyIn(t, x) \/ (x # own /\ WrittenTo(s, t, x))
      BY <1>5, <1>6 DEF Keeps
    <2>2. DirtyIn(t, x) => DirtyIn(u, x) \/ (x # own /\ WrittenTo(t, u, x))
      BY <1>6 DEF Keeps
    <2> QED
      BY <1>4, <2>1, <2>2
  <1> QED
    BY <1>3, <1>5, <1>6 DEF Keeps

LEMMA KeepsSame ==
  ASSUME NEW s \in StateSet, NEW t \in StateSet, NEW own, t.wait_list = s.wait_list,
         s.aborted => t.aborted,
         t.aborted \/ \A b \in Blocks : DirtyIn(s, b) => DirtyIn(t, b)
  PROVE  Keeps(s, t, own)
  BY DEF Keeps, StateSet

(* The line of a block *)
LEMMA LineFacts ==
  ASSUME NEW s \in StateSet, NEW k \in Caches, Unique(s.lines[k]), NEW b
  PROVE  /\ s.lines[k] \in Seq(LineSet) /\ View(s, k) \subseteq LineSet
         /\ Holds(s, k, b) <=> \E l \in View(s, k) : l.blk = b
         /\ Holds(s, k, b) => /\ Way(s, k, b) \in DOMAIN s.lines[k]
                              /\ LineOf(s, k, b) \in View(s, k) /\ LineOf(s, k, b).blk = b
         /\ \A l \in View(s, k) : l.blk = b => l = LineOf(s, k, b)
  <1>1. s.lines[k] \in Seq(LineSet)
    BY DEF StateSet
  <1>2. View(s, k) \subseteq LineSet
    BY <1>1 DEF View, LinesOf
  <1>3. Holds(s, k, b) <=> \E l \in View(s, k) : l.blk = b
    BY DEF Holds, View, LinesOf
  <1>4. ASSUME Holds(s, k, b)
        PROVE  Way(s, k, b) \in DOMAIN s.lines[k] /\ s.lines[k][Way(s, k, b)].blk = b
    BY <1>4 DEF Holds, Way
  <1>5. ASSUME NEW i \in DOMAIN s.lines[k], s.lines[k][i].blk = b PROVE i = Way(s, k, b)
    <2>1. Holds(s, k, b)
      BY <1>5 DEF Holds
    <2> QED
      BY <1>4, <1>5, <2>1 DEF Unique
  <1> QED
    BY <1>1, <1>2, <1>3, <1>4, <1>5 DEF LineOf, View, LinesOf

LEMMA WithoutFacts ==
  ASSUME NEW s \in StateSet, NEW k \in Caches, Unique(s.lines[k]), NEW b, Holds(s, k, b)
  PROVE  /\ Without(s, k, b) \in Seq(LineSet) /\ Unique(Without(s, k, b))
         /\ Len(Without(s, k, b)) = Len(s.lines[k]) - 1
         /\ LinesOf(Without(s, k, b)) = {l \in View(s, k) : l.blk # b}
  <1>1. /\ s.lines[k] \in Seq(LineSet) /\ Way(s, k, b) \in DOMAIN s.lines[k]
        /\ s.lines[k][Way(s, k, b)].blk = b
    BY LineFacts DEF LineOf
  <1> QED
    BY <1>1, Removed DEF Without, View

LEMMA ReplacedFacts ==
  ASSUME NEW s \in StateSet, NEW k \in Caches, Unique(s.lines[k]), NEW b, Holds(s, k, b),
         NEW l \in LineSet, l.blk = b
  PROVE  LET new == Append(Without(s, k, b), l) IN
         /\ new \in Seq(LineSet) /\ Unique(new) /\ Len(new) = Len(s.lines[k])
         /\ LinesOf(new) = {m \in View(s, k) : m.blk # b} \cup {l}
  <1>1. Len(s.lines[k]) \in Nat
    BY LineFacts
  <1> QED
    BY <1>1, WithoutFacts, Appended

----------------------------------------------------------------------------
(* Eviction *)

(* The lines evicted are unlocked, and not those of the level below. *)
LEMMA GoneFacts ==
  ASSUME NEW s, NEW k \in Caches, NEW b, Holds(s, k, b), Unlocked(s, k, b),
         NEW x \in {k} \cup Reached(s, k, b)
  PROVE  /\ x \in Caches /\ Holds(s, x, b) /\ ~LineOf(s, x, b).lock
         /\ k # LLC => x # Lower(k)
  BY CacheFacts DEF Reached, Unlocked

LEMMA EvictFacts ==
  ASSUME NEW s, StateInv(s), NEW k \in Caches, NEW v \in View(s, k),
         Unlocked(s, k, v.blk), NEW own, own # v.blk
  PROVE  LET t == Evict(s, k, v) IN
         /\ StateInv(t) /\ Keeps(s, t, own) /\ t.mshr = s.mshr
         /\ Len(t.lines[k]) = Len(s.lines[k]) - 1
         /\ View(t, k) = {l \in View(s, k) : l.blk # v.blk}
         /\ Evicted(s, k, v.blk, t)
  <1> DEFINE b == v.blk
             gone == {k} \cup Reached(s, k, b)
             dirty == \E x \in gone : LineOf(s, x, b).dirty
             inclusive == Holds(s, Lower(k), b)
             below == LineOf(s, Lower(k), b)
             t == Evict(s, k, v)
  <1>1. s \in StateSet /\ \A x \in Caches : SetInv(s, x) /\ Unique(s.lines[x])
    BY DEF StateInv, SetInv
  <1>2. /\ Holds(s, k, b) /\ v = LineOf(s, k, b) /\ v \in LineSet /\ b \in Blocks
        /\ v.core \in Cores /\ k \in gone
    BY <1>1, LineFacts DEF LineSet
  <1>3. \A x \in gone : /\ x \in Caches /\ Holds(s, x, b) /\ ~LineOf(s, x, b).lock
                        /\ k # LLC => x # Lower(k)
    BY <1>2, GoneFacts
  <1>4. Lower(k) \in Caches /\ Lower(k)[1] # "L1" /\ (inclusive => below \in LineSet /\ below.blk = b)
    BY <1>1, CacheFacts, LineFacts
  <1> DEFINE replaced == Line(b, below.core, FALSE, dirty \/ below.dirty)
             entry == WriteBack(b, v.core, Latency["L3"] + InvalidateTime)
  <1>5. /\ dirty \in BOOLEAN /\ entry \in EntrySet /\ entry.blk = b /\ entry.write
        /\ inclusive => replaced \in LineSet /\ replaced.blk = b /\ ~replaced.lock
    <2>1. Latency["L3"] + InvalidateTime \in Nat
      BY SizeAssumption DEF Levels
    <2> QED
      BY <1>2, <1>4, <2>1 DEF WriteBack, EntrySet, Line, LineSet
  <1>6. /\ t = [s EXCEPT !.lines = t.lines, !.aborted = t.aborted, !.wait_list = t.wait_list]
        /\ t.lines = [x \in Caches |->
             IF x \in gone THEN Without(s, x, b)
             ELSE IF k # LLC /\ x = Lower(k) /\ inclusive
                  THEN Append(Without(s, x, b), replaced) ELSE s.lines[x]]
        /\ t.aborted = (s.aborted \/ (k # LLC /\ ~inclusive)
                                  \/ \E x \in gone \ {k} : LineOf(s, x, b).lock)
        /\ t.wait_list = IF k = LLC /\ dirty THEN Append(s.wait_list, entry) ELSE s.wait_list
        /\ t.mshr = s.mshr /\ t.retry = s.retry
    BY <1>1 DEF Evict, StateSet
  <1> HIDE DEF t, replaced, entry, dirty, gone
  <1>7. ASSUME NEW x \in gone
        PROVE  /\ t.lines[x] \in Seq(LineSet) /\ Unique(t.lines[x])
               /\ Len(t.lines[x]) = Len(s.lines[x]) - 1
               /\ View(t, x) = {l \in View(s, x) : l.blk # b}
    BY <1>1, <1>3, <1>6, WithoutFacts DEF View
  <1>8. ASSUME k # LLC, inclusive
        PROVE  /\ t.lines[Lower(k)] \in Seq(LineSet) /\ Unique(t.lines[Lower(k)])
               /\ Len(t.lines[Lower(k)]) = Len(s.lines[Lower(k)])
               /\ View(t, Lower(k)) = {l \in View(s, Lower(k)) : l.blk # b} \cup {replaced}
    <2>1. t.lines[Lower(k)] = Append(Without(s, Lower(k), b), replaced)
      BY <1>3, <1>4, <1>6, <1>8
    <2> QED
      BY <1>1, <1>4, <1>5, <1>8, <2>1, ReplacedFacts DEF View
  <1>9. ASSUME NEW x \in Caches, x \notin gone, ~(k # LLC /\ x = Lower(k) /\ inclusive)
        PROVE  t.lines[x] = s.lines[x]
    BY <1>6, <1>9
  <1>10. t \in StateSet
    <2>1. t.lines \in [Caches -> Seq(LineSet)]
      <3> SUFFICES ASSUME NEW x \in Caches PROVE t.lines[x] \in Seq(LineSet)
        BY <1>6
      <3> QED
        BY <1>1, <1>7, <1>8, <1>9 DEF StateSet
    <2>2. t.wait_list \in Seq(EntrySet)
      BY <1>1, <1>5, <1>6 DEF StateSet
    <2>3. t.aborted \in BOOLEAN
      BY <1>1, <1>6 DEF StateSet
    <2> QED
      BY <1>1, <1>6, <2>1, <2>2, <2>3 DEF StateSet
  <1>11. ASSUME NEW x \in Caches PROVE SetInv(t, x)
    <2>1. CASE x \in gone
      <3>1. \A l \in View(s, x) : l.blk = b => ~l.lock
        BY <1>1, <1>3, <2>1, LineFacts
      <3>2. Len(s.lines[x]) \in Nat /\ Assoc[x[1]] \in Nat
        BY <1>1, LineFacts, LevelFacts
      <3>3. SetInv(s, x)
        BY <1>1
      <3>4. Len(t.lines[x]) <= Assoc[x[1]] /\ Unique(t.lines[x])
        BY <1>7, <2>1, <3>2, <3>3 DEF SetInv
      <3>5. \A l \in View(t, x) : l \in View(s, x)
        BY <1>7, <2>1
      <3>6. \A l \in View(s, x) : l.lock => l \in View(t, x)
        BY <1>7, <2>1, <3>1
      <3> QED
        BY <1>6, <3>3, <3>4, <3>5, <3>6 DEF SetInv
    <2>2. CASE k # LLC /\ x = Lower(k) /\ inclusive
      BY <1>1, <1>4, <1>5, <1>6, <1>8, <2>2 DEF SetInv
    <2>3. CASE x \notin gone /\ ~(k # LLC /\ x = Lower(k) /\ inclusive)
      BY <1>1, <1>6, <1>9, <2>3 DEF SetInv, View
    <2> QED
      BY <2>1, <2>2, <2>3
  <1>12. ASSUME ~t.aborted, NEW c \in Blocks, DirtyIn(s, c)
         PROVE  DirtyIn(t, c) \/ (c # own /\ WrittenTo(s, t, c))
    <2>1. PICK x \in Caches : \E l \in View(s, x) : l.blk = c /\ l.dirty
      BY <1>12 DEF DirtyIn
    <2>2. PICK l \in View(s, x) : l.blk = c /\ l.dirty
      BY <2>1
    <2>3. CASE c # b
      <3>1. l \in View(t, x)
        BY <1>7, <1>8, <1>9, <2>2, <2>3 DEF View
      <3> QED
        BY <2>2, <3>1 DEF DirtyIn
    <2>4. CASE c = b /\ x \in gone
      <3>1. l = LineOf(s, x, b) /\ dirty
        BY <1>1, <2>2, <2>4, LineFacts DEF dirty
      <3>2. CASE k = LLC
        <4>1. t.wait_list = Append(s.wait_list, entry)
          BY <1>6, <3>1, <3>2
        <4>2. s.wait_list \in Seq(EntrySet)
          BY <1>1 DEF StateSet
        <4>3. WrittenTo(s, t, b)
          BY <1>5, <4>1, <4>2 DEF WrittenTo
        <4> QED
          BY <2>4, <4>3
      <3>3. CASE k # LLC
        <4>1. inclusive
          BY <1>6, <1>12, <3>3
        <4>2. replaced \in View(t, Lower(k)) /\ replaced.dirty /\ replaced.blk = b
          BY <1>5, <1>8, <3>1, <3>3, <4>1 DEF replaced, Line
        <4> QED
          BY <1>4, <2>4, <4>2 DEF DirtyIn
      <3> QED
        BY <3>2, <3>3
    <2>5. CASE c = b /\ x \notin gone
      <3>1. CASE k # LLC /\ x = Lower(k) /\ inclusive
        <4>1. l = below
          BY <1>1, <1>4, <2>2, <2>5, <3>1, LineFacts
        <4>2. replaced \in View(t, x) /\ replaced.dirty /\ replaced.blk = b
          BY <1>5, <1>8, <2>2, <3>1, <4>1 DEF replaced, Line
        <4> QED
          BY <2>5, <4>2 DEF DirtyIn
      <3>2. CASE ~(k # LLC /\ x = Lower(k) /\ inclusive)
        <4>1. l \in View(t, x)
          BY <1>9, <2>2, <2>5, <3>2 DEF View
        <4> QED
          BY <2>2, <4>1 DEF DirtyIn
      <3> QED
        BY <3>1, <3>2
    <2> QED
      BY <2>3, <2>4, <2>5
  <1>13. Keeps(s, t, own)
    <2>1. /\ Len(s.wait_list) <= Len(t.wait_list)
          /\ \A i \in DOMAIN s.wait_list : t.wait_list[i] = s.wait_list[i]
      <3>1. s.wait_list \in Seq(EntrySet)
        BY <1>1 DEF StateSet
      <3> QED
        BY <1>5, <1>6, <3>1
    <2>2. s.aborted => t.aborted
      BY <1>6
    <2> QED
      BY <1>12, <2>1, <2>2 DEF Keeps
  <1>14. Evicted(s, k, b, t)
    <2>1. ASSUME NEW x \in gone
          PROVE  /\ x \in Caches /\ ~HasLock(s, x, b)
                 /\ View(t, x) = {l \in View(s, x) : l.blk # b}
      BY <1>1, <1>3, <1>7, LineFacts DEF HasLock
    <2>2. ASSUME NEW x \in Caches \ gone
          PROVE  \/ View(t, x) = View(s, x)
                 \/ /\ k # LLC /\ x = Lower(k) /\ HasLine(s, x, b)
                    /\ \E n : /\ n.blk = b /\ ~n.lock /\ (n.dirty => DirtyIn(s, b))
                             /\ View(t, x) = {l \in View(s, x) : l.blk # b} \cup {n}
      <3>1. CASE k # LLC /\ x = Lower(k) /\ inclusive
        <4>1. below \in View(s, x) /\ below.blk = b
          BY <1>1, <3>1, LineFacts
        <4>2. dirty => DirtyIn(s, b)
          <5>1. \A y \in gone : LineOf(s, y, b) \in View(s, y) /\ LineOf(s, y, b).blk = b
            BY <1>1, <1>3, LineFacts
          <5> QED
            BY <1>3, <5>1 DEF DirtyIn, dirty
        <4>3. replaced.dirty => DirtyIn(s, b)
          BY <4>1, <4>2 DEF replaced, Line, DirtyIn
        <4> QED
          BY <1>5, <1>8, <3>1, <4>1, <4>3 DEF HasLine
      <3>2. CASE ~(k # LLC /\ x = Lower(k) /\ inclusive)
        BY <1>9, <3>2 DEF View
      <3> QED
        BY <3>1, <3>2
    <2>3. \A c \in Blocks : WrittenTo(s, t, c) => c = b
      <3>1. s.wait_list \in Seq(EntrySet)
        BY <1>1 DEF StateSet
      <3>2. ASSUME NEW i \in DOMAIN t.wait_list, i > Len(s.wait_list)
            PROVE  t.wait_list[i].blk = b
        BY <1>5, <1>6, <3>1, <3>2
      <3> QED
        BY <3>2 DEF WrittenTo
    <2>4. t.aborted => s.aborted \/ (k # LLC /\ ~HasLine(s, Lower(k), b))
      <3>1. ~\E x \in gone \ {k} : LineOf(s, x, b).lock
        BY <1>3
      <3>2. inclusive <=> HasLine(s, Lower(k), b)
        BY <1>1, <1>4, LineFacts DEF HasLine
      <3> QED
        BY <1>6, <3>1, <3>2
    <2> HIDE DEF b
    <2> QED
      BY <1>6, <2>1, <2>2, <2>3, <2>4 DEF Evicted, gone
  <1> QED
    BY <1>2, <1>6, <1>7, <1>10, <1>11, <1>13, <1>14 DEF StateInv, t

----------------------------------------------------------------------------
(* A line for a miss *)

(* Of the intervals from zero to the members of S one is least. *)
LEMMA LeastExists ==
  ASSUME NEW S, S \subseteq Nat, S # {}
  PROVE  \E x \in S : \A y \in S : x <= y
  <1> DEFINE Upto == {0 .. x : x \in S}
  <1>1. Upto \subseteq FiniteSubsetsOf(Nat) /\ Upto # {}
    <2>1. \A x \in Nat : 0 .. x \subseteq Nat /\ IsFiniteSet(0 .. x)
      BY FS_Interval
    <2> QED
      BY <2>1 DEF FiniteSubsetsOf
  <1>2. PICK U \in Upto : \A V \in Upto : <<V, U>> \notin StrictSubsetOrdering(Nat)
    <2> HIDE DEF Upto
    <2> QED
      BY <1>1, FS_StrictSubsetOrderingWellFounded, WFMin
  <1>3. PICK x \in S : U = 0 .. x
    BY <1>2
  <1>4. ASSUME NEW y \in S, y < x PROVE FALSE
    <2>1. 0 .. y \subseteq 0 .. x /\ x \in 0 .. x /\ x \notin 0 .. y
          /\ 0 .. y \subseteq Nat /\ 0 .. x \subseteq Nat
      BY <1>4
    <2>2. <<0 .. y, U>> \in StrictSubsetOrdering(Nat)
      BY <1>3, <2>1 DEF StrictSubsetOrdering
    <2> QED
      BY <1>2, <2>2
  <1> QED
    BY <1>4

LEMMA VictimFacts ==
  ASSUME NEW s \in StateSet, NEW k \in Caches, Victims(s, k) # {}
  PROVE  Victim(s, k) \in View(s, k) /\ Unlocked(s, k, Victim(s, k).blk)
  <1>1. Victims(s, k) \subseteq Nat /\ Victims(s, k) \subseteq DOMAIN s.lines[k]
    BY DEF Victims, StateSet
  <1>2. \E i \in Victims(s, k) : \A j \in Victims(s, k) : i <= j
    BY <1>1, LeastExists
  <1>3. PICK i \in Victims(s, k) : Victim(s, k) = s.lines[k][i]
    BY <1>2 DEF Victim
  <1> QED
    BY <1>1, <1>3 DEF Victims, View, LinesOf

RequestSet == [blk : Blocks, core : Cores, write : BOOLEAN]

LEMMA AllocateFacts ==
  ASSUME NEW s, StateInv(s), NEW k \in Caches, NEW r \in RequestSet,
         ~Holds(s, k, r.blk), r.blk \notin s.mshr[k], ~MshrFull(s, k), ~NoRoom(s, k)
  PROVE  LET t == Allocate(s, k, r) IN
         /\ StateInv(t) /\ Keeps(s, t, r.blk) /\ (r.write => DirtyIn(t, r.blk))
         /\ Allocated(s, k, r, t)
  <1> DEFINE full == Len(s.lines[k]) = Assoc[k[1]]
             room == IF full THEN Evict(s, k, Victim(s, k)) ELSE s
             new == Line(r.blk, r.core, TRUE, r.write)
             t == Allocate(s, k, r)
  <1>1. s \in StateSet /\ SetInv(s, k) /\ Assoc[k[1]] \in Nat /\ MshrNum[k[1]] \in Nat
    BY LevelFacts DEF StateInv
  <1>2. /\ s.lines[k] \in Seq(LineSet) /\ Unique(s.lines[k])
        /\ \A l \in View(s, k) : l.blk # r.blk
    BY <1>1, LineFacts DEF SetInv
  <1>3. /\ StateInv(room) /\ Keeps(s, room, r.blk) /\ room.mshr = s.mshr
        /\ Len(room.lines[k]) < Assoc[k[1]] /\ View(room, k) \subseteq View(s, k)
        /\ room = s \/ \E v \in View(s, k) :
                        /\ v.blk # r.blk /\ Unlocked(s, k, v.blk)
                        /\ Evicted(s, k, v.blk, room)
        /\ room.retry = s.retry
    <2>1. CASE full
      <3>1. Victim(s, k) \in View(s, k) /\ Unlocked(s, k, Victim(s, k).blk)
        BY <1>1, <2>1, VictimFacts DEF NoRoom
      <3>2. Victim(s, k).blk # r.blk
        BY <1>2, <3>1
      <3> DEFINE e == Evict(s, k, Victim(s, k))
      <3>3. /\ StateInv(e) /\ Keeps(s, e, r.blk) /\ e.mshr = s.mshr
            /\ Len(e.lines[k]) = Len(s.lines[k]) - 1
            /\ View(e, k) = {l \in View(s, k) : l.blk # Victim(s, k).blk}
            /\ Evicted(s, k, Victim(s, k).blk, e)
        BY <3>1, <3>2, EvictFacts
      <3>4. room = e
        BY <2>1
      <3> HIDE DEF e, room
      <3>5. e.retry = s.retry
        BY <3>3 DEF Evicted
      <3> QED
        BY <1>1, <1>2, <2>1, <3>1, <3>2, <3>3, <3>4, <3>5
    <2>2. CASE ~full
      <3>1. Len(s.lines[k]) < Assoc[k[1]]
        BY <1>1, <1>2, <2>2 DEF SetInv
      <3> QED
        BY <1>1, <2>2, <3>1, KeepsSame
    <2> QED
      BY <2>1, <2>2
  <1> HIDE DEF room
  <1>4. room \in StateSet /\ SetInv(room, k) /\ new \in LineSet /\ r.blk \in Blocks
    BY <1>3 DEF StateInv, RequestSet, Line, LineSet
  <1>5. /\ t = [room EXCEPT !.lines = t.lines, !.mshr = t.mshr, !.aborted = t.aborted]
        /\ t.lines = [room.lines EXCEPT ![k] = Append(@, new)]
        /\ t.mshr = [room.mshr EXCEPT ![k] = @ \cup {r.blk}]
        /\ t.aborted = (room.aborted \/ Holds(s, k, r.blk))
    BY <1>4 DEF Allocate, room, StateSet
  <1> HIDE DEF t, new
  <1>6. /\ t.lines[k] \in Seq(LineSet) /\ Len(t.lines[k]) = Len(room.lines[k]) + 1
        /\ Unique(t.lines[k]) /\ View(t, k) = View(room, k) \cup {new}
    <2>1. \A l \in LinesOf(room.lines[k]) : l.blk # new.blk
      BY <1>2, <1>3 DEF View, new, Line
    <2>2. t.lines[k] = Append(room.lines[k], new) /\ room.lines[k] \in Seq(LineSet)
      BY <1>4, <1>5 DEF StateSet
    <2> QED
      BY <1>4, <2>1, <2>2, Appended DEF SetInv, View
  <1>7. /\ IsFiniteSet(t.mshr[k]) /\ Cardinality(t.mshr[k]) <= MshrNum[k[1]]
        /\ t.mshr[k] = s.mshr[k] \cup {r.blk}
    <2>1. t.mshr[k] = s.mshr[k] \cup {r.blk}
      BY <1>3, <1>4, <1>5 DEF StateSet
    <2>2. IsFiniteSet(s.mshr[k]) /\ Cardinality(s.mshr[k]) \in Nat
      BY <1>1, FS_CardinalityType DEF SetInv
    <2>3. Cardinality(s.mshr[k]) < MshrNum[k[1]]
      BY <1>1, <2>2 DEF SetInv, MshrFull
    <2> QED
      <3>1. /\ IsFiniteSet(s.mshr[k] \cup {r.blk})
            /\ Cardinality(s.mshr[k] \cup {r.blk}) = Cardinality(s.mshr[k]) + 1
        BY <2>2, FS_AddElement
      <3> QED
        BY <1>1, <2>1, <2>2, <2>3, <3>1
  <1>8. SetInv(t, k)
    <2>1. Len(t.lines[k]) <= Assoc[k[1]]
      BY <1>1, <1>3, <1>4, <1>6 DEF StateSet
    <2>2. \A l \in View(t, k) : l.lock => l.blk \in t.mshr[k]
      BY <1>3, <1>4, <1>6, <1>7 DEF SetInv, new, Line
    <2>3. k[1] = "L1" => \A b \in t.mshr[k] : \E l \in View(t, k) : l.blk = b /\ l.lock
      BY <1>3, <1>4, <1>6, <1>7 DEF SetInv, new, Line
    <2> QED
      BY <1>6, <1>7, <2>1, <2>2, <2>3 DEF SetInv
  <1>9. ASSUME NEW x \in Caches, x # k
        PROVE  SetInv(t, x) /\ View(t, x) = View(room, x)
    <2>1. t.lines[x] = room.lines[x] /\ t.mshr[x] = room.mshr[x]
      BY <1>4, <1>5, <1>9 DEF StateSet
    <2> QED
      BY <1>3, <2>1 DEF SetInv, View, StateInv
  <1>10. t \in StateSet
    <2>1. t.lines \in [Caches -> Seq(LineSet)]
      BY <1>4, <1>5, <1>6 DEF StateSet
    <2>2. t.mshr \in [Caches -> SUBSET Blocks]
      BY <1>4, <1>5 DEF StateSet
    <2>3. t.aborted \in BOOLEAN
      BY <1>4, <1>5 DEF StateSet
    <2> QED
      BY <1>4, <1>5, <2>1, <2>2, <2>3 DEF StateSet
  <1>11. \A b : DirtyIn(room, b) => DirtyIn(t, b)
    BY <1>6, <1>9 DEF DirtyIn
  <1>12. Keeps(room, t, r.blk)
    <2>1. t.wait_list = room.wait_list /\ (room.aborted => t.aborted)
      BY <1>4, <1>5 DEF StateSet
    <2> QED
      BY <1>4, <1>10, <1>11, <2>1, KeepsSame
  <1>13. Keeps(s, t, r.blk)
    BY <1>1, <1>3, <1>4, <1>10, <1>12, KeepsOn
  <1>14. r.write => DirtyIn(t, r.blk)
    <2>1. new \in View(t, k) /\ new.blk = r.blk /\ new.dirty = r.write
      BY <1>6 DEF new, Line
    <2> QED
      BY <2>1 DEF DirtyIn
  <1>15. Allocated(s, k, r, t)
    <2>1. ~HasLine(room, k, r.blk)
      BY <1>2, <1>3 DEF HasLine
    <2>2. /\ t.mshr = [s.mshr EXCEPT ![k] = @ \cup {r.blk}] /\ t.retry = room.retry
          /\ t.wait_list = room.wait_list /\ t.aborted = room.aborted
      BY <1>3, <1>4, <1>5 DEF StateSet
    <2> QED
      BY <1>3, <1>4, <1>6, <1>9, <2>1, <2>2 DEF Allocated, new
  <1> QED
    BY <1>8, <1>9, <1>10, <1>13, <1>14, <1>15 DEF StateInv, t
----------------------------------------------------------------------------
(* Cache::send *)

(* What a request may leave: accepted, a write has made its block dirty *)
Sound(s, r, sent) ==
  /\ StateInv(sent.st) /\ Keeps(s, sent.st, r.blk)
  /\ sent.ok /\ r.write => sent.st.aborted \/ DirtyIn(sent.st, r.blk)

(* The miss that send comes to: no line and no MSHR, and room for both *)
Misses(s, k, r) ==
  ~Holds(s, k, r.blk) /\ r.blk \notin s.mshr[k] /\ ~MshrFull(s, k) /\ ~NoRoom(s, k)

(* A state in which only the lines of k and the hits differ *)
LEMMA OneSetFacts ==
  ASSUME NEW s, StateInv(s), NEW k \in Caches, NEW t,
         t \in StateSet, t.mshr = s.mshr, t.wait_list = s.wait_list, t.aborted = s.aborted,
         \A x \in Caches \ {k} : t.lines[x] = s.lines[x],
         Len(t.lines[k]) = Len(s.lines[k]), Unique(t.lines[k]),
         \A l \in View(t, k) : \E m \in View(s, k) : l.blk = m.blk /\ (l.lock => m.lock),
         \A m \in View(s, k) : \E l \in View(t, k) :
           l.blk = m.blk /\ (m.lock => l.lock) /\ (m.dirty => l.dirty),
         NEW own
  PROVE  StateInv(t) /\ Keeps(s, t, own)
  <1>1. s \in StateSet /\ \A x \in Caches : SetInv(s, x)
    BY DEF StateInv
  <1>2. SetInv(t, k)
    BY <1>1 DEF SetInv
  <1>3. \A x \in Caches \ {k} : SetInv(t, x) /\ View(t, x) = View(s, x)
    BY <1>1 DEF SetInv, View
  <1>4. \A b : DirtyIn(s, b) => DirtyIn(t, b)
    BY <1>3 DEF DirtyIn
  <1> QED
    BY <1>1, <1>2, <1>3, <1>4, KeepsSame DEF StateInv

LEMMA HitFacts ==
  ASSUME NEW s, StateInv(s), NEW k \in Caches, NEW r \in RequestSet,
         Holds(s, k, r.blk), ~Locked(s, k, r.blk)
  PROVE  LET t == [s EXCEPT
               !.lines[k] = Append(Without(s, k, r.blk), Touched(LineOf(s, k, r.blk), r)),
               !.hit_list = @ \cup {[blk |-> r.blk, core |-> r.core, left |-> Latency[k[1]]]}]
         IN  Sound(s, r, Accepted(t)) /\ Touches(s, r, t)
  <1> DEFINE old == LineOf(s, k, r.blk)
             new == Touched(old, r)
             hit == [blk |-> r.blk, core |-> r.core, left |-> Latency[k[1]]]
             t == [s EXCEPT !.lines[k] = Append(Without(s, k, r.blk), new),
                            !.hit_list = @ \cup {hit}]
  <1>1. s \in StateSet /\ Unique(s.lines[k])
    BY DEF StateInv, SetInv
  <1>2. /\ old \in View(s, k) /\ old \in LineSet /\ old.blk = r.blk /\ ~old.lock
        /\ \A l \in View(s, k) : l.blk = r.blk => l = old
    BY <1>1, LineFacts DEF Locked
  <1>3. /\ new \in LineSet /\ new.blk = r.blk /\ ~new.lock
        /\ (old.dirty => new.dirty) /\ (r.write => new.dirty)
    BY <1>2 DEF Touched, Line, LineSet, RequestSet
  <1>4. hit \in HitSet
    BY LevelFacts DEF HitSet, RequestSet
  <1>5. LET q == Append(Without(s, k, r.blk), new) IN
        /\ q \in Seq(LineSet) /\ Unique(q) /\ Len(q) = Len(s.lines[k])
        /\ LinesOf(q) = {m \in View(s, k) : m.blk # r.blk} \cup {new}
    BY <1>1, <1>3, ReplacedFacts
  <1>6. /\ t.mshr = s.mshr /\ t.wait_list = s.wait_list /\ t.aborted = s.aborted
        /\ t.retry = s.retry /\ t.hit_list = s.hit_list \cup {hit}
        /\ t.lines = [s.lines EXCEPT ![k] = Append(Without(s, k, r.blk), new)]
        /\ t = [s EXCEPT !.lines = t.lines, !.hit_list = t.hit_list]
    BY <1>1 DEF StateSet
  <1> HIDE DEF t, new, old, hit
  <1>7. /\ t.lines[k] = Append(Without(s, k, r.blk), new)
        /\ \A x \in Caches \ {k} : t.lines[x] = s.lines[x]
        /\ t.lines \in [Caches -> Seq(LineSet)]
    BY <1>1, <1>5, <1>6 DEF StateSet
  <1>8. View(t, k) = {m \in View(s, k) : m.blk # r.blk} \cup {new}
    BY <1>5, <1>7 DEF View
  <1>9. t \in StateSet
    BY <1>1, <1>4, <1>6, <1>7 DEF StateSet
  <1>10. \A l \in View(t, k) : \E m \in View(s, k) : l.blk = m.blk /\ (l.lock => m.lock)
    BY <1>2, <1>3, <1>8
  <1>11. \A m \in View(s, k) : \E l \in View(t, k) :
           l.blk = m.blk /\ (m.lock => l.lock) /\ (m.dirty => l.dirty)
    BY <1>2, <1>3, <1>8
  <1>12. StateInv(t) /\ Keeps(s, t, r.blk)
    BY <1>5, <1>6, <1>7, <1>9, <1>10, <1>11, OneSetFacts
  <1>13. r.write => DirtyIn(t, r.blk)
    BY <1>3, <1>8 DEF DirtyIn
  <1>14. Accepted(t).st = t
    BY DEF Accepted
  <1>15. Touches(s, r, t)
    <2>1. \A x \in Caches \ {k} : View(t, x) = View(s, x)
      BY <1>7 DEF View
    <2>2. /\ \A l \in View(t, k) : \E m \in View(s, k) :
               /\ m.blk = l.blk /\ m.lock = l.lock
               /\ l.dirty => m.dirty \/ (l.blk = r.blk /\ r.write)
          /\ \A m \in View(s, k) : \E l \in View(t, k) : l.blk = m.blk /\ l.lock = m.lock
      <3>1. /\ new.lock = old.lock /\ new.blk = old.blk
            /\ new.dirty => old.dirty \/ r.write
        BY <1>2, <1>3 DEF LineSet, new, Touched, Line
      <3> QED
        BY <1>2, <1>8, <3>1
    <2> QED
      BY <1>6, <2>1, <2>2 DEF Touches
  <1> QED
    BY <1>12, <1>13, <1>14, <1>15 DEF Sound, t, new, old, hit

LEMMA MergeFacts ==
  ASSUME NEW s, StateInv(s), NEW k \in Caches, NEW r \in RequestSet,
         r.write => k[1] = "L1", r.blk \in s.mshr[k]
  PROVE  LET t == [s EXCEPT !.lines[k] = Merged(@, r.blk, r.write)]
         IN  Sound(s, r, Accepted(t)) /\ Touches(s, r, t)
  <1> DEFINE ls == s.lines[k]
             new == Merged(ls, r.blk, r.write)
             t == [s EXCEPT !.lines[k] = Merged(@, r.blk, r.write)]
  <1>1. s \in StateSet /\ SetInv(s, k) /\ Unique(ls) /\ ls \in Seq(LineSet)
    BY DEF StateInv, SetInv, StateSet
  <1>2. /\ DOMAIN new = DOMAIN ls
        /\ \A i \in DOMAIN ls : /\ ls[i] \in LineSet /\ new[i] \in LineSet
                                /\ new[i].blk = ls[i].blk /\ new[i].lock = ls[i].lock
                                /\ (ls[i].dirty => new[i].dirty)
                                /\ (ls[i].blk = r.blk /\ r.write => new[i].dirty)
                                /\ (new[i].dirty => ls[i].dirty \/ (ls[i].blk = r.blk /\ r.write))
    <2> SUFFICES ASSUME NEW i \in DOMAIN ls
                 PROVE  /\ ls[i] \in LineSet /\ new[i] \in LineSet
                        /\ new[i].blk = ls[i].blk /\ new[i].lock = ls[i].lock
                        /\ (ls[i].dirty => new[i].dirty)
                        /\ (ls[i].blk = r.blk /\ r.write => new[i].dirty)
                        /\ (new[i].dirty => ls[i].dirty \/ (ls[i].blk = r.blk /\ r.write))
      BY DEF Merged
    <2>1. ls[i] \in LineSet /\ r.write \in BOOLEAN
      BY <1>1 DEF RequestSet
    <2>2. new[i] = IF ls[i].blk = r.blk THEN [ls[i] EXCEPT !.dirty = @ \/ r.write] ELSE ls[i]
      BY DEF Merged
    <2> HIDE DEF new, ls
    <2> QED
      BY <2>1, <2>2 DEF LineSet
  <1>3. new \in [DOMAIN ls -> LineSet]
    BY <1>2 DEF Merged
  <1> HIDE DEF new
  <1>4. new \in Seq(LineSet) /\ Len(new) = Len(ls) /\ Unique(new)
    BY <1>1, <1>2, <1>3, InPlace
  <1>5. /\ t.mshr = s.mshr /\ t.wait_list = s.wait_list /\ t.aborted = s.aborted
        /\ t.lines[k] = new /\ \A x \in Caches \ {k} : t.lines[x] = s.lines[x]
        /\ t \in StateSet /\ t.retry = s.retry
    BY <1>1, <1>4 DEF StateSet, new
  <1> HIDE DEF t
  <1>6. \A l \in View(t, k) : \E m \in View(s, k) : l.blk = m.blk /\ (l.lock => m.lock)
    BY <1>2, <1>5 DEF View, LinesOf
  <1>7. \A m \in View(s, k) : \E l \in View(t, k) :
          l.blk = m.blk /\ (m.lock => l.lock) /\ (m.dirty => l.dirty)
    BY <1>2, <1>5 DEF View, LinesOf
  <1>8. StateInv(t) /\ Keeps(s, t, r.blk)
    BY <1>4, <1>5, <1>6, <1>7, OneSetFacts
  <1>9. r.write => DirtyIn(t, r.blk)
    <2>1. ASSUME r.write PROVE \E l \in View(t, k) : l.blk = r.blk /\ l.dirty
      <3>1. \E m \in View(s, k) : m.blk = r.blk
        BY <1>1, <2>1 DEF SetInv
      <3> QED
        BY <1>2, <1>5, <2>1, <3>1 DEF View, LinesOf
    <2> QED
      BY <2>1 DEF DirtyIn
  <1>10. Accepted(t).st = t
    BY DEF Accepted
  <1>11. Touches(s, r, t)
    <2>1. \A x \in Caches \ {k} : View(t, x) = View(s, x)
      BY <1>5 DEF View
    <2>2. /\ \A l \in View(t, k) : \E m \in View(s, k) :
               /\ m.blk = l.blk /\ m.lock = l.lock
               /\ l.dirty => m.dirty \/ (l.blk = r.blk /\ r.write)
          /\ \A m \in View(s, k) : \E l \in View(t, k) : l.blk = m.blk /\ l.lock = m.lock
      BY <1>2, <1>5 DEF View, LinesOf
    <2> QED
      BY <1>5, <2>1, <2>2 DEF Touches
  <1> QED
    BY <1>8, <1>9, <1>10, <1>11 DEF Sound, t

(* A request is sound when it is so where it comes to a miss. *)
LEMMA SentFacts ==
  ASSUME NEW s, StateInv(s), NEW k \in Caches, NEW r \in RequestSet,
         r.write => k[1] = "L1", NEW miss, Misses(s, k, r) => Sound(s, r, miss)
  PROVE  Sound(s, r, Sent(s, k, r, miss))
  <1>1. s \in StateSet /\ SetInv(s, k)
    BY DEF StateInv
  <1>2. CASE Holds(s, k, r.blk) /\ ~Locked(s, k, r.blk)
    BY <1>2, HitFacts DEF Sent
  <1>3. CASE ~(Holds(s, k, r.blk) /\ ~Locked(s, k, r.blk)) /\ r.blk \in s.mshr[k]
    BY <1>3, MergeFacts DEF Sent
  <1>4. CASE /\ ~(Holds(s, k, r.blk) /\ ~Locked(s, k, r.blk)) /\ r.blk \notin s.mshr[k]
             /\ MshrFull(s, k) \/ NoRoom(s, k)
    <2>1. Sent(s, k, r, miss) = Refused(s)
      BY <1>4 DEF Sent
    <2>2. Keeps(s, s, r.blk)
      BY <1>1, KeepsSame
    <2> QED
      BY <2>1, <2>2 DEF Refused, Sound
  <1>5. CASE /\ ~(Holds(s, k, r.blk) /\ ~Locked(s, k, r.blk)) /\ r.blk \notin s.mshr[k]
             /\ ~(MshrFull(s, k) \/ NoRoom(s, k))
    <2>1. ~Holds(s, k, r.blk)
      <3>1. Locked(s, k, r.blk) => r.blk \in s.mshr[k]
        BY <1>1, LineFacts DEF Locked, SetInv
      <3> QED
        BY <1>5, <3>1
    <2>2. Misses(s, k, r)
      BY <1>5, <2>1 DEF Misses
    <2>3. Sent(s, k, r, miss) = miss
      BY <1>5 DEF Sent
    <2> QED
      BY <2>2, <2>3
  <1> QED
    BY <1>2, <1>3, <1>4, <1>5

(* Keeping a refused read, or queueing one for the memory, changes nothing *)
(* in the caches.                                                          *)
LEMMA KeptFacts ==
  ASSUME NEW s, StateInv(s), NEW t, t \in StateSet,
         t.lines = s.lines, t.mshr = s.mshr, t.aborted = s.aborted,
         t.wait_list = s.wait_list
           \/ \E e \in EntrySet : t.wait_list = Append(s.wait_list, e),
         NEW own
  PROVE  /\ StateInv(t) /\ Keeps(s, t, own)
         /\ \A b : DirtyIn(s, b) <=> DirtyIn(t, b)
  <1>1. s \in StateSet /\ s.wait_list \in Seq(EntrySet)
    BY DEF StateInv, StateSet
  <1>2. \A x \in Caches : SetInv(t, x) /\ View(t, x) = View(s, x)
    BY DEF StateInv, SetInv, View
  <1>3. \A b : DirtyIn(s, b) <=> DirtyIn(t, b)
    BY <1>2 DEF DirtyIn
  <1>4. /\ Len(s.wait_list) <= Len(t.wait_list)
        /\ \A i \in DOMAIN s.wait_list : t.wait_list[i] = s.wait_list[i]
    BY <1>1
  <1> QED
    BY <1>2, <1>3, <1>4 DEF StateInv, Keeps

(* What send has allocated, and what comes of it below *)
LEMMA SoundOn ==
  ASSUME NEW s, NEW t, NEW r, NEW q, NEW sent, StateInv(s), StateInv(t), q.blk = r.blk,
         Keeps(s, t, r.blk), r.write => t.aborted \/ DirtyIn(t, r.blk), Sound(t, q, sent),
         r.blk \in Blocks
  PROVE  Sound(s, r, sent)
  <1>1. s \in StateSet /\ t \in StateSet /\ sent.st \in StateSet
    BY DEF StateInv, Sound
  <1>2. Keeps(t, sent.st, r.blk)
    BY DEF Sound
  <1>3. Keeps(s, sent.st, r.blk)
    BY <1>1, <1>2, KeepsOn
  <1>4. t.aborted \/ DirtyIn(t, r.blk) => sent.st.aborted \/ DirtyIn(sent.st, r.blk)
    BY <1>2 DEF Keeps
  <1> QED
    BY <1>3, <1>4 DEF Sound

LEMMA ReadFacts ==
  ASSUME NEW r \in RequestSet
  PROVE  AsRead(r) \in RequestSet /\ AsRead(r) \in ReadSet /\ ~AsRead(r).write
         /\ AsRead(r).blk = r.blk
  BY DEF AsRead, RequestSet, ReadSet

LEMMA ToMemoryFacts ==
  ASSUME NEW s, StateInv(s), NEW r \in RequestSet, Misses(s, LLC, r)
  PROVE  Sound(s, r, ToMemory(s, r))
  <1> DEFINE a == Allocate(s, LLC, r)
             e == [blk |-> r.blk, core |-> r.core, write |-> FALSE, left |-> Latency["L3"]]
             t == [a EXCEPT !.wait_list = Append(@, e)]
  <1>1. StateInv(a) /\ Keeps(s, a, r.blk) /\ (r.write => DirtyIn(a, r.blk))
    BY CacheFacts, AllocateFacts DEF Misses
  <1> HIDE DEF a
  <1>2. e \in EntrySet
    <2>1. Latency["L3"] \in Nat
      BY SizeAssumption DEF Levels
    <2> QED
      BY <2>1 DEF EntrySet, RequestSet
  <1> HIDE DEF e
  <1>3. a \in StateSet
    BY <1>1 DEF StateInv
  <1>4. /\ t \in StateSet /\ t.lines = a.lines /\ t.mshr = a.mshr /\ t.aborted = a.aborted
        /\ t.wait_list = Append(a.wait_list, e)
    <2>1. Append(a.wait_list, e) \in Seq(EntrySet)
      <3>1. a.wait_list \in Seq(EntrySet)
        BY <1>3 DEF StateSet
      <3> QED
        BY <1>2, <3>1
    <2> DEFINE queue == Append(a.wait_list, e)
    <2>2. t = [a EXCEPT !.wait_list = queue]
      BY <1>3 DEF StateSet
    <2> HIDE DEF queue, t
    <2>3. queue \in Seq(EntrySet)
      BY <2>1 DEF queue
    <2>4. /\ t \in StateSet /\ t.lines = a.lines /\ t.mshr = a.mshr /\ t.aborted = a.aborted
          /\ t.wait_list = queue
      BY <1>3, <2>2, <2>3 DEF StateSet
    <2> QED
      BY <2>4 DEF queue
  <1> HIDE DEF t
  <1>5. StateInv(t) /\ Keeps(a, t, r.blk) /\ \A b : DirtyIn(a, b) <=> DirtyIn(t, b)
    BY <1>1, <1>2, <1>4, KeptFacts
  <1>6. Sound(a, r, Accepted(t))
    <2>1. Accepted(t).st = t
      BY DEF Accepted
    <2>2. r.write => DirtyIn(t, r.blk)
      BY <1>1, <1>5
    <2> QED
      BY <1>5, <2>1, <2>2 DEF Sound
  <1>7. Sound(s, r, Accepted(t))
    <2>1. r.blk \in Blocks
      BY DEF RequestSet
    <2> QED
      BY <1>1, <1>6, <2>1, SoundOn
  <1> QED
    BY <1>7 DEF ToMemory, a, e, t

LEMMA PassedFacts ==
  ASSUME NEW s, StateInv(s), NEW k \in Caches, NEW r \in RequestSet, Misses(s, k, r),
         NEW below, \A t : StateInv(t) /\ t = Allocate(s, k, r) => Sound(t, AsRead(r), below)
  PROVE  Sound(s, r, Passed(Allocate(s, k, r), k, r, below))
  <1> DEFINE a == Allocate(s, k, r)
             t == [a EXCEPT !.retry[k] = Append(@, AsRead(r))]
  <1>1. StateInv(a) /\ Keeps(s, a, r.blk) /\ (r.write => DirtyIn(a, r.blk))
    BY AllocateFacts DEF Misses
  <1>2. Sound(a, AsRead(r), below)
    BY <1>1
  <1> HIDE DEF a
  <1>3. a \in StateSet /\ r.blk \in Blocks
    BY <1>1 DEF StateInv, RequestSet
  <1>4. CASE below.ok
    <2>1. Sound(s, r, below)
      BY <1>1, <1>2, <1>3, ReadFacts, SoundOn
    <2> QED
      BY <1>4, <2>1 DEF Passed, a
  <1>5. CASE ~below.ok
    <2>1. /\ t \in StateSet /\ t.lines = a.lines /\ t.mshr = a.mshr
          /\ t.aborted = a.aborted /\ t.wait_list = a.wait_list
      <3> DEFINE kept == [a.retry EXCEPT ![k] = Append(@, AsRead(r))]
      <3>1. AsRead(r) \in ReadSet
        BY ReadFacts
      <3>2. a.retry \in [Caches -> Seq(ReadSet)]
        BY <1>3 DEF StateSet
      <3>3. kept \in [Caches -> Seq(ReadSet)]
        BY <3>1, <3>2
      <3>4. t = [a EXCEPT !.retry = kept]
        BY <1>3 DEF StateSet
      <3> HIDE DEF kept, t
      <3> QED
        BY <1>3, <3>3, <3>4 DEF StateSet
    <2> HIDE DEF t
    <2>2. StateInv(t) /\ Keeps(a, t, r.blk) /\ \A b : DirtyIn(a, b) <=> DirtyIn(t, b)
      BY <1>1, <2>1, KeptFacts
    <2>3. Accepted(t).st = t
      BY DEF Accepted
    <2>4. Sound(a, r, Accepted(t))
      BY <1>1, <2>2, <2>3 DEF Sound
    <2>5. Sound(s, r, Accepted(t))
      BY <1>1, <1>3, <2>4, SoundOn
    <2> QED
      BY <1>5, <2>5 DEF Passed, a, t
  <1> QED
    BY <1>4, <1>5

LEMMA SendLastFacts ==
  ASSUME NEW s, StateInv(s), NEW r \in RequestSet, ~r.write
  PROVE  Sound(s, r, SendLast(s, r))
  BY CacheFacts, SentFacts, ToMemoryFacts DEF SendLast

LEMMA SendNextFacts ==
  ASSUME NEW s, StateInv(s), NEW k \in Caches, NEW r \in RequestSet, r.write => k[1] = "L1"
  PROVE  Sound(s, r, SendNext(s, k, r))
  <1> DEFINE new == Allocate(s, k, r)
             below == SendLast(new, AsRead(r))
             miss == Passed(new, k, r, below)
  <1>1. ASSUME Misses(s, k, r) PROVE Sound(s, r, miss)
    <2>1. \A t : StateInv(t) /\ t = new => Sound(t, AsRead(r), below)
      BY ReadFacts, SendLastFacts
    <2> HIDE DEF below
    <2> QED
      BY <1>1, <2>1, PassedFacts
  <1>2. SendNext(s, k, r) = Sent(s, k, r, miss)
    BY DEF SendNext
  <1> HIDE DEF miss
  <1> QED
    BY <1>1, <1>2, SentFacts

LEMMA SendFacts ==
  ASSUME NEW s, StateInv(s), NEW k \in Caches, NEW r \in RequestSet, r.write => k[1] = "L1"
  PROVE  Sound(s, r, Send(s, k, r))
  <1>1. CASE k = LLC
    <2>1. ~r.write
      BY <1>1, CacheFacts
    <2> QED
      BY <1>1, <2>1, SendLastFacts DEF Send
  <1>2. CASE k # LLC /\ Lower(k) = LLC
    BY <1>2, SendNextFacts DEF Send
  <1>3. CASE k # LLC /\ Lower(k) # LLC
    <2> DEFINE new == Allocate(s, k, r)
               below == SendNext(new, Lower(k), AsRead(r))
               miss == Passed(new, k, r, below)
    <2>1. ASSUME Misses(s, k, r) PROVE Sound(s, r, miss)
      <3>1. \A t : StateInv(t) /\ t = new => Sound(t, AsRead(r), below)
        BY CacheFacts, ReadFacts, SendNextFacts
      <3> HIDE DEF below
      <3> QED
        BY <2>1, <3>1, PassedFacts
    <2>2. Send(s, k, r) = Sent(s, k, r, miss)
      BY <1>3 DEF Send
    <2> HIDE DEF miss
    <2> QED
      BY <2>1, <2>2, SentFacts
  <1> QED
    BY <1>1, <1>2, <1>3

----------------------------------------------------------------------------
(* Cache::callback *)

LEMMA CallbackFacts ==
  ASSUME NEW s, StateInv(s), NEW rs
  PROVE  LET t == Callback(s, rs) IN
         /\ StateInv(t) /\ t.aborted = s.aborted
         /\ \A b : DirtyIn(s, b) => DirtyIn(t, b)
         /\ Released(s, t)
         /\ \A k \in Caches : t.mshr[k] = s.mshr[k] \ Answered(k, rs)
  <1> DEFINE t == Callback(s, rs)
             hit(k) == Answered(k, rs) \cap s.mshr[k]
  <1>1. s \in StateSet /\ \A k \in Caches : SetInv(s, k)
    BY DEF StateInv
  <1>2. /\ t = [s EXCEPT !.lines = t.lines, !.mshr = t.mshr]
        /\ t.lines = [k \in Caches |-> Filled(s.lines[k], hit(k))]
        /\ t.mshr = [k \in Caches |-> s.mshr[k] \ hit(k)]
        /\ t.aborted = s.aborted /\ t.retry = s.retry /\ t.wait_list = s.wait_list
        /\ \A k \in Caches : s.mshr[k] \ hit(k) = s.mshr[k] \ Answered(k, rs)
    BY <1>1 DEF Callback, StateSet
  <1> HIDE DEF t, hit
  <1>3. ASSUME NEW k \in Caches
        PROVE  LET new == Filled(s.lines[k], hit(k)) IN
               /\ new \in [DOMAIN s.lines[k] -> LineSet]
               /\ \A i \in DOMAIN s.lines[k] :
                    /\ new[i].blk = s.lines[k][i].blk /\ new[i].dirty = s.lines[k][i].dirty
                    /\ new[i].lock <=> (s.lines[k][i].lock /\ s.lines[k][i].blk \notin hit(k))
    <2> DEFINE ls == s.lines[k]
               new == Filled(ls, hit(k))
    <2> SUFFICES ASSUME NEW i \in DOMAIN ls
                 PROVE  /\ new[i] \in LineSet
                        /\ new[i].blk = ls[i].blk /\ new[i].dirty = ls[i].dirty
                        /\ new[i].lock <=> (ls[i].lock /\ ls[i].blk \notin hit(k))
      BY DEF Filled
    <2>1. ls[i] \in LineSet
      BY <1>1 DEF StateSet
    <2>2. new[i] = IF ls[i].blk \in hit(k) THEN [ls[i] EXCEPT !.lock = FALSE] ELSE ls[i]
      BY DEF Filled
    <2> HIDE DEF new, ls
    <2> QED
      BY <2>1, <2>2 DEF LineSet
  <1>4. ASSUME NEW k \in Caches
        PROVE  /\ t.lines[k] \in Seq(LineSet) /\ SetInv(t, k)
               /\ \A l \in View(s, k) : \E m \in View(t, k) : m.blk = l.blk /\ m.dirty = l.dirty
               /\ t.mshr[k] \subseteq s.mshr[k]
               /\ \A l \in View(t, k) : \E m \in View(s, k) :
                    /\ m.blk = l.blk /\ m.dirty = l.dirty
                    /\ l.lock <=> m.lock /\ m.blk \in t.mshr[k]
               /\ \A m \in View(s, k) : \E l \in View(t, k) :
                    /\ m.blk = l.blk /\ m.dirty = l.dirty
                    /\ l.lock <=> m.lock /\ m.blk \in t.mshr[k]
    <2> DEFINE ls == s.lines[k]
               new == t.lines[k]
    <2>1. /\ new \in [DOMAIN ls -> LineSet]
          /\ \A i \in DOMAIN ls :
               /\ new[i].blk = ls[i].blk /\ new[i].dirty = ls[i].dirty
               /\ new[i].lock <=> (ls[i].lock /\ ls[i].blk \notin hit(k))
      BY <1>2, <1>3
    <2>2. SetInv(s, k) /\ ls \in Seq(LineSet) /\ Unique(ls)
      BY <1>1 DEF SetInv, StateSet
    <2>3. new \in Seq(LineSet) /\ Len(new) = Len(ls) /\ Unique(new)
      BY <2>1, <2>2, InPlace
    <2>4. t.mshr[k] = s.mshr[k] \ hit(k)
      BY <1>2
    <2>5. IsFiniteSet(t.mshr[k]) /\ Cardinality(t.mshr[k]) <= MshrNum[k[1]]
      <3>1. /\ IsFiniteSet(s.mshr[k]) /\ Cardinality(s.mshr[k]) \in Nat
            /\ Cardinality(s.mshr[k]) <= MshrNum[k[1]] /\ MshrNum[k[1]] \in Nat
        BY <2>2, FS_CardinalityType, LevelFacts DEF SetInv
      <3>2. IsFiniteSet(t.mshr[k]) /\ Cardinality(t.mshr[k]) <= Cardinality(s.mshr[k])
        BY <2>4, <3>1, FS_Subset
      <3>3. Cardinality(t.mshr[k]) \in Nat
        BY <3>2, FS_CardinalityType
      <3> QED
        BY <3>1, <3>2, <3>3
    <2>6. \A l \in View(t, k) : l.lock => l.blk \in t.mshr[k]
      <3> SUFFICES ASSUME NEW i \in DOMAIN ls, new[i].lock PROVE new[i].blk \in t.mshr[k]
        BY <2>1 DEF View, LinesOf
      <3>1. ls[i].lock /\ ls[i].blk \notin hit(k) /\ ls[i] \in View(s, k)
        BY <2>1 DEF View, LinesOf
      <3> QED
        BY <2>1, <2>2, <2>4, <3>1 DEF SetInv
    <2>7. ASSUME k[1] = "L1", NEW b \in t.mshr[k]
          PROVE  \E l \in View(t, k) : l.blk = b /\ l.lock
      <3>1. PICK i \in DOMAIN ls : ls[i].blk = b /\ ls[i].lock
        BY <2>2, <2>4, <2>7 DEF SetInv, View, LinesOf
      <3>2. new[i].blk = b /\ new[i].lock
        BY <2>1, <2>4, <2>7, <3>1
      <3> QED
        BY <2>1, <3>2 DEF View, LinesOf
    <2>8. \A l \in View(s, k) : \E m \in View(t, k) : m.blk = l.blk /\ m.dirty = l.dirty
      BY <2>1 DEF View, LinesOf
    <2>9. Len(new) <= Assoc[k[1]]
      BY <2>2, <2>3 DEF SetInv
    <2>10. \A i \in DOMAIN ls :
             /\ new[i].blk = ls[i].blk /\ new[i].dirty = ls[i].dirty
             /\ new[i].lock <=> ls[i].lock /\ ls[i].blk \in t.mshr[k]
      <3>1. \A i \in DOMAIN ls : ls[i].lock => ls[i].blk \in s.mshr[k]
        BY <2>2 DEF SetInv, View, LinesOf
      <3> QED
        BY <2>1, <2>4, <3>1
    <2>11. /\ \A l \in View(t, k) : \E m \in View(s, k) :
                /\ m.blk = l.blk /\ m.dirty = l.dirty
                /\ l.lock <=> m.lock /\ m.blk \in t.mshr[k]
           /\ \A m \in View(s, k) : \E l \in View(t, k) :
                /\ m.blk = l.blk /\ m.dirty = l.dirty
                /\ l.lock <=> m.lock /\ m.blk \in t.mshr[k]
      BY <2>1, <2>10 DEF View, LinesOf
    <2> QED
      BY <2>3, <2>4, <2>5, <2>6, <2>7, <2>8, <2>9, <2>11 DEF SetInv
  <1>5. t \in StateSet
    <2>1. t.lines \in [Caches -> Seq(LineSet)]
      BY <1>2, <1>4
    <2>2. t.mshr \in [Caches -> SUBSET Blocks]
      BY <1>1, <1>2 DEF StateSet
    <2> QED
      BY <1>1, <1>2, <2>1, <2>2 DEF StateSet
  <1>6. ASSUME NEW b, DirtyIn(s, b) PROVE DirtyIn(t, b)
    BY <1>4, <1>6 DEF DirtyIn
  <1>7. Released(s, t)
    BY <1>2, <1>4 DEF Released
  <1>8. \A k \in Caches : t.mshr[k] = s.mshr[k] \ Answered(k, rs)
    BY <1>2
  <1> QED
    BY <1>2, <1>4, <1>5, <1>6, <1>7, <1>8 DEF StateInv, t

----------------------------------------------------------------------------
(* The inductive invariant *)

CacheInv ==
  /\ StateInv(State)
  /\ waiting \in [Cores -> [Blocks -> Nat]] /\ place \in Nat \ {0}
  /\ unwritten \subseteq Blocks
  /\ aborted \/ \A b \in unwritten : DirtyIn(State, b)

LEMMA InitFacts == Init => CacheInv
  <1> SUFFICES ASSUME Init PROVE CacheInv
    OBVIOUS
  <1>1. State \in StateSet
    <2>1. /\ lines \in [Caches -> Seq(LineSet)] /\ mshr \in [Caches -> SUBSET Blocks]
          /\ retry \in [Caches -> Seq(ReadSet)] /\ hit_list \in SUBSET HitSet
          /\ wait_list \in Seq(EntrySet) /\ aborted \in BOOLEAN
      <3>1. <<>> \in Seq(LineSet) /\ <<>> \in Seq(ReadSet) /\ <<>> \in Seq(EntrySet)
        OBVIOUS
      <3> QED
        BY <3>1 DEF Init
    <2> QED
      BY <2>1 DEF State, StateSet
  <1>2. ASSUME NEW k \in Caches PROVE SetInv(State, k)
    <2>1. State.lines[k] = <<>> /\ State.mshr[k] = {} /\ View(State, k) = {}
      BY <1>2 DEF Init, State, View, LinesOf
    <2>2. Assoc[k[1]] \in Nat /\ MshrNum[k[1]] \in Nat
      BY LevelFacts
    <2> QED
      BY <2>1, <2>2, FS_EmptySet DEF SetInv, Unique
  <1> QED
    BY <1>1, <1>2 DEF CacheInv, StateInv, Init

LEMMA StepFacts ==
  ASSUME NEW t, StateInv(t), Become(t),
         waiting' \in [Cores -> [Blocks -> Nat]], place' \in Nat \ {0},
         unwritten' \subseteq Blocks, t.aborted \/ \A b \in unwritten' : DirtyIn(t, b)
  PROVE  CacheInv'
  <1>1. t \in StateSet
    BY DEF StateInv
  <1>2. State' = t
    BY <1>1 DEF Become, State, StateSet
  <1>3. aborted' = t.aborted
    BY DEF Become
  <1> QED
    BY <1>2, <1>3 DEF CacheInv

LEMMA KeptWrites ==
  ASSUME CacheInv, NEW t, StateInv(t), NEW own, Keeps(State, t, own)
  PROVE  t.aborted \/ \A b \in unwritten \ WrittenBack(t) : DirtyIn(t, b)
  <1>1. State.aborted = aborted /\ State.wait_list = wait_list
    BY DEF State
  <1>2. ASSUME ~t.aborted, NEW b \in unwritten \ WrittenBack(t) PROVE DirtyIn(t, b)
    <2>1. ~aborted /\ DirtyIn(State, b) /\ b \in Blocks
      BY <1>1, <1>2 DEF CacheInv, Keeps
    <2>2. CASE \E c \in Cores : Holds(t, L1(c), b) /\ LineOf(t, L1(c), b).dirty
      BY <2>2, CacheFacts, LineFacts DEF DirtyIn, StateInv, SetInv
    <2>3. CASE ~\E c \in Cores : Holds(t, L1(c), b) /\ LineOf(t, L1(c), b).dirty
      <3>1. ~WrittenTo(State, t, b)
        BY <1>1, <1>2, <2>1, <2>3 DEF WrittenTo, WrittenBack
      <3> QED
        BY <1>2, <2>1, <3>1 DEF Keeps
    <2> QED
      BY <2>2, <2>3
  <1> QED
    BY <1>2

LEMMA Unmoved ==
  ASSUME CacheInv, UNCHANGED <<cacheVars, waiting, unwritten>>, place' \in Nat \ {0}
  PROVE  CacheInv'
  <1>1. Become(State)
    BY DEF Become, State, cacheVars
  <1>2. State.aborted = aborted
    BY DEF State
  <1> QED
    BY <1>1, <1>2, StepFacts DEF CacheInv

LEMMA ResendFacts ==
  ASSUME CacheInv, NEW k \in Caches \ {LLC}, Resend(k)
  PROVE  CacheInv'
  <1> DEFINE sent == Send(State, Lower(k), retry[k][place])
             rest == RemoveAt(retry[k], place)
             t == [sent.st EXCEPT !.retry[k] = rest]
  <1>1. place \in Nat \ {0} /\ place <= Len(retry[k]) /\ State \in StateSet
    BY DEF Resend, CacheInv, StateInv
  <1>2. retry[k] \in Seq(ReadSet) /\ place \in DOMAIN retry[k] /\ retry[k][place] \in ReadSet
    <2>1. retry[k] \in Seq(ReadSet)
      BY <1>1 DEF State, StateSet
    <2> QED
      BY <1>1, <2>1
  <1>3. rest \in Seq(ReadSet) /\ Len(rest) \in Nat
    BY <1>2, RemoveAtFacts
  <1>4. retry[k][place] \in RequestSet /\ ~retry[k][place].write
    BY <1>2 DEF ReadSet, RequestSet
  <1>5. Sound(State, retry[k][place], sent)
    BY <1>4, CacheFacts, SendFacts DEF CacheInv
  <1>6. CASE /\ Become(t) /\ unwritten' = unwritten \ WrittenBack(sent.st)
             /\ place' = AfterErased(rest) /\ waiting' = waiting
    <2>1. sent.st \in StateSet /\ StateInv(sent.st) /\ Keeps(State, sent.st, retry[k][place].blk)
      BY <1>5 DEF Sound, StateInv
    <2> DEFINE new == [sent.st.retry EXCEPT ![k] = rest]
    <2> HIDE DEF sent, rest
    <2>2. /\ t \in StateSet /\ t.lines = sent.st.lines /\ t.mshr = sent.st.mshr
          /\ t.aborted = sent.st.aborted /\ t.wait_list = sent.st.wait_list
      <3>1. new \in [Caches -> Seq(ReadSet)]
        BY <1>3, <2>1 DEF StateSet
      <3>2. t = [sent.st EXCEPT !.retry = new]
        BY <2>1 DEF StateSet
      <3> HIDE DEF new, t
      <3> QED
        BY <2>1, <3>1, <3>2 DEF StateSet
    <2> HIDE DEF t
    <2>3. StateInv(t) /\ \A b : DirtyIn(sent.st, b) <=> DirtyIn(t, b)
      BY <2>1, <2>2, KeptFacts
    <2>4. sent.st.aborted \/ \A b \in unwritten \ WrittenBack(sent.st) : DirtyIn(sent.st, b)
      BY <2>1, KeptWrites
    <2>5. place' \in Nat \ {0}
      BY <1>1, <1>3, <1>6 DEF AfterErased
    <2> QED
      BY <1>6, <2>2, <2>3, <2>4, <2>5, StepFacts DEF CacheInv
  <1>7. CASE place' = place + 1 /\ UNCHANGED <<cacheVars, unwritten>> /\ waiting' = waiting
    <2>1. place' \in Nat \ {0}
      BY <1>1, <1>7
    <2> QED
      BY <1>7, <2>1, Unmoved
  <1> QED
    BY <1>6, <1>7 DEF Resend

LEMMA ExecuteFacts ==
  ASSUME CacheInv, NEW c \in Cores, NEW write \in BOOLEAN, NEW b \in Uses[c],
         Execute(c, b, write)
  PROVE  CacheInv'
  <1> DEFINE r == [blk |-> b, core |-> c, write |-> write]
             sent == Send(State, L1(c), r)
  <1>1. b \in Blocks
    BY CoreAssumption
  <1>2. r \in RequestSet /\ r.blk = b /\ r.write = write
    BY <1>1 DEF RequestSet
  <1> HIDE DEF r
  <1>3. Sound(State, r, sent)
    BY <1>2, CacheFacts, SendFacts DEF CacheInv
  <1>4. /\ sent.ok /\ Become(sent.st)
        /\ unwritten' = (unwritten \ WrittenBack(sent.st)) \cup (IF write THEN {b} ELSE {})
    BY DEF Execute, r
  <1> HIDE DEF sent
  <1>5. sent.st.aborted \/ \A x \in unwritten \ WrittenBack(sent.st) : DirtyIn(sent.st, x)
    BY <1>3, KeptWrites DEF Sound
  <1>6. write => sent.st.aborted \/ DirtyIn(sent.st, b)
    BY <1>2, <1>3, <1>4 DEF Sound
  <1>7. waiting' \in [Cores -> [Blocks -> Nat]]
    <2>1. waiting \in [Cores -> [Blocks -> Nat]]
      BY DEF CacheInv
    <2>2. waiting' = waiting \/ waiting' = [waiting EXCEPT ![c][b] = @ + 1]
      BY DEF Execute
    <2> QED
      BY <1>1, <2>1, <2>2
  <1>8. place' = place
    BY DEF Execute, loopVars
  <1>9. unwritten' \subseteq Blocks
    BY <1>1, <1>4 DEF CacheInv
  <1>10. sent.st.aborted \/ \A x \in unwritten' : DirtyIn(sent.st, x)
    BY <1>4, <1>5, <1>6
  <1> QED
    BY <1>3, <1>4, <1>7, <1>8, <1>9, <1>10, StepFacts DEF Sound, CacheInv

(* The windows stay windows when answers come. *)
LEMMA ReadyFacts ==
  ASSUME CacheInv, NEW rs
  PROVE  Ready(rs) \in [Cores -> [Blocks -> Nat]]
  BY DEF Ready, CacheInv

(* The callbacks end a step that has not changed what is dirty. *)
LEMMA CalledFacts ==
  ASSUME CacheInv, NEW s, StateInv(s), s.lines = lines, s.aborted = aborted, NEW rs,
         Become(Callback(s, rs)), waiting' = Ready(rs), place' = place, unwritten' = unwritten
  PROVE  CacheInv'
  <1> DEFINE t == Callback(s, rs)
  <1>1. StateInv(t) /\ t.aborted = s.aborted /\ \A b : DirtyIn(s, b) => DirtyIn(t, b)
    BY CallbackFacts
  <1>2. \A b : DirtyIn(State, b) <=> DirtyIn(s, b)
    BY DEF DirtyIn, View, State
  <1> HIDE DEF t
  <1>3. t.aborted \/ \A b \in unwritten' : DirtyIn(t, b)
    BY <1>1, <1>2 DEF CacheInv
  <1>4. Become(t)
    BY DEF t
  <1> QED
    BY <1>1, <1>3, <1>4, ReadyFacts, StepFacts DEF CacheInv

LEMMA CacheSystemTickFacts ==
  ASSUME CacheInv, NEW taken, CacheSystemTick(taken)
  PROVE  CacheInv'
  <1> DEFINE hits == {h \in hit_list : h.left = 1}
             new_hits == {[h EXCEPT !.left = @ - 1] : h \in hit_list \ hits}
             s == [State EXCEPT !.wait_list = wait_list', !.hit_list = new_hits]
  <1>1. /\ State \in StateSet /\ wait_list \in Seq(EntrySet) /\ hit_list \subseteq HitSet
    BY DEF CacheInv, StateInv, StateSet, State
  <1>2. wait_list' \in Seq(EntrySet)
    <2> DEFINE S == DOMAIN wait_list \ taken
    <2>1. PICK kept \in OrdersOf(S) :
            wait_list' = [i \in DOMAIN kept |-> Elapsed[kept[i]]]
      BY DEF CacheSystemTick, Takes
    <2>2. IsFiniteSet(S) /\ Cardinality(S) \in Nat
      <3>1. DOMAIN wait_list = 1 .. Len(wait_list) /\ Len(wait_list) \in Nat
        BY <1>1
      <3>2. IsFiniteSet(1 .. Len(wait_list)) /\ S \subseteq 1 .. Len(wait_list)
        BY <3>1, FS_Interval
      <3>3. IsFiniteSet(S)
        BY <3>2, FS_Subset
      <3> QED
        BY <3>3, FS_CardinalityType
    <2>3. ASSUME NEW i \in DOMAIN wait_list PROVE Elapsed[i] \in EntrySet
      <3>1. wait_list[i] \in EntrySet
        BY <1>1
      <3>2. Later(wait_list[i].left) \in Nat
        BY <3>1 DEF Later, EntrySet
      <3>3. Elapsed[i] = [wait_list[i] EXCEPT !.left = Later(wait_list[i].left)]
        BY DEF Elapsed
      <3> QED
        BY <3>1, <3>2, <3>3 DEF EntrySet
    <2>4. kept \in [1 .. Cardinality(S) -> S]
      BY <2>1 DEF OrdersOf
    <2>5. wait_list' \in [1 .. Cardinality(S) -> EntrySet]
      BY <2>1, <2>3, <2>4
    <2> HIDE DEF S
    <2> QED
      BY <2>2, <2>5
  <1>3. new_hits \subseteq HitSet
    <2> SUFFICES ASSUME NEW h \in hit_list, h.left # 1
                 PROVE  [h EXCEPT !.left = @ - 1] \in HitSet
      OBVIOUS
    <2> QED
      BY <1>1 DEF HitSet
  <1> HIDE DEF new_hits
  <1>4. /\ s \in StateSet /\ s.lines = lines /\ s.mshr = mshr /\ s.aborted = aborted
    BY <1>1, <1>2, <1>3 DEF StateSet, State
  <1>5. StateInv(s)
    BY <1>4 DEF CacheInv, StateInv, SetInv, View, State
  <1>6. /\ Become(Callback(s, hits)) /\ waiting' = Ready(hits)
        /\ place' = place /\ unwritten' = unwritten
    BY DEF CacheSystemTick, loopVars, new_hits
  <1> HIDE DEF s, hits
  <1> QED
    BY <1>4, <1>5, <1>6, CalledFacts

LEMMA AnswerFacts ==
  ASSUME CacheInv, NEW c \in Cores, NEW b \in Uses[c], Answer(c, b)
  PROVE  CacheInv'
  <1> DEFINE answers == {[blk |-> b, core |-> c]}
  <1>1. /\ Become(Callback(State, answers)) /\ waiting' = Ready(answers)
        /\ place' = place /\ unwritten' = unwritten
    BY DEF Answer, loopVars
  <1>2. StateInv(State) /\ State.lines = lines /\ State.aborted = aborted
    BY DEF CacheInv, State
  <1> HIDE DEF answers
  <1> QED
    BY <1>1, <1>2, CalledFacts

LEMMA CachesFinite == IsFiniteSet(Caches)
  <1>1. IsFiniteSet(Levels)
    <2>1. IsFiniteSet({"L1"}) /\ IsFiniteSet({"L2"}) /\ IsFiniteSet({"L3"})
      BY FS_Singleton
    <2>2. IsFiniteSet(({"L1"} \cup {"L2"}) \cup {"L3"})
      BY <2>1, FS_Union
    <2>3. Levels = ({"L1"} \cup {"L2"}) \cup {"L3"}
      BY DEF Levels
    <2> QED
      BY <2>2, <2>3
  <1>2. IsFiniteSet(Levels \X Cores)
    BY <1>1, CoreAssumption, FS_Product
  <1>3. Caches \subseteq Levels \X Cores
    BY CoreAssumption DEF Caches, L1, LLC, Levels, Cores
  <1> QED
    BY <1>2, <1>3, FS_Subset

LEMMA SwitchFacts ==
  ASSUME CacheInv, NEW process \in Processes, NEW c \in process, TryContextSwitch(c, process)
  PROVE  CacheInv'
  <1> DEFINE Clean(ls) == [i \in DOMAIN ls |-> [ls[i] EXCEPT !.dirty = FALSE]]
             t == [State EXCEPT !.lines = lines', !.wait_list = wait_list']
  <1>1. PICK refused \in SUBSET DirtyCopies : Flush(refused)
    BY DEF TryContextSwitch
  <1>2. State \in StateSet /\ \A k \in Caches : SetInv(State, k) /\ lines[k] \in Seq(LineSet)
    BY DEF CacheInv, StateInv, StateSet, State
  <1>3. lines' = [k \in Caches |-> Clean(lines[k])]
    BY <1>1 DEF Flush
  <1>4. ASSUME NEW k \in Caches
        PROVE  LET new == Clean(lines[k]) IN
               /\ new \in Seq(LineSet) /\ Len(new) = Len(lines[k]) /\ Unique(new)
               /\ DOMAIN new = DOMAIN lines[k]
               /\ \A i \in DOMAIN lines[k] : new[i].blk = lines[k][i].blk
                                            /\ new[i].lock = lines[k][i].lock
    <2> DEFINE ls == lines[k]
               new == Clean(ls)
    <2>1. ls \in Seq(LineSet) /\ Unique(ls)
      BY <1>2 DEF SetInv, State
    <2>2. ASSUME NEW i \in DOMAIN ls
          PROVE  new[i] \in LineSet /\ new[i].blk = ls[i].blk /\ new[i].lock = ls[i].lock
      <3>1. ls[i] \in LineSet
        BY <2>1
      <3>2. new[i] = [ls[i] EXCEPT !.dirty = FALSE]
        OBVIOUS
      <3> HIDE DEF new, ls
      <3> QED
        BY <3>1, <3>2 DEF LineSet
    <2>3. new \in [DOMAIN ls -> LineSet]
      BY <2>2
    <2> HIDE DEF new, ls
    <2>4. new \in Seq(LineSet) /\ Len(new) = Len(ls) /\ Unique(new)
      BY <2>1, <2>2, <2>3, InPlace
    <2> QED
      BY <2>2, <2>3, <2>4 DEF new, ls
  <1> HIDE DEF Clean
  <1>5. lines' \in [Caches -> Seq(LineSet)]
    BY <1>3, <1>4
  <1>6. wait_list' \in Seq(EntrySet)
    <2>1. PICK writes \in OrdersOf(refused) :
            wait_list' = wait_list \o [i \in DOMAIN writes |-> WriteBack(writes[i][2], FirstCore, 0)]
      BY <1>1 DEF Flush
    <2> DEFINE flushed == [i \in DOMAIN writes |-> WriteBack(writes[i][2], FirstCore, 0)]
    <2>2. refused \subseteq Caches \X Blocks
      BY DEF DirtyCopies
    <2>3. Cardinality(refused) \in Nat
      <3>1. IsFiniteSet(Caches \X Blocks)
        BY CoreAssumption, CachesFinite, FS_Product
      <3>2. IsFiniteSet(refused)
        BY <2>2, <3>1, FS_Subset
      <3> QED
        BY <3>2, FS_CardinalityType
    <2>4. writes \in [1 .. Cardinality(refused) -> refused]
      BY <2>1 DEF OrdersOf
    <2>5. ASSUME NEW b \in Blocks PROVE WriteBack(b, FirstCore, 0) \in EntrySet
      BY CacheFacts DEF WriteBack, EntrySet
    <2>6. \A i \in DOMAIN writes : writes[i][2] \in Blocks
      BY <2>2, <2>4
    <2>7. flushed \in [1 .. Cardinality(refused) -> EntrySet]
      BY <2>4, <2>5, <2>6
    <2> HIDE DEF flushed
    <2>8. flushed \in Seq(EntrySet)
      BY <2>3, <2>7
    <2>9. wait_list \in Seq(EntrySet)
      BY <1>2 DEF State, StateSet
    <2>10. wait_list' = wait_list \o flushed
      BY <2>1 DEF flushed
    <2> QED
      BY <2>8, <2>9, <2>10
  <1>7. /\ t \in StateSet /\ t.lines = lines' /\ t.mshr = State.mshr /\ Become(t)
    BY <1>1, <1>2, <1>5, <1>6 DEF State, StateSet, Flush, Become
  <1> HIDE DEF t
  <1>8. ASSUME NEW k \in Caches PROVE SetInv(t, k)
    <2>1. /\ t.lines[k] = Clean(lines[k]) /\ State.lines[k] = lines[k]
          /\ t.mshr[k] = State.mshr[k]
      BY <1>3, <1>7 DEF State
    <2>2. /\ Len(t.lines[k]) = Len(State.lines[k]) /\ Unique(t.lines[k])
          /\ DOMAIN t.lines[k] = DOMAIN State.lines[k]
          /\ \A i \in DOMAIN State.lines[k] : /\ t.lines[k][i].blk = State.lines[k][i].blk
                                              /\ t.lines[k][i].lock = State.lines[k][i].lock
      BY <1>4, <2>1
    <2>3. SetInv(State, k)
      BY <1>2
    <2>4. \A l \in View(t, k) : l.lock => l.blk \in t.mshr[k]
      BY <2>1, <2>2, <2>3 DEF SetInv, View, LinesOf
    <2>5. k[1] = "L1" => \A b \in t.mshr[k] : \E l \in View(t, k) : l.blk = b /\ l.lock
      <3> SUFFICES ASSUME k[1] = "L1", NEW b \in t.mshr[k]
                   PROVE  \E i \in DOMAIN t.lines[k] : t.lines[k][i].blk = b /\ t.lines[k][i].lock
        BY DEF View, LinesOf
      <3>1. PICK i \in DOMAIN State.lines[k] :
              State.lines[k][i].blk = b /\ State.lines[k][i].lock
        BY <2>1, <2>3 DEF SetInv, View, LinesOf
      <3> QED
        BY <2>2, <3>1
    <2> QED
      BY <2>1, <2>2, <2>3, <2>4, <2>5 DEF SetInv
  <1>9. waiting' = waiting /\ place' = place /\ unwritten' = {}
    BY <1>1 DEF TryContextSwitch, loopVars, Flush
  <1> QED
    BY <1>7, <1>8, <1>9, StepFacts DEF CacheInv, StateInv

LEMMA NextKeepsCacheInv == CacheInv /\ [Next]_vars => CacheInv'
  <1> SUFFICES ASSUME CacheInv, [Next]_vars PROVE CacheInv'
    OBVIOUS
  <1>1. ASSUME NEW c \in Cores, CoreTick(c) PROVE CacheInv'
    BY <1>1, Unmoved DEF CoreTick
  <1>2. ASSUME NEW k \in Caches \ {LLC}, Resend(k) PROVE CacheInv'
    BY <1>2, ResendFacts
  <1>3. CASE EndLoop
    BY <1>3, Unmoved DEF EndLoop
  <1>4. ASSUME NEW c \in Cores, NEW write \in BOOLEAN, NEW b \in Uses[c], Execute(c, b, write)
        PROVE  CacheInv'
    BY <1>4, ExecuteFacts
  <1>5. ASSUME NEW taken \in SUBSET Due, CacheSystemTick(taken) PROVE CacheInv'
    BY <1>5, CacheSystemTickFacts
  <1>6. ASSUME NEW c \in Cores, NEW b \in Uses[c], Answer(c, b) PROVE CacheInv'
    BY <1>6, AnswerFacts
  <1>7. ASSUME NEW process \in Processes, NEW c \in process, TryContextSwitch(c, process)
        PROVE  CacheInv'
    BY <1>7, SwitchFacts
  <1>8. CASE UNCHANGED vars
    BY <1>8, Unmoved DEF vars, loopVars, CacheInv
  <1> QED
    BY <1>1, <1>2, <1>3, <1>4, <1>5, <1>6, <1>7, <1>8 DEF Next

LEMMA CacheInvHolds == Spec => []CacheInv
  BY InitFacts, NextKeepsCacheInv, PTL DEF Spec

----------------------------------------------------------------------------
(* Theorems *)

(* The types of the state, with the sizes of Cache.cpp: whatever misses,   *)
(* merges, hits, retries, evictions and callbacks do, a set never holds    *)
(* more lines than ways or two lines of a block, and a cache never has     *)
(* more MSHRs than entries (Cache::send, allocate_line, Cache::callback).  *)
THEOREM CacheTypeOK == Spec => []TypeOK
  <1>1. CacheInv => TypeOK
    <2> SUFFICES ASSUME CacheInv PROVE TypeOK
      OBVIOUS
    <2>1. State \in StateSet /\ \A k \in Caches : SetInv(State, k)
      BY DEF CacheInv, StateInv
    <2>2. /\ lines \in [Caches -> Seq(LineSet)] /\ mshr \in [Caches -> SUBSET Blocks]
          /\ retry \in [Caches -> Seq(ReadSet)] /\ hit_list \subseteq HitSet
          /\ wait_list \in Seq(EntrySet)
      BY <2>1 DEF State, StateSet
    <2>3. \A k \in Caches :
            /\ Len(lines[k]) <= Assoc[k[1]] /\ Cardinality(mshr[k]) <= MshrNum[k[1]]
            /\ \A i, j \in DOMAIN lines[k] : i # j => lines[k][i].blk # lines[k][j].blk
      BY <2>1 DEF SetInv, Unique, State
    <2> QED
      BY <2>2, <2>3 DEF TypeOK, CacheInv, LineSet, ReadSet, HitSet, EntrySet
  <1> QED
    BY <1>1, CacheInvHolds, PTL

(* No write is forgotten: while no assertion of the code has failed, a     *)
(* block written since its last write to memory is dirty in some cache,    *)
(* whatever hits, merges, evictions from any level and refused write-backs *)
(* have come since (Cache::send, evict, invalidate, evictline).            *)
WritesAreKept == ~aborted => \A b \in unwritten : \E k \in Caches : Dirty(k, b)

THEOREM CacheKeepsWrites == Spec => []WritesAreKept
  <1>1. CacheInv => WritesAreKept
    <2> SUFFICES ASSUME CacheInv, ~aborted, NEW b \in unwritten
                 PROVE  \E k \in Caches : Dirty(k, b)
      BY DEF WritesAreKept
    <2>1. PICK k \in Caches : \E l \in View(State, k) : l.blk = b /\ l.dirty
      BY DEF CacheInv, DirtyIn
    <2>2. State \in StateSet /\ Unique(State.lines[k])
      BY DEF CacheInv, StateInv, SetInv
    <2> QED
      BY <2>1, <2>2, LineFacts DEF Dirty
  <1> QED
    BY <1>1, CacheInvHolds, PTL

(* A locked line always has its MSHR, and in a first-level cache the MSHRs *)
(* are the locked lines: no callback, eviction or retry leaves an entry    *)
(* there that nothing would free, nor unlocks a line that has no data      *)
(* (hit_mshr, Cache::callback, evict).                                     *)
LocksHaveMshrs ==
  \A k \in Caches : LET locked == {b \in Blocks : Locked(State, k, b)} IN
    locked \subseteq mshr[k] /\ (k[1] = "L1" => mshr[k] = locked)

THEOREM CacheLocksHaveMshrs == Spec => []LocksHaveMshrs
  <1>1. CacheInv => LocksHaveMshrs
    <2> SUFFICES ASSUME CacheInv, NEW k \in Caches
                 PROVE  LET locked == {b \in Blocks : Locked(State, k, b)} IN
                        locked \subseteq mshr[k] /\ (k[1] = "L1" => mshr[k] = locked)
      BY DEF LocksHaveMshrs
    <2>1. /\ State \in StateSet /\ SetInv(State, k) /\ Unique(State.lines[k])
          /\ State.mshr[k] = mshr[k] /\ mshr[k] \subseteq Blocks
      BY DEF CacheInv, StateInv, SetInv, State, StateSet
    <2>2. ASSUME NEW b, Locked(State, k, b) PROVE b \in mshr[k]
      BY <2>1, <2>2, LineFacts DEF Locked, SetInv
    <2>3. ASSUME k[1] = "L1", NEW b \in mshr[k] PROVE Locked(State, k, b)
      BY <2>1, <2>3, LineFacts DEF Locked, SetInv
    <2> QED
      BY <2>1, <2>2, <2>3
  <1> QED
    BY <1>1, CacheInvHolds, PTL

----------------------------------------------------------------------------
(* Misses that wait for their data *)

(* Whether the miss of b in k is kept to be sent again *)
Kept(s, k, b) == \E i \in DOMAIN s.retry[k] : s.retry[k][i].blk = b

(* An MSHR has a locked line.                                              *)
Waiting(s) == \A k \in Caches : \A b \in s.mshr[k] : HasLock(s, k, b)

(* A line with its data has one with the data below.                       *)
Backed(s) ==
  \A k \in Caches \ {LLC}, b \in Blocks : HasData(s, k, b) => HasData(s, Lower(k), b)

(* A miss that waits has come to the level below, or is kept to be sent    *)
(* again; but for those of E, whose send is under way.                     *)
Asked(s, E) ==
  \A k \in Caches \ {LLC} : \A b \in s.mshr[k] :
    Kept(s, k, b) \/ HasLine(s, Lower(k), b) \/ <<k, b>> \in E

Linked(s, E) == ~s.aborted /\ Waiting(s) /\ Backed(s) /\ Asked(s, E)

(* What a request may not do on its way from s to t: take away its own     *)
(* lines, make another block dirty, or write back one that is then dirty   *)
(* elsewhere than in a first-level cache.                                  *)
Follows(s, t, r) ==
  /\ \A x \in Caches : HasLine(s, x, r.blk) => HasLine(t, x, r.blk)
  /\ \A b \in Blocks : DirtyIn(t, b) => DirtyIn(s, b) \/ (b = r.blk /\ r.write)
  /\ \A b \in Blocks : WrittenTo(s, t, b) =>
       \A x \in Caches : \A l \in View(t, x) : l.blk = b /\ l.dirty => x[1] = "L1"

LEMMA HoldsLine ==
  ASSUME NEW s, NEW k, NEW b
  PROVE  Holds(s, k, b) <=> HasLine(s, k, b)
  BY DEF Holds, HasLine, View, LinesOf

LEMMA NotWritten ==
  ASSUME NEW s \in StateSet, NEW t, t.wait_list = s.wait_list, NEW b
  PROVE  ~WrittenTo(s, t, b)
  <1>1. s.wait_list \in Seq(EntrySet)
    BY DEF StateSet
  <1> QED
    BY <1>1 DEF WrittenTo

(* What invalidate comes to below a line, it comes to above as well. *)
LEMMA GoneAbove ==
  ASSUME NEW s, NEW k \in Caches, NEW b, NEW x \in Caches \ {LLC}, HasLine(s, x, b),
         Lower(x) \in {k} \cup Reached(s, k, b)
  PROVE  x \in Reached(s, k, b)
  <1>1. Holds(s, x, b)
    BY HoldsLine
  <1>2. CASE Lower(x) = k
    BY <1>1, <1>2 DEF Reached, Above
  <1>3. CASE Lower(x) # k
    <2>1. Lower(x) \in Above(k) /\ Holds(s, Lower(x), b)
      BY <1>3 DEF Reached
    <2>2. Lower(x) # LLC /\ Lower(Lower(x)) = LLC
      BY <2>1, CacheFacts
    <2>3. k = LLC
      BY <2>1, <2>2 DEF Above
    <2> QED
      BY <1>1, <2>1, <2>3 DEF Reached, Above
  <1> QED
    BY <1>2, <1>3

(* Where the lines there are and their locks are the same *)
LEMMA LinkedSame ==
  ASSUME NEW s, NEW t, NEW E, Linked(s, E),
         t.mshr = s.mshr, t.retry = s.retry, t.aborted = s.aborted,
         \A x \in Caches :
           /\ \A l \in View(t, x) : \E m \in View(s, x) : m.blk = l.blk /\ m.lock = l.lock
           /\ \A m \in View(s, x) : \E l \in View(t, x) : m.blk = l.blk /\ m.lock = l.lock
  PROVE  Linked(t, E) /\ \A x \in Caches : \A b : HasLine(s, x, b) => HasLine(t, x, b)
  <1>1. ASSUME NEW x \in Caches, NEW b
        PROVE  /\ HasLine(s, x, b) <=> HasLine(t, x, b)
               /\ HasData(s, x, b) <=> HasData(t, x, b)
               /\ HasLock(s, x, b) <=> HasLock(t, x, b)
    BY DEF HasLine, HasData, HasLock
  <1>2. Waiting(t)
    BY <1>1 DEF Linked, Waiting
  <1>3. Backed(t)
    BY <1>1, CacheFacts DEF Linked, Backed
  <1>4. Asked(t, E)
    BY <1>1, CacheFacts DEF Linked, Asked, Kept
  <1> QED
    BY <1>1, <1>2, <1>3, <1>4 DEF Linked

(* An eviction takes no line from a miss that waits, nor from under a line *)
(* that has its data.                                                      *)
LEMMA EvictLinked ==
  ASSUME NEW s, StateInv(s), NEW t, NEW k \in Caches, NEW v \in View(s, k),
         Evicted(s, k, v.blk, t), NEW E, Linked(s, E),
         NEW r, r.blk # v.blk
  PROVE  Linked(t, E) /\ Follows(s, t, r)
  <1> DEFINE b == v.blk
             gone == {k} \cup Reached(s, k, b)
  <1>1. s \in StateSet /\ \A x \in Caches : Unique(s.lines[x])
    BY DEF StateInv, SetInv
  <1>2. b \in Blocks /\ HasLine(s, k, b)
    BY <1>1, LineFacts DEF LineSet, HasLine
  <1>3. \A x \in gone :
          /\ x \in Caches /\ ~HasLock(s, x, b)
          /\ View(t, x) = {l \in View(s, x) : l.blk # b}
    BY DEF Evicted
  <1>4. \A x \in Caches \ gone :
          \/ View(t, x) = View(s, x)
          \/ /\ k # LLC /\ x = Lower(k) /\ HasLine(s, x, b)
             /\ \E n : /\ n.blk = b /\ ~n.lock /\ (n.dirty => DirtyIn(s, b))
                      /\ View(t, x) = {l \in View(s, x) : l.blk # b} \cup {n}
    BY DEF Evicted
  <1>5. /\ t.mshr = s.mshr /\ t.retry = s.retry
        /\ k # LLC => t.wait_list = s.wait_list
        /\ \A c \in Blocks : WrittenTo(s, t, c) => c = b
        /\ t.aborted => s.aborted \/ (k # LLC /\ ~HasLine(s, Lower(k), b))
    BY DEF Evicted
  <1>6. k # LLC => HasData(s, Lower(k), b) /\ ~HasLock(s, Lower(k), b)
    <2>1. HasData(s, k, b)
      BY <1>2, <1>3 DEF HasLine, HasLock, HasData
    <2>2. k # LLC => HasData(s, Lower(k), b) /\ Lower(k) \in Caches
      BY <1>2, <2>1, CacheFacts DEF Linked, Backed
    <2>3. ASSUME NEW x \in Caches, HasData(s, x, b) PROVE ~HasLock(s, x, b)
      <3>1. \A l \in View(s, x) : l.blk = b => l = LineOf(s, x, b)
        BY <1>1, LineFacts
      <3> QED
        BY <2>3, <3>1 DEF HasData, HasLock
    <2> QED
      BY <2>2, <2>3
  <1>7. ASSUME NEW x \in Caches \ {LLC}, HasLine(s, x, b), Lower(x) \in gone
        PROVE  x \in gone
    BY <1>7, GoneAbove
  <1> HIDE DEF gone, b
  <1>8. ~t.aborted
    BY <1>5, <1>6 DEF Linked, HasLine, HasData
  <1>9. Waiting(t)
    <2> SUFFICES ASSUME NEW x \in Caches, NEW c \in s.mshr[x] PROVE HasLock(t, x, c)
      BY <1>5 DEF Waiting
    <2>1. HasLock(s, x, c)
      BY DEF Linked, Waiting
    <2>2. CASE x \in gone
      BY <1>3, <2>1, <2>2 DEF HasLock
    <2>3. CASE x \notin gone
      BY <1>4, <1>6, <2>1, <2>3 DEF HasLock
    <2> QED
      BY <2>2, <2>3
  <1>10. Backed(t)
    <2> SUFFICES ASSUME NEW x \in Caches \ {LLC}, NEW c \in Blocks, HasData(t, x, c)
                 PROVE  HasData(t, Lower(x), c)
      BY DEF Backed
    <2>1. Lower(x) \in Caches
      BY CacheFacts
    <2>2. HasData(s, x, c)
      BY <1>3, <1>4, <1>6 DEF HasData
    <2>3. HasData(s, Lower(x), c)
      BY <2>2 DEF Linked, Backed
    <2>4. CASE c # b
      BY <1>3, <1>4, <2>1, <2>3, <2>4 DEF HasData
    <2>5. CASE c = b
      <3>1. x \notin gone
        BY <1>3, <2>5 DEF HasData
      <3>2. HasLine(s, x, b)
        BY <2>2, <2>5 DEF HasData, HasLine
      <3>3. Lower(x) \notin gone
        BY <1>7, <3>1, <3>2
      <3> QED
        BY <1>4, <2>1, <2>3, <2>5, <3>3 DEF HasData
    <2> QED
      BY <2>4, <2>5
  <1>11. Asked(t, E)
    <2> SUFFICES ASSUME NEW x \in Caches \ {LLC}, NEW c \in s.mshr[x],
                        HasLine(s, Lower(x), c)
                 PROVE  HasLine(t, Lower(x), c)
      BY <1>5 DEF Linked, Asked, Kept
    <2>1. Lower(x) \in Caches
      BY CacheFacts
    <2>2. CASE c # b
      BY <1>3, <1>4, <2>1, <2>2 DEF HasLine
    <2>3. CASE c = b
      <3>1. HasLock(s, x, b)
        BY <2>3 DEF Linked, Waiting
      <3>2. Lower(x) \notin gone
        BY <1>3, <1>7, <3>1 DEF HasLock, HasLine
      <3> QED
        BY <1>4, <2>1, <2>3, <3>2 DEF HasLine
    <2> QED
      BY <2>2, <2>3
  <1>12. ASSUME NEW x \in Caches, HasLine(s, x, r.blk) PROVE HasLine(t, x, r.blk)
    BY <1>3, <1>4, <1>12 DEF HasLine, b
  <1>13. ASSUME NEW c \in Blocks, DirtyIn(t, c) PROVE DirtyIn(s, c)
    BY <1>3, <1>4, <1>13 DEF DirtyIn
  <1>14. ASSUME NEW c \in Blocks, WrittenTo(s, t, c), NEW x \in Caches, NEW l \in View(t, x),
                l.blk = c
         PROVE  x[1] = "L1"
    <2>1. c = b /\ k = LLC
      BY <1>1, <1>5, <1>14, NotWritten
    <2>2. x \notin gone /\ HasLine(s, x, b)
      BY <1>3, <1>4, <1>14, <2>1 DEF HasLine
    <2>3. LLC \in gone
      BY <2>1 DEF gone
    <2>4. CASE x[1] = "L2"
      BY <1>7, <2>2, <2>3, <2>4 DEF Lower
    <2> QED
      BY <2>2, <2>3, <2>4, LevelFacts
  <1> QED
    BY <1>8, <1>9, <1>10, <1>11, <1>12, <1>13, <1>14 DEF Linked, Follows

LEMMA FollowsOn ==
  ASSUME NEW s, NEW t, NEW u, NEW r, NEW q, Follows(s, t, r), Follows(t, u, q),
         q.blk = r.blk, ~q.write, t.wait_list = s.wait_list
  PROVE  Follows(s, u, r)
  <1>1. \A b \in Blocks : WrittenTo(s, u, b) => WrittenTo(t, u, b)
    BY DEF WrittenTo
  <1> QED
    BY <1>1 DEF Follows

LEMMA AllocateLinked ==
  ASSUME NEW s, StateInv(s), NEW k \in Caches, NEW r \in RequestSet, r.write => k[1] = "L1",
         Misses(s, k, r), NEW E, Linked(s, E)
  PROVE  LET t == Allocate(s, k, r) IN
         /\ Linked(t, E \cup {<<k, r.blk>>}) /\ Follows(s, t, r) /\ HasLine(t, k, r.blk)
         /\ k # LLC => t.wait_list = s.wait_list
         /\ t.retry = s.retry
  <1> DEFINE t == Allocate(s, k, r)
             new == Line(r.blk, r.core, TRUE, r.write)
  <1>1. Allocated(s, k, r, t) /\ StateInv(t)
    BY AllocateFacts DEF Misses
  <1> HIDE DEF t
  <1>2. PICK room :
          /\ room \in StateSet /\ ~HasLine(room, k, r.blk)
          /\ room = s \/ \E v \in View(s, k) :
                          /\ v.blk # r.blk /\ Unlocked(s, k, v.blk)
                          /\ Evicted(s, k, v.blk, room)
          /\ \A x \in Caches \ {k} : View(t, x) = View(room, x)
          /\ View(t, k) = View(room, k) \cup {new}
          /\ t.mshr = [s.mshr EXCEPT ![k] = @ \cup {r.blk}]
          /\ t.retry = s.retry /\ t.wait_list = room.wait_list /\ t.aborted = room.aborted
    BY <1>1 DEF Allocated
  <1>3. s \in StateSet /\ s.mshr \in [Caches -> SUBSET Blocks]
    BY DEF StateInv, StateSet
  <1>4. /\ Linked(room, E) /\ Follows(s, room, r) /\ room.mshr = s.mshr
        /\ room.retry = s.retry /\ (k # LLC => room.wait_list = s.wait_list)
    <2>1. CASE room = s
      BY <1>3, <2>1, NotWritten DEF Follows
    <2>2. CASE room # s
      <3>1. PICK v \in View(s, k) : v.blk # r.blk /\ Evicted(s, k, v.blk, room)
        BY <1>2, <2>2
      <3> QED
        BY <3>1, EvictLinked DEF Evicted
    <2> QED
      BY <2>1, <2>2
  <1>5. new.blk = r.blk /\ new.lock = TRUE /\ new.dirty = r.write
    BY DEF Line
  <1> HIDE DEF new
  <1>6. ASSUME NEW x \in Caches
        PROVE  /\ View(room, x) \subseteq View(t, x)
               /\ \A l \in View(t, x) : l \in View(room, x) \/ (x = k /\ l = new)
    BY <1>2
  <1>7. Waiting(t)
    <2> SUFFICES ASSUME NEW x \in Caches, NEW c \in t.mshr[x] PROVE HasLock(t, x, c)
      BY DEF Waiting
    <2>1. CASE x = k /\ c = r.blk
      BY <1>2, <1>5, <2>1 DEF HasLock
    <2>2. CASE ~(x = k /\ c = r.blk)
      <3>1. c \in room.mshr[x]
        BY <1>2, <1>3, <1>4, <2>2
      <3>2. HasLock(room, x, c)
        BY <1>4, <3>1 DEF Linked, Waiting
      <3> QED
        BY <1>6, <3>2 DEF HasLock
    <2> QED
      BY <2>1, <2>2
  <1>8. Backed(t)
    <2> SUFFICES ASSUME NEW x \in Caches \ {LLC}, NEW c \in Blocks, HasData(t, x, c)
                 PROVE  HasData(t, Lower(x), c)
      BY DEF Backed
    <2>1. HasData(room, x, c)
      BY <1>5, <1>6 DEF HasData
    <2>2. HasData(room, Lower(x), c) /\ Lower(x) \in Caches
      BY <1>4, <2>1, CacheFacts DEF Linked, Backed
    <2> QED
      BY <1>6, <2>2 DEF HasData
  <1>9. Asked(t, E \cup {<<k, r.blk>>})
    <2> SUFFICES ASSUME NEW x \in Caches \ {LLC}, NEW c \in t.mshr[x],
                        ~(x = k /\ c = r.blk)
                 PROVE  Kept(t, x, c) \/ HasLine(t, Lower(x), c) \/ <<x, c>> \in E
      BY DEF Asked
    <2>1. c \in room.mshr[x]
      BY <1>2, <1>3, <1>4
    <2>2. Kept(room, x, c) \/ HasLine(room, Lower(x), c) \/ <<x, c>> \in E
      BY <1>4, <2>1 DEF Linked, Asked
    <2>3. Kept(room, x, c) => Kept(t, x, c)
      BY <1>2, <1>4 DEF Kept
    <2>4. HasLine(room, Lower(x), c) => HasLine(t, Lower(x), c)
      BY <1>6, CacheFacts DEF HasLine
    <2> QED
      BY <2>2, <2>3, <2>4
  <1>10. Follows(s, t, r)
    <2>1. \A x \in Caches : HasLine(s, x, r.blk) => HasLine(t, x, r.blk)
      BY <1>4, <1>6 DEF Follows, HasLine
    <2>2. ASSUME NEW b \in Blocks, DirtyIn(t, b)
          PROVE  DirtyIn(s, b) \/ (b = r.blk /\ r.write)
      <3>1. DirtyIn(room, b) \/ (b = r.blk /\ r.write)
        BY <1>5, <1>6, <2>2 DEF DirtyIn
      <3> QED
        BY <1>4, <3>1 DEF Follows
    <2>3. ASSUME NEW b \in Blocks, WrittenTo(s, t, b), NEW x \in Caches, NEW l \in View(t, x),
                 l.blk = b, l.dirty
          PROVE  x[1] = "L1"
      <3>1. WrittenTo(s, room, b)
        BY <1>2, <2>3 DEF WrittenTo
      <3>2. l \in View(room, x) => x[1] = "L1"
        BY <1>4, <2>3, <3>1 DEF Follows
      <3> QED
        BY <1>5, <1>6, <2>3, <3>2
    <2> QED
      BY <2>1, <2>2, <2>3 DEF Follows
  <1>11. HasLine(t, k, r.blk) /\ (k # LLC => t.wait_list = s.wait_list) /\ ~t.aborted
    BY <1>2, <1>4, <1>5 DEF HasLine, Linked
  <1> QED
    BY <1>2, <1>7, <1>8, <1>9, <1>10, <1>11 DEF Linked, t

----------------------------------------------------------------------------
(* The requests *)

(* What a request to k leaves: when accepted, k has a line of its block. *)
Full(s, r, k, E, sent) ==
  /\ Linked(sent.st, E) /\ Follows(s, sent.st, r)
  /\ sent.ok => HasLine(sent.st, k, r.blk)
  /\ \A x \in Caches \ {LLC, k, Lower(k)} : sent.st.retry[x] = s.retry[x]

LEMMA TouchesLinked ==
  ASSUME NEW s, s \in StateSet, NEW t, NEW r, Touches(s, r, t), NEW E, Linked(s, E)
  PROVE  Linked(t, E) /\ Follows(s, t, r)
  <1>1. \A x \in Caches :
          /\ \A l \in View(t, x) : \E m \in View(s, x) : m.blk = l.blk /\ m.lock = l.lock
          /\ \A m \in View(s, x) : \E l \in View(t, x) : m.blk = l.blk /\ m.lock = l.lock
    BY DEF Touches
  <1>2. Linked(t, E) /\ \A x \in Caches : \A b : HasLine(s, x, b) => HasLine(t, x, b)
    BY <1>1, LinkedSame DEF Touches
  <1>3. ASSUME NEW b \in Blocks, DirtyIn(t, b) PROVE DirtyIn(s, b) \/ (b = r.blk /\ r.write)
    BY <1>3 DEF Touches, DirtyIn
  <1>4. \A b \in Blocks : ~WrittenTo(s, t, b)
    BY NotWritten DEF Touches
  <1> QED
    BY <1>2, <1>3, <1>4 DEF Follows

LEMMA SentLinked ==
  ASSUME NEW s, StateInv(s), NEW k \in Caches, NEW r \in RequestSet, r.write => k[1] = "L1",
         NEW E, Linked(s, E), NEW miss, Misses(s, k, r) => Full(s, r, k, E, miss)
  PROVE  Full(s, r, k, E, Sent(s, k, r, miss))
  <1>1. s \in StateSet /\ SetInv(s, k)
    BY DEF StateInv
  <1>2. ASSUME NEW t, Touches(s, r, t), HasLine(s, k, r.blk)
        PROVE  Full(s, r, k, E, Accepted(t))
    <2>1. Linked(t, E) /\ Follows(s, t, r)
      BY <1>1, <1>2, TouchesLinked
    <2> QED
      BY <1>2, <2>1 DEF Full, Follows, Accepted, Touches
  <1>3. CASE Holds(s, k, r.blk) /\ ~Locked(s, k, r.blk)
    BY <1>2, <1>3, HitFacts, HoldsLine DEF Sent
  <1>4. CASE ~(Holds(s, k, r.blk) /\ ~Locked(s, k, r.blk)) /\ r.blk \in s.mshr[k]
    <2>1. HasLine(s, k, r.blk)
      BY <1>4 DEF Linked, Waiting, HasLock, HasLine
    <2> QED
      BY <1>2, <1>4, <2>1, MergeFacts DEF Sent
  <1>5. CASE /\ ~(Holds(s, k, r.blk) /\ ~Locked(s, k, r.blk)) /\ r.blk \notin s.mshr[k]
             /\ MshrFull(s, k) \/ NoRoom(s, k)
    <2>1. Sent(s, k, r, miss) = Refused(s)
      BY <1>5 DEF Sent
    <2>2. Follows(s, s, r)
      BY <1>1, NotWritten DEF Follows
    <2> QED
      BY <2>1, <2>2 DEF Refused, Full
  <1>6. CASE /\ ~(Holds(s, k, r.blk) /\ ~Locked(s, k, r.blk)) /\ r.blk \notin s.mshr[k]
             /\ ~(MshrFull(s, k) \/ NoRoom(s, k))
    <2>1. ~Holds(s, k, r.blk)
      <3>1. Locked(s, k, r.blk) => r.blk \in s.mshr[k]
        BY <1>1, LineFacts DEF Locked, SetInv
      <3> QED
        BY <1>6, <3>1
    <2>2. Misses(s, k, r)
      BY <1>6, <2>1 DEF Misses
    <2>3. Sent(s, k, r, miss) = miss
      BY <1>6 DEF Sent
    <2> QED
      BY <2>2, <2>3
  <1> QED
    BY <1>3, <1>4, <1>5, <1>6

LEMMA ToMemoryLinked ==
  ASSUME NEW s, StateInv(s), NEW r \in RequestSet, ~r.write, Misses(s, LLC, r),
         NEW E, Linked(s, E)
  PROVE  Full(s, r, LLC, E, ToMemory(s, r))
  <1> DEFINE a == Allocate(s, LLC, r)
             e == [blk |-> r.blk, core |-> r.core, write |-> FALSE, left |-> Latency["L3"]]
             t == [a EXCEPT !.wait_list = Append(@, e)]
  <1>1. /\ StateInv(a) /\ Linked(a, E \cup {<<LLC, r.blk>>}) /\ Follows(s, a, r)
        /\ HasLine(a, LLC, r.blk) /\ a.retry = s.retry
    BY CacheFacts, AllocateFacts, AllocateLinked DEF Misses
  <1> HIDE DEF a
  <1>2. Linked(a, E)
    BY <1>1 DEF Linked, Asked
  <1>3. a \in StateSet /\ a.wait_list \in Seq(EntrySet) /\ e.write = FALSE
    BY <1>1 DEF StateInv, StateSet
  <1> HIDE DEF e
  <1>4. /\ t.lines = a.lines /\ t.mshr = a.mshr /\ t.aborted = a.aborted /\ t.retry = a.retry
        /\ t.wait_list = Append(a.wait_list, e)
    BY <1>3 DEF StateSet
  <1> HIDE DEF t
  <1>5. \A x : View(t, x) = View(a, x)
    BY <1>4 DEF View
  <1>6. Linked(t, E)
    BY <1>2, <1>4, <1>5, LinkedSame
  <1>7. \A b \in Blocks : WrittenTo(s, t, b) => WrittenTo(s, a, b)
    BY <1>3, <1>4 DEF WrittenTo
  <1>8. Follows(s, t, r) /\ HasLine(t, LLC, r.blk)
    BY <1>1, <1>5, <1>7 DEF Follows, HasLine, DirtyIn
  <1>9. ToMemory(s, r) = Accepted(t)
    BY DEF ToMemory, a, e, t
  <1> QED
    BY <1>1, <1>4, <1>6, <1>8, <1>9 DEF Full, Accepted

LEMMA PassedLinked ==
  ASSUME NEW s, StateInv(s), NEW k \in Caches \ {LLC}, NEW r \in RequestSet,
         r.write => k[1] = "L1", Misses(s, k, r), NEW E, Linked(s, E), NEW below,
         \A t, F : StateInv(t) /\ t = Allocate(s, k, r) /\ Linked(t, F)
                     => Full(t, AsRead(r), Lower(k), F, below)
  PROVE  Full(s, r, k, E, Passed(Allocate(s, k, r), k, r, below))
  <1> DEFINE a == Allocate(s, k, r)
             F == E \cup {<<k, r.blk>>}
             t == [a EXCEPT !.retry[k] = Append(@, AsRead(r))]
  <1>1. /\ StateInv(a) /\ Linked(a, F) /\ Follows(s, a, r)
        /\ HasLine(a, k, r.blk) /\ a.wait_list = s.wait_list /\ a.retry = s.retry
    BY AllocateFacts, AllocateLinked DEF Misses
  <1>2. Full(a, AsRead(r), Lower(k), F, below)
    BY <1>1
  <1>3. AsRead(r) \in ReadSet /\ ~AsRead(r).write /\ AsRead(r).blk = r.blk
    BY ReadFacts
  <1> HIDE DEF a
  <1>4. CASE below.ok
    <2>1. /\ Linked(below.st, F) /\ Follows(a, below.st, AsRead(r))
          /\ HasLine(below.st, Lower(k), r.blk)
      BY <1>2, <1>3, <1>4 DEF Full
    <2>2. Linked(below.st, E)
      BY <2>1 DEF Linked, Asked
    <2>3. Follows(s, below.st, r)
      BY <1>1, <1>3, <2>1, FollowsOn
    <2>4. HasLine(below.st, k, r.blk)
      BY <1>1, <1>3, <2>1 DEF Follows
    <2>5. \A x \in Caches \ {LLC, k, Lower(k)} : below.st.retry[x] = s.retry[x]
      BY <1>1, <1>2, CacheFacts DEF Full
    <2> QED
      BY <1>4, <2>2, <2>3, <2>4, <2>5 DEF Full, Passed, a
  <1>5. CASE ~below.ok
    <2>1. /\ a \in StateSet /\ s \in StateSet /\ a.retry \in [Caches -> Seq(ReadSet)]
      BY <1>1 DEF StateInv, StateSet
    <2>2. /\ t.lines = a.lines /\ t.mshr = a.mshr /\ t.aborted = a.aborted
          /\ t.wait_list = a.wait_list
          /\ t.retry = [a.retry EXCEPT ![k] = Append(@, AsRead(r))]
      BY <2>1 DEF StateSet
    <2> HIDE DEF t
    <2>3. \A x : View(t, x) = View(a, x)
      BY <2>2 DEF View
    <2>4. /\ \A x \in Caches : \A b : Kept(a, x, b) => Kept(t, x, b)
          /\ Kept(t, k, r.blk)
      <3>1. t.retry[k] = Append(a.retry[k], AsRead(r)) /\ a.retry[k] \in Seq(ReadSet)
        BY <2>1, <2>2
      <3>2. \A x \in Caches \ {k} : t.retry[x] = a.retry[x]
        BY <2>1, <2>2
      <3>3. /\ \A i \in DOMAIN a.retry[k] : i \in DOMAIN t.retry[k]
                                           /\ t.retry[k][i] = a.retry[k][i]
            /\ Len(a.retry[k]) + 1 \in DOMAIN t.retry[k]
            /\ t.retry[k][Len(a.retry[k]) + 1] = AsRead(r)
        BY <1>3, <3>1
      <3> QED
        BY <1>3, <3>2, <3>3 DEF Kept
    <2>5. Linked(t, E)
      <3>1. Waiting(t) /\ Backed(t) /\ ~t.aborted
        BY <1>1, <2>2, <2>3 DEF Linked, Waiting, Backed, HasLock, HasData
      <3>2. Asked(t, E)
        BY <1>1, <2>2, <2>3, <2>4 DEF Linked, Asked, HasLine
      <3> QED
        BY <3>1, <3>2 DEF Linked
    <2>6. \A b \in Blocks : ~WrittenTo(s, t, b)
      BY <1>1, <2>1, <2>2, NotWritten
    <2>7. Follows(s, t, r) /\ HasLine(t, k, r.blk)
      BY <1>1, <2>3, <2>6 DEF Follows, HasLine, DirtyIn
    <2>8. Passed(a, k, r, below) = Accepted(t)
      BY <1>5 DEF Passed, t
    <2>9. \A x \in Caches \ {LLC, k, Lower(k)} : t.retry[x] = s.retry[x]
      BY <1>1, <2>1, <2>2
    <2> QED
      BY <2>5, <2>7, <2>8, <2>9 DEF Full, Accepted, a
  <1> QED
    BY <1>4, <1>5

LEMMA SendLastLinked ==
  ASSUME NEW s, StateInv(s), NEW r \in RequestSet, ~r.write, NEW E, Linked(s, E)
  PROVE  Full(s, r, LLC, E, SendLast(s, r))
  BY CacheFacts, SentLinked, ToMemoryLinked DEF SendLast

LEMMA SendNextLinked ==
  ASSUME NEW s, StateInv(s), NEW k \in Caches \ {LLC}, Lower(k) = LLC, NEW r \in RequestSet,
         r.write => k[1] = "L1", NEW E, Linked(s, E)
  PROVE  Full(s, r, k, E, SendNext(s, k, r))
  <1> DEFINE new == Allocate(s, k, r)
             below == SendLast(new, AsRead(r))
             miss == Passed(new, k, r, below)
  <1>1. ASSUME Misses(s, k, r) PROVE Full(s, r, k, E, miss)
    <2>1. \A t, F : StateInv(t) /\ t = new /\ Linked(t, F)
                      => Full(t, AsRead(r), Lower(k), F, below)
      BY ReadFacts, SendLastLinked
    <2> HIDE DEF below
    <2> QED
      BY <1>1, <2>1, PassedLinked
  <1>2. SendNext(s, k, r) = Sent(s, k, r, miss)
    BY DEF SendNext
  <1> HIDE DEF miss
  <1> QED
    BY <1>1, <1>2, SentLinked

LEMMA SendLinked ==
  ASSUME NEW s, StateInv(s), NEW k \in Caches, NEW r \in RequestSet, r.write => k[1] = "L1",
         NEW E, Linked(s, E)
  PROVE  Full(s, r, k, E, Send(s, k, r))
  <1>1. CASE k = LLC
    <2>1. ~r.write
      BY <1>1, CacheFacts
    <2> QED
      BY <1>1, <2>1, SendLastLinked DEF Send
  <1>2. CASE k # LLC /\ Lower(k) = LLC
    BY <1>2, SendNextLinked DEF Send
  <1>3. CASE k # LLC /\ Lower(k) # LLC
    <2> DEFINE new == Allocate(s, k, r)
               below == SendNext(new, Lower(k), AsRead(r))
               miss == Passed(new, k, r, below)
    <2>1. ASSUME Misses(s, k, r) PROVE Full(s, r, k, E, miss)
      <3>1. \A t, F : StateInv(t) /\ t = new /\ Linked(t, F)
                        => Full(t, AsRead(r), Lower(k), F, below)
        BY <1>3, CacheFacts, ReadFacts, SendNextLinked
      <3> HIDE DEF below
      <3> QED
        BY <1>3, <2>1, <3>1, PassedLinked
    <2>2. Send(s, k, r) = Sent(s, k, r, miss)
      BY <1>3 DEF Send
    <2> HIDE DEF miss
    <2> QED
      BY <2>1, <2>2, SentLinked
  <1> QED
    BY <1>1, <1>2, <1>3

----------------------------------------------------------------------------
(* The invariant, where RetriesWait holds                                  *)

LinkInv ==
  /\ CacheInv /\ Linked(State, {})
  /\ \A b \in Blocks : DirtyIn(State, b) => b \in unwritten

LEMMA InitLinked == Init => LinkInv
  <1> SUFFICES ASSUME Init PROVE LinkInv
    OBVIOUS
  <1>1. \A k \in Caches : View(State, k) = {} /\ State.mshr[k] = {}
    BY DEF Init, State, View, LinesOf
  <1>2. ~State.aborted
    BY DEF Init, State
  <1>3. Linked(State, {})
    BY <1>1, <1>2 DEF Linked, Waiting, Backed, Asked, HasData
  <1>4. \A b : ~DirtyIn(State, b)
    BY <1>1 DEF DirtyIn
  <1> QED
    BY <1>3, <1>4, InitFacts DEF LinkInv

LEMMA StepLinked ==
  ASSUME NEW t \in StateSet, Become(t), Linked(t, {}), CacheInv',
         \A b \in Blocks : DirtyIn(t, b) => b \in unwritten'
  PROVE  LinkInv'
  <1>1. State' = t
    BY DEF Become, State, StateSet
  <1> QED
    BY <1>1 DEF LinkInv

(* What a request has written back is not dirty, but in a first level. *)
LEMMA WrittenFacts ==
  ASSUME CacheInv, NEW t, StateInv(t), NEW r, Follows(State, t, r),
         NEW b \in Blocks, DirtyIn(t, b)
  PROVE  b \notin WrittenBack(t)
  <1> SUFFICES ASSUME b \in WrittenBack(t) PROVE FALSE
    OBVIOUS
  <1>1. /\ ~\E c \in Cores : Holds(t, L1(c), b) /\ LineOf(t, L1(c), b).dirty
        /\ WrittenTo(State, t, b)
    BY DEF WrittenBack, WrittenTo, State
  <1>2. PICK x \in Caches : \E l \in View(t, x) : l.blk = b /\ l.dirty
    BY DEF DirtyIn
  <1>3. PICK l \in View(t, x) : l.blk = b /\ l.dirty
    BY <1>2
  <1>4. x[1] = "L1"
    BY <1>1, <1>3 DEF Follows
  <1>5. x = L1(x[2]) /\ x[2] \in Cores
    BY <1>4, LevelFacts, CacheFacts
  <1>6. t \in StateSet /\ Unique(t.lines[x])
    BY DEF StateInv, SetInv
  <1>7. Holds(t, x, b) /\ LineOf(t, x, b).dirty
    BY <1>3, <1>6, LineFacts
  <1> QED
    BY <1>1, <1>5, <1>7

LEMMA ResendLinked ==
  ASSUME LinkInv, NEW k \in Caches \ {LLC}, Resend(k)
  PROVE  LinkInv'
  <1> DEFINE r == retry[k][place]
             sent == Send(State, Lower(k), r)
             rest == RemoveAt(retry[k], place)
             t == [sent.st EXCEPT !.retry[k] = rest]
  <1>1. CacheInv' /\ CacheInv
    BY ResendFacts DEF LinkInv
  <1>2. State \in StateSet /\ StateInv(State) /\ State.retry = retry
    BY <1>1 DEF CacheInv, StateInv, State
  <1>3. retry[k] \in Seq(ReadSet) /\ place \in DOMAIN retry[k]
    BY <1>1, <1>2 DEF Resend, CacheInv, StateSet
  <1>4. r \in ReadSet
    BY <1>3
  <1>5. Lower(k) \in Caches /\ k # Lower(k)
    BY CacheFacts
  <1> HIDE DEF r
  <1>6. /\ r \in RequestSet /\ ~r.write
        /\ Sound(State, r, sent) /\ Full(State, r, Lower(k), {}, sent)
    <2>1. r \in RequestSet /\ ~r.write
      BY <1>4 DEF ReadSet, RequestSet
    <2> QED
      BY <1>2, <1>5, <2>1, SendFacts, SendLinked DEF LinkInv
  <1>7. CASE sent.ok
    <2>1. Become(t) /\ unwritten' = unwritten \ WrittenBack(sent.st)
      BY <1>7 DEF Resend, r
    <2> HIDE DEF sent, rest
    <2>2. /\ StateInv(sent.st) /\ sent.st \in StateSet /\ Linked(sent.st, {})
          /\ Follows(State, sent.st, r) /\ HasLine(sent.st, Lower(k), r.blk)
          /\ sent.st.retry[k] = retry[k]
      BY <1>2, <1>5, <1>6, <1>7, CacheFacts DEF Sound, StateInv, Full
    <2>3. /\ t.lines = sent.st.lines /\ t.mshr = sent.st.mshr /\ t.aborted = sent.st.aborted
          /\ t.wait_list = sent.st.wait_list
          /\ t.retry = [sent.st.retry EXCEPT ![k] = rest]
          /\ t = [sent.st EXCEPT !.retry = t.retry]
      BY <2>2 DEF StateSet
    <2> HIDE DEF t
    <2>4. \A x : View(t, x) = View(sent.st, x)
      BY <2>3 DEF View
    <2>5. ASSUME NEW i \in DOMAIN retry[k], retry[k][i].blk # r.blk
          PROVE  \E j \in DOMAIN rest : rest[j] = retry[k][i]
      <3>1. /\ Len(rest) = Len(retry[k]) - 1 /\ rest \in Seq(ReadSet)
            /\ \A j \in 1 .. Len(retry[k]) - 1 :
                 rest[j] = IF j < place THEN retry[k][j] ELSE retry[k][j + 1]
        BY <1>3, RemoveAtFacts DEF rest
      <3>2. DOMAIN rest = 1 .. Len(retry[k]) - 1 /\ DOMAIN retry[k] = 1 .. Len(retry[k])
            /\ Len(retry[k]) \in Nat
        BY <1>3, <3>1
      <3>3. i # place
        BY <2>5 DEF r
      <3>4. CASE i < place
        BY <1>3, <3>1, <3>2, <3>4
      <3>5. CASE i > place
        <4>1. i - 1 \in DOMAIN rest /\ rest[i - 1] = retry[k][i]
          BY <1>3, <3>1, <3>2, <3>5
        <4> QED
          BY <4>1
      <3> QED
        BY <1>3, <3>2, <3>3, <3>4, <3>5
    <2>6. t \in StateSet
      <3>1. rest \in Seq(ReadSet)
        BY <1>3, RemoveAtFacts DEF rest
      <3>2. t.retry \in [Caches -> Seq(ReadSet)]
        BY <2>2, <2>3, <3>1 DEF StateSet
      <3> QED
        BY <2>2, <2>3, <3>2 DEF StateSet
    <2>7. Asked(t, {})
      <3> SUFFICES ASSUME NEW x \in Caches \ {LLC}, NEW b \in t.mshr[x]
                   PROVE  Kept(t, x, b) \/ HasLine(t, Lower(x), b)
        BY DEF Asked
      <3>1. Kept(sent.st, x, b) \/ HasLine(t, Lower(x), b)
        BY <2>2, <2>3, <2>4 DEF Linked, Asked, HasLine
      <3>2. CASE x = k /\ Kept(sent.st, x, b)
        <4>1. PICK i \in DOMAIN retry[k] : retry[k][i].blk = b
          BY <2>2, <3>2 DEF Kept
        <4>2. CASE b = r.blk
          BY <2>2, <2>4, <3>2, <4>2 DEF HasLine
        <4>3. CASE b # r.blk
          <5>1. t.retry[k] = rest
            BY <2>2, <2>3 DEF StateSet
          <5> QED
            BY <2>5, <3>2, <4>1, <4>3, <5>1 DEF Kept
        <4> QED
          BY <4>2, <4>3
      <3>3. CASE x # k /\ Kept(sent.st, x, b)
        <4>1. t.retry[x] = sent.st.retry[x]
          BY <2>2, <2>3, <3>3 DEF StateSet
        <4> QED
          BY <3>3, <4>1 DEF Kept
      <3> QED
        BY <3>1, <3>2, <3>3
    <2>8. Linked(t, {})
      BY <2>2, <2>3, <2>4, <2>7 DEF Linked, Waiting, Backed, HasLock, HasData
    <2>9. ASSUME NEW b \in Blocks, DirtyIn(t, b) PROVE b \in unwritten'
      <3>1. DirtyIn(sent.st, b)
        BY <2>4, <2>9 DEF DirtyIn
      <3>2. DirtyIn(State, b)
        BY <1>6, <2>2, <3>1 DEF Follows
      <3>3. b \notin WrittenBack(sent.st)
        BY <1>1, <2>2, <3>1, WrittenFacts
      <3> QED
        BY <2>1, <3>2, <3>3 DEF LinkInv
    <2> QED
      BY <1>1, <2>1, <2>6, <2>8, <2>9, StepLinked
  <1>8. CASE ~sent.ok
    <2>1. UNCHANGED <<cacheVars, unwritten>>
      BY <1>8 DEF Resend, r
    <2>2. Become(State)
      BY <2>1 DEF Become, State, cacheVars
    <2> QED
      BY <1>1, <1>2, <2>1, <2>2, StepLinked DEF LinkInv
  <1> QED
    BY <1>7, <1>8

LEMMA ExecuteLinked ==
  ASSUME LinkInv, NEW c \in Cores, NEW write \in BOOLEAN, NEW b \in Uses[c],
         Execute(c, b, write)
  PROVE  LinkInv'
  <1> DEFINE r == [blk |-> b, core |-> c, write |-> write]
             sent == Send(State, L1(c), r)
  <1>1. CacheInv' /\ CacheInv /\ StateInv(State) /\ b \in Blocks
    BY ExecuteFacts, CoreAssumption DEF LinkInv, CacheInv
  <1>2. r \in RequestSet /\ r.blk = b /\ r.write = write
    BY <1>1 DEF RequestSet
  <1> HIDE DEF r
  <1>3. Sound(State, r, sent) /\ Full(State, r, L1(c), {}, sent)
    BY <1>1, <1>2, CacheFacts, SendFacts, SendLinked DEF LinkInv
  <1>4. /\ Become(sent.st)
        /\ unwritten' = (unwritten \ WrittenBack(sent.st)) \cup (IF write THEN {b} ELSE {})
    BY DEF Execute, r
  <1> HIDE DEF sent
  <1>5. ASSUME NEW x \in Blocks, DirtyIn(sent.st, x) PROVE x \in unwritten'
    <2>1. DirtyIn(State, x) \/ (x = b /\ write)
      BY <1>2, <1>3, <1>5 DEF Full, Follows
    <2>2. x \notin WrittenBack(sent.st)
      BY <1>1, <1>3, <1>5, WrittenFacts DEF Full, Sound
    <2> QED
      BY <1>4, <2>1, <2>2 DEF LinkInv
  <1> QED
    BY <1>1, <1>3, <1>4, <1>5, StepLinked DEF Sound, StateInv, Full

(* Without NLP cores a callback comes to all caches. *)
LEMMA AnsweredAll ==
  ASSUME NlpCores = {}, NEW rs, NEW k \in Caches
  PROVE  Answered(k, rs) = {r.blk : r \in rs}
  BY DEF Answered, CalledBack

LEMMA CalledLinked ==
  ASSUME NlpCores = {}, LinkInv, CacheInv', NEW s, StateInv(s), s.lines = lines,
         s.mshr = mshr, s.retry = retry, s.aborted = aborted, NEW rs,
         Become(Callback(s, rs)), unwritten' = unwritten, RetriesWait'
  PROVE  LinkInv'
  <1> DEFINE t == Callback(s, rs)
             A == {r.blk : r \in rs}
  <1>1. /\ StateInv(t) /\ t \in StateSet /\ t.aborted = s.aborted /\ Released(s, t)
        /\ \A k \in Caches : t.mshr[k] = s.mshr[k] \ A
    BY CallbackFacts, AnsweredAll DEF StateInv
  <1>2. Become(t)
    OBVIOUS
  <1> HIDE DEF t, A
  <1>3. /\ Linked(s, {}) /\ \A x : View(s, x) = View(State, x)
    BY DEF LinkInv, Linked, Waiting, Backed, Asked, HasLock, HasData, HasLine, Kept, View, State
  <1>4. \A x \in Caches : \A b : Kept(t, x, b) => b \in t.mshr[x]
    BY <1>2 DEF RetriesWait, Become, Kept
  <1>5. Waiting(t)
    BY <1>1, <1>3 DEF Linked, Waiting, HasLock, Released
  <1>6. ASSUME NEW x \in Caches, NEW b, HasLine(s, x, b)
        PROVE  HasLine(t, x, b) /\ (b \notin t.mshr[x] => HasData(t, x, b))
    BY <1>1, <1>6 DEF HasLine, HasData, Released
  <1>7. Backed(t)
    <2> SUFFICES ASSUME NEW x \in Caches \ {LLC}, NEW b \in Blocks, HasData(t, x, b)
                 PROVE  HasData(t, Lower(x), b)
      BY DEF Backed
    <2>1. Lower(x) \in Caches
      BY CacheFacts
    <2>2. CASE HasData(s, x, b)
      <3>1. HasData(s, Lower(x), b)
        BY <1>3, <2>2 DEF Linked, Backed
      <3> QED
        BY <1>1, <2>1, <3>1 DEF Released, HasData
    <2>3. CASE ~HasData(s, x, b)
      <3>1. PICK m \in View(s, x) : m.blk = b /\ m.lock /\ b \notin t.mshr[x]
        BY <1>1, <2>3 DEF Released, HasData
      <3>2. b \in s.mshr[x]
        BY <3>1 DEF StateInv, SetInv
      <3>3. b \in A
        BY <1>1, <3>1, <3>2
      <3>4. Kept(s, x, b) \/ HasLine(s, Lower(x), b)
        BY <1>3, <3>2 DEF Linked, Asked
      <3>5. ~Kept(s, x, b)
        BY <1>1, <1>4, <3>1 DEF Kept, Released
      <3> QED
        BY <1>1, <1>6, <2>1, <3>3, <3>4, <3>5
    <2> QED
      BY <2>2, <2>3
  <1>8. Asked(t, {})
    <2> SUFFICES ASSUME NEW x \in Caches \ {LLC}, NEW b \in t.mshr[x]
                 PROVE  Kept(t, x, b) \/ HasLine(t, Lower(x), b)
      BY DEF Asked
    <2>1. b \in s.mshr[x]
      BY <1>1
    <2>2. Kept(s, x, b) \/ HasLine(s, Lower(x), b)
      BY <1>3, <2>1 DEF Linked, Asked
    <2>3. Kept(s, x, b) => Kept(t, x, b)
      BY <1>1 DEF Kept, Released
    <2> QED
      BY <1>6, <2>2, <2>3, CacheFacts
  <1>9. ~t.aborted
    BY <1>1, <1>3 DEF Linked
  <1>10. ASSUME NEW b \in Blocks, DirtyIn(t, b) PROVE b \in unwritten'
    <2>1. DirtyIn(s, b)
      BY <1>1, <1>10 DEF DirtyIn, Released
    <2> QED
      BY <1>3, <2>1 DEF LinkInv, DirtyIn
  <1> QED
    BY <1>1, <1>2, <1>5, <1>7, <1>8, <1>9, <1>10, StepLinked DEF Linked

LEMMA CacheSystemTickLinked ==
  ASSUME NlpCores = {}, LinkInv, NEW taken, CacheSystemTick(taken), RetriesWait'
  PROVE  LinkInv'
  <1> DEFINE hits == {h \in hit_list : h.left = 1}
             new_hits == {[h EXCEPT !.left = @ - 1] : h \in hit_list \ hits}
             s == [State EXCEPT !.wait_list = wait_list', !.hit_list = new_hits]
  <1>1. CacheInv /\ CacheInv'
    BY CacheSystemTickFacts DEF LinkInv
  <1>2. /\ State \in StateSet /\ hit_list \subseteq HitSet
        /\ wait_list' \in Seq(EntrySet)
    BY <1>1 DEF CacheInv, StateInv, StateSet, State
  <1>3. new_hits \subseteq HitSet
    <2> SUFFICES ASSUME NEW h \in hit_list, h.left # 1
                 PROVE  [h EXCEPT !.left = @ - 1] \in HitSet
      OBVIOUS
    <2> QED
      BY <1>2 DEF HitSet
  <1>4. Become(Callback(s, hits)) /\ unwritten' = unwritten
    BY DEF CacheSystemTick
  <1> HIDE DEF new_hits, hits
  <1>5. /\ s \in StateSet /\ s.lines = lines /\ s.mshr = mshr /\ s.retry = retry
        /\ s.aborted = aborted
    BY <1>2, <1>3 DEF StateSet, State
  <1>6. StateInv(s)
    BY <1>1, <1>5 DEF CacheInv, StateInv, SetInv, View, State
  <1> HIDE DEF s
  <1> QED
    BY <1>1, <1>4, <1>5, <1>6, CalledLinked

LEMMA AnswerLinked ==
  ASSUME NlpCores = {}, LinkInv, NEW c \in Cores, NEW b \in Uses[c], Answer(c, b),
         RetriesWait'
  PROVE  LinkInv'
  <1> DEFINE answers == {[blk |-> b, core |-> c]}
  <1>1. Become(Callback(State, answers)) /\ unwritten' = unwritten
    BY DEF Answer
  <1>2. CacheInv' /\ StateInv(State)
    BY AnswerFacts DEF LinkInv, CacheInv
  <1>3. /\ State.lines = lines /\ State.mshr = mshr /\ State.retry = retry
        /\ State.aborted = aborted
    BY DEF State
  <1> HIDE DEF answers
  <1> QED
    BY <1>1, <1>2, <1>3, CalledLinked

LEMMA SwitchLinked ==
  ASSUME LinkInv, NEW process \in Processes, NEW c \in process, TryContextSwitch(c, process)
  PROVE  LinkInv'
  <1>1. CacheInv /\ CacheInv' /\ Linked(State, {}) /\ State' \in StateSet
    BY SwitchFacts DEF LinkInv, CacheInv, StateInv
  <1>2. /\ lines' = [k \in Caches |->
             [i \in DOMAIN lines[k] |-> [lines[k][i] EXCEPT !.dirty = FALSE]]]
        /\ UNCHANGED <<mshr, retry, hit_list, aborted>>
    BY DEF TryContextSwitch, Flush
  <1>3. ASSUME NEW k \in Caches
        PROVE  /\ DOMAIN lines'[k] = DOMAIN lines[k]
               /\ \A i \in DOMAIN lines[k] :
                    /\ lines'[k][i].blk = lines[k][i].blk
                    /\ lines'[k][i].lock = lines[k][i].lock /\ ~lines'[k][i].dirty
    <2>1. lines'[k] = [i \in DOMAIN lines[k] |-> [lines[k][i] EXCEPT !.dirty = FALSE]]
      BY <1>2
    <2>2. \A i \in DOMAIN lines[k] : lines[k][i] \in LineSet
      BY <1>1 DEF CacheInv, StateInv, StateSet, State
    <2> QED
      BY <2>1, <2>2 DEF LineSet
  <1>4. /\ State.lines = lines /\ State'.lines = lines'
        /\ State'.mshr = State.mshr /\ State'.retry = State.retry
        /\ State'.aborted = State.aborted
    BY <1>2 DEF State
  <1>5. \A x \in Caches :
          /\ \A l \in View(State', x) : \E m \in View(State, x) :
               m.blk = l.blk /\ m.lock = l.lock
          /\ \A m \in View(State, x) : \E l \in View(State', x) :
               m.blk = l.blk /\ m.lock = l.lock
          /\ \A l \in View(State', x) : ~l.dirty
    BY <1>3, <1>4 DEF View, LinesOf
  <1>6. Linked(State', {})
    BY <1>1, <1>4, <1>5, LinkedSame
  <1>7. \A b : ~DirtyIn(State', b)
    BY <1>5 DEF DirtyIn
  <1> QED
    BY <1>1, <1>6, <1>7 DEF LinkInv

LEMMA UnmovedLinked ==
  ASSUME LinkInv, CacheInv', UNCHANGED <<cacheVars, unwritten>>
  PROVE  LinkInv'
  <1>1. Become(State) /\ State \in StateSet
    BY DEF Become, State, cacheVars, LinkInv, CacheInv, StateInv
  <1> QED
    BY <1>1, StepLinked DEF LinkInv

LEMMA NextKeepsLinkInv ==
  ASSUME NlpCores = {}
  PROVE  LinkInv /\ [Next]_vars /\ RetriesWait' => LinkInv'
  <1> SUFFICES ASSUME LinkInv, [Next]_vars, RetriesWait' PROVE LinkInv'
    OBVIOUS
  <1>1. CacheInv'
    BY NextKeepsCacheInv DEF LinkInv
  <1>2. ASSUME NEW c \in Cores, CoreTick(c) PROVE LinkInv'
    BY <1>1, <1>2, UnmovedLinked DEF CoreTick
  <1>3. ASSUME NEW k \in Caches \ {LLC}, Resend(k) PROVE LinkInv'
    BY <1>3, ResendLinked
  <1>4. CASE EndLoop
    BY <1>1, <1>4, UnmovedLinked DEF EndLoop
  <1>5. ASSUME NEW c \in Cores, NEW write \in BOOLEAN, NEW b \in Uses[c], Execute(c, b, write)
        PROVE  LinkInv'
    BY <1>5, ExecuteLinked
  <1>6. ASSUME NEW taken \in SUBSET Due, CacheSystemTick(taken) PROVE LinkInv'
    BY <1>6, CacheSystemTickLinked
  <1>7. ASSUME NEW c \in Cores, NEW b \in Uses[c], Answer(c, b) PROVE LinkInv'
    BY <1>7, AnswerLinked
  <1>8. ASSUME NEW process \in Processes, NEW c \in process, TryContextSwitch(c, process)
        PROVE  LinkInv'
    BY <1>8, SwitchLinked
  <1>9. CASE UNCHANGED vars
    BY <1>1, <1>9, UnmovedLinked DEF vars
  <1> QED
    BY <1>2, <1>3, <1>4, <1>5, <1>6, <1>7, <1>8, <1>9 DEF Next

LEMMA LinkInvHolds ==
  ASSUME NlpCores = {}
  PROVE  Spec /\ []RetriesWait => []LinkInv
  BY InitLinked, NextKeepsLinkInv, PTL DEF Spec

----------------------------------------------------------------------------
(* Inclusion, MSHRs and dirty bits *)

LEMMA LinkInvFacts ==
  LinkInv => NeverAborts /\ MshrTracksLocks /\ Inclusive /\ DirtyIsKept
  <1> SUFFICES ASSUME LinkInv
               PROVE  NeverAborts /\ MshrTracksLocks /\ Inclusive /\ DirtyIsKept
    OBVIOUS
  <1>1. /\ State \in StateSet /\ State.mshr = mshr /\ State.aborted = aborted
        /\ mshr \in [Caches -> SUBSET Blocks]
        /\ \A k \in Caches : SetInv(State, k) /\ Unique(State.lines[k])
        /\ Linked(State, {})
    BY DEF LinkInv, CacheInv, StateInv, SetInv, StateSet, State
  <1>2. NeverAborts
    BY <1>1 DEF NeverAborts, Linked
  <1>3. ASSUME NEW k \in Caches, NEW b
        PROVE  /\ Locked(State, k, b) <=> HasLock(State, k, b)
               /\ Holds(State, k, b) <=> HasLine(State, k, b)
               /\ Dirty(k, b) <=> \E l \in View(State, k) : l.blk = b /\ l.dirty
    BY <1>1, LineFacts, HoldsLine DEF Locked, HasLock, Dirty
  <1>4. MshrTracksLocks
    <2> SUFFICES ASSUME NEW k \in Caches
                 PROVE  mshr[k] = {b \in Blocks : Locked(State, k, b)}
      BY DEF MshrTracksLocks
    <2>1. \A b \in mshr[k] : Locked(State, k, b)
      BY <1>1, <1>3 DEF Linked, Waiting
    <2>2. \A b : Locked(State, k, b) => b \in mshr[k]
      BY <1>1, <1>3 DEF SetInv, HasLock
    <2> QED
      BY <1>1, <2>1, <2>2
  <1>5. Inclusive
    <2> SUFFICES ASSUME NEW k \in Caches \ {LLC}, NEW b \in Blocks,
                        Holds(State, k, b), ~Locked(State, k, b)
                 PROVE  Holds(State, Lower(k), b)
      BY DEF Inclusive
    <2>1. HasData(State, k, b)
      BY <1>3 DEF HasLine, HasLock, HasData
    <2>2. HasData(State, Lower(k), b) /\ Lower(k) \in Caches
      BY <1>1, <2>1, CacheFacts DEF Linked, Backed
    <2> QED
      BY <1>3, <2>2 DEF HasData, HasLine
  <1>6. DirtyIsKept
    <2>1. \A b \in Blocks : DirtyIn(State, b) <=> \E k \in Caches : Dirty(k, b)
      BY <1>3 DEF DirtyIn
    <2>2. unwritten \subseteq Blocks /\ \A b \in Blocks : DirtyIn(State, b) <=> b \in unwritten
      BY <1>2 DEF LinkInv, CacheInv, NeverAborts
    <2> QED
      BY <2>1, <2>2 DEF DirtyIsKept
  <1> QED
    BY <1>2, <1>4, <1>5, <1>6

----------------------------------------------------------------------------
(* Caches with room at each level for all that waits above *)

(* The union of a finite family of finite sets, and how many elements it has at most *)
LEMMA SetsFinite ==
  ASSUME NEW C, IsFiniteSet(C), NEW n \in Nat, NEW P,
         \A c \in C : IsFiniteSet(P[c]) /\ Cardinality(P[c]) <= n,
         NEW X, \A x \in X : \E c \in C : x \in P[c]
  PROVE  IsFiniteSet(X) /\ Cardinality(X) <= Cardinality(C) * n
  <1> DEFINE of(x) == CHOOSE c \in C : x \in P[c]
             count(c) == CHOOSE g : g \in Bijection(1 .. Cardinality(P[c]), P[c])
             index(x) == CHOOSE i \in 1 .. Cardinality(P[of(x)]) : count(of(x))[i] = x
             f == [x \in X |-> <<of(x), index(x)>>]
  <1>1. ASSUME NEW x \in X
        PROVE  /\ of(x) \in C /\ index(x) \in 1 .. n
               /\ count(of(x))[index(x)] = x
    <2>1. of(x) \in C /\ x \in P[of(x)]
      OBVIOUS
    <2> HIDE DEF of
    <2>2. /\ Cardinality(P[of(x)]) \in Nat /\ Cardinality(P[of(x)]) <= n
          /\ Bijection(1 .. Cardinality(P[of(x)]), P[of(x)]) # {}
      BY <2>1, FS_CardinalityType DEF ExistsBijection
    <2>3. count(of(x)) \in Bijection(1 .. Cardinality(P[of(x)]), P[of(x)])
      BY <2>2
    <2> HIDE DEF count
    <2>4. \E i \in 1 .. Cardinality(P[of(x)]) : count(of(x))[i] = x
      BY <2>1, <2>3 DEF Bijection, Surjection
    <2>5. index(x) \in 1 .. Cardinality(P[of(x)]) /\ count(of(x))[index(x)] = x
      BY <2>4
    <2> HIDE DEF index
    <2> QED
      BY <2>1, <2>2, <2>5
  <1> HIDE DEF of, count, index
  <1>2. f \in [X -> C \X (1 .. n)]
    BY <1>1
  <1>3. ASSUME NEW x \in X, NEW y \in X, f[x] = f[y] PROVE x = y
    <2>1. of(x) = of(y) /\ index(x) = index(y)
      BY <1>3
    <2> QED
      BY <1>1, <2>1
  <1>4. f \in Injection(X, C \X (1 .. n))
    BY <1>2, <1>3 DEF Injection, IsInjective
  <1>5. /\ IsFiniteSet(C \X (1 .. n))
        /\ Cardinality(C \X (1 .. n)) = Cardinality(C) * n
    <2>1. IsFiniteSet(1 .. n) /\ Cardinality(1 .. n) = n
      BY FS_Interval
    <2> QED
      BY <2>1, FS_Product
  <1> HIDE DEF f
  <1> QED
    BY <1>4, <1>5, FS_Injection

(* The blocks that k has lines of are as many as its lines. *)
BlocksIn(s, k) == {l.blk : l \in View(s, k)}

LEMMA LineCount ==
  ASSUME NEW s \in StateSet, NEW k \in Caches, Unique(s.lines[k])
  PROVE  /\ IsFiniteSet(BlocksIn(s, k))
         /\ Cardinality(BlocksIn(s, k)) = Len(s.lines[k])
  <1> DEFINE ls == s.lines[k]
             f == [i \in 1 .. Len(ls) |-> ls[i].blk]
  <1>1. ls \in Seq(LineSet) /\ DOMAIN ls = 1 .. Len(ls) /\ Len(ls) \in Nat
    BY DEF StateSet
  <1>2. BlocksIn(s, k) = {ls[i].blk : i \in 1 .. Len(ls)}
    BY <1>1 DEF BlocksIn, View, LinesOf
  <1>3. \A i, j \in 1 .. Len(ls) : ls[i].blk = ls[j].blk => i = j
    BY <1>1 DEF Unique
  <1> HIDE DEF ls
  <1>4. f \in Bijection(1 .. Len(ls), BlocksIn(s, k))
    BY <1>2, <1>3 DEF Bijection, Injection, Surjection, IsInjective
  <1>5. IsFiniteSet(1 .. Len(ls)) /\ Cardinality(1 .. Len(ls)) = Len(ls)
    <2> DEFINE n == Len(ls)
    <2>1. n \in Nat
      BY <1>1
    <2> HIDE DEF n
    <2>2. IsFiniteSet(1 .. n) /\ Cardinality(1 .. n) = n
      BY <2>1, FS_Interval
    <2> QED
      BY <2>2 DEF n
  <1>6. ExistsBijection(1 .. Len(ls), BlocksIn(s, k))
    BY <1>4 DEF ExistsBijection
  <1> QED
    BY <1>5, <1>6, FS_Bijection DEF ls

(* What waits at a level waits in a first-level cache above it.            *)
Nested(s) ==
  /\ \A c \in HostCores : s.mshr[<<"L2", c>>] \subseteq s.mshr[L1(c)]
  /\ \A b \in s.mshr[LLC] : \E c \in HostCores : b \in s.mshr[<<"L2", c>>]

(* The cores whose first level is above k *)
Users(k) == IF k = LLC THEN HostCores ELSE {k[2]}

(* The host's cores, with caches that have at each level the ways and the  *)
(* MSHRs of all first levels above.  l1_assoc and l2_assoc, l1_mshr_num    *)
(* and l2_mshr_num have it so of the L2; l3_assoc of the LLC for up to     *)
(* four cores, and mshr_per_bank * trace_list.size() where each core has a *)
(* trace file (Processor.h, the constructor of Processor).                 *)
Roomy ==
  /\ NlpCores = {}
  /\ Assoc["L1"] <= Assoc["L2"] /\ Cardinality(HostCores) * Assoc["L1"] <= Assoc["L3"]
  /\ MshrNum["L1"] <= MshrNum["L2"]
  /\ Cardinality(HostCores) * MshrNum["L1"] <= MshrNum["L3"]

LEMMA UsersFacts ==
  ASSUME Roomy, NEW k \in Caches, k[1] # "L1"
  PROVE  /\ IsFiniteSet(Users(k)) /\ Users(k) \subseteq HostCores
         /\ Cardinality(Users(k)) * Assoc["L1"] <= Assoc[k[1]]
         /\ Cardinality(Users(k)) * MshrNum["L1"] <= MshrNum[k[1]]
         /\ Assoc["L1"] \in Nat /\ MshrNum["L1"] \in Nat
  <1>1. Assoc["L1"] \in Nat /\ MshrNum["L1"] \in Nat
    BY SizeAssumption DEF Levels
  <1>2. CASE k = LLC
    <2>1. IsFiniteSet(HostCores)
      BY CoreAssumption, FS_Subset DEF Cores
    <2> QED
      BY <1>1, <1>2, <2>1, CacheFacts DEF Users, Roomy
  <1>3. CASE k # LLC
    <2>1. k[1] = "L2" /\ k[2] \in HostCores
      BY <1>3, LevelFacts
    <2>2. IsFiniteSet({k[2]}) /\ Cardinality({k[2]}) = 1
      BY FS_Singleton
    <2> QED
      BY <1>1, <1>3, <2>1, <2>2 DEF Users, Roomy
  <1> QED
    BY <1>2, <1>3

(* A block that waits somewhere has a line in a first level above. *)
LEMMA WaitsAbove ==
  ASSUME NlpCores = {}, NEW s, StateInv(s), Nested(s), NEW x \in Caches, NEW b \in s.mshr[x]
  PROVE  \E c \in HostCores : /\ b \in s.mshr[L1(c)] /\ b \in BlocksIn(s, L1(c))
                              /\ x # LLC => c = x[2]
  <1>1. \E c \in HostCores : b \in s.mshr[L1(c)] /\ (x # LLC => c = x[2])
    <2>1. CASE x = LLC
      BY <2>1 DEF Nested
    <2>2. CASE x # LLC /\ x[1] = "L1"
      BY <2>2, LevelFacts DEF Cores
    <2>3. CASE x # LLC /\ x[1] # "L1"
      <3>1. x = <<"L2", x[2]>> /\ x[2] \in HostCores
        BY <2>3 DEF Caches, L1
      <3> QED
        BY <3>1 DEF Nested
    <2> QED
      BY <2>1, <2>2, <2>3
  <1>2. PICK c \in HostCores : b \in s.mshr[L1(c)] /\ (x # LLC => c = x[2])
    BY <1>1
  <1>3. SetInv(s, L1(c)) /\ L1(c)[1] = "L1"
    BY CacheFacts DEF StateInv, Cores
  <1> QED
    BY <1>2, <1>3 DEF SetInv, BlocksIn

(* A line that may not be evicted has a line in a first level above. *)
LEMMA PinnedAbove ==
  ASSUME NlpCores = {}, NEW s, StateInv(s), Nested(s), NEW k \in Caches, k[1] # "L1",
         Victims(s, k) = {}, NEW b \in BlocksIn(s, k)
  PROVE  \E c \in Users(k) : b \in BlocksIn(s, L1(c))
  <1>1. s \in StateSet /\ \A x \in Caches : SetInv(s, x) /\ Unique(s.lines[x])
    BY DEF StateInv, SetInv
  <1>2. PICK i \in DOMAIN s.lines[k] : s.lines[k][i].blk = b
    BY DEF BlocksIn, View, LinesOf
  <1>3. ~Unlocked(s, k, b)
    BY <1>2 DEF Victims
  <1>4. PICK x \in {k} \cup Reached(s, k, b) : LineOf(s, x, b).lock
    BY <1>3 DEF Unlocked
  <1>5. x \in Caches /\ Holds(s, x, b)
    BY <1>2, <1>4, CacheFacts DEF Reached, Holds
  <1>6. b \in s.mshr[x]
    BY <1>1, <1>4, <1>5, LineFacts DEF SetInv
  <1>7. PICK c \in HostCores : b \in BlocksIn(s, L1(c)) /\ (x # LLC => c = x[2])
    BY <1>5, <1>6, WaitsAbove
  <1>8. CASE k = LLC
    BY <1>7, <1>8 DEF Users
  <1>9. CASE k # LLC
    <2>1. x # LLC /\ x[2] = k[2]
      <3>1. CASE x = k
        BY <1>9, <3>1
      <3>2. CASE x # k
        <4>1. x \in Above(k)
          BY <1>4, <3>2 DEF Reached
        <4>2. x # LLC /\ Lower(x) = k
          BY <1>9, <4>1 DEF Above
        <4> QED
          BY <1>9, <4>2 DEF Lower
      <3> QED
        BY <3>1, <3>2
    <2> QED
      BY <1>7, <1>9, <2>1 DEF Users
  <1> QED
    BY <1>8, <1>9

(* There is room below for a miss of a first level. *)
LEMMA RoomBelow ==
  ASSUME Roomy, NEW s, StateInv(s), Nested(s), NEW k \in Caches, k[1] # "L1",
         NEW c \in Users(k), NEW b \in s.mshr[L1(c)], b \notin s.mshr[k], ~Holds(s, k, b)
  PROVE  ~MshrFull(s, k) /\ ~NoRoom(s, k)
  <1>1. NlpCores = {} /\ HostCores = Cores
    BY DEF Roomy, Cores
  <1>2. /\ IsFiniteSet(Users(k)) /\ Users(k) \subseteq HostCores
        /\ Cardinality(Users(k)) * Assoc["L1"] <= Assoc[k[1]]
        /\ Cardinality(Users(k)) * MshrNum["L1"] <= MshrNum[k[1]]
        /\ Assoc["L1"] \in Nat /\ MshrNum["L1"] \in Nat
    BY UsersFacts
  <1>3. /\ Assoc[k[1]] \in Nat /\ MshrNum[k[1]] \in Nat /\ Cardinality(Users(k)) \in Nat
    BY <1>2, LevelFacts, FS_CardinalityType
  <1>4. \A d \in Users(k) : L1(d) \in Caches /\ L1(d)[1] = "L1" /\ SetInv(s, L1(d))
    BY <1>1, <1>2, CacheFacts DEF StateInv
  <1>5. s \in StateSet /\ SetInv(s, k)
    BY DEF StateInv
  <1>6. ~MshrFull(s, k)
    <2> DEFINE P == [d \in Users(k) |-> s.mshr[L1(d)]]
               X == s.mshr[k] \cup {b}
    <2>1. \A d \in Users(k) : IsFiniteSet(P[d]) /\ Cardinality(P[d]) <= MshrNum["L1"]
      BY <1>4 DEF SetInv
    <2>2. ASSUME NEW x \in X PROVE \E d \in Users(k) : x \in P[d]
      <3>1. CASE x = b
        BY <3>1
      <3>2. CASE x \in s.mshr[k]
        <4>1. PICK d \in HostCores : x \in s.mshr[L1(d)] /\ (k # LLC => d = k[2])
          BY <1>1, <3>2, WaitsAbove
        <4>2. d \in Users(k)
          BY <4>1 DEF Users
        <4> QED
          BY <4>1, <4>2
      <3> QED
        BY <3>1, <3>2
    <2> HIDE DEF P
    <2>3. Cardinality(X) <= Cardinality(Users(k)) * MshrNum["L1"]
      <3> HIDE DEF X
      <3> QED
        BY <1>2, <2>1, <2>2, SetsFinite
    <2>4. Cardinality(X) = Cardinality(s.mshr[k]) + 1 /\ Cardinality(s.mshr[k]) \in Nat
      BY <1>5, FS_AddElement, FS_CardinalityType DEF SetInv
    <2> DEFINE n == Cardinality(s.mshr[k])
               m == Cardinality(Users(k)) * MshrNum["L1"]
    <2>5. m \in Nat
      BY <1>2, <1>3
    <2>6. n + 1 <= m /\ n \in Nat /\ m <= MshrNum[k[1]]
      BY <1>2, <2>3, <2>4
    <2> HIDE DEF m, n, X
    <2>7. n # MshrNum[k[1]]
      BY <1>3, <2>5, <2>6
    <2> QED
      BY <2>7 DEF MshrFull, n
  <1>7. ~NoRoom(s, k)
    <2> SUFFICES ASSUME Len(s.lines[k]) = Assoc[k[1]], Victims(s, k) = {} PROVE FALSE
      BY DEF NoRoom
    <2> DEFINE P == [d \in Users(k) |-> BlocksIn(s, L1(d))]
               X == BlocksIn(s, k) \cup {b}
    <2>1. ASSUME NEW d \in Users(k)
          PROVE  IsFiniteSet(P[d]) /\ Cardinality(P[d]) <= Assoc["L1"]
      BY <1>4, <1>5, LineCount DEF SetInv
    <2>2. ASSUME NEW x \in X PROVE \E d \in Users(k) : x \in P[d]
      <3>1. CASE x = b
        <4>1. b \in BlocksIn(s, L1(c))
          BY <1>4 DEF SetInv, BlocksIn
        <4> QED
          BY <3>1, <4>1
      <3>2. CASE x \in BlocksIn(s, k)
        BY <1>1, <3>2, PinnedAbove
      <3> QED
        BY <3>1, <3>2
    <2> HIDE DEF P
    <2>3. Cardinality(X) <= Cardinality(Users(k)) * Assoc["L1"]
      <3> HIDE DEF X
      <3> QED
        BY <1>2, <2>1, <2>2, SetsFinite
    <2>4. b \notin BlocksIn(s, k)
      BY HoldsLine DEF BlocksIn, HasLine
    <2>5. Cardinality(X) = Len(s.lines[k]) + 1
      <3>1. IsFiniteSet(BlocksIn(s, k)) /\ Cardinality(BlocksIn(s, k)) = Len(s.lines[k])
        BY <1>5, LineCount DEF SetInv
      <3> QED
        BY <2>4, <3>1, FS_AddElement
    <2> DEFINE m == Cardinality(Users(k)) * Assoc["L1"]
    <2>6. m \in Nat
      BY <1>2, <1>3
    <2>7. Assoc[k[1]] + 1 <= m /\ m <= Assoc[k[1]]
      BY <1>2, <2>3, <2>5
    <2> HIDE DEF m
    <2> QED
      BY <1>3, <2>6, <2>7
  <1> QED
    BY <1>6, <1>7

(* No miss is kept to be sent again. *)
EasyState(s) == Nested(s) /\ \A k \in Caches : s.retry[k] = <<>>

(* Whether a miss of b in k comes from a miss above *)
ComesFrom(s, k, b) ==
  \/ k[1] = "L1"
  \/ k[1] = "L2" /\ b \in s.mshr[L1(k[2])]
  \/ k = LLC /\ \E c \in HostCores : b \in s.mshr[<<"L2", c>>]

LEMMA AllocateEasy ==
  ASSUME NlpCores = {}, NEW s, StateInv(s), EasyState(s), NEW k \in Caches, NEW r \in RequestSet,
         Misses(s, k, r), ComesFrom(s, k, r.blk)
  PROVE  LET t == Allocate(s, k, r) IN
         StateInv(t) /\ EasyState(t) /\ r.blk \in t.mshr[k]
  <1> DEFINE t == Allocate(s, k, r)
  <1>1. StateInv(t) /\ Allocated(s, k, r, t)
    BY AllocateFacts DEF Misses
  <1> HIDE DEF t
  <1>2. t.mshr = [s.mshr EXCEPT ![k] = @ \cup {r.blk}] /\ t.retry = s.retry
    BY <1>1 DEF Allocated
  <1>3. s.mshr \in [Caches -> SUBSET Blocks]
    BY DEF StateInv, StateSet
  <1>4. t.mshr[k] = s.mshr[k] \cup {r.blk} /\ \A x \in Caches \ {k} : t.mshr[x] = s.mshr[x]
    BY <1>2, <1>3
  <1>5. \A x \in Caches : s.mshr[x] \subseteq t.mshr[x]
    BY <1>4
  <1>6. \A c \in HostCores : <<"L2", c>> \in Caches /\ <<"L2", c>> # LLC /\ L1(c) \in Caches
    BY DEF Caches, LLC, Cores
  <1>7. ASSUME NEW c \in HostCores PROVE t.mshr[<<"L2", c>>] \subseteq t.mshr[L1(c)]
    <2>1. s.mshr[<<"L2", c>>] \subseteq s.mshr[L1(c)]
      BY DEF EasyState, Nested
    <2>2. CASE k = <<"L2", c>>
      <3>1. r.blk \in s.mshr[L1(c)]
        BY <1>6, <2>2 DEF ComesFrom
      <3> QED
        BY <1>4, <1>5, <1>6, <2>1, <2>2, <3>1
    <2>3. CASE k # <<"L2", c>>
      BY <1>4, <1>5, <1>6, <2>1, <2>3
    <2> QED
      BY <2>2, <2>3
  <1>8. ASSUME NEW b \in t.mshr[LLC]
        PROVE  \E c \in HostCores : b \in t.mshr[<<"L2", c>>]
    <2>1. \E c \in HostCores : b \in s.mshr[<<"L2", c>>]
      <3>1. CASE b \in s.mshr[LLC]
        BY <3>1 DEF EasyState, Nested
      <3>2. CASE b \notin s.mshr[LLC]
        <4>1. k = LLC /\ b = r.blk
          BY <1>4, <3>2, CacheFacts
        <4> QED
          BY <4>1, CacheFacts DEF ComesFrom
      <3> QED
        BY <3>1, <3>2
    <2> QED
      BY <1>5, <1>6, <2>1
  <1> QED
    BY <1>1, <1>2, <1>4, <1>7, <1>8 DEF EasyState, Nested, t

(* A request that comes to a level *)
LEMMA SentEasy ==
  ASSUME NlpCores = {}, NEW s, StateInv(s), EasyState(s), NEW k \in Caches, NEW r \in RequestSet,
         r.write => k[1] = "L1",
         NEW miss, Misses(s, k, r) => miss.ok /\ EasyState(miss.st)
  PROVE  LET sent == Sent(s, k, r, miss) IN
         /\ EasyState(sent.st)
         /\ (r.blk \notin s.mshr[k] /\ ~Holds(s, k, r.blk) => ~MshrFull(s, k) /\ ~NoRoom(s, k))
              => sent.ok
  <1>1. s \in StateSet /\ SetInv(s, k)
    BY DEF StateInv
  <1>2. ASSUME NEW t, Touches(s, r, t) PROVE EasyState(t)
    BY <1>2 DEF Touches, EasyState, Nested
  <1>3. CASE Holds(s, k, r.blk) /\ ~Locked(s, k, r.blk)
    BY <1>2, <1>3, HitFacts DEF Sent, Accepted
  <1>4. CASE ~(Holds(s, k, r.blk) /\ ~Locked(s, k, r.blk)) /\ r.blk \in s.mshr[k]
    BY <1>2, <1>4, MergeFacts DEF Sent, Accepted
  <1>5. CASE ~(Holds(s, k, r.blk) /\ ~Locked(s, k, r.blk)) /\ r.blk \notin s.mshr[k]
    <2>1. ~Holds(s, k, r.blk)
      <3>1. Locked(s, k, r.blk) => r.blk \in s.mshr[k]
        BY <1>1, LineFacts DEF Locked, SetInv
      <3> QED
        BY <1>5, <3>1
    <2>2. CASE MshrFull(s, k) \/ NoRoom(s, k)
      <3>1. Sent(s, k, r, miss) = Refused(s)
        BY <1>5, <2>2 DEF Sent
      <3> QED
        BY <1>5, <2>1, <2>2, <3>1 DEF Refused
    <2>3. CASE ~(MshrFull(s, k) \/ NoRoom(s, k))
      <3>1. Misses(s, k, r) /\ Sent(s, k, r, miss) = miss
        BY <1>5, <2>1, <2>3 DEF Misses, Sent
      <3> QED
        BY <3>1
    <2> QED
      BY <2>2, <2>3
  <1> QED
    BY <1>3, <1>4, <1>5

LEMMA SendLastEasy ==
  ASSUME Roomy, NEW s, StateInv(s), EasyState(s), NEW r \in RequestSet, ~r.write,
         NEW c \in HostCores, r.blk \in s.mshr[<<"L2", c>>]
  PROVE  SendLast(s, r).ok /\ EasyState(SendLast(s, r).st)
  <1> DEFINE miss == ToMemory(s, r)
  <1>1. NlpCores = {} /\ LLC \in Caches /\ LLC[1] = "L3"
    BY CacheFacts DEF Roomy
  <1>2. ASSUME Misses(s, LLC, r) PROVE miss.ok /\ EasyState(miss.st)
    <2> DEFINE a == Allocate(s, LLC, r)
    <2>1. EasyState(a) /\ StateInv(a)
      BY <1>1, <1>2, AllocateEasy DEF ComesFrom
    <2> HIDE DEF a
    <2>2. a \in StateSet
      BY <2>1 DEF StateInv
    <2>3. miss.ok /\ miss.st.mshr = a.mshr /\ miss.st.retry = a.retry
      BY <2>2 DEF ToMemory, Accepted, StateSet, a
    <2> HIDE DEF miss
    <2> QED
      BY <2>1, <2>3 DEF EasyState, Nested
  <1>3. r.blk \notin s.mshr[LLC] /\ ~Holds(s, LLC, r.blk) => ~MshrFull(s, LLC) /\ ~NoRoom(s, LLC)
    <2>1. c \in Users(LLC) /\ r.blk \in s.mshr[L1(c)] /\ Nested(s)
      BY DEF Users, EasyState, Nested
    <2> QED
      BY <1>1, <2>1, RoomBelow
  <1> HIDE DEF miss
  <1>4. LET sent == Sent(s, LLC, r, miss) IN sent.ok /\ EasyState(sent.st)
    BY <1>1, <1>2, <1>3, SentEasy
  <1> QED
    BY <1>4 DEF SendLast, miss

LEMMA SendNextEasy ==
  ASSUME Roomy, NEW s, StateInv(s), EasyState(s), NEW r \in RequestSet, ~r.write,
         NEW c \in HostCores, r.blk \in s.mshr[L1(c)]
  PROVE  LET sent == SendNext(s, <<"L2", c>>, r) IN sent.ok /\ EasyState(sent.st)
  <1> DEFINE k == <<"L2", c>>
             new == Allocate(s, k, r)
             below == SendLast(new, AsRead(r))
             miss == Passed(new, k, r, below)
  <1>1. NlpCores = {} /\ k \in Caches /\ k[1] = "L2" /\ k[2] = c
    BY DEF Roomy, Caches
  <1>2. ASSUME Misses(s, k, r) PROVE miss.ok /\ EasyState(miss.st)
    <2>1. StateInv(new) /\ EasyState(new) /\ r.blk \in new.mshr[k]
      BY <1>1, <1>2, AllocateEasy DEF ComesFrom
    <2> HIDE DEF new
    <2>2. AsRead(r) \in RequestSet /\ ~AsRead(r).write /\ AsRead(r).blk = r.blk
      BY ReadFacts
    <2>3. below.ok /\ EasyState(below.st)
      BY <2>1, <2>2, SendLastEasy
    <2> HIDE DEF below
    <2> QED
      BY <2>3 DEF Passed
  <1>3. r.blk \notin s.mshr[k] /\ ~Holds(s, k, r.blk) => ~MshrFull(s, k) /\ ~NoRoom(s, k)
    <2>1. k # LLC /\ c \in Users(k) /\ Nested(s)
      BY <1>1, CacheFacts DEF Users, EasyState
    <2> QED
      BY <1>1, <2>1, RoomBelow
  <1>4. SendNext(s, k, r) = Sent(s, k, r, miss)
    BY DEF SendNext
  <1> HIDE DEF miss, k
  <1>5. LET sent == Sent(s, k, r, miss) IN sent.ok /\ EasyState(sent.st)
    BY <1>1, <1>2, <1>3, SentEasy
  <1> QED
    BY <1>4, <1>5 DEF k

LEMMA SendEasy ==
  ASSUME Roomy, NEW s, StateInv(s), EasyState(s), NEW r \in RequestSet, NEW c \in HostCores
  PROVE  EasyState(Send(s, L1(c), r).st)
  <1> DEFINE k == L1(c)
             new == Allocate(s, k, r)
             below == SendNext(new, <<"L2", c>>, AsRead(r))
             miss == Passed(new, k, r, below)
  <1>1. NlpCores = {} /\ k \in Caches /\ k[1] = "L1" /\ k # LLC
        /\ Lower(k) = <<"L2", c>> /\ Lower(k) # LLC
    BY DEF Roomy, Caches, L1, Cores, Lower, LLC
  <1>2. ASSUME Misses(s, k, r) PROVE miss.ok /\ EasyState(miss.st)
    <2>1. StateInv(new) /\ EasyState(new) /\ r.blk \in new.mshr[k]
      BY <1>1, <1>2, AllocateEasy DEF ComesFrom
    <2> HIDE DEF new
    <2>2. AsRead(r) \in RequestSet /\ ~AsRead(r).write /\ AsRead(r).blk = r.blk
      BY ReadFacts
    <2>3. below.ok /\ EasyState(below.st)
      BY <2>1, <2>2, SendNextEasy
    <2> HIDE DEF below
    <2> QED
      BY <2>3 DEF Passed
  <1>3. Send(s, k, r) = Sent(s, k, r, miss)
    BY <1>1 DEF Send
  <1> HIDE DEF miss, k
  <1>4. EasyState(Sent(s, k, r, miss).st)
    BY <1>1, <1>2, SentEasy
  <1> QED
    BY <1>3, <1>4 DEF k

(* All MSHRs of the blocks answered are released, at all levels. *)
LEMMA CallbackEasy ==
  ASSUME NlpCores = {}, NEW s, StateInv(s), EasyState(s), NEW rs
  PROVE  EasyState(Callback(s, rs))
  <1> DEFINE t == Callback(s, rs)
             A == {r.blk : r \in rs}
  <1>1. Released(s, t) /\ \A k \in Caches : t.mshr[k] = s.mshr[k] \ A
    BY CallbackFacts, AnsweredAll
  <1> HIDE DEF t, A
  <1>2. \A c \in HostCores : <<"L2", c>> \in Caches /\ L1(c) \in Caches
    BY DEF Caches, Cores
  <1> QED
    BY <1>1, <1>2, CacheFacts DEF EasyState, Nested, Released, t

EasyInv == CacheInv /\ EasyState(State)

LEMMA EasySame ==
  ASSUME EasyInv, CacheInv', UNCHANGED <<mshr, retry>>
  PROVE  EasyInv'
  BY DEF EasyInv, EasyState, Nested, State

LEMMA StepEasy ==
  ASSUME CacheInv', NEW t \in StateSet, Become(t), EasyState(t)
  PROVE  EasyInv'
  <1>1. State' = t
    BY DEF Become, State, StateSet
  <1> QED
    BY <1>1 DEF EasyInv

LEMMA NextKeepsEasyInv ==
  ASSUME Roomy
  PROVE  EasyInv /\ [Next]_vars => EasyInv'
  <1> SUFFICES ASSUME EasyInv, [Next]_vars PROVE EasyInv'
    OBVIOUS
  <1>1. /\ CacheInv /\ CacheInv' /\ StateInv(State) /\ State \in StateSet /\ EasyState(State)
        /\ NlpCores = {} /\ HostCores = Cores
    BY NextKeepsCacheInv DEF EasyInv, CacheInv, StateInv, Roomy, Cores
  <1>2. ASSUME NEW c \in Cores, CoreTick(c) PROVE EasyInv'
    BY <1>1, <1>2, EasySame DEF CoreTick, cacheVars
  <1>3. ASSUME NEW k \in Caches \ {LLC}, Resend(k) PROVE EasyInv'
    <2>1. retry[k] = <<>> /\ place \in Nat \ {0} /\ place <= Len(retry[k])
      BY <1>1, <1>3 DEF EasyState, State, CacheInv, Resend
    <2> QED
      BY <2>1
  <1>4. CASE EndLoop
    BY <1>1, <1>4, EasySame DEF EndLoop, cacheVars
  <1>5. ASSUME NEW c \in Cores, NEW write \in BOOLEAN, NEW b \in Uses[c], Execute(c, b, write)
        PROVE  EasyInv'
    <2> DEFINE r == [blk |-> b, core |-> c, write |-> write]
               sent == Send(State, L1(c), r)
    <2>1. r \in RequestSet
      BY CoreAssumption DEF RequestSet
    <2>2. Become(sent.st)
      BY <1>5 DEF Execute
    <2> HIDE DEF r
    <2>3. StateInv(sent.st) /\ EasyState(sent.st)
      <3>1. r.write => L1(c)[1] = "L1"
        BY CacheFacts
      <3> QED
        BY <1>1, <2>1, <3>1, CacheFacts, SendFacts, SendEasy DEF Sound
    <2> HIDE DEF sent
    <2> QED
      BY <1>1, <2>2, <2>3, StepEasy DEF StateInv
  <1>6. ASSUME NEW taken \in SUBSET Due, CacheSystemTick(taken) PROVE EasyInv'
    <2> DEFINE hits == {h \in hit_list : h.left = 1}
               new_hits == {[h EXCEPT !.left = @ - 1] : h \in hit_list \ hits}
               s == [State EXCEPT !.wait_list = wait_list', !.hit_list = new_hits]
    <2>1. Become(Callback(s, hits))
      BY <1>6 DEF CacheSystemTick
    <2>2. hit_list \subseteq HitSet /\ wait_list' \in Seq(EntrySet)
      BY <1>1 DEF CacheInv, StateInv, StateSet, State
    <2>3. new_hits \subseteq HitSet
      <3> SUFFICES ASSUME NEW h \in hit_list, h.left # 1
                   PROVE  [h EXCEPT !.left = @ - 1] \in HitSet
        OBVIOUS
      <3> QED
        BY <2>2 DEF HitSet
    <2> HIDE DEF hits, new_hits
    <2>4. /\ s \in StateSet /\ s.lines = State.lines /\ s.mshr = State.mshr
          /\ s.retry = State.retry
      BY <1>1, <2>2, <2>3 DEF StateSet, State
    <2>5. StateInv(s) /\ EasyState(s)
      BY <1>1, <2>4 DEF StateInv, SetInv, View, EasyState, Nested
    <2> HIDE DEF s
    <2>6. EasyState(Callback(s, hits)) /\ Callback(s, hits) \in StateSet
      BY <1>1, <2>5, CallbackEasy, CallbackFacts DEF StateInv
    <2> QED
      BY <1>1, <2>1, <2>6, StepEasy
  <1>7. ASSUME NEW c \in Cores, NEW b \in Uses[c], Answer(c, b) PROVE EasyInv'
    <2> DEFINE answers == {[blk |-> b, core |-> c]}
    <2>1. Become(Callback(State, answers))
      BY <1>7 DEF Answer
    <2> HIDE DEF answers
    <2>2. EasyState(Callback(State, answers)) /\ Callback(State, answers) \in StateSet
      BY <1>1, CallbackEasy, CallbackFacts DEF StateInv
    <2> QED
      BY <1>1, <2>1, <2>2, StepEasy
  <1>8. ASSUME NEW process \in Processes, NEW c \in process, TryContextSwitch(c, process)
        PROVE  EasyInv'
    BY <1>1, <1>8, EasySame DEF TryContextSwitch, Flush
  <1>9. CASE UNCHANGED vars
    BY <1>1, <1>9, EasySame DEF vars, cacheVars
  <1> QED
    BY <1>2, <1>3, <1>4, <1>5, <1>6, <1>7, <1>8, <1>9 DEF Next

LEMMA InitEasy == Init => EasyInv
  <1> SUFFICES ASSUME Init PROVE EasyInv
    OBVIOUS
  <1>1. \A k \in Caches : State.mshr[k] = {} /\ State.retry[k] = <<>>
    BY DEF Init, State
  <1>2. \A c \in HostCores : <<"L2", c>> \in Caches
    BY DEF Caches
  <1> QED
    BY <1>1, <1>2, InitFacts, CacheFacts DEF EasyInv, EasyState, Nested

LEMMA EasyInvHolds ==
  ASSUME Roomy
  PROVE  Spec => []EasyInv
  BY InitEasy, NextKeepsEasyInv, PTL DEF Spec

----------------------------------------------------------------------------
(* Theorems about the caches of the host's cores, where no callback        *)
(* releases a miss that is kept to be sent again                           *)

LEMMA LinkInvGives ==
  ASSUME NlpCores = {}
  PROVE  Spec /\ []RetriesWait =>
           [](NeverAborts /\ MshrTracksLocks /\ Inclusive /\ DirtyIsKept)
  BY LinkInvHolds, LinkInvFacts, PTL

(* No assertion of Cache.cpp fails, for any cores, blocks, sizes and       *)
(* latencies: invalidate comes to no locked line, evictline finds its      *)
(* block ("check inclusive cache"), and allocate_line never comes to a     *)
(* block that has a line.                                                  *)
THEOREM CacheNeverAborts ==
  ASSUME NlpCores = {}
  PROVE  Spec /\ []RetriesWait => []NeverAborts
  BY LinkInvGives, PTL

(* At every level the MSHRs are those of the locked lines: an eviction     *)
(* takes no line from an MSHR, nor does a callback release one alone       *)
(* (hit_mshr, callback, evict, invalidate).                                *)
THEOREM CacheMshrTracksLocks ==
  ASSUME NlpCores = {}
  PROVE  Spec /\ []RetriesWait => []MshrTracksLocks
  BY LinkInvGives, PTL

(* A line with its data has a line below, through the evictions of every   *)
(* level and through misses refused below and sent again (evict,           *)
(* invalidate, Cache::tick, Cache::callback).                              *)
THEOREM CacheInclusive ==
  ASSUME NlpCores = {}
  PROVE  Spec /\ []RetriesWait => []Inclusive
  BY LinkInvGives, PTL

(* The blocks dirty in some cache are those written and not since written  *)
(* back: the dirty bit is lost on no way down and is left in no cache      *)
(* (evict, invalidate, evictline, the flush of can_context_switch).        *)
THEOREM CacheDirtyIsKept ==
  ASSUME NlpCores = {}
  PROVE  Spec /\ []RetriesWait => []DirtyIsKept
  BY LinkInvGives, PTL

(* Where each level has room for all that waits above it, no level refuses *)
(* what a first-level cache has accepted: every retry_list stays empty     *)
(* (Cache::send, allocate_line, Cache::tick).                              *)
NothingRetried == \A k \in Caches : retry[k] = <<>>

THEOREM CacheNeverRetries ==
  ASSUME Roomy
  PROVE  Spec => []NothingRetried
  <1>1. EasyInv => NothingRetried
    BY DEF EasyInv, EasyState, NothingRetried, State
  <1> QED
    BY <1>1, EasyInvHolds, PTL

(* There, with blocks private or shared and whatever the latencies, all    *)
(* that is said above of the caches holds without a condition: a hit may   *)
(* call back after its line has been evicted and fetched again, and still  *)
(* no assertion fails, and inclusion, MSHRs and dirty bits are right.      *)
THEOREM CacheRoomyIsSound ==
  ASSUME Roomy
  PROVE  Spec => []RetriesWait
                 /\ [](NeverAborts /\ MshrTracksLocks /\ Inclusive /\ DirtyIsKept)
  <1>1. NothingRetried => RetriesWait
    BY DEF NothingRetried, RetriesWait
  <1>2. NlpCores = {}
    BY DEF Roomy
  <1>3. Spec /\ []RetriesWait =>
          [](NeverAborts /\ MshrTracksLocks /\ Inclusive /\ DirtyIsKept)
    BY <1>2, LinkInvGives
  <1> QED
    BY <1>1, <1>3, CacheNeverRetries, PTL
=============================================================================
