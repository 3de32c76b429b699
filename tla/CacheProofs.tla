----------------------------- MODULE CacheProofs -----------------------------
(***************************************************************************)
(* Proofs about the offset cache, for any number of processes, threads,    *)
(* extractions, writes and restarts, and files and caches of any size.     *)
(***************************************************************************)
EXTENDS OffsetCache, SequenceTheorems, OrderLemmas

-----------------------------------------------------------------------------
(* What the operators give.                                                *)

(* A search finds a place of the anchor, or that there is none.            *)
LEMMA FoundIsAnAnchor ==
  ASSUME NEW c \in Content, NEW o \in Occurrence
  PROVE  /\ c.anchors = {} => Found(c, o) = Absent
         /\ c.anchors # {} => Found(c, o) \in c.anchors
         /\ Found(c, o) \in Place \union {Absent}
<1>1. c.anchors \in SUBSET Place /\ c.anchors \in SUBSET Nat
  BY CacheAssumption DEF Content, Place
<1>2. ASSUME c.anchors # {} PROVE Found(c, o) \in c.anchors
  <2>1. CASE o = "first"
    <3>1. \E a \in c.anchors : \A b \in c.anchors : a <= b
      BY <1>1, <1>2, LeastNumber
    <3> QED BY <1>2, <2>1, <3>1 DEF Found
  <2>2. CASE o = "last"
    <3>1. MaxSize \in Nat /\ c.anchors \in SUBSET (0 .. MaxSize)
      BY <1>1, CacheAssumption DEF Place
    <3>2. \E a \in c.anchors : \A b \in c.anchors : b <= a
      BY <1>2, <3>1, GreatestNumber
    <3> QED BY <1>2, <2>2, <3>2 DEF Found
  <2> QED BY <2>1, <2>2 DEF Occurrence
<1> QED BY <1>1, <1>2 DEF Found

(* What is remembered of a key comes from an entry of that key.            *)
LEMMA RememberedSlot ==
  ASSUME NEW es \in Seq(Entry), NEW k, NEW o \in Occurrence
  PROVE  /\ Remembered(es, k, o) \in Place \union {NoOffset}
         /\ \/ Remembered(es, k, o) = NoOffset
            \/ \E i \in DOMAIN es : es[i].key = k /\ Remembered(es, k, o) = es[i].slot[o]
<1>1. CASE At(es, k) = {}
  BY <1>1 DEF Remembered
<1>2. CASE At(es, k) # {}
  <2>1. PICK i \in At(es, k) : Remembered(es, k, o) = es[i].slot[o]
    BY <1>2 DEF Remembered
  <2>2. i \in DOMAIN es /\ es[i].key = k /\ es[i] \in Entry
    BY <2>1 DEF At
  <2> QED BY <2>1, <2>2 DEF Entry, Slot
<1> QED BY <1>1, <1>2

(* Setting a slot changes that slot of that key, and no other.             *)
LEMMA SetSlot ==
  ASSUME NEW es \in Seq(Entry), NEW k \in Key, NEW o \in Occurrence,
         NEW n \in Place \union {NoOffset}
  PROVE  /\ Set(es, k, o, n) \in Seq(Entry)
         /\ \A i \in DOMAIN Set(es, k, o, n) :
              \/ /\ i \in DOMAIN es
                 /\ Set(es, k, o, n)[i].key = es[i].key
                 /\ \A other \in Occurrence :
                      \/ Set(es, k, o, n)[i].slot[other] = es[i].slot[other]
                      \/ es[i].key = k /\ other = o /\ Set(es, k, o, n)[i].slot[other] = n
              \/ /\ Set(es, k, o, n)[i].key = k
                 /\ \A other \in Occurrence :
                      Set(es, k, o, n)[i].slot[other] = (IF other = o THEN n ELSE NoOffset)
<1> DEFINE result == Set(es, k, o, n)
<1>1. CASE At(es, k) = {}
  <2> DEFINE added == [key |-> k, slot |-> [NoSlot EXCEPT ![o] = n]]
  <2>1. added \in Entry
    BY DEF Entry, Slot, NoSlot
  <2>2. result = Append(es, added)
    BY <1>1 DEF Set
  <2>3. /\ result \in Seq(Entry)
        /\ DOMAIN result = 1 .. Len(es) + 1
        /\ \A i \in 1 .. Len(es) : result[i] = es[i]
        /\ result[Len(es) + 1] = added
    BY <2>1, <2>2, AppendProperties
  <2>4. \A other \in Occurrence : added.slot[other] = (IF other = o THEN n ELSE NoOffset)
    BY DEF NoSlot
  <2> HIDE DEF added
  <2>5. added.key = k
    BY DEF added
  <2>6. Len(es) \in Nat /\ DOMAIN es = 1 .. Len(es)
    OBVIOUS
  <2>7. ASSUME NEW i \in DOMAIN result PROVE i \in DOMAIN es \/ i = Len(es) + 1
    BY <2>3, <2>6
  <2> QED BY <2>3, <2>4, <2>5, <2>6, <2>7
<1>2. CASE At(es, k) # {}
  <2> DEFINE changed(i) == IF es[i].key = k THEN [es[i] EXCEPT !.slot[o] = n] ELSE es[i]
  <2>1. result = [i \in DOMAIN es |-> changed(i)]
    BY <1>2 DEF Set
  <2>2. ASSUME NEW i \in DOMAIN es
        PROVE  /\ changed(i) \in Entry
               /\ changed(i).key = es[i].key
               /\ \A other \in Occurrence :
                    \/ changed(i).slot[other] = es[i].slot[other]
                    \/ es[i].key = k /\ other = o /\ changed(i).slot[other] = n
    <3>1. es[i] \in Entry
      OBVIOUS
    <3> QED BY <3>1 DEF Entry, Slot
  <2> HIDE DEF changed
  <2>3. result \in Seq(Entry)
    BY <2>1, <2>2
  <2> QED BY <2>1, <2>2, <2>3
<1> QED BY <1>1, <1>2

(* Forgetting is setting to NoOffset where there is an entry.              *)
LEMMA ForgetSlot ==
  ASSUME NEW es \in Seq(Entry), NEW k \in Key, NEW o \in Occurrence
  PROVE  /\ Forget(es, k, o) \in Seq(Entry)
         /\ DOMAIN Forget(es, k, o) = DOMAIN es
         /\ \A i \in DOMAIN es :
              /\ Forget(es, k, o)[i].key = es[i].key
              /\ \A other \in Occurrence :
                   Forget(es, k, o)[i].slot[other] \in {es[i].slot[other], NoOffset}
<1> DEFINE changed(i) ==
      IF es[i].key = k THEN [es[i] EXCEPT !.slot[o] = NoOffset] ELSE es[i]
<1>1. Forget(es, k, o) = [i \in DOMAIN es |-> changed(i)]
  BY DEF Forget
<1>2. ASSUME NEW i \in DOMAIN es
      PROVE  /\ changed(i) \in Entry
             /\ changed(i).key = es[i].key
             /\ \A other \in Occurrence : changed(i).slot[other] \in {es[i].slot[other], NoOffset}
  <2>1. es[i] \in Entry
    OBVIOUS
  <2> QED BY <2>1 DEF Entry, Slot
<1> HIDE DEF changed
<1>3. Forget(es, k, o) \in Seq(Entry)
  BY <1>1, <1>2
<1> QED BY <1>1, <1>2, <1>3

(* A trimmed cache is short, and holds only entries of the cache.          *)
LEMMA TrimmedEntries ==
  ASSUME NEW es \in Seq(Entry)
  PROVE  /\ Trimmed(es) \in Seq(Entry)
         /\ Len(Trimmed(es)) <= MaxEntries
         /\ \A i \in DOMAIN Trimmed(es) : \E j \in DOMAIN es : Trimmed(es)[i] = es[j]
<1>1. Len(es) \in Nat /\ MaxEntries \in Nat \ {0}
  BY CacheAssumption
<1>2. CASE Len(es) <= MaxEntries
  BY <1>2 DEF Trimmed
<1>3. CASE Len(es) > MaxEntries
  <2> DEFINE m == Len(es) - MaxEntries + 1
  <2>1. m \in 1 .. Len(es) /\ Len(es) - m + 1 = MaxEntries /\ m <= Len(es)
    BY <1>1, <1>3
  <2>2. Trimmed(es) = SubSeq(es, m, Len(es))
    BY <1>1, <1>3 DEF Trimmed
  <2> HIDE DEF m
  <2>3. m \in Int /\ Len(es) \in Int /\ \A i \in m .. Len(es) : es[i] \in Entry
    BY <1>1, <2>1
  <2>4. /\ SubSeq(es, m, Len(es)) \in Seq(Entry)
        /\ Len(SubSeq(es, m, Len(es))) = MaxEntries
        /\ \A i \in 1 .. MaxEntries : SubSeq(es, m, Len(es))[i] = es[m + i - 1]
    BY <2>1, <2>3, SubSeqProperties
  <2>5. DOMAIN SubSeq(es, m, Len(es)) = 1 .. MaxEntries /\ DOMAIN es = 1 .. Len(es)
    BY <2>4
  <2>6. ASSUME NEW i \in 1 .. MaxEntries PROVE m + i - 1 \in DOMAIN es
    BY <1>1, <2>1, <2>5
  <2> QED BY <1>1, <2>2, <2>4, <2>5, <2>6
<1> QED BY <1>1, <1>2, <1>3

-----------------------------------------------------------------------------
(* The invariant, part by part.                                            *)

(* The invariant holds before any process has opened the cache.            *)
LEMMA InitInv == Init => IInv
<1> SUFFICES ASSUME Init PROVE IInv
  OBVIOUS
<1>1. EmptyFile \in Content
  BY CacheAssumption DEF EmptyFile, Content
<1>2. NoKey \in Key
  BY CacheAssumption DEF NoKey, Key
<1>3. << >> \in Seq(Entry) /\ Len(<< >>) = 0 /\ 0 <= MaxEntries
  BY CacheAssumption
<1>4. TypeOK
  <2>1. /\ content \in Content /\ gone \in BOOLEAN
        /\ mtime \in 0 .. MaxWrites /\ writes \in 0 .. MaxWrites
        /\ queries \in 0 .. MaxQueries /\ restarts \in 0 .. MaxRestarts
    <3>1. /\ 0 \in 0 .. MaxWrites /\ 0 \in 0 .. MaxQueries /\ 0 \in 0 .. MaxRestarts
      BY CacheAssumption
    <3> QED BY <3>1 DEF Init
  <2>2. /\ entries \in [Procs -> Seq(Entry)] /\ temp \in [Procs -> Seq(Entry)]
        /\ loaded \in [Procs -> BOOLEAN] /\ stored \in Seq(Entry) /\ Len(stored) <= MaxEntries
    BY <1>3 DEF Init, NoFile
  <2>3. /\ home \in [Workers -> Procs] /\ pc \in [Workers -> Step]
        /\ snap \in [Workers -> Content] /\ asked \in [Workers -> Occurrence]
        /\ key \in [Workers -> Key] /\ answer \in [Workers -> Place \union {Absent}]
        /\ stale \in [Workers -> BOOLEAN] /\ disturbed \in BOOLEAN
    BY <1>1, <1>2 DEF Init, Step, Occurrence
  <2> QED BY <2>1, <2>2, <2>3 DEF TypeOK
<1>5. BoundInv
  BY <1>3 DEF Init, BoundInv, NoFile
<1>6. AnchorInv /\ AnswerIsAnAnchor
  BY DEF Init, AnchorInv, AnswerIsAnAnchor, Done
<1>7. QuietInv
  BY DEF Init, QuietInv, QuietThread, Sound, NoFile
<1> QED BY <1>4, <1>5, <1>6, <1>7 DEF IInv

(* The identity of the file has its type.                                  *)
LEMMA FileKeyType ==
  ASSUME TypeOK
  PROVE  FileKey \in Key /\ FileKey[2] = mtime
BY DEF TypeOK, Content, FileKey, Key

(* What Idle leaves of the threads.                                        *)
LEMMA IdleType ==
  ASSUME TypeOK, NEW ws \in SUBSET Workers, Idle(ws)
  PROVE  /\ pc' \in [Workers -> Step] /\ snap' \in [Workers -> Content]
         /\ asked' \in [Workers -> Occurrence] /\ key' \in [Workers -> Key]
         /\ answer' \in [Workers -> Place \union {Absent}]
         /\ stale' \in [Workers -> BOOLEAN]
<1>1. EmptyFile \in Content /\ NoKey \in Key
  BY CacheAssumption DEF EmptyFile, Content, NoKey, Key
<1> QED BY <1>1 DEF TypeOK, Idle, Step, Occurrence

(* A lookup, from opening the cache to its answer, keeps the types; the    *)
(* mtime stays behind the writes and a saved cache within its size.        *)
LEMMA ThreadKeepsType ==
  ASSUME TypeOK, BoundInv, AnchorInv, NEW w \in Workers,
         \/ Open(w) \/ LoadBegin(w) \/ LoadEnd(w) \/ Stat(w)
         \/ Lookup(w) \/ Find(w) \/ Store(w) \/ Return(w)
  PROVE  TypeOK' /\ BoundInv'
<1> USE DEF TypeOK, BoundInv
<1>0. home[w] \in Procs
  OBVIOUS
<1>1. CASE Open(w)
  <2>1. asked' \in [Workers -> Occurrence]
    BY <1>1 DEF Open
  <2> QED BY <1>1, <2>1, CacheAssumption DEF Open, Goto, Step, disk, caches
<1>2. CASE LoadBegin(w)
  BY <1>0, <1>2 DEF LoadBegin, Goto, Step, disk
<1>3. CASE LoadEnd(w)
  BY <1>0, <1>3 DEF LoadEnd, Goto, Step, disk
<1>4. CASE Stat(w)
  BY <1>4, FileKeyType DEF Stat, Goto, Step, disk, caches
<1>5. CASE Lookup(w)
  <2>1. Forget(entries[home[w]], key[w], asked[w]) \in Seq(Entry)
    BY <1>0, ForgetSlot
  <2>2. entries' \in [Procs -> Seq(Entry)]
    BY <1>0, <1>5, <2>1 DEF Lookup
  <2>3. snap[w].anchors \in SUBSET Place
    BY DEF Content
  <2>4. answer' \in [Workers -> Place \union {Absent}] /\ pc' \in [Workers -> Step]
    BY <1>5, <2>3 DEF Lookup, Goto, Step
  <2> QED BY <1>5, <2>2, <2>4 DEF Lookup, disk
<1>6. CASE Find(w)
  <2>1. Found(snap[w], asked[w]) \in Place \union {Absent}
    BY FoundIsAnAnchor
  <2> QED BY <1>6, <2>1, FileKeyType DEF Find, Goto, Step, disk, caches
<1>7. CASE Store(w)
  <2>1. answer[w] \in Place
    BY <1>7 DEF Store, AnchorInv, Content
  <2>2. Set(entries[home[w]], key[w], asked[w], answer[w]) \in Seq(Entry)
    BY <1>0, <2>1, SetSlot
  <2> QED BY <1>0, <1>7, <2>2 DEF Store, Goto, Step, disk
<1>8. CASE Return(w)
  BY <1>8, IdleType DEF Return, disk, caches
<1> QED BY <1>1, <1>2, <1>3, <1>4, <1>5, <1>6, <1>7, <1>8

(* So do the saving of a process, a run without a cache, and a crash.      *)
LEMMA ProcessKeepsType ==
  ASSUME TypeOK, BoundInv, NEW p \in Procs,
         SaveTemp(p) \/ Replace(p) \/ SaveFails(p) \/ DisableUnused(p) \/ Crash(p)
  PROVE  TypeOK' /\ BoundInv'
<1> USE DEF TypeOK, BoundInv
<1>0. << >> \in Seq(Entry) /\ Len(<< >>) = 0 /\ 0 <= MaxEntries
  BY CacheAssumption
<1>1. CASE SaveTemp(p)
  <2>1. Trimmed(entries[p]) \in Seq(Entry) /\ Len(Trimmed(entries[p])) <= MaxEntries
    BY TrimmedEntries
  <2> QED BY <1>1, <2>1, CacheAssumption DEF SaveTemp, disk, threads
<1>2. ASSUME Fresh(p)
      PROVE  /\ entries' \in [Procs -> Seq(Entry)] /\ loaded' \in [Procs -> BOOLEAN]
             /\ temp' \in [Procs -> Seq(Entry)]
             /\ \A q \in Procs : Len(temp'[q]) <= MaxEntries
  BY <1>0, <1>2 DEF Fresh, NoFile
<1>3. CASE Replace(p)
  BY <1>2, <1>3 DEF Replace, disk, threads
<1>4. CASE SaveFails(p)
  BY <1>2, <1>4 DEF SaveFails, disk, threads
<1>5. CASE DisableUnused(p)
  BY <1>2, <1>5 DEF DisableUnused, disk, threads
<1>6. CASE Crash(p)
  <2>1. WorkersOf(p) \in SUBSET Workers
    BY DEF WorkersOf
  <2> QED BY <1>2, <1>6, <2>1, IdleType, CacheAssumption DEF Crash, disk
<1> QED BY <1>1, <1>3, <1>4, <1>5, <1>6

(* So do writing the file that is cached and unlinking it.                 *)
LEMMA FileKeepsType ==
  ASSUME TypeOK, BoundInv, Change \/ Unlink
  PROVE  TypeOK' /\ BoundInv'
<1> USE DEF TypeOK, BoundInv
<1>1. CASE Change
  <2>1. writes' \in 0 .. MaxWrites /\ mtime' \in Nat /\ mtime' <= writes'
    BY <1>1, CacheAssumption DEF Change
  <2>2. mtime' \in 0 .. MaxWrites
    BY <2>1, CacheAssumption
  <2>3. disturbed' \in BOOLEAN
    BY <1>1 DEF Change
  <2> QED BY <1>1, <2>1, <2>2, <2>3 DEF Change, caches
<1>2. CASE Unlink
  BY <1>2 DEF Unlink, caches, threads
<1> QED BY <1>1, <1>2

(* An answer is taken from the content it is an answer about, by Lookup    *)
(* when it verifies a hit and by Find.                                     *)
LEMMA AnchorStep ==
  ASSUME TypeOK, AnchorInv, AnswerIsAnAnchor, [Next]_vars
  PROVE  AnchorInv' /\ AnswerIsAnAnchor'
<1> DEFINE Good(w) ==
      /\ pc[w] = "store" => answer[w] \in snap[w].anchors
      /\ pc[w] = "done" =>
           IF answer[w] = Absent THEN snap[w].anchors = {} ELSE answer[w] \in snap[w].anchors
<1>0. ASSUME NEW w \in Workers PROVE Good(w)
  BY DEF AnchorInv, AnswerIsAnAnchor, Done
<1>a. SUFFICES ASSUME NEW w \in Workers PROVE Good(w)'
  BY DEF AnchorInv, AnswerIsAnAnchor, Done
<1>b. ASSUME UNCHANGED <<pc[w], snap[w], answer[w]>> PROVE Good(w)'
  BY <1>0, <1>b
<1>c. Absent \notin snap[w].anchors
  BY CacheAssumption DEF TypeOK, Content, Place, Absent
<1>1. ASSUME NEW v \in Workers,
             \/ Open(v) \/ LoadBegin(v) \/ LoadEnd(v) \/ Stat(v)
             \/ Lookup(v) \/ Find(v) \/ Store(v) \/ Return(v)
      PROVE  Good(w)'
  <2>1. CASE v # w
    BY <1>1, <1>b, <2>1 DEF TypeOK, Open, LoadBegin, LoadEnd, Stat, Lookup, Find, Store,
       Return, Idle, Goto
  <2>2. CASE v = w
    <3>1. CASE Open(w) \/ LoadBegin(w) \/ LoadEnd(w) \/ Stat(w)
      <4>1. pc'[w] \notin {"store", "done"}
        BY <3>1 DEF TypeOK, Open, LoadBegin, LoadEnd, Stat, Goto
      <4> QED BY <4>1
    <3>2. CASE Lookup(w)
      BY <1>c, <3>2 DEF TypeOK, Lookup, Goto
    <3>3. CASE Find(w)
      <4>1. /\ snap[w].anchors = {} => Found(snap[w], asked[w]) = Absent
            /\ snap[w].anchors # {} => Found(snap[w], asked[w]) \in snap[w].anchors
        BY FoundIsAnAnchor DEF TypeOK
      <4> QED BY <1>c, <3>3, <4>1 DEF TypeOK, Find, Goto
    <3>4. CASE Store(w)
      BY <1>0, <1>c, <3>4 DEF TypeOK, Store, Goto
    <3>5. CASE Return(w)
      BY <3>5 DEF TypeOK, Return, Idle
    <3> QED BY <1>1, <2>2, <3>1, <3>2, <3>3, <3>4, <3>5
  <2> QED BY <2>1, <2>2
<1>2. ASSUME NEW p \in Procs,
             SaveTemp(p) \/ Replace(p) \/ SaveFails(p) \/ DisableUnused(p) \/ Crash(p)
      PROVE  Good(w)'
  <2>1. CASE SaveTemp(p) \/ Replace(p) \/ SaveFails(p) \/ DisableUnused(p)
    BY <1>b, <2>1 DEF SaveTemp, Replace, SaveFails, DisableUnused, threads
  <2>2. CASE Crash(p)
    <3>1. CASE w \in WorkersOf(p)
      BY <2>2, <3>1 DEF TypeOK, Crash, Idle
    <3>2. CASE w \notin WorkersOf(p)
      BY <1>b, <2>2, <3>2 DEF TypeOK, Crash, Idle
    <3> QED BY <3>1, <3>2
  <2> QED BY <1>2, <2>1, <2>2
<1>3. CASE Change \/ Unlink \/ UNCHANGED vars
  BY <1>b, <1>3 DEF Change, Unlink, threads, vars
<1> QED BY <1>1, <1>2, <1>3 DEF Next

(* Soundness is kept by what takes entries away or copies them, ...        *)
LEMMA SoundKept ==
  ASSUME TypeOK, NEW es, NEW fs, Sound(es),
         \A i \in DOMAIN fs : \E j \in DOMAIN es :
           /\ fs[i].key = es[j].key
           /\ \A o \in Occurrence : fs[i].slot[o] \in {es[j].slot[o], NoOffset}
  PROVE  Sound(fs)
<1> SUFFICES ASSUME NEW i \in DOMAIN fs
             PROVE  /\ fs[i].key[2] <= mtime
                    /\ fs[i].key = FileKey =>
                         \A o \in Occurrence : fs[i].slot[o] \in {NoOffset, Found(content, o)}
  BY DEF Sound
<1>1. PICK j \in DOMAIN es :
           /\ fs[i].key = es[j].key
           /\ \A o \in Occurrence : fs[i].slot[o] \in {es[j].slot[o], NoOffset}
  OBVIOUS
<1>2. /\ es[j].key[2] <= mtime
      /\ es[j].key = FileKey =>
           \A o \in Occurrence : es[j].slot[o] \in {NoOffset, Found(content, o)}
  BY DEF Sound
<1> QED BY <1>1, <1>2

(* ... by storing what a search of the present content finds, ...          *)
LEMMA SoundSet ==
  ASSUME TypeOK, NEW es \in Seq(Entry), Sound(es), NEW o \in Occurrence,
         Found(content, o) \in Place
  PROVE  Sound(Set(es, FileKey, o, Found(content, o)))
<1> DEFINE fs == Set(es, FileKey, o, Found(content, o))
<1>1. FileKey \in Key /\ FileKey[2] = mtime
  BY FileKeyType
<1>2. \A i \in DOMAIN fs :
        \/ /\ i \in DOMAIN es
           /\ fs[i].key = es[i].key
           /\ \A other \in Occurrence :
                \/ fs[i].slot[other] = es[i].slot[other]
                \/ /\ es[i].key = FileKey
                   /\ other = o /\ fs[i].slot[other] = Found(content, o)
        \/ /\ fs[i].key = FileKey
           /\ \A other \in Occurrence :
                fs[i].slot[other] = (IF other = o THEN Found(content, o) ELSE NoOffset)
  BY <1>1, SetSlot
<1> HIDE DEF fs
<1> SUFFICES ASSUME NEW i \in DOMAIN fs
             PROVE  /\ fs[i].key[2] <= mtime
                    /\ fs[i].key = FileKey => \A other \in Occurrence :
                         fs[i].slot[other] \in {NoOffset, Found(content, other)}
  BY DEF Sound, fs
<1>3. mtime <= mtime
  BY DEF TypeOK
<1>4. CASE /\ fs[i].key = FileKey
           /\ \A other \in Occurrence :
                fs[i].slot[other] = (IF other = o THEN Found(content, o) ELSE NoOffset)
  BY <1>1, <1>3, <1>4
<1>5. CASE /\ i \in DOMAIN es
           /\ fs[i].key = es[i].key
           /\ \A other \in Occurrence :
                \/ fs[i].slot[other] = es[i].slot[other]
                \/ /\ es[i].key = FileKey
                   /\ other = o /\ fs[i].slot[other] = Found(content, o)
  <2>1. /\ es[i].key[2] <= mtime
        /\ es[i].key = FileKey =>
             \A other \in Occurrence : es[i].slot[other] \in {NoOffset, Found(content, other)}
    BY <1>5 DEF Sound
  <2> QED BY <1>5, <2>1
<1> QED BY <1>2, <1>4, <1>5

(* ... and by a change of the file that the clock shows.                   *)
LEMMA SoundUnderChange ==
  ASSUME TypeOK, TypeOK', NEW es, Sound(es), mtime' = mtime + 1,
         \A i \in DOMAIN es : es[i].key[2] \in Nat
  PROVE  Sound(es)'
<1>1. FileKey'[2] = mtime + 1 /\ mtime \in Nat
  BY DEF FileKey, TypeOK
<1>2. ASSUME NEW i \in DOMAIN es
      PROVE  es[i].key[2] <= mtime' /\ es[i].key # FileKey'
  BY <1>1, <1>2 DEF Sound
<1> QED BY <1>2 DEF Sound

(* A cache without entries promises nothing, so it is sound.               *)
LEMMA NoEntriesSound == Sound(<< >>)
BY DEF Sound

(* Where the file is quiet, every way of using the cache keeps it so.      *)
LEMMA ThreadKeepsQuiet ==
  ASSUME IInv, TypeOK', NEW w \in Workers,
         \/ Open(w) \/ LoadBegin(w) \/ LoadEnd(w) \/ Stat(w)
         \/ Lookup(w) \/ Find(w) \/ Store(w) \/ Return(w)
  PROVE  QuietInv'
<1> USE DEF IInv, TypeOK
<1>1. UNCHANGED <<content, mtime, home, disturbed, stored, temp>>
  BY DEF Open, LoadBegin, LoadEnd, Stat, Lookup, Find, Store, Return, disk, caches
<1> SUFFICES ASSUME ~disturbed
             PROVE  /\ \A v \in Workers : QuietThread(v)'
                    /\ \A p \in Procs : Sound(entries[p])'
  BY <1>1 DEF QuietInv, Sound, FileKey
<1>2. /\ \A v \in Workers : QuietThread(v)
      /\ \A p \in Procs : Sound(entries[p])
      /\ Sound(stored)
  BY DEF QuietInv
<1>3. ASSUME NEW v \in Workers, v # w PROVE QuietThread(v)'
  <2>1. UNCHANGED <<pc[v], snap[v], asked[v], key[v], answer[v]>>
    BY <1>3, ZenonT(30) DEF Open, LoadBegin, LoadEnd, Stat, Lookup, Find, Store, Return, Idle, Goto
  <2> QED BY <1>1, <1>2, <2>1 DEF QuietThread, FileKey
<1>4. home[w] \in Procs /\ asked[w] \in Occurrence /\ key[w] \in Key
  OBVIOUS
<1>5. ASSUME UNCHANGED entries PROVE \A p \in Procs : Sound(entries[p])'
  BY <1>1, <1>2, <1>5 DEF Sound, FileKey
<1>6. ASSUME NEW es, entries' = [entries EXCEPT ![home[w]] = es], Sound(es)
      PROVE  \A p \in Procs : Sound(entries[p])'
  <2>1. \A p \in Procs : Sound(entries'[p])
    BY <1>2, <1>6
  <2> QED BY <1>1, <2>1 DEF Sound, FileKey
<1>7. CASE Open(w)
  BY <1>1, <1>3, <1>5, <1>7 DEF Open, Goto, QuietThread, caches
<1>8. CASE LoadBegin(w)
  BY <1>1, <1>2, <1>3, <1>5, <1>8 DEF LoadBegin, Goto, QuietThread
<1>9. CASE LoadEnd(w)
  <2>1. Sound(IF stored = NoFile THEN entries[home[w]] ELSE stored)
    BY <1>2
  <2>2. \A p \in Procs : Sound(entries[p])'
    BY <1>6, <1>9, <2>1 DEF LoadEnd
  <2> QED BY <1>1, <1>2, <1>3, <1>9, <2>2 DEF LoadEnd, Goto, QuietThread
<1>10. CASE Stat(w)
  BY <1>1, <1>2, <1>3, <1>5, <1>10 DEF Stat, Goto, QuietThread, FileKey, caches
<1>11. CASE Lookup(w)
  <2> DEFINE offset == Remembered(entries[home[w]], key[w], asked[w])
             rest == Forget(entries[home[w]], key[w], asked[w])
  <2>1. snap[w] = content /\ key[w] = FileKey
    BY <1>2, <1>11 DEF Lookup, QuietThread
  <2>2. CASE offset \in snap[w].anchors
    <3>1. offset # NoOffset
      BY <2>2, CacheAssumption, SMTT(30) DEF Content, Place, NoOffset
    <3>2. PICK i \in DOMAIN entries[home[w]] :
            entries[home[w]][i].key = FileKey /\ offset = entries[home[w]][i].slot[asked[w]]
      BY <1>4, <2>1, <3>1, RememberedSlot
    <3>3. offset = Found(content, asked[w])
      BY <1>2, <1>4, <3>1, <3>2 DEF Sound
    <3> HIDE DEF offset
    <3>4. UNCHANGED entries /\ pc' = [pc EXCEPT ![w] = "done"]
          /\ answer' = [answer EXCEPT ![w] = offset]
          /\ UNCHANGED <<snap, asked, key>>
      BY <1>11, <2>2 DEF Lookup, Goto, offset
    <3>5. QuietThread(w)'
      BY <1>1, <2>1, <3>3, <3>4 DEF QuietThread
    <3> QED BY <1>3, <1>5, <3>4, <3>5
  <2>3. CASE offset \notin snap[w].anchors
    <3>1. Sound(rest)
      <4>1. entries[home[w]] \in Seq(Entry) /\ Sound(entries[home[w]])
        BY <1>2, <1>4
      <4>2. /\ DOMAIN rest = DOMAIN entries[home[w]]
            /\ \A i \in DOMAIN entries[home[w]] :
                 /\ rest[i].key = entries[home[w]][i].key
                 /\ \A o \in Occurrence :
                      rest[i].slot[o] \in {entries[home[w]][i].slot[o], NoOffset}
        BY <1>4, <4>1, ForgetSlot
      <4> HIDE DEF rest
      <4> QED BY <4>1, <4>2, SoundKept
    <3>2. entries' = [entries EXCEPT ![home[w]] = rest] /\ pc' = [pc EXCEPT ![w] = "find"]
          /\ UNCHANGED <<snap, asked, key, answer>>
      BY <1>11, <2>3 DEF Lookup, Goto
    <3> HIDE DEF rest, offset
    <3>3. QuietThread(w)'
      BY <1>1, <2>1, <3>2 DEF QuietThread
    <3> QED BY <1>3, <1>6, <3>1, <3>2, <3>3
  <2> QED BY <2>2, <2>3
<1>12. CASE Find(w)
  BY <1>1, <1>2, <1>3, <1>5, <1>12 DEF Find, Goto, QuietThread, FileKey, caches
<1>13. CASE Store(w)
  <2>1. /\ snap[w] = content /\ key[w] = FileKey
        /\ answer[w] = Found(content, asked[w])
    BY <1>2, <1>13 DEF Store, QuietThread
  <2>2. Found(content, asked[w]) \in Place
    BY <1>13, <2>1 DEF Store, AnchorInv, Content
  <2>3. Sound(Set(entries[home[w]], key[w], asked[w], answer[w]))
    BY <1>2, <1>4, <2>1, <2>2, SoundSet
  <2>4. \A p \in Procs : Sound(entries[p])'
    BY <1>6, <1>13, <2>3 DEF Store
  <2>5. QuietThread(w)'
    BY <1>1, <1>2, <1>13 DEF Store, Goto, QuietThread
  <2> QED BY <1>3, <2>4, <2>5
<1>14. CASE Return(w)
  <2>1. pc'[w] = "idle" /\ UNCHANGED entries
    BY <1>14 DEF Return, Idle, caches
  <2> QED BY <1>3, <1>5, <2>1 DEF QuietThread
<1> QED BY <1>7, <1>8, <1>9, <1>10, <1>11, <1>12, <1>13, <1>14

(* Saving, failing to save and crashing leave what is promised of a file   *)
(* that nobody changes.                                                    *)
LEMMA ProcessKeepsQuiet ==
  ASSUME IInv, NEW p \in Procs,
         SaveTemp(p) \/ Replace(p) \/ SaveFails(p) \/ DisableUnused(p) \/ Crash(p)
  PROVE  QuietInv'
<1> USE DEF IInv, TypeOK
<1>1. UNCHANGED <<content, mtime, home, disturbed>>
  BY DEF SaveTemp, Replace, SaveFails, DisableUnused, Crash, disk, threads
<1> SUFFICES ASSUME ~disturbed
             PROVE  /\ \A w \in Workers : QuietThread(w)'
                    /\ \A q \in Procs : Sound(entries'[q]) /\ Sound(temp'[q])
                    /\ Sound(stored')
  BY <1>1 DEF QuietInv, Sound, FileKey
<1>2. /\ \A w \in Workers : QuietThread(w)
      /\ \A q \in Procs : Sound(entries[q]) /\ Sound(temp[q])
      /\ Sound(stored)
  BY DEF QuietInv
<1>3. ASSUME UNCHANGED threads PROVE \A w \in Workers : QuietThread(w)'
  BY <1>1, <1>2, <1>3 DEF threads, QuietThread, FileKey
<1>4. ASSUME Fresh(p) PROVE \A q \in Procs : Sound(entries'[q]) /\ Sound(temp'[q])
  BY <1>2, <1>4, NoEntriesSound DEF Fresh, NoFile
<1>5. CASE SaveTemp(p)
  <2>1. Sound(Trimmed(entries[p]))
    <3>1. /\ entries[p] \in Seq(Entry)
          /\ \A i \in DOMAIN Trimmed(entries[p]) :
               \E j \in DOMAIN entries[p] : Trimmed(entries[p])[i] = entries[p][j]
      BY TrimmedEntries
    <3>2. \A i \in DOMAIN Trimmed(entries[p]) : \E j \in DOMAIN entries[p] :
            /\ Trimmed(entries[p])[i].key = entries[p][j].key
            /\ \A o \in Occurrence :
                 Trimmed(entries[p])[i].slot[o] \in {entries[p][j].slot[o], NoOffset}
      BY <3>1
    <3>3. Sound(entries[p])
      BY <1>2
    <3> QED BY <3>2, <3>3, SoundKept
  <2> QED BY <1>2, <1>3, <1>5, <2>1 DEF SaveTemp
<1>6. CASE Replace(p)
  BY <1>2, <1>3, <1>4, <1>6 DEF Replace
<1>7. CASE SaveFails(p) \/ DisableUnused(p)
  BY <1>2, <1>3, <1>4, <1>7 DEF SaveFails, DisableUnused
<1>8. CASE Crash(p)
  <2>1. \A w \in Workers : QuietThread(w)'
    BY <1>1, <1>2, <1>8 DEF Crash, Idle, QuietThread, FileKey
  <2> QED BY <1>2, <1>4, <1>8, <2>1 DEF Crash
<1> QED BY <1>5, <1>6, <1>7, <1>8

(* A change that leaves the file quiet comes when no thread is at work and *)
(* gives it an identity nothing was stored under.                          *)
LEMMA FileKeepsQuiet ==
  ASSUME IInv, TypeOK', Change \/ Unlink
  PROVE  QuietInv'
<1> USE DEF IInv
<1>1. CASE Change
  <2> SUFFICES ASSUME ~disturbed'
               PROVE  /\ \A w \in Workers : QuietThread(w)'
                      /\ \A p \in Procs : Sound(entries[p])' /\ Sound(temp[p])'
                      /\ Sound(stored)'
    BY DEF QuietInv
  <2>1. ~disturbed /\ Busy = {} /\ mtime' = mtime + 1
    BY <1>1 DEF Change
  <2>2. UNCHANGED <<entries, temp, stored, pc>>
    BY <1>1 DEF Change, caches
  <2>3. \A w \in Workers : QuietThread(w)'
    BY <2>1, <2>2 DEF Busy, QuietThread
  <2>4. ASSUME NEW es \in Seq(Entry), Sound(es) PROVE Sound(es)'
    <3>1. \A i \in DOMAIN es : es[i].key[2] \in Nat
      <4>1. \A i \in DOMAIN es : es[i] \in Entry
        BY <2>4
      <4> QED BY <4>1, CacheAssumption DEF Entry, Key
    <3> QED BY <2>1, <2>4, <3>1, SoundUnderChange
  <2>5. /\ \A p \in Procs : Sound(entries[p]) /\ Sound(temp[p])
        /\ Sound(stored)
    BY <2>1 DEF QuietInv
  <2>6. /\ \A p \in Procs : Sound(entries[p])' /\ Sound(temp[p])'
        /\ Sound(stored)'
    BY <2>2, <2>4, <2>5 DEF TypeOK, Sound, FileKey
  <2> QED BY <2>3, <2>6
<1>2. CASE Unlink
  BY <1>2 DEF Unlink, caches, threads, QuietInv, QuietThread, Sound, FileKey
<1> QED BY <1>1, <1>2

(* The invariant in every reachable state.                                 *)
THEOREM CacheInvariant == Spec => []IInv
<1>1. IInv /\ [Next]_vars => IInv'
  <2> SUFFICES ASSUME IInv, [Next]_vars
               PROVE  IInv'
    OBVIOUS
  <2>1. AnchorInv' /\ AnswerIsAnAnchor'
    BY AnchorStep DEF IInv
  <2>2. CASE \E w \in Workers :
               \/ Open(w) \/ LoadBegin(w) \/ LoadEnd(w) \/ Stat(w)
               \/ Lookup(w) \/ Find(w) \/ Store(w) \/ Return(w)
    BY <2>1, <2>2, ThreadKeepsType, ThreadKeepsQuiet DEF IInv
  <2>3. CASE \E p \in Procs :
               SaveTemp(p) \/ Replace(p) \/ SaveFails(p) \/ DisableUnused(p) \/ Crash(p)
    BY <2>1, <2>3, ProcessKeepsType, ProcessKeepsQuiet DEF IInv
  <2>4. CASE Change \/ Unlink
    BY <2>1, <2>4, FileKeepsType, FileKeepsQuiet DEF IInv
  <2>5. CASE UNCHANGED vars
    BY <2>1, <2>5 DEF vars, disk, caches, threads, IInv, TypeOK, BoundInv, QuietInv,
       QuietThread, Sound, FileKey
  <2> QED BY <2>2, <2>3, <2>4, <2>5 DEF Next
<1> QED BY <1>1, InitInv, PTL DEF Spec

-----------------------------------------------------------------------------
(* Every variable keeps its type; what save writes is never longer than    *)
(* MAX_ENTRIES.                                                            *)
THEOREM CacheTypeCorrect == Spec => []TypeOK
<1>1. IInv => TypeOK
  BY DEF IInv
<1> QED BY <1>1, CacheInvariant, PTL

(* An offset extract uses is one the anchor is at, whatever the cache      *)
(* holds and whatever happened to the file.                                *)
THEOREM HitsAreVerified == Spec => []AnswerIsAnAnchor
<1>1. IInv => AnswerIsAnAnchor
  BY DEF IInv
<1> QED BY <1>1, CacheInvariant, PTL

(* Over a quiet file caching changes no result.                            *)
THEOREM CachingIsInvisible == Spec => []QuietFileIsRight
<1>1. IInv => QuietFileIsRight
  BY DEF IInv, QuietInv, QuietThread, QuietFileIsRight, Done
<1> QED BY <1>1, CacheInvariant, PTL
=============================================================================
