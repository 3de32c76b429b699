----------------------------- MODULE OffsetCache -----------------------------
(***************************************************************************)
(* cache.py and its one caller, extract._anchor_offset: the offset an      *)
(* anchor was found at is remembered under the identity of the file and    *)
(* the occurrence asked for, shared by the threads of a process and, over  *)
(* a file on disk, by processes.                                           *)
(*                                                                         *)
(* One path and one anchor.  The identity (file_key) is the size and the   *)
(* mtime the path has when lookup and store ask for it; the content        *)
(* searched is the one the Source was opened on.                           *)
(***************************************************************************)
EXTENDS Integers, Sequences

CONSTANTS
  Procs,         \* processes, each with an OffsetCache of its own
  Workers,       \* threads
  MaxSize,       \* bound: places an anchor can be at
  MaxWrites,     \* bound: changes of the file
  MaxQueries,    \* bound: extractions
  MaxRestarts,   \* bound: caches saved, dropped or lost in a crash
  MaxEntries,    \* MAX_ENTRIES
  Collisions     \* may a change keep both size and mtime?

ASSUME CacheAssumption ==
  /\ MaxSize \in Nat /\ MaxWrites \in Nat /\ MaxQueries \in Nat /\ MaxRestarts \in Nat
  /\ MaxEntries \in Nat \ {0}
  /\ Collisions \in BOOLEAN

VARIABLES
  content,       \* the file: its size and the places the anchor is at
  mtime,
  gone,          \* the path was removed
  writes,
  home,          \* the process of a thread
  entries,       \* per process, OffsetCache.entries in insertion order
  loaded,        \* per process, OffsetCache.loaded
  temp,          \* per process, the temporary file save() has written
  stored,        \* the cache file
  pc,            \* per thread
  snap,          \* per thread, the content its Source was opened on
  asked,         \* per thread, the occurrence it wants
  key,           \* per thread, the identity its last stat gave
  answer,        \* per thread, the offset it found
  queries,
  restarts,
  stale,         \* ghost, per thread: the file changed since it opened it
  disturbed      \* ghost: the file changed under a thread, or kept its key

disk == <<content, mtime, gone, writes>>
caches == <<entries, loaded, temp, stored, restarts>>
threads == <<pc, snap, asked, key, answer, queries, stale>>
vars == <<disk, home, caches, threads, disturbed>>

Place == 0 .. MaxSize - 1
Occurrence == {"first", "last"}
Content == {c \in [size: 0 .. MaxSize, anchors: SUBSET Place] :
              \A a \in c.anchors : a < c.size}
Key == (0 .. MaxSize) \X (0 .. MaxWrites)
Absent == -1
NoOffset == -2
NoSlot == [o \in Occurrence |-> NoOffset]
Slot == [Occurrence -> Place \union {NoOffset}]
Entry == [key: Key, slot: Slot]
NoFile == << >>
NoKey == <<0, 0>>
EmptyFile == [size |-> 0, anchors |-> {}]
Step == {"idle", "opened", "loading", "keyed", "find", "store", "done"}

(* Slip: the mtime is left out of the identity.                            *)
SlipSizeOnly == <<content.size, 0>>
FileKey == <<content.size, mtime>>

(* find_nth(anchor, 0) and find_nth(anchor, -1) on the content of a Source.*)
Found(c, occurrence) ==
  IF c.anchors = {} THEN Absent
  ELSE CHOOSE a \in c.anchors :
         \A b \in c.anchors : IF occurrence = "first" THEN a <= b ELSE b <= a

(* entries.get(key), and the three ways entries are changed.                 *)
At(es, k) == {i \in DOMAIN es : es[i].key = k}
Remembered(es, k, occurrence) ==
  IF At(es, k) = {} THEN NoOffset
  ELSE es[CHOOSE i \in At(es, k) : TRUE].slot[occurrence]
Set(es, k, occurrence, offset) ==
  IF At(es, k) = {}
  THEN Append(es, [key |-> k, slot |-> [NoSlot EXCEPT ![occurrence] = offset]])
  ELSE [i \in DOMAIN es |->
          IF es[i].key = k THEN [es[i] EXCEPT !.slot[occurrence] = offset] ELSE es[i]]
Forget(es, k, occurrence) ==
  [i \in DOMAIN es |->
     IF es[i].key = k THEN [es[i] EXCEPT !.slot[occurrence] = NoOffset] ELSE es[i]]

(* list(entries.items())[-MAX_ENTRIES:]                                    *)
Trimmed(es) == IF Len(es) <= MaxEntries THEN es
               ELSE SubSeq(es, Len(es) - MaxEntries + 1, Len(es))

Init ==
  /\ content \in Content
  /\ mtime = 0
  /\ gone = FALSE
  /\ writes = 0
  /\ home \in [Workers -> Procs]
  /\ entries = [p \in Procs |-> << >>]
  /\ loaded = [p \in Procs |-> FALSE]
  /\ temp = [p \in Procs |-> NoFile]
  /\ stored = NoFile
  /\ pc = [w \in Workers |-> "idle"]
  /\ snap = [w \in Workers |-> EmptyFile]
  /\ asked = [w \in Workers |-> "first"]
  /\ key = [w \in Workers |-> NoKey]
  /\ answer = [w \in Workers |-> Absent]
  /\ queries = 0
  /\ restarts = 0
  /\ stale = [w \in Workers |-> FALSE]
  /\ disturbed = FALSE

Goto(w, where) == pc' = [pc EXCEPT ![w] = where]
Busy == {w \in Workers : pc[w] # "idle"}
WorkersOf(p) == {w \in Workers : home[w] = p}

(***************************************************************************)
(* One extraction.                                                         *)
(***************************************************************************)

(* Source(path), then extract reaches _anchor_offset.  The main thread is  *)
(* not inside disable: get_many joins its pool first.                      *)
Open(w) ==
  /\ pc[w] = "idle"
  /\ queries < MaxQueries
  /\ ~gone
  /\ temp[home[w]] = NoFile
  /\ queries' = queries + 1
  /\ snap' = [snap EXCEPT ![w] = content]
  /\ \E o \in Occurrence : asked' = [asked EXCEPT ![w] = o]
  /\ stale' = [stale EXCEPT ![w] = FALSE]
  /\ Goto(w, "opened")
  /\ UNCHANGED <<disk, home, caches, key, answer, disturbed>>

(* load marks the cache as loaded before it reads the file, ...            *)
LoadBegin(w) ==
  /\ pc[w] = "opened"
  /\ ~loaded[home[w]]
  /\ loaded' = [loaded EXCEPT ![home[w]] = TRUE]
  /\ Goto(w, "loading")
  /\ UNCHANGED <<disk, home, entries, temp, stored, restarts,
                 snap, asked, key, answer, queries, stale, disturbed>>

(* ... and what it reads replaces what the other threads have stored.      *)
LoadEnd(w) ==
  /\ pc[w] = "loading"
  /\ entries' = [entries EXCEPT ![home[w]] = IF stored = NoFile THEN @ ELSE stored]
  /\ Goto(w, "opened")
  /\ UNCHANGED <<disk, home, loaded, temp, stored, restarts,
                 snap, asked, key, answer, queries, stale, disturbed>>

(* The stat of lookup: of the path, not of the file the Source has open.   *)
Stat(w) ==
  /\ pc[w] = "opened"
  /\ loaded[home[w]]
  /\ IF gone THEN Goto(w, "find") /\ UNCHANGED key
             ELSE Goto(w, "keyed") /\ key' = [key EXCEPT ![w] = FileKey]
  /\ UNCHANGED <<disk, home, caches, snap, asked, answer, queries, stale, disturbed>>

(* Slip: what is remembered is trusted.                                    *)
SlipLookup(w) ==
  LET offset == Remembered(entries[home[w]], key[w], asked[w]) IN
  /\ pc[w] = "keyed"
  /\ IF offset = NoOffset THEN Goto(w, "find") /\ UNCHANGED answer
                          ELSE Goto(w, "done") /\ answer' = [answer EXCEPT ![w] = offset]
  /\ UNCHANGED <<disk, home, caches, snap, asked, key, queries, stale, disturbed>>

(* The rest of lookup: an offset where the anchor is not is forgotten.     *)
Lookup(w) ==
  LET p == home[w]
      offset == Remembered(entries[p], key[w], asked[w])
  IN
  /\ pc[w] = "keyed"
  /\ IF offset \in snap[w].anchors
     THEN Goto(w, "done") /\ answer' = [answer EXCEPT ![w] = offset]
     ELSE Goto(w, "find") /\ UNCHANGED answer
  /\ entries' = IF offset \in snap[w].anchors THEN entries
                ELSE [entries EXCEPT ![p] = Forget(@, key[w], asked[w])]
  /\ UNCHANGED <<disk, home, loaded, temp, stored, restarts,
                 snap, asked, key, queries, stale, disturbed>>

(* Slip: store does not look at what it is given.                          *)
SlipStoresAbsent(w) ==
  /\ pc[w] = "find"
  /\ answer' = [answer EXCEPT ![w] = Found(snap[w], asked[w])]
  /\ IF gone THEN Goto(w, "done") /\ UNCHANGED key
             ELSE Goto(w, "store") /\ key' = [key EXCEPT ![w] = FileKey]
  /\ UNCHANGED <<disk, home, caches, snap, asked, queries, stale, disturbed>>

(* find_nth on the Source, then the guard and the stat of store.           *)
Find(w) ==
  /\ pc[w] = "find"
  /\ answer' = [answer EXCEPT ![w] = Found(snap[w], asked[w])]
  /\ IF answer'[w] = Absent \/ gone
     THEN Goto(w, "done") /\ UNCHANGED key
     ELSE Goto(w, "store") /\ key' = [key EXCEPT ![w] = FileKey]
  /\ UNCHANGED <<disk, home, caches, snap, asked, queries, stale, disturbed>>

Store(w) ==
  /\ pc[w] = "store"
  /\ entries' = [entries EXCEPT ![home[w]] = Set(@, key[w], asked[w], answer[w])]
  /\ Goto(w, "done")
  /\ UNCHANGED <<disk, home, loaded, temp, stored, restarts,
                 snap, asked, key, answer, queries, stale, disturbed>>

Idle(ws) ==
  /\ pc' = [w \in Workers |-> IF w \in ws THEN "idle" ELSE pc[w]]
  /\ snap' = [w \in Workers |-> IF w \in ws THEN EmptyFile ELSE snap[w]]
  /\ asked' = [w \in Workers |-> IF w \in ws THEN "first" ELSE asked[w]]
  /\ key' = [w \in Workers |-> IF w \in ws THEN NoKey ELSE key[w]]
  /\ answer' = [w \in Workers |-> IF w \in ws THEN Absent ELSE answer[w]]
  /\ stale' = [w \in Workers |-> IF w \in ws THEN FALSE ELSE stale[w]]

Return(w) ==
  /\ pc[w] = "done"
  /\ Idle({w})
  /\ UNCHANGED <<disk, home, caches, queries, disturbed>>

(***************************************************************************)
(* One process: disable saves and drops the cache (the next enable starts  *)
(* an empty one); a crash loses it.                                        *)
(***************************************************************************)
Fresh(p) ==
  /\ entries' = [entries EXCEPT ![p] = << >>]
  /\ loaded' = [loaded EXCEPT ![p] = FALSE]
  /\ temp' = [temp EXCEPT ![p] = NoFile]

Saves(p) == loaded[p] /\ entries[p] # << >>

SaveTemp(p) ==
  /\ restarts < MaxRestarts
  /\ WorkersOf(p) \intersect Busy = {}
  /\ temp[p] = NoFile
  /\ Saves(p)
  /\ temp' = [temp EXCEPT ![p] = Trimmed(entries[p])]
  /\ restarts' = restarts + 1
  /\ UNCHANGED <<disk, home, entries, loaded, stored, threads, disturbed>>

Replace(p) ==
  /\ temp[p] # NoFile
  /\ stored' = temp[p]
  /\ Fresh(p)
  /\ UNCHANGED <<disk, home, restarts, threads, disturbed>>

(* An OSError in save is swallowed: nothing is stored.                     *)
SaveFails(p) ==
  /\ temp[p] # NoFile
  /\ Fresh(p)
  /\ UNCHANGED <<disk, home, stored, restarts, threads, disturbed>>

(* disable with nothing to save.                                           *)
DisableUnused(p) ==
  /\ WorkersOf(p) \intersect Busy = {}
  /\ loaded[p] /\ ~Saves(p)
  /\ Fresh(p)
  /\ UNCHANGED <<disk, home, stored, restarts, threads, disturbed>>

Crash(p) ==
  /\ restarts < MaxRestarts
  /\ restarts' = restarts + 1
  /\ Fresh(p)
  /\ Idle(WorkersOf(p))
  /\ UNCHANGED <<disk, home, stored, queries, disturbed>>

(***************************************************************************)
(* The program that writes the file.                                       *)
(***************************************************************************)

(* Appended to, edited in place, replaced or created anew.  A write in the *)
(* same tick of the clock as the last one keeps the mtime.                 *)
Change ==
  /\ writes < MaxWrites
  /\ writes' = writes + 1
  /\ content' \in Content \ {content}
  /\ mtime' \in {mtime + 1} \union (IF Collisions THEN {mtime} ELSE {})
  /\ gone' = FALSE
  /\ stale' = [w \in Workers |-> pc[w] # "idle"]
  /\ disturbed' = (disturbed \/ Busy # {} \/ mtime' = mtime)
  /\ UNCHANGED <<home, caches, pc, snap, asked, key, answer, queries>>

Unlink ==
  /\ ~gone
  /\ gone' = TRUE
  /\ UNCHANGED <<content, mtime, writes, home, caches, threads, disturbed>>

Next ==
  \/ \E w \in Workers :
       \/ Open(w) \/ LoadBegin(w) \/ LoadEnd(w) \/ Stat(w)
       \/ Lookup(w) \/ Find(w) \/ Store(w) \/ Return(w)
  \/ \E p \in Procs :
       \/ SaveTemp(p) \/ Replace(p) \/ SaveFails(p) \/ DisableUnused(p) \/ Crash(p)
  \/ Change \/ Unlink

Spec == Init /\ [][Next]_vars

-----------------------------------------------------------------------------
(* State and types; save never writes more than MAX_ENTRIES entries.       *)
TypeOK ==
  /\ content \in Content
  /\ mtime \in 0 .. MaxWrites
  /\ gone \in BOOLEAN
  /\ writes \in 0 .. MaxWrites
  /\ home \in [Workers -> Procs]
  /\ entries \in [Procs -> Seq(Entry)]
  /\ loaded \in [Procs -> BOOLEAN]
  /\ temp \in [Procs -> Seq(Entry)]
  /\ stored \in Seq(Entry) /\ Len(stored) <= MaxEntries
  /\ pc \in [Workers -> Step]
  /\ snap \in [Workers -> Content]
  /\ asked \in [Workers -> Occurrence]
  /\ key \in [Workers -> Key]
  /\ answer \in [Workers -> Place \union {Absent}]
  /\ queries \in 0 .. MaxQueries
  /\ restarts \in 0 .. MaxRestarts
  /\ stale \in [Workers -> BOOLEAN]
  /\ disturbed \in BOOLEAN

Done(w) == pc[w] = "done"

(* Whatever the cache holds and however the file changes, moves or keeps   *)
(* its key, an offset that extract uses is one the anchor is at in the     *)
(* bytes it reads, and it reports a missing anchor only when there is none *)
(* (cache.py:92-97, lookup's verification).                                *)
AnswerIsAnAnchor ==
  \A w \in Workers : Done(w) =>
    IF answer[w] = Absent THEN snap[w].anchors = {} ELSE answer[w] \in snap[w].anchors

(* As long as nobody changes the file under an extraction, or within one   *)
(* tick of the clock, caching changes no result: not between threads that  *)
(* load and store at once, nor over a save, a trim, a crash or another     *)
(* process (cache.py:3-10).                                                *)
QuietFileIsRight ==
  ~disturbed =>
    \A w \in Workers : Done(w) => answer[w] = Found(snap[w], asked[w])

(* A query over a file that has not changed since it was opened gives what *)
(* a search gives, whatever earlier queries met (cache.py:8-10, "the key   *)
(* includes size and mtime, and every hit is verified").                   *)
FreshQueryIsRight ==
  \A w \in Workers : Done(w) /\ ~stale[w] => answer[w] = Found(snap[w], asked[w])

-----------------------------------------------------------------------------
(* The inductive invariant.  The clock ticks only when the file changes,   *)
(* and a cache is written trimmed.                                         *)
BoundInv == mtime <= writes /\ \A p \in Procs : Len(temp[p]) <= MaxEntries

(* What is stored is an offset that was found.                             *)
AnchorInv == \A w \in Workers : pc[w] = "store" => answer[w] \in snap[w].anchors

(* Under a quiet file every thread is at work on the content and the       *)
(* identity the file has, ...                                              *)
QuietThread(w) ==
  pc[w] # "idle" =>
    /\ snap[w] = content
    /\ pc[w] \in {"keyed", "store"} => key[w] = FileKey
    /\ pc[w] \in {"store", "done"} => answer[w] = Found(snap[w], asked[w])

(* ... and no cache, in memory, half saved or on disk, holds an offset of  *)
(* the present identity that a search would not find, or of a later one.   *)
Sound(es) ==
  \A i \in DOMAIN es :
    /\ es[i].key[2] <= mtime
    /\ es[i].key = FileKey =>
         \A o \in Occurrence : es[i].slot[o] \in {NoOffset, Found(content, o)}
QuietInv ==
  ~disturbed =>
    /\ \A w \in Workers : QuietThread(w)
    /\ \A p \in Procs : Sound(entries[p]) /\ Sound(temp[p])
    /\ Sound(stored)

IInv == TypeOK /\ BoundInv /\ AnchorInv /\ AnswerIsAnAnchor /\ QuietInv
=============================================================================
