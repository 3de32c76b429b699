------------------------------ MODULE Registry ------------------------------
(***************************************************************************)
(* registry.py under threads: the lazily filled _CACHE of specs and the    *)
(* publication of their signatures into _sniff._REGISTRY, one bytecode-    *)
(* visible step at a time.                                                 *)
(*                                                                         *)
(* load_all takes no lock.  It assigns _CACHE before it publishes, and     *)
(* each _sniff.register appends and then sorts with a Python key.  While   *)
(* it sorts, CPython shows other threads an empty list; when the list was  *)
(* appended to meanwhile the sort puts its own items back and raises       *)
(* ValueError.                                                             *)
(***************************************************************************)
EXTENDS Sniff

CONSTANTS
  Threads,
  Order          \* the formats whose spec carries a signature, as loaded

ASSUME RegistryAssumption == Order \in Seq(Formats)

VARIABLES
  disk,          \* the formats with a spec file on the search path
  cache,         \* registry._CACHE: the formats loaded, or NoCache
  sigs,          \* _sniff._REGISTRY as other threads see it
  fresh,         \* the list was not resized since a sort emptied it
  pc,            \* per thread, where it is in resolving a file
  todo,          \* per thread, the formats still to publish
  saved,         \* per thread, what its running sort took out of the list
  pos,           \* per thread, the index its scan of the list has reached
  detected       \* per thread, what sniff_source gave it

registry == <<disk, cache, sigs, fresh>>
thread == <<pc, todo, saved, pos, detected>>

(* _CACHE is None: no set of formats.                                      *)
NoCache == {NoFormat}

NothingSaved == [items |-> << >>, fresh |-> FALSE]
Loaded == {Order[i] : i \in DOMAIN Order}
OnDisk == Kept(Order, {i \in DOMAIN Order : Order[i] \in disk})

(* Where a thread may be.                                                  *)
Publishing == {"load", "append", "sort", "sorting"}
Sniffing == {"content", "suffix"}
Step == {"idle", "check", "get", "found", "failed"} \union Publishing \union Sniffing

RegistryInit ==
  /\ disk = Loaded
  /\ cache = NoCache
  /\ sigs = Builtin
  /\ fresh = FALSE
  /\ pc = [t \in Threads |-> "idle"]
  /\ todo = [t \in Threads |-> << >>]
  /\ saved = [t \in Threads |-> NothingSaved]
  /\ pos = [t \in Threads |-> 1]
  /\ detected = [t \in Threads |-> NoFormat]

Goto(t, where) == pc' = [pc EXCEPT ![t] = where]

-----------------------------------------------------------------------------
(* Slips: one mistake each, in the steps below.                            *)

(* A loader publishes what it has only after it handed out the cache, and  *)
(* forgets the formats of the first spec file.                             *)
SlipLoad(t) ==
  /\ pc[t] = "load"
  /\ cache' = disk
  /\ todo' = [todo EXCEPT ![t] = Kept(Order, {i \in DOMAIN Order :
                                     Order[i] \in disk /\ Order[i] # Order[1]})]
  /\ Goto(t, "append")
  /\ UNCHANGED <<disk, sigs, fresh, saved, pos, detected>>

(* A scan that leaves the list without a match takes its last element.     *)
SlipLastResort(t, file) ==
  /\ pc[t] = "suffix"
  /\ \/ /\ pos[t] <= Len(sigs)
        /\ IF sigs[pos[t]] \in Suffix[file]
           THEN /\ detected' = [detected EXCEPT ![t] = sigs[pos[t]]]
                /\ Goto(t, "get")
                /\ UNCHANGED pos
           ELSE pos' = [pos EXCEPT ![t] = @ + 1] /\ UNCHANGED <<pc, detected>>
     \/ /\ pos[t] > Len(sigs)
        /\ sigs # << >>
        /\ detected' = [detected EXCEPT ![t] = Last(sigs)]
        /\ Goto(t, "get")
        /\ UNCHANGED pos
  /\ UNCHANGED <<registry, todo, saved>>

-----------------------------------------------------------------------------
(* load_all, reached from _resolve.                                        *)
CheckWarm(t, file) ==
  /\ pc[t] = "check"
  /\ cache # NoCache
  /\ pos' = [pos EXCEPT ![t] = 1]
  /\ Goto(t, "content")
  /\ UNCHANGED <<registry, todo, saved, detected>>

CheckCold(t) ==
  /\ pc[t] = "check"
  /\ cache = NoCache
  /\ Goto(t, "load")
  /\ UNCHANGED <<registry, todo, saved, pos, detected>>

(* The spec files are read and _CACHE is assigned, then they are published.*)
Load(t) ==
  /\ pc[t] = "load"
  /\ cache' = disk
  /\ todo' = [todo EXCEPT ![t] = OnDisk]
  /\ Goto(t, "append")
  /\ UNCHANGED <<disk, sigs, fresh, saved, pos, detected>>

Publish(t) ==
  /\ pc[t] = "append"
  /\ todo[t] # << >>
  /\ sigs' = Append(sigs, Head(todo[t]))
  /\ fresh' = FALSE
  /\ Goto(t, "sort")
  /\ UNCHANGED <<disk, cache, todo, saved, pos, detected>>

Published(t, file) ==
  /\ pc[t] = "append"
  /\ todo[t] = << >>
  /\ pos' = [pos EXCEPT ![t] = 1]
  /\ Goto(t, "content")
  /\ UNCHANGED <<registry, todo, saved, detected>>

(* list.sort empties the list, keeps what was in it, and calls the key.    *)
SortBegin(t) ==
  /\ pc[t] = "sort"
  /\ saved' = [saved EXCEPT ![t] = [items |-> sigs, fresh |-> fresh]]
  /\ sigs' = << >>
  /\ fresh' = TRUE
  /\ Goto(t, "sorting")
  /\ UNCHANGED <<disk, cache, todo, pos, detected>>

(* It puts its items back, sorted, over whatever is in the list by now.    *)
PutBack(t) ==
  /\ sigs' = Sorted(saved[t].items)
  /\ fresh' = saved[t].fresh
  /\ saved' = [saved EXCEPT ![t] = NothingSaved]

SortEnd(t) ==
  /\ pc[t] = "sorting"
  /\ fresh
  /\ PutBack(t)
  /\ todo' = [todo EXCEPT ![t] = Tail(@)]
  /\ Goto(t, "append")
  /\ UNCHANGED <<disk, cache, pos, detected>>

(* "list modified during sort": load_all raises, the rest stays unpublished*)
SortRaises(t) ==
  /\ pc[t] = "sorting"
  /\ ~fresh
  /\ PutBack(t)
  /\ todo' = [todo EXCEPT ![t] = << >>]
  /\ Goto(t, "failed")
  /\ UNCHANGED <<disk, cache, pos, detected>>

(* The two loops of sniff_source walk the list itself, index by index.     *)
SniffStep(t, here, wanted, next) ==
  /\ pc[t] = here
  /\ \/ /\ pos[t] <= Len(sigs)
        /\ sigs[pos[t]] \in wanted
        /\ detected' = [detected EXCEPT ![t] = sigs[pos[t]]]
        /\ pos' = [pos EXCEPT ![t] = 1]
        /\ Goto(t, "get")
     \/ /\ pos[t] <= Len(sigs)
        /\ sigs[pos[t]] \notin wanted
        /\ pos' = [pos EXCEPT ![t] = @ + 1]
        /\ UNCHANGED <<pc, detected>>
     \/ /\ pos[t] > Len(sigs)
        /\ pos' = [pos EXCEPT ![t] = 1]
        /\ Goto(t, next)
        /\ UNCHANGED detected
  /\ UNCHANGED <<registry, todo, saved>>

(* Slip: that nothing matched is not looked at.                            *)
SlipNoneIsAFormat(t, file) == SniffStep(t, "suffix", Suffix[file], "found")

SniffContent(t, file) == SniffStep(t, "content", Banner[file], "suffix")
SniffSuffix(t, file) == SniffStep(t, "suffix", Suffix[file], "failed")

(* registry.get(detected): a format that has a signature may lack a spec.  *)
Get(t) ==
  /\ pc[t] = "get"
  /\ Goto(t, IF cache # NoCache /\ detected[t] \in cache THEN "found" ELSE "failed")
  /\ UNCHANGED <<registry, todo, saved, pos, detected>>

Resolve(t, file) ==
  \/ CheckWarm(t, file) \/ CheckCold(t) \/ Load(t) \/ Publish(t) \/ Published(t, file)
  \/ SortBegin(t) \/ SortEnd(t) \/ SortRaises(t)
  \/ SniffContent(t, file) \/ SniffSuffix(t, file) \/ Get(t)

-----------------------------------------------------------------------------
(* registry.refresh(), and an edit of the spec directory.                  *)
Refresh ==
  /\ cache' = NoCache
  /\ UNCHANGED <<disk, sigs, fresh, thread>>

RemoveSpec ==
  /\ \E f \in disk : disk' = disk \ {f}
  /\ UNCHANGED <<cache, sigs, fresh, thread>>

RegistryTypeOK ==
  /\ disk \subseteq Formats
  /\ cache \in (SUBSET Formats) \union {NoCache}
  /\ sigs \in Seq(Formats)
  /\ fresh \in BOOLEAN
  /\ pc \in [Threads -> Step]
  /\ todo \in [Threads -> Seq(Formats)]
  /\ saved \in [Threads -> [items: Seq(Formats), fresh: BOOLEAN]]
  /\ pos \in [Threads -> Nat \ {0}]
  /\ detected \in [Threads -> Formats \union {NoFormat}]
=============================================================================
