--------------------------- MODULE CacheRemember ---------------------------
(***************************************************************************)
(* internal/pkg/cache/redis.go for one key: Remember of concurrent callers *)
(* in several processes, each with its own singleflight group, against a   *)
(* writer that changes the source and then calls Delete.  The source and   *)
(* the writer are the cache's users; values are versions of the source.    *)
(* Keys are stored with a positive ttl, as JitterTTL returns it.           *)
(***************************************************************************)
EXTENDS Integers, FiniteSets

CONSTANTS Callers,     \* goroutines that call Remember
          Process,     \* Process[c]: where caller c runs
          MaxVersion,  \* bound on the changes of the source
          MaxUpsets,   \* bound on failures of Redis, the loader or a ctx
          NoCaller

ASSUME CacheAssumption ==
  MaxVersion \in Nat /\ MaxUpsets \in Nat /\ NoCaller \notin Callers

VARIABLES source,   \* version of the data
          writing,  \* the writer has changed the source and not deleted yet
          entry,    \* cached version, or Miss
          expires,  \* the entry has a ttl
          pc,       \* "idle", "get", "do", "wait", "load", "set"
          flight,   \* flight[x]: leader of the flight in process x, or NoCaller
          loaded,   \* what the leader's loader returned
          upsets,
          excused   \* history: the entry was set after the source had moved on,
                    \* or outlived a Delete that failed

vars == <<source, writing, entry, expires, pc, flight, loaded, upsets, excused>>
writerVars == <<source, writing>>
entryVars == <<entry, expires, excused>>

Miss == -1
Processes == {Process[c] : c \in Callers}

Init ==
  /\ source = 0 /\ writing = FALSE
  /\ entry = Miss /\ expires = FALSE /\ excused = FALSE
  /\ pc = [c \in Callers |-> "idle"]
  /\ flight = [x \in Processes |-> NoCaller]
  /\ loaded = [c \in Callers |-> Miss]
  /\ upsets = 0

Goto(c, l) == pc' = [pc EXCEPT ![c] = l]
Upset == upsets < MaxUpsets /\ upsets' = upsets + 1

Remove == entry' = Miss /\ expires' = FALSE /\ excused' = FALSE

\* Redis drops the entry when its ttl is over.
Expire ==
  /\ entry # Miss /\ expires
  /\ Remove
  /\ UNCHANGED <<writerVars, pc, flight, loaded, upsets>>

Update ==
  /\ ~ writing /\ source < MaxVersion
  /\ source' = source + 1 /\ writing' = TRUE
  /\ UNCHANGED <<entryVars, pc, flight, loaded, upsets>>

\* Variant: Delete addresses a key nobody stores.
DeleteElsewhere ==
  /\ writing /\ writing' = FALSE
  /\ UNCHANGED <<source, entryVars, pc, flight, loaded, upsets>>

Delete ==
  /\ writing /\ writing' = FALSE
  /\ Remove
  /\ UNCHANGED <<source, pc, flight, loaded, upsets>>

\* Delete returns an error; DEL may have been executed.
DeleteFails ==
  /\ writing /\ writing' = FALSE
  /\ Upset
  /\ \/ Remove
     \/ excused' = (entry # Miss) /\ UNCHANGED <<entry, expires>>
  /\ UNCHANGED <<source, pc, flight, loaded>>

Call(c) ==
  /\ pc[c] = "idle"
  /\ Goto(c, "get")
  /\ UNCHANGED <<writerVars, entryVars, flight, loaded, upsets>>

\* Get: a hit ends the call, a miss leads to group.Do.
Get(c) ==
  /\ pc[c] = "get"
  /\ Goto(c, IF entry = Miss THEN "do" ELSE "idle")
  /\ UNCHANGED <<writerVars, entryVars, flight, loaded, upsets>>

\* Any other error of Get, a broken value too, is returned.
GetFails(c) ==
  /\ pc[c] = "get"
  /\ Upset
  /\ Goto(c, "idle")
  /\ UNCHANGED <<writerVars, entryVars, flight, loaded>>

\* Variant: every caller loads.
DoAlone(c) ==
  /\ pc[c] = "do"
  /\ flight' = [flight EXCEPT ![Process[c]] = c]
  /\ Goto(c, "load")
  /\ UNCHANGED <<writerVars, entryVars, loaded, upsets>>

\* group.Do: the first caller of a process leads, the others wait for it.
Do(c) ==
  /\ pc[c] = "do"
  /\ IF flight[Process[c]] = NoCaller
       THEN flight' = [flight EXCEPT ![Process[c]] = c] /\ Goto(c, "load")
       ELSE Goto(c, "wait") /\ UNCHANGED flight
  /\ UNCHANGED <<writerVars, entryVars, loaded, upsets>>

Load(c) ==
  /\ pc[c] = "load"
  /\ Goto(c, "set")
  /\ loaded' = [loaded EXCEPT ![c] = source]
  /\ UNCHANGED <<writerVars, entryVars, flight, upsets>>

\* The flight of c ends: its value or error goes to every caller that waits.
Land(c) ==
  /\ flight' = [flight EXCEPT ![Process[c]] = NoCaller]
  /\ pc' = [d \in Callers |->
              IF d = c \/ (pc[d] = "wait" /\ Process[d] = Process[c])
                THEN "idle" ELSE pc[d]]
  /\ loaded' = [loaded EXCEPT ![c] = Miss]

\* Variant: a failed loader returns from the leader only.
LoadFailsAlone(c) ==
  /\ pc[c] = "load"
  /\ Upset
  /\ Goto(c, "idle")
  /\ UNCHANGED <<writerVars, entryVars, flight, loaded>>

LoadFails(c) ==
  /\ pc[c] = "load"
  /\ Upset
  /\ Land(c)
  /\ UNCHANGED <<writerVars, entryVars>>

\* Variant: no ttl.
StoreForever(v) == entry' = v /\ expires' = FALSE /\ excused' = (v # source)

\* SET with the ttl, which Redis starts to count.
Store(v) == entry' = v /\ expires' = TRUE /\ excused' = (v # source)

Set(c) ==
  /\ pc[c] = "set"
  /\ Store(loaded[c])
  /\ Land(c)
  /\ UNCHANGED <<writerVars, upsets>>

\* Set returns an error, which is returned instead of the value; SET may have
\* been executed.
SetFails(c) ==
  /\ pc[c] = "set"
  /\ Upset
  /\ Store(loaded[c]) \/ UNCHANGED entryVars
  /\ Land(c)
  /\ UNCHANGED <<writerVars>>

Remember(c) ==
  \/ Get(c) \/ GetFails(c) \/ Do(c) \/ Load(c) \/ LoadFails(c) \/ Set(c) \/ SetFails(c)

Next ==
  \/ Expire \/ Update \/ Delete \/ DeleteFails
  \/ \E c \in Callers : Call(c) \/ Remember(c)

Spec == Init /\ [][Next]_vars

\* Redis answers, loaders return, and a ttl runs out.
FairSpec ==
  /\ Spec
  /\ WF_vars(Expire)
  /\ \A c \in Callers : WF_vars(Remember(c))

-----------------------------------------------------------------------------
TypeOK ==
  /\ source \in 0 .. MaxVersion /\ writing \in BOOLEAN
  /\ entry \in {Miss} \cup 0 .. MaxVersion
  /\ expires \in BOOLEAN /\ (expires <=> entry # Miss)
  /\ excused \in BOOLEAN
  /\ pc \in [Callers -> {"idle", "get", "do", "wait", "load", "set"}]
  /\ flight \in [Processes -> Callers \cup {NoCaller}]
  /\ loaded \in [Callers -> {Miss} \cup 0 .. MaxVersion]
  /\ upsets \in 0 .. MaxUpsets

\* At most one loader per process and key, and callers wait only for a flight
\* that is under way (redis.go:79).
OneFlight ==
  \A c \in Callers :
    /\ pc[c] \in {"load", "set"} <=> flight[Process[c]] = c
    /\ pc[c] = "wait" => flight[Process[c]] # NoCaller

\* An outdated entry has one of three causes: the writer has not called Delete
\* yet, its Delete failed, or a flight had loaded before the change and stored
\* after it (redis.go:79-88 has no guard against the last).
StaleOnlyForAReason == entry # Miss /\ entry # source => writing \/ excused

\* Whatever the race, the source wins in the end: an outdated entry stays no
\* longer than its ttl (redis.go:84, ttl.go:20-31).
EventuallyFresh == <>[](entry = Miss \/ entry = source)

\* Every Remember returns, followers of a flight that failed included.
RememberReturns == \A c \in Callers : pc[c] # "idle" ~> pc[c] = "idle"
=============================================================================
