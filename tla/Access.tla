-------------------------------- MODULE Access --------------------------------
(***************************************************************************)
(* Rights (scripts/core/access.lua): entries of users.lua, kept in memory, *)
(* changed by grant and revoke, saved and loaded as a data file, and a     *)
(* cache by slot of what a player's entry comes to.                        *)
(*                                                                         *)
(* The cache is rebuilt when it is asked and finds itself out of date: a   *)
(* generation that changes of the data advance, the map, and the earliest  *)
(* time at which some grant runs out.                                      *)
(*                                                                         *)
(* An entry is what it grants and until when: membership of a group, with  *)
(* a term of its own, and personal rights, with the entry's, which stays   *)
(* when they are revoked.  Left out: how the grants for a node are         *)
(* compared, passwords, `where' (a condition on the map, as a term of one  *)
(* map is), access.rule (asked every time) and groups.lua, which is only   *)
(* read.                                                                   *)
(***************************************************************************)
EXTENDS DataFile

CONSTANTS Slots,
          Maps,
          NoEntry,   \* no entry for the key
          NoCache,   \* nothing cached for the slot
          MaxTime,   \* bound: the clock
          MaxChanges \* bound: grants, revocations and saves

VARIABLES
    users,   \* the entry of one key, the table users
    known,   \* slots whose player identify finds under that key
    cache,   \* the table cache
    now,     \* os.time()
    map,     \* sv.map()
    half,    \* history: a grant has failed after it had changed the entry
    changes  \* history: grants, revocations and saves so far

vars == <<dataVars, users, known, cache, now, map, half, changes>>

\* Terms: never given, for ever, until a time, for a map.
None == [kind |-> "none", at |-> 0]
Ever == [kind |-> "ever", at |-> 0]
Term == {None, Ever} \cup [kind : {"until"}, at : 1..MaxTime] \cup [kind : {"map"}, at : Maps]

\* Membership of the group; whether there are personal rights, and their term.
Entry == [group : Term, own : BOOLEAN, until : Term \ {None}]

Entries == Entry \cup {NoEntry}

Parts == {"group", "own"}

\* What is cached of a slot; its generation is the present one, or not any more.
Record == [generation : {"now", "past"}, map : Maps, found : BOOLEAN,
           rights : SUBSET Parts, expires : SUBSET (1..MaxTime)]

ASSUME AccessConstants ==
    /\ Tables = Entries
    /\ NoEntry \notin Entry /\ NoCache \notin Record
    /\ MaxTime \in Nat \ {0} /\ MaxChanges \in Nat

\* expired, and group_record_expired.
Expired(term) ==
    \/ term.kind = "until" /\ term.at <= now
    \/ term.kind = "map" /\ term.at # map

Holds(term) == term # None /\ ~Expired(term)

\* build: what an entry comes to now.
Grants(entry) ==
    IF entry = NoEntry THEN {}
    ELSE (IF Holds(entry.group) THEN {"group"} ELSE {})
         \cup (IF entry.own /\ Holds(entry.until) THEN {"own"} ELSE {})

\* (mutant) Only the entry's own term counts.
DeadlinesOfOwn(entry) ==
    IF entry = NoEntry \/ entry.until.kind # "until" THEN {} ELSE {entry.until.at}

\* The times at which something of it runs out, those that have passed included.
Deadlines(entry) ==
    IF entry = NoEntry THEN {}
    ELSE {term.at : term \in {t \in {entry.group, entry.until} : t.kind = "until"}}

Build(s) ==
    LET found == s \in known /\ users # NoEntry
    IN  [generation |-> "now", map |-> map, found |-> found,
         rights |-> IF found THEN Grants(users) ELSE {},
         expires |-> IF found THEN Deadlines(users) ELSE {}]

\* rights: a record is good until then.
Good(record) ==
    /\ record # NoCache
    /\ record.generation = "now"
    /\ record.map = map
    /\ \A t \in record.expires : t > now

\* generation = generation + 1: no record is of this generation any more.
NewGeneration ==
    /\ cache' = [s \in Slots |-> IF cache[s] = NoCache THEN NoCache
                                 ELSE [cache[s] EXCEPT !.generation = "past"]]
    /\ half' = FALSE

\* Lua code runs from its beginning to its end, unless the process dies.
LuaRuns == ~Saving

Counts ==
    /\ changes < MaxChanges
    /\ changes' = changes + 1

-----------------------------------------------------------------------------
\* p:can and the like.
Can(s) ==
    /\ LuaRuns
    /\ ~Good(cache[s])
    /\ cache' = [cache EXCEPT ![s] = Build(s)]
    /\ UNCHANGED <<dataVars, users, known, now, map, half, changes>>

\* entry_for.
EntryFor ==
    IF users = NoEntry THEN [group |-> None, own |-> FALSE, until |-> Ever] ELSE users

\* A membership given without a term keeps its own, and so does the entry.
Granted(entry, term) ==
    [entry EXCEPT !.group = IF term # None THEN term ELSE IF @ = None THEN Ever ELSE @]

GrantedOwn(entry, term) ==
    [entry EXCEPT !.own = TRUE, !.until = IF term # None THEN term ELSE @]

\* access.grant: "map" is the map of now, and a term that `deadline' does not
\* understand is for ever.
GrantTerms == {None, Ever} \cup [kind : {"until"}, at : 1..MaxTime] \cup {[kind |-> "map", at |-> map]}

Grant(term, own) ==
    /\ LuaRuns
    /\ Counts
    /\ users' = IF own THEN GrantedOwn(EntryFor, term) ELSE Granted(EntryFor, term)
    /\ NewGeneration
    /\ UNCHANGED <<dataVars, known, now, map>>

\* The first group of the list is granted, the second one does not exist.
GrantFails(term) ==
    /\ LuaRuns
    /\ Counts
    /\ users' = Granted(EntryFor, term)
    /\ half' = TRUE
    /\ UNCHANGED <<dataVars, known, cache, now, map>>

\* access.revoke of the entry, of the group or of the personal rights, and
\* access.copy from a key without an entry.
Revoke(parts) ==
    /\ LuaRuns
    /\ Counts
    /\ users # NoEntry
    /\ users' = IF parts = Parts THEN NoEntry
                ELSE [users EXCEPT !.group = IF "group" \in parts THEN None ELSE @,
                                   !.own = @ /\ "own" \notin parts]
    /\ NewGeneration
    /\ UNCHANGED <<dataVars, known, now, map>>

\* access.save: nothing to write is a table, too.
Save ==
    /\ LuaRuns
    /\ Counts
    /\ SaveBegins(users)
    /\ UNCHANGED <<users, known, cache, now, map, half>>

\* (mutant) An entry goes when its own term has run out, its group with it.
PrunedWhole(entry) ==
    IF entry = NoEntry THEN NoEntry
    ELSE IF Expired(entry.until) \/ Expired(entry.group) THEN NoEntry ELSE entry

\* What is read loses what has run out, and the entry with it when nothing is left.
Pruned(entry) ==
    IF entry = NoEntry THEN NoEntry
    ELSE LET group == IF Expired(entry.group) THEN None ELSE entry.group
             kept  == IF Expired(entry.until)
                      THEN [group |-> group, own |-> FALSE, until |-> Ever]
                      ELSE [entry EXCEPT !.group = group]
         IN  IF group = None /\ ~kept.own THEN NoEntry ELSE kept

\* access.reload: without a file, or with a broken one, there are no entries.
Reload ==
    /\ LuaRuns
    /\ users' = Pruned(Loads(NoEntry, NoEntry))
    /\ cache' = [s \in Slots |-> NoCache]
    /\ half' = FALSE
    /\ UNCHANGED <<dataVars, known, now, map, changes>>

SaveStep ==
    /\ SaveGoesOn
    /\ UNCHANGED <<users, known, cache, now, map, half, changes>>

\* The server dies and is started again.
Crash ==
    /\ Dies
    /\ users' = Pruned(Loads(NoEntry, NoEntry))
    /\ cache' = [s \in Slots |-> NoCache]
    /\ known' = {}
    /\ half' = FALSE
    /\ UNCHANGED <<now, map, changes>>

\* client:authorized, and client:disconnect: the player is or is not the key's.
Authorize(s, is) ==
    /\ LuaRuns
    /\ known' = IF is THEN known \cup {s} ELSE known \ {s}
    /\ cache' = [cache EXCEPT ![s] = NoCache]
    /\ UNCHANGED <<dataVars, users, now, map, half, changes>>

\* A player found by name changes it: nothing is told of that.
Rename(s) ==
    /\ LuaRuns
    /\ known' = IF s \in known THEN known \ {s} ELSE known \cup {s}
    /\ UNCHANGED <<dataVars, users, cache, now, map, half, changes>>

Tick ==
    /\ LuaRuns
    /\ now < MaxTime
    /\ now' = now + 1
    /\ UNCHANGED <<dataVars, users, known, cache, map, half, changes>>

ChangeMap ==
    /\ LuaRuns
    /\ map' \in Maps \ {map}
    /\ UNCHANGED <<dataVars, users, known, cache, now, half, changes>>

Init ==
    /\ DataInit
    /\ users = NoEntry
    /\ known = {}
    /\ cache = [s \in Slots |-> NoCache]
    /\ now = 0
    /\ map \in Maps
    /\ half = FALSE
    /\ changes = 0

Next ==
    \/ \E s \in Slots : Can(s) \/ Rename(s) \/ (\E is \in BOOLEAN : Authorize(s, is))
    \/ \E term \in GrantTerms, own \in BOOLEAN : Grant(term, own)
    \/ \E term \in GrantTerms : GrantFails(term)
    \/ \E parts \in (SUBSET Parts) \ {{}} : Revoke(parts)
    \/ Save \/ SaveStep \/ Reload \/ Crash
    \/ Tick \/ ChangeMap

Spec == Init /\ [][Next]_vars

-----------------------------------------------------------------------------
(* Correctness                                                             *)

\* The variables have their types.
TypeOK ==
    /\ DataTypeOK
    /\ users \in Entries
    /\ known \subseteq Slots
    /\ cache \in [Slots -> {NoCache} \cup Record]
    /\ now \in 0..MaxTime /\ map \in Maps
    /\ half \in BOOLEAN /\ changes \in 0..MaxChanges

\* What is read in grants what was written as long as it lasts: one grant that has
\* run out takes no other one with it.
PruningTakesNothing == file \in Entries => Grants(Pruned(file)) = Grants(file)

\* Both.
Consistent == TypeOK /\ PruningTakesNothing

\* An answer from the cache is the one that the data would give now: no grant
\* outlives its term, its map or its revocation in the cache, and none is missing
\* from it.  Excepted are a player who is found by name and changes it, and a grant
\* that failed half-way, as neither resets the cache.
CacheIsCurrent ==
    half \/ \A s \in Slots :
        Good(cache[s]) => cache[s].rights = IF cache[s].found THEN Grants(users) ELSE {}
=============================================================================
