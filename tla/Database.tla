------------------------------- MODULE Database -------------------------------
(***************************************************************************)
(* The db.* namespace (src/lua_db.cpp): SQLite files opened by plugins,    *)
(* statements prepared against them, and db:transaction, which runs a Lua  *)
(* callback between BEGIN and COMMIT.                                      *)
(*                                                                         *)
(* Everything is on the game thread.  What makes it hard is that the       *)
(* callback is Lua code: it may fail, open and close databases, its own    *)
(* too, begin transactions on others, run statements that SQLite aborts,   *)
(* and have its plugin unloaded.  The C++ keeps a flag per database, and   *)
(* SQLite has a transaction of its own.                                    *)
(*                                                                         *)
(* Of SQLite, the model has what the code relies on: a connection commits  *)
(* each write by itself unless a transaction is open; closing it or        *)
(* rolling it back loses what is not committed; it cannot be closed while  *)
(* a statement of it is alive; and a write that the progress handler       *)
(* interrupts takes the whole transaction with it.                         *)
(*                                                                         *)
(* Left out: SQL, parameters and rows, so that a query, which changes      *)
(* nothing, is no step; ":memory:"; and other processes, which only make a *)
(* call fail (SQLITE_BUSY).                                                *)
(***************************************************************************)
EXTENDS Integers, Sequences, FiniteSets

CONSTANTS Plugins,      \* indices into LuaEngine::plugins()
          Names,        \* names for db.open
          StopsAtAbort, \* a callback whose transaction SQLite took away fails
          MaxDbs,       \* bound: databases opened in one Lua state
          MaxStmts,     \* bound: statements prepared in one Lua state
          MaxWrites,    \* bound: writes in the life of the process
          MaxDepth,     \* bound: nested callbacks of db:transaction
          MaxStates     \* bound: Lua states in the life of the process

ASSUME DatabaseConstants ==
    /\ StopsAtAbort \in BOOLEAN
    /\ MaxDbs \in Nat /\ MaxStmts \in Nat /\ MaxWrites \in Nat
    /\ MaxDepth \in Nat /\ MaxStates \in Nat \ {0}

VARIABLES
    dbs,       \* s_dbs; the blank entry 0 is left out
    stmts,     \* s_stmts; the blank entry 0 is left out
    blocks,    \* the calls of db:transaction on the stack, innermost last
    disk,      \* what is committed in each file
    leaked,    \* connections that sqlite3_close refused to close
    states,    \* Lua states so far
    nextWrite, \* history: the next write
    ended      \* history: blocks that wrote and have returned

vars == <<dbs, stmts, blocks, disk, leaked, states, nextWrite, ended>>

Writes == 1..MaxWrites

\* A file is named by the data directory of its plugin and a name.
Files == Plugins \X Names

\* open: handle is not NULL.  txn and pending are SQLite's: a transaction is
\* open, and these writes are in it.
OpenDb == [file : Files, open : BOOLEAN, in_transaction : BOOLEAN,
           txn : BOOLEAN, pending : SUBSET Writes]

OpenStmt == [db : 1..MaxDbs, live : BOOLEAN]

\* wrote: history, the writes that succeeded on the database since BEGIN.
\* upset: history, SQLite has rolled its transaction back in the callback.
Block == [db : 1..MaxDbs, file : Files, wrote : SUBSET Writes, upset : BOOLEAN]

Ids == 1..Len(dbs)

Handles == {id \in Ids : dbs[id].open}

Alive(db) == {s \in 1..Len(stmts) : stmts[s].live /\ stmts[s].db = db}

-----------------------------------------------------------------------------
(* Opening and closing                                                     *)

SameFile(file) == {id \in Handles : dbs[id].file = file}

\* db.open of a file that is open gives the handle there is, and changes nothing.
Open(p, name) ==
    /\ Len(dbs) < MaxDbs
    /\ SameFile(<<p, name>>) = {}
    /\ dbs' = Append(dbs, [file |-> <<p, name>>, open |-> TRUE, in_transaction |-> FALSE,
                           txn |-> FALSE, pending |-> {}])
    /\ UNCHANGED <<stmts, blocks, disk, leaked, states, nextWrite, ended>>

Prepare(id) ==
    /\ id \in Handles
    /\ Len(stmts) < MaxStmts
    /\ stmts' = Append(stmts, [db |-> id, live |-> TRUE])
    /\ UNCHANGED <<dbs, blocks, disk, leaked, states, nextWrite, ended>>

CloseStmt(s) ==
    /\ s \in 1..Len(stmts)
    /\ stmts[s].live
    /\ stmts' = [stmts EXCEPT ![s].live = FALSE]
    /\ UNCHANGED <<dbs, blocks, disk, leaked, states, nextWrite, ended>>

\* close_stmts_of, for every database that is about to be closed.
Finalized(ids) == [s \in 1..Len(stmts) |->
    IF stmts[s].db \in ids THEN [stmts[s] EXCEPT !.live = FALSE] ELSE stmts[s]]

\* close_db: a transaction that is open is lost with the connection.
CloseAll(ids) ==
    /\ stmts' = Finalized(ids)
    /\ leaked' = leaked \cup
          {id \in ids : \E s \in 1..Len(stmts') : stmts'[s].live /\ stmts'[s].db = id}
    /\ dbs' = [id \in Ids |->
          IF id \in ids THEN [dbs[id] EXCEPT !.open = FALSE, !.in_transaction = FALSE,
                                             !.txn = FALSE, !.pending = {}]
          ELSE dbs[id]]

Close(id) ==
    /\ id \in Handles
    /\ CloseAll({id})
    /\ UNCHANGED <<blocks, disk, states, nextWrite, ended>>

RemovePlugin(p) ==
    LET owned == {id \in Handles : dbs[id].file[1] = p}
    IN  /\ owned # {}
        /\ CloseAll(owned)
        /\ UNCHANGED <<blocks, disk, states, nextWrite, ended>>

\* cslua_db_shutdown, before the Lua state and its handles go away.
Shutdown ==
    /\ blocks = <<>>
    /\ states < MaxStates
    /\ dbs' = <<>>
    /\ stmts' = <<>>
    /\ states' = states + 1
    /\ UNCHANGED <<blocks, disk, leaked, nextWrite, ended>>

-----------------------------------------------------------------------------
(* Statements                                                              *)

\* A callback that has had its transaction taken away lets the error go on.
Respects == StopsAtAbort => \A k \in 1..Len(blocks) : ~blocks[k].upset

BlockOn(id) == {k \in 1..Len(blocks) : blocks[k].db = id}

Note(id, w) == blocks' = [k \in 1..Len(blocks) |->
    IF k \in BlockOn(id) THEN [blocks[k] EXCEPT !.wrote = @ \cup {w}] ELSE blocks[k]]

Upset(id) == blocks' = [k \in 1..Len(blocks) |->
    IF k \in BlockOn(id) THEN [blocks[k] EXCEPT !.upset = TRUE] ELSE blocks[k]]

\* db:exec, db:query and db:first, or st:run, st:query and st:first, of a
\* statement that writes.  One that fails by itself takes only itself back.
Write(id) ==
    /\ Respects
    /\ id \in Handles
    /\ nextWrite \in Writes
    /\ nextWrite' = nextWrite + 1
    /\ IF dbs[id].txn
       THEN /\ dbs' = [dbs EXCEPT ![id].pending = @ \cup {nextWrite}]
            /\ UNCHANGED disk
       ELSE /\ disk' = [disk EXCEPT ![dbs[id].file] = @ \cup {nextWrite}]
            /\ UNCHANGED dbs
    /\ Note(id, nextWrite)
    /\ UNCHANGED <<stmts, leaked, states, ended>>

\* The statement is resolved by self_stmt, which asks for its database too.
Run(s) ==
    /\ s \in 1..Len(stmts)
    /\ stmts[s].live
    /\ Write(stmts[s].db)

Ended(id) == [dbs EXCEPT ![id].txn = FALSE, ![id].pending = {}]

\* The watchdog: a write over cslua_db_timeout_ms is interrupted.
Interrupt(id) ==
    /\ Respects
    /\ id \in Handles
    /\ dbs[id].txn
    /\ dbs' = Ended(id)
    /\ Upset(id)
    /\ UNCHANGED <<stmts, disk, leaked, states, nextWrite, ended>>

Committed(id) == [disk EXCEPT ![dbs[id].file] = @ \cup dbs[id].pending]

\* db:exec("BEGIN"), "COMMIT" and "ROLLBACK", outside of a block: a callback that
\* ends its own transaction has asked for what it gets.
BeginByHand(id) ==
    /\ id \in Handles
    /\ ~dbs[id].txn
    /\ BlockOn(id) = {}
    /\ dbs' = [dbs EXCEPT ![id].txn = TRUE]
    /\ UNCHANGED <<stmts, blocks, disk, leaked, states, nextWrite, ended>>

EndByHand(id, commit) ==
    /\ id \in Handles
    /\ dbs[id].txn
    /\ BlockOn(id) = {}
    /\ dbs' = Ended(id)
    /\ disk' = IF commit THEN Committed(id) ELSE disk
    /\ UNCHANGED <<stmts, blocks, leaked, states, nextWrite, ended>>

-----------------------------------------------------------------------------
(* db:transaction                                                          *)

\* BEGIN fails when one was written by hand; the flag refuses a second block.
Begin(id) ==
    /\ Respects
    /\ id \in Handles
    /\ ~dbs[id].in_transaction
    /\ ~dbs[id].txn
    /\ Len(blocks) < MaxDepth
    /\ dbs' = [dbs EXCEPT ![id].txn = TRUE, ![id].in_transaction = TRUE]
    /\ blocks' = Append(blocks, [db |-> id, file |-> dbs[id].file, wrote |-> {}, upset |-> FALSE])
    /\ UNCHANGED <<stmts, disk, leaked, states, nextWrite, ended>>

Top == blocks[Len(blocks)]

\* The block is gone, and so is the flag, whoever closed the database since.
Leave(result) ==
    /\ blocks' = SubSeq(blocks, 1, Len(blocks) - 1)
    /\ ended' = IF Top.wrote = {} THEN ended
                ELSE ended \cup {[file |-> Top.file, wrote |-> Top.wrote, result |-> result]}
    /\ UNCHANGED <<stmts, leaked, states, nextWrite>>

Unflagged(base) == [base EXCEPT ![Top.db].in_transaction = FALSE]

\* (mutant) A callback that fails leaves the flag as it is.
RaisesFlagged ==
    /\ blocks # <<>>
    /\ dbs' = Ended(Top.db)
    /\ UNCHANGED disk
    /\ Leave("error")

\* The callback fails: ROLLBACK, and the error goes on.
Raises ==
    /\ blocks # <<>>
    /\ dbs' = Unflagged(Ended(Top.db))
    /\ UNCHANGED disk
    /\ Leave("error")

\* (mutant) When COMMIT fails, nothing is rolled back.
ReturnsKeeping ==
    /\ blocks # <<>>
    /\ Respects
    /\ \/ dbs[Top.db].txn /\ disk' = Committed(Top.db) /\ dbs' = Unflagged(Ended(Top.db)) /\ Leave("ok")
       \/ dbs[Top.db].open /\ dbs' = Unflagged(dbs) /\ UNCHANGED disk /\ Leave("error")
       \/ ~dbs[Top.db].open /\ dbs' = Unflagged(dbs) /\ UNCHANGED disk /\ Leave("closed")

\* The callback returns: COMMIT, which may fail, and does when no transaction is
\* open; ROLLBACK then.  Nothing is said of a database that was closed.
Returns ==
    /\ blocks # <<>>
    /\ Respects
    /\ \/ /\ dbs[Top.db].txn
          /\ disk' = Committed(Top.db)
          /\ dbs' = Unflagged(Ended(Top.db))
          /\ Leave("ok")
       \/ /\ dbs[Top.db].open
          /\ dbs' = Unflagged(Ended(Top.db))
          /\ UNCHANGED disk
          /\ Leave("error")
       \/ /\ ~dbs[Top.db].open
          /\ dbs' = Unflagged(dbs)
          /\ UNCHANGED disk
          /\ Leave("closed")

-----------------------------------------------------------------------------
Init ==
    /\ dbs = <<>>
    /\ stmts = <<>>
    /\ blocks = <<>>
    /\ disk = [f \in Files |-> {}]
    /\ leaked = {}
    /\ states = 1
    /\ nextWrite = 1
    /\ ended = {}

Next ==
    \/ \E p \in Plugins, name \in Names : Open(p, name)
    \/ \E id \in 1..MaxDbs :
          Prepare(id) \/ Close(id) \/ Write(id) \/ Interrupt(id) \/ BeginByHand(id) \/ Begin(id)
    \/ \E id \in 1..MaxDbs, commit \in BOOLEAN : EndByHand(id, commit)
    \/ \E s \in 1..MaxStmts : CloseStmt(s) \/ Run(s)
    \/ \E p \in Plugins : RemovePlugin(p)
    \/ Shutdown
    \/ Raises
    \/ Returns

Spec == Init /\ [][Next]_vars

-----------------------------------------------------------------------------
(* Correctness                                                             *)

\* The variables have their types.
TypeOK ==
    /\ dbs \in Seq(OpenDb) /\ Len(dbs) <= MaxDbs
    /\ stmts \in Seq(OpenStmt) /\ Len(stmts) <= MaxStmts
    /\ blocks \in Seq(Block) /\ Len(blocks) <= MaxDepth
    /\ disk \in [Files -> SUBSET Writes]
    /\ leaked \subseteq 1..MaxDbs
    /\ states \in 1..MaxStates
    /\ nextWrite \in 1..MaxWrites + 1
    /\ ended \subseteq [file : Files, wrote : SUBSET Writes, result : {"ok", "error", "closed"}]

\* The flag of a database is set exactly while a block of it is on the stack and
\* the database is open, and no two blocks are of one database.
FlagsMatchBlocks ==
    /\ \A id \in Ids : dbs[id].in_transaction <=> dbs[id].open /\ BlockOn(id) # {}
    /\ \A j, k \in 1..Len(blocks) : blocks[j].db = blocks[k].db => j = k

\* A live statement belongs to an open database, and so no connection was left
\* with SQLite when it was closed.
StatementsHaveTheirDb ==
    /\ \A s \in 1..Len(stmts) : stmts[s].live => stmts[s].db \in Handles
    /\ leaked = {}

\* Two open handles never lead to one file: no plugin waits for a lock that it
\* holds itself.
OneHandlePerFile ==
    \A i, j \in Handles : dbs[i].file = dbs[j].file => i = j

\* What the code keeps between any two calls.
Consistent == TypeOK /\ FlagsMatchBlocks /\ StatementsHaveTheirDb /\ OneHandlePerFile

\* Of what a block wrote, everything is in the file or nothing is, and
\* everything when db:transaction returned without an error from a database
\* that is still open.
BlockIsAtomic ==
    \A b \in ended :
        /\ b.wrote \subseteq disk[b.file] \/ b.wrote \cap disk[b.file] = {}
        /\ b.result = "ok" => b.wrote \subseteq disk[b.file]
        /\ b.result = "error" => b.wrote \cap disk[b.file] = {}
=============================================================================
