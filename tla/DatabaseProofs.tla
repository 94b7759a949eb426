---------------------------- MODULE DatabaseProofs ----------------------------
(***************************************************************************)
(* Theorems about Database for any plugins and names and any bounds.       *)
(*                                                                         *)
(* Consistent is not inductive: that a database opened later is not taken  *)
(* for the one of a block takes that every block's database is in dbs.     *)
(* BlockIsAtomic needs to know where the writes of a block are as long as  *)
(* it runs, in the transaction of its database or nowhere (BlocksInOrder), *)
(* and that no write is in two places (WritesInOrder).                     *)
(***************************************************************************)
EXTENDS Database, TLAPS

Past == 1..nextWrite - 1

BlocksHaveTheirDb ==
    \A k \in 1..Len(blocks) : /\ blocks[k].db \in Ids
                              /\ blocks[k].file = dbs[blocks[k].db].file

IInv == Consistent /\ BlocksHaveTheirDb

\* The transaction of the block is still open.
Intact(k) == dbs[blocks[k].db].open /\ ~blocks[k].upset

\* As long as the transaction is open, what the block wrote is in it; afterwards it is nowhere.
Held(k) ==
    /\ blocks[k].wrote \subseteq Past
    /\ blocks[k].wrote \cap disk[blocks[k].file] = {}
    /\ Intact(k) => /\ dbs[blocks[k].db].txn
                    /\ blocks[k].wrote \subseteq dbs[blocks[k].db].pending
    /\ ~Intact(k) => \A id \in Ids : blocks[k].wrote \cap dbs[id].pending = {}

BlocksInOrder == \A k \in 1..Len(blocks) : Held(k)

\* SQLite's transaction is of an open database, and has what it has alone.
TxnInOrder(id) ==
    /\ dbs[id].txn => dbs[id].open
    /\ ~dbs[id].txn => dbs[id].pending = {}

WritesInOrder ==
    /\ \A f \in Files : disk[f] \subseteq Past
    /\ \A id \in Ids : /\ TxnInOrder(id)
                       /\ dbs[id].pending \subseteq Past
                       /\ \A f \in Files : dbs[id].pending \cap disk[f] = {}
    /\ \A i, j \in Ids : i # j => dbs[i].pending \cap dbs[j].pending = {}

\* A block that has ended is in the file, or nowhere.
Settled(b) ==
    /\ b.wrote \subseteq Past
    /\ \/ b.result = "ok" /\ b.wrote \subseteq disk[b.file]
       \/ /\ b.result # "ok"
          /\ b.wrote \cap disk[b.file] = {}
          /\ \A id \in Ids : b.wrote \cap dbs[id].pending = {}

EndedInOrder == \A b \in ended : Settled(b)

AInv == StopsAtAbort /\ IInv /\ BlocksInOrder /\ WritesInOrder /\ EndedInOrder

-----------------------------------------------------------------------------
(* Databases, statements and blocks as sequences                           *)

LEMMA Types ==
    ASSUME TypeOK
    PROVE  /\ dbs \in Seq(OpenDb) /\ Len(dbs) \in Nat /\ Len(dbs) <= MaxDbs
           /\ \A id \in Ids : dbs[id] \in OpenDb /\ id \in 1..MaxDbs
           /\ stmts \in Seq(OpenStmt) /\ Len(stmts) \in Nat /\ Len(stmts) <= MaxStmts
           /\ \A s \in 1..Len(stmts) : stmts[s] \in OpenStmt
           /\ blocks \in Seq(Block) /\ Len(blocks) \in Nat /\ Len(blocks) <= MaxDepth
           /\ \A k \in 1..Len(blocks) : blocks[k] \in Block
BY DatabaseConstants DEF TypeOK, Ids

LEMMA OneMore ==
    ASSUME NEW S, NEW s \in Seq(S), NEW x \in S, NEW t, t = Append(s, x)
    PROVE  /\ t \in Seq(S) /\ Len(t) = Len(s) + 1
           /\ t[Len(s) + 1] = x /\ \A j \in 1..Len(s) : t[j] = s[j]
OBVIOUS

LEMMA Prefix ==
    ASSUME NEW S, NEW s \in Seq(S), NEW n \in Nat, n <= Len(s)
    PROVE  /\ SubSeq(s, 1, n) \in Seq(S)
           /\ Len(SubSeq(s, 1, n)) = n
           /\ \A k \in 1..n : SubSeq(s, 1, n)[k] = s[k]
OBVIOUS

LEMMA ButLast ==
    ASSUME TypeOK, blocks # <<>>, blocks' = SubSeq(blocks, 1, Len(blocks) - 1)
    PROVE  /\ blocks' \in Seq(Block) /\ Len(blocks') = Len(blocks) - 1 /\ Len(blocks) \in 1..Len(blocks)
           /\ \A j \in 1..Len(blocks') : j \in 1..Len(blocks) /\ j # Len(blocks) /\ blocks'[j] = blocks[j]
           /\ \A j \in 1..Len(blocks) : j # Len(blocks) => j \in 1..Len(blocks')
<1>1. blocks \in Seq(Block) /\ Len(blocks) \in Nat /\ Len(blocks) > 0
    BY Types
<1>2. Len(blocks) - 1 \in Nat /\ Len(blocks) - 1 <= Len(blocks)
    BY <1>1
<1>3. /\ blocks' \in Seq(Block) /\ Len(blocks') = Len(blocks) - 1
      /\ \A k \in 1..Len(blocks) - 1 : blocks'[k] = blocks[k]
    BY <1>1, <1>2, Prefix
<1> QED BY <1>1, <1>3

\* A sequence of the same length is made of what its elements become.
LEMMA SameLength ==
    ASSUME NEW S, NEW n \in Nat, NEW t, t = [i \in 1..n |-> t[i]], \A i \in 1..n : t[i] \in S
    PROVE  t \in Seq(S) /\ Len(t) = n
<1>1. t \in [1..n -> S]
    OBVIOUS
<1> QED BY <1>1

LEMMA OneChanged ==
    ASSUME NEW S, NEW s \in Seq(S), NEW i \in 1..Len(s), NEW x \in S, NEW t, t = [s EXCEPT ![i] = x]
    PROVE  /\ t \in Seq(S) /\ Len(t) = Len(s)
           /\ t[i] = x /\ \A j \in 1..Len(s) : j # i => t[j] = s[j]
OBVIOUS

-----------------------------------------------------------------------------
(* Consistent: what a step must leave as it is                             *)

\* The books of flags and blocks, statements and files, for a step that keeps
\* their databases.
LEMMA KeptBooks ==
    ASSUME IInv, TypeOK', Len(dbs') = Len(dbs), Len(blocks') = Len(blocks),
           \A id \in Ids : /\ dbs'[id].open = dbs[id].open
                           /\ dbs'[id].file = dbs[id].file
                           /\ dbs'[id].in_transaction = dbs[id].in_transaction,
           \A k \in 1..Len(blocks) : blocks'[k].db = blocks[k].db /\ blocks'[k].file = blocks[k].file,
           UNCHANGED leaked,
           \A s \in 1..Len(stmts') : stmts'[s].live => stmts'[s].db \in Handles
    PROVE  IInv'
<1>1. Ids' = Ids /\ Handles' = Handles
    BY DEF Ids, Handles
<1>2. \A id \in Ids : BlockOn(id)' = BlockOn(id)
    BY DEF BlockOn
<1>3. FlagsMatchBlocks /\ StatementsHaveTheirDb /\ OneHandlePerFile /\ BlocksHaveTheirDb
    BY DEF IInv, Consistent
<1>4. FlagsMatchBlocks'
    BY <1>1, <1>2, <1>3 DEF FlagsMatchBlocks
<1>5. StatementsHaveTheirDb'
    BY <1>1, <1>3 DEF StatementsHaveTheirDb
<1>6. OneHandlePerFile'
    BY <1>1, <1>3 DEF OneHandlePerFile, Handles
<1>7. BlocksHaveTheirDb'
    BY <1>1, <1>3 DEF BlocksHaveTheirDb
<1> QED BY <1>4, <1>5, <1>6, <1>7 DEF IInv, Consistent

-----------------------------------------------------------------------------
(* What the operators of the actions make                                  *)

LEMMA EndedFacts ==
    ASSUME TypeOK, NEW id \in Ids
    PROVE  /\ Ended(id) \in Seq(OpenDb) /\ Len(Ended(id)) = Len(dbs)
           /\ Ended(id)[id] = [dbs[id] EXCEPT !.txn = FALSE, !.pending = {}]
           /\ \A j \in Ids : j # id => Ended(id)[j] = dbs[j]
<1> DEFINE d == [dbs[id] EXCEPT !.txn = FALSE, !.pending = {}]
<1>1. dbs[id] \in OpenDb /\ dbs \in Seq(OpenDb) /\ id \in 1..Len(dbs)
    BY Types DEF Ids
<1>2. d \in OpenDb
    BY <1>1 DEF OpenDb
<1>3. Ended(id) = [dbs EXCEPT ![id] = d]
    BY <1>1 DEF Ended, OpenDb
<1> HIDE DEF d
<1>4. /\ Ended(id) \in Seq(OpenDb) /\ Len(Ended(id)) = Len(dbs)
      /\ Ended(id)[id] = d /\ \A j \in 1..Len(dbs) : j # id => Ended(id)[j] = dbs[j]
    BY <1>1, <1>2, <1>3, OneChanged
<1> QED BY <1>4 DEF d, Ids

LEMMA UnflaggedFacts ==
    ASSUME NEW base \in Seq(OpenDb), Top.db \in 1..Len(base)
    PROVE  /\ Unflagged(base) \in Seq(OpenDb) /\ Len(Unflagged(base)) = Len(base)
           /\ Unflagged(base)[Top.db] = [base[Top.db] EXCEPT !.in_transaction = FALSE]
           /\ \A j \in 1..Len(base) : j # Top.db => Unflagged(base)[j] = base[j]
<1> DEFINE d == [base[Top.db] EXCEPT !.in_transaction = FALSE]
<1>1. base[Top.db] \in OpenDb
    OBVIOUS
<1>2. d \in OpenDb
    BY <1>1 DEF OpenDb
<1>3. Unflagged(base) = [base EXCEPT ![Top.db] = d]
    BY <1>1 DEF Unflagged, OpenDb
<1> HIDE DEF d
<1>4. /\ Unflagged(base) \in Seq(OpenDb) /\ Len(Unflagged(base)) = Len(base)
      /\ Unflagged(base)[Top.db] = d
      /\ \A j \in 1..Len(base) : j # Top.db => Unflagged(base)[j] = base[j]
    BY <1>2, <1>3, OneChanged
<1> QED BY <1>4 DEF d

LEMMA NoteFacts ==
    ASSUME TypeOK, NEW id \in Ids, NEW w \in Writes, Note(id, w)
    PROVE  /\ blocks' \in Seq(Block) /\ Len(blocks') = Len(blocks)
           /\ \A k \in 1..Len(blocks) :
                /\ blocks[k].db = id => blocks'[k] = [blocks[k] EXCEPT !.wrote = @ \cup {w}]
                /\ blocks[k].db # id => blocks'[k] = blocks[k]
<1>1. Len(blocks) \in Nat /\ \A k \in 1..Len(blocks) : blocks[k] \in Block
    BY Types
<1>2. /\ blocks' = [k \in 1..Len(blocks) |-> blocks'[k]]
      /\ \A k \in 1..Len(blocks) :
            /\ blocks[k].db = id => blocks'[k] = [blocks[k] EXCEPT !.wrote = @ \cup {w}]
            /\ blocks[k].db # id => blocks'[k] = blocks[k]
    BY DEF Note, BlockOn
<1>3. \A k \in 1..Len(blocks) : blocks'[k] \in Block
    BY <1>1, <1>2 DEF Block
<1> QED BY <1>1, <1>2, <1>3, SameLength

LEMMA UpsetFacts ==
    ASSUME TypeOK, NEW id \in Ids, Upset(id)
    PROVE  /\ blocks' \in Seq(Block) /\ Len(blocks') = Len(blocks)
           /\ \A k \in 1..Len(blocks) :
                /\ blocks[k].db = id => blocks'[k] = [blocks[k] EXCEPT !.upset = TRUE]
                /\ blocks[k].db # id => blocks'[k] = blocks[k]
<1>1. Len(blocks) \in Nat /\ \A k \in 1..Len(blocks) : blocks[k] \in Block
    BY Types
<1>2. /\ blocks' = [k \in 1..Len(blocks) |-> blocks'[k]]
      /\ \A k \in 1..Len(blocks) :
            /\ blocks[k].db = id => blocks'[k] = [blocks[k] EXCEPT !.upset = TRUE]
            /\ blocks[k].db # id => blocks'[k] = blocks[k]
    BY DEF Upset, BlockOn
<1>3. \A k \in 1..Len(blocks) : blocks'[k] \in Block
  <2>1. \A b \in Block : [b EXCEPT !.upset = TRUE] \in Block
      BY DEF Block
  <2>2. ASSUME NEW k \in 1..Len(blocks) PROVE blocks'[k] \in Block
    <3>1. CASE blocks[k].db = id
        BY <1>1, <1>2, <2>1, <3>1
    <3>2. CASE blocks[k].db # id
        BY <1>1, <1>2, <3>2
    <3> QED BY <3>1, <3>2
  <2> QED BY <2>2
<1> QED BY <1>1, <1>2, <1>3, SameLength

LEMMA CloseAllFacts ==
    ASSUME TypeOK, NEW ids \in SUBSET Handles, CloseAll(ids)
    PROVE  /\ dbs' \in Seq(OpenDb) /\ Len(dbs') = Len(dbs)
           /\ \A id \in Ids :
                /\ id \in ids => dbs'[id] = [dbs[id] EXCEPT !.open = FALSE, !.in_transaction = FALSE,
                                                            !.txn = FALSE, !.pending = {}]
                /\ id \notin ids => dbs'[id] = dbs[id]
           /\ stmts' \in Seq(OpenStmt) /\ Len(stmts') = Len(stmts)
           /\ \A s \in 1..Len(stmts) :
                /\ stmts'[s].db = stmts[s].db
                /\ stmts'[s].live <=> stmts[s].live /\ stmts[s].db \notin ids
           /\ leaked' = leaked
<1>1. /\ Len(dbs) \in Nat /\ \A id \in Ids : dbs[id] \in OpenDb
      /\ Len(stmts) \in Nat /\ \A s \in 1..Len(stmts) : stmts[s] \in OpenStmt
    BY Types
<1>2. /\ dbs' = [id \in 1..Len(dbs) |-> dbs'[id]]
      /\ \A id \in Ids :
            /\ id \in ids => dbs'[id] = [dbs[id] EXCEPT !.open = FALSE, !.in_transaction = FALSE,
                                                        !.txn = FALSE, !.pending = {}]
            /\ id \notin ids => dbs'[id] = dbs[id]
    BY DEF CloseAll, Ids
<1>3. \A id \in 1..Len(dbs) : dbs'[id] \in OpenDb
  <2> SUFFICES ASSUME NEW id \in Ids PROVE dbs'[id] \in OpenDb
      BY DEF Ids
  <2>1. CASE id \in ids
    <3>1. \A d \in OpenDb : [d EXCEPT !.open = FALSE, !.in_transaction = FALSE,
                                       !.txn = FALSE, !.pending = {}] \in OpenDb
        BY DEF OpenDb
    <3>2. dbs[id] \in OpenDb
        BY <1>1
    <3>3. dbs'[id] = [dbs[id] EXCEPT !.open = FALSE, !.in_transaction = FALSE,
                                     !.txn = FALSE, !.pending = {}]
        BY <1>2, <2>1
    <3> QED BY <3>1, <3>2, <3>3
  <2>2. CASE id \notin ids
      BY <1>1, <1>2, <2>2
  <2> QED BY <2>1, <2>2
<1>4. dbs' \in Seq(OpenDb) /\ Len(dbs') = Len(dbs)
    BY <1>1, <1>2, <1>3, SameLength
<1>5. /\ stmts' = [s \in 1..Len(stmts) |-> stmts'[s]]
      /\ \A s \in 1..Len(stmts) :
            /\ stmts[s].db \in ids => stmts'[s] = [stmts[s] EXCEPT !.live = FALSE]
            /\ stmts[s].db \notin ids => stmts'[s] = stmts[s]
    BY DEF CloseAll, Finalized
<1>6. \A s \in 1..Len(stmts) : /\ stmts'[s] \in OpenStmt
                               /\ stmts'[s].db = stmts[s].db
                               /\ stmts'[s].live <=> stmts[s].live /\ stmts[s].db \notin ids
    BY <1>1, <1>5 DEF OpenStmt
<1>7. stmts' \in Seq(OpenStmt) /\ Len(stmts') = Len(stmts)
    BY <1>1, <1>5, <1>6, SameLength
<1>8. leaked' = leaked
    BY <1>6, <1>7 DEF CloseAll
<1> QED BY <1>2, <1>4, <1>6, <1>7, <1>8

LEMMA Innermost ==
    ASSUME IInv, blocks # <<>>
    PROVE  Len(blocks) \in 1..Len(blocks) /\ Top \in Block /\ Top.db \in Ids /\ Top.file = dbs[Top.db].file
<1>1. TypeOK /\ BlocksHaveTheirDb
    BY DEF IInv, Consistent
<1>2. Len(blocks) \in 1..Len(blocks)
    BY <1>1, Types
<1> QED BY <1>1, <1>2, Types DEF Top, BlocksHaveTheirDb

LEMMA LeaveFacts ==
    ASSUME IInv, blocks # <<>>, NEW result \in {"ok", "error", "closed"}, Leave(result)
    PROVE  /\ blocks' \in Seq(Block) /\ Len(blocks') = Len(blocks) - 1 /\ Len(blocks) \in 1..Len(blocks)
           /\ \A j \in 1..Len(blocks') : j \in 1..Len(blocks) /\ j # Len(blocks) /\ blocks'[j] = blocks[j]
           /\ \A j \in 1..Len(blocks) : j # Len(blocks) => j \in 1..Len(blocks')
           /\ ended' \subseteq ended \cup {[file |-> Top.file, wrote |-> Top.wrote, result |-> result]}
           /\ ended' \subseteq [file : Files, wrote : SUBSET Writes, result : {"ok", "error", "closed"}]
           /\ UNCHANGED <<stmts, leaked, states, nextWrite>>
<1>1. TypeOK /\ blocks \in Seq(Block)
    BY Types DEF IInv, Consistent
<1>2. blocks' = SubSeq(blocks, 1, Len(blocks) - 1) /\ UNCHANGED <<stmts, leaked, states, nextWrite>>
    BY DEF Leave
<1>3. ended' \subseteq ended \cup {[file |-> Top.file, wrote |-> Top.wrote, result |-> result]}
    BY DEF Leave
<1>4. [file |-> Top.file, wrote |-> Top.wrote, result |-> result]
          \in [file : Files, wrote : SUBSET Writes, result : {"ok", "error", "closed"}]
    BY Innermost DEF Block
<1>5. ended \subseteq [file : Files, wrote : SUBSET Writes, result : {"ok", "error", "closed"}]
    BY <1>1 DEF TypeOK
<1>6. ended' \subseteq [file : Files, wrote : SUBSET Writes, result : {"ok", "error", "closed"}]
    BY <1>3, <1>4, <1>5
<1>7. /\ blocks' \in Seq(Block) /\ Len(blocks') = Len(blocks) - 1 /\ Len(blocks) \in 1..Len(blocks)
      /\ \A j \in 1..Len(blocks') : j \in 1..Len(blocks) /\ j # Len(blocks) /\ blocks'[j] = blocks[j]
      /\ \A j \in 1..Len(blocks) : j # Len(blocks) => j \in 1..Len(blocks')
    BY <1>1, <1>2, ButLast
<1> QED BY <1>2, <1>3, <1>6, <1>7

LEMMA WriteFacts ==
    ASSUME TypeOK, NEW id \in 1..MaxDbs, Write(id)
    PROVE  /\ id \in Ids /\ dbs[id].open /\ nextWrite \in Writes /\ nextWrite' = nextWrite + 1
           /\ dbs' \in Seq(OpenDb) /\ Len(dbs') = Len(dbs)
           /\ \A j \in Ids : j # id => dbs'[j] = dbs[j]
           /\ \/ /\ dbs[id].txn
                 /\ dbs'[id] = [dbs[id] EXCEPT !.pending = @ \cup {nextWrite}]
                 /\ disk' = disk
              \/ /\ ~dbs[id].txn
                 /\ dbs' = dbs
                 /\ disk' = [disk EXCEPT ![dbs[id].file] = @ \cup {nextWrite}]
           /\ Note(id, nextWrite)
           /\ UNCHANGED <<stmts, leaked, states, ended>>
<1>1. /\ id \in Ids /\ dbs[id].open /\ nextWrite \in Writes /\ nextWrite' = nextWrite + 1
      /\ Note(id, nextWrite) /\ UNCHANGED <<stmts, leaked, states, ended>>
    BY DEF Write, Handles
<1>2. dbs \in Seq(OpenDb) /\ dbs[id] \in OpenDb /\ id \in 1..Len(dbs)
    BY <1>1, Types DEF Ids
<1>3. CASE ~dbs[id].txn
    BY <1>1, <1>2, <1>3 DEF Write
<1>4. CASE dbs[id].txn
  <2> DEFINE d == [dbs[id] EXCEPT !.pending = @ \cup {nextWrite}]
  <2>1. d \in OpenDb
      BY <1>1, <1>2 DEF OpenDb
  <2>2. dbs' = [dbs EXCEPT ![id] = d] /\ disk' = disk
      BY <1>2, <1>4 DEF Write
  <2> HIDE DEF d
  <2>3. /\ dbs' \in Seq(OpenDb) /\ Len(dbs') = Len(dbs) /\ dbs'[id] = d
        /\ \A j \in 1..Len(dbs) : j # id => dbs'[j] = dbs[j]
      BY <1>2, <2>1, <2>2, OneChanged
  <2> QED BY <1>1, <1>4, <2>2, <2>3 DEF d, Ids
<1> QED BY <1>3, <1>4

LEMMA OpenFacts ==
    ASSUME TypeOK, NEW p \in Plugins, NEW name \in Names, Open(p, name)
    PROVE  /\ dbs' \in Seq(OpenDb) /\ Len(dbs') <= MaxDbs
           /\ dbs'[Len(dbs) + 1] = [file |-> <<p, name>>, open |-> TRUE, in_transaction |-> FALSE,
                                    txn |-> FALSE, pending |-> {}]
           /\ \A j \in Ids : dbs'[j] = dbs[j]
           /\ Ids' = Ids \cup {Len(dbs) + 1} /\ Len(dbs) + 1 \notin Ids
           /\ \A j \in Handles : dbs[j].file # <<p, name>>
           /\ UNCHANGED <<stmts, blocks, disk, leaked, states, nextWrite, ended>>
<1> DEFINE d == [file |-> <<p, name>>, open |-> TRUE, in_transaction |-> FALSE,
                 txn |-> FALSE, pending |-> {}]
<1>1. d \in OpenDb
    BY DEF OpenDb, Files
<1>2. dbs' = Append(dbs, d) /\ Len(dbs) < MaxDbs /\ (\A j \in Handles : dbs[j].file # <<p, name>>)
      /\ UNCHANGED <<stmts, blocks, disk, leaked, states, nextWrite, ended>>
    BY DEF Open, SameFile
<1>3. dbs \in Seq(OpenDb) /\ Len(dbs) \in Nat
    BY Types
<1> HIDE DEF d
<1>4. /\ dbs' \in Seq(OpenDb) /\ Len(dbs') = Len(dbs) + 1
      /\ dbs'[Len(dbs) + 1] = d /\ \A j \in 1..Len(dbs) : dbs'[j] = dbs[j]
    BY <1>1, <1>2, <1>3, OneMore
<1>5. Len(dbs') <= MaxDbs
    BY <1>2, <1>3, <1>4, DatabaseConstants
<1>6. Ids' = Ids \cup {Len(dbs) + 1} /\ Len(dbs) + 1 \notin Ids
    BY <1>3, <1>4 DEF Ids
<1> QED BY <1>1, <1>2, <1>4, <1>5, <1>6 DEF d, Ids

LEMMA BeginFacts ==
    ASSUME TypeOK, NEW id \in 1..MaxDbs, Begin(id)
    PROVE  /\ id \in Ids /\ dbs[id].open /\ ~dbs[id].in_transaction /\ ~dbs[id].txn
           /\ dbs' \in Seq(OpenDb) /\ Len(dbs') = Len(dbs)
           /\ dbs'[id] = [dbs[id] EXCEPT !.txn = TRUE, !.in_transaction = TRUE]
           /\ \A j \in Ids : j # id => dbs'[j] = dbs[j]
           /\ blocks' \in Seq(Block) /\ Len(blocks') = Len(blocks) + 1 /\ Len(blocks') <= MaxDepth
           /\ blocks'[Len(blocks) + 1] = [db |-> id, file |-> dbs[id].file, wrote |-> {}, upset |-> FALSE]
           /\ \A k \in 1..Len(blocks) : blocks'[k] = blocks[k]
           /\ UNCHANGED <<stmts, disk, leaked, states, nextWrite, ended>>
<1> DEFINE b == [db |-> id, file |-> dbs[id].file, wrote |-> {}, upset |-> FALSE]
           d == [dbs[id] EXCEPT !.txn = TRUE, !.in_transaction = TRUE]
<1>1. /\ id \in Ids /\ dbs[id].open /\ ~dbs[id].in_transaction /\ ~dbs[id].txn
      /\ blocks' = Append(blocks, b) /\ Len(blocks) < MaxDepth
      /\ UNCHANGED <<stmts, disk, leaked, states, nextWrite, ended>>
    BY DEF Begin, Handles
<1>2. dbs \in Seq(OpenDb) /\ dbs[id] \in OpenDb /\ id \in 1..Len(dbs)
    BY <1>1, Types DEF Ids
<1>3. d \in OpenDb /\ b \in Block
    BY <1>2 DEF OpenDb, Block
<1>4. dbs' = [dbs EXCEPT ![id] = d]
    BY <1>2 DEF Begin, OpenDb
<1>5. blocks \in Seq(Block) /\ Len(blocks) \in Nat
    BY Types
<1> HIDE DEF b, d
<1>6. /\ dbs' \in Seq(OpenDb) /\ Len(dbs') = Len(dbs) /\ dbs'[id] = d
      /\ \A j \in 1..Len(dbs) : j # id => dbs'[j] = dbs[j]
    BY <1>2, <1>3, <1>4, OneChanged
<1>7. /\ blocks' \in Seq(Block) /\ Len(blocks') = Len(blocks) + 1
      /\ blocks'[Len(blocks) + 1] = b /\ \A k \in 1..Len(blocks) : blocks'[k] = blocks[k]
    BY <1>1, <1>3, <1>5, OneMore
<1>8. Len(blocks') <= MaxDepth
    BY <1>1, <1>5, <1>7, DatabaseConstants
<1> QED BY <1>1, <1>6, <1>7, <1>8 DEF b, d, Ids

\* BEGIN by hand.
LEMMA BeginByHandFacts ==
    ASSUME TypeOK, NEW id \in 1..MaxDbs, BeginByHand(id)
    PROVE  /\ id \in Ids /\ dbs[id].open /\ ~dbs[id].txn /\ BlockOn(id) = {}
           /\ dbs' \in Seq(OpenDb) /\ Len(dbs') = Len(dbs)
           /\ dbs'[id] = [dbs[id] EXCEPT !.txn = TRUE]
           /\ \A j \in Ids : j # id => dbs'[j] = dbs[j]
           /\ UNCHANGED <<stmts, blocks, disk, leaked, states, nextWrite, ended>>
<1> DEFINE d == [dbs[id] EXCEPT !.txn = TRUE]
<1>1. /\ id \in Ids /\ dbs[id].open /\ ~dbs[id].txn /\ BlockOn(id) = {}
      /\ UNCHANGED <<stmts, blocks, disk, leaked, states, nextWrite, ended>>
    BY DEF BeginByHand, Handles
<1>2. dbs \in Seq(OpenDb) /\ dbs[id] \in OpenDb /\ id \in 1..Len(dbs)
    BY <1>1, Types DEF Ids
<1>3. d \in OpenDb
    BY <1>2 DEF OpenDb
<1>4. dbs' = [dbs EXCEPT ![id] = d]
    BY <1>2 DEF BeginByHand, OpenDb
<1> HIDE DEF d
<1>5. /\ dbs' \in Seq(OpenDb) /\ Len(dbs') = Len(dbs) /\ dbs'[id] = d
      /\ \A j \in 1..Len(dbs) : j # id => dbs'[j] = dbs[j]
    BY <1>2, <1>3, <1>4, OneChanged
<1> QED BY <1>1, <1>5 DEF d, Ids

\* A block ends: the flag of its database goes, and the transaction if it was ended.
LEMMA BlockEndsFacts ==
    ASSUME IInv, blocks # <<>>, NEW base \in {Ended(Top.db), dbs}, dbs' = Unflagged(base)
    PROVE  /\ dbs' \in Seq(OpenDb) /\ Len(dbs') = Len(dbs)
           /\ \A j \in Ids : j # Top.db => dbs'[j] = dbs[j]
           /\ base = dbs => dbs'[Top.db] = [dbs[Top.db] EXCEPT !.in_transaction = FALSE]
           /\ base = Ended(Top.db) =>
                  dbs'[Top.db] = [dbs[Top.db] EXCEPT !.in_transaction = FALSE, !.txn = FALSE, !.pending = {}]
<1>1. TypeOK /\ Top.db \in Ids
    BY Innermost DEF IInv, Consistent
<1>2. dbs \in Seq(OpenDb) /\ dbs[Top.db] \in OpenDb /\ Len(dbs) \in Nat
    BY <1>1, Types
<1>3. CASE base = dbs
  <2>1. Top.db \in 1..Len(dbs)
      BY <1>1 DEF Ids
  <2>2. /\ dbs' \in Seq(OpenDb) /\ Len(dbs') = Len(dbs)
        /\ dbs'[Top.db] = [dbs[Top.db] EXCEPT !.in_transaction = FALSE]
        /\ \A j \in 1..Len(dbs) : j # Top.db => dbs'[j] = dbs[j]
      BY <1>2, <1>3, <2>1, UnflaggedFacts
  <2>3. base = Ended(Top.db) => dbs[Top.db] = [dbs[Top.db] EXCEPT !.txn = FALSE, !.pending = {}]
      BY <1>1, <1>3, EndedFacts
  <2>4. base = Ended(Top.db) =>
          dbs'[Top.db] = [dbs[Top.db] EXCEPT !.in_transaction = FALSE, !.txn = FALSE, !.pending = {}]
    <3>1. \A d \in OpenDb : d = [d EXCEPT !.txn = FALSE, !.pending = {}] => d.txn = FALSE /\ d.pending = {}
        BY DEF OpenDb
    <3>2. \A d \in OpenDb : d.txn = FALSE /\ d.pending = {} =>
             [d EXCEPT !.in_transaction = FALSE]
                 = [d EXCEPT !.in_transaction = FALSE, !.txn = FALSE, !.pending = {}]
        BY DEF OpenDb
    <3> QED BY <1>2, <2>2, <2>3, <3>1, <3>2
  <2> QED BY <2>2, <2>4 DEF Ids
<1>4. CASE base = Ended(Top.db) /\ base # dbs
  <2>1. /\ base \in Seq(OpenDb) /\ Len(base) = Len(dbs)
        /\ base[Top.db] = [dbs[Top.db] EXCEPT !.txn = FALSE, !.pending = {}]
        /\ \A j \in Ids : j # Top.db => base[j] = dbs[j]
      BY <1>1, <1>4, EndedFacts
  <2>2. Top.db \in 1..Len(base)
      BY <1>1, <2>1 DEF Ids
  <2>3. /\ dbs' \in Seq(OpenDb) /\ Len(dbs') = Len(base)
        /\ dbs'[Top.db] = [base[Top.db] EXCEPT !.in_transaction = FALSE]
        /\ \A j \in 1..Len(base) : j # Top.db => dbs'[j] = base[j]
      BY <2>1, <2>2, UnflaggedFacts
  <2>4. dbs'[Top.db] = [dbs[Top.db] EXCEPT !.in_transaction = FALSE, !.txn = FALSE, !.pending = {}]
      BY <1>2, <2>1, <2>3 DEF OpenDb
  <2> QED BY <1>4, <2>1, <2>3, <2>4 DEF Ids
<1> QED BY <1>3, <1>4

-----------------------------------------------------------------------------
(* Consistent, one action at a time                                        *)

LEMMA InitHolds == Init => IInv
<1> SUFFICES ASSUME Init PROVE IInv
    OBVIOUS
<1>1. TypeOK
    BY DatabaseConstants DEF Init, TypeOK
<1>2. Len(dbs) = 0 /\ Len(stmts) = 0 /\ Len(blocks) = 0 /\ leaked = {}
    BY DEF Init
<1>3. FlagsMatchBlocks /\ StatementsHaveTheirDb /\ OneHandlePerFile /\ BlocksHaveTheirDb
    BY <1>2 DEF FlagsMatchBlocks, StatementsHaveTheirDb, OneHandlePerFile, BlocksHaveTheirDb, Handles, Ids
<1> QED BY <1>1, <1>3 DEF IInv, Consistent

LEMMA OpenConsistent ==
    ASSUME IInv, NEW p \in Plugins, NEW name \in Names, Open(p, name)
    PROVE  IInv'
<1> PICK n : n = Len(dbs) + 1
    OBVIOUS
<1>1. TypeOK /\ FlagsMatchBlocks /\ StatementsHaveTheirDb /\ OneHandlePerFile /\ BlocksHaveTheirDb
    BY DEF IInv, Consistent
<1>2. /\ dbs' \in Seq(OpenDb) /\ Len(dbs') <= MaxDbs
      /\ dbs'[n].file = <<p, name>> /\ dbs'[n].open /\ ~dbs'[n].in_transaction
      /\ \A j \in Ids : dbs'[j] = dbs[j]
      /\ Ids' = Ids \cup {n} /\ n \notin Ids
      /\ \A j \in Handles : dbs[j].file # <<p, name>>
      /\ UNCHANGED <<stmts, blocks, disk, leaked, states, nextWrite, ended>>
  <2>1. /\ dbs' \in Seq(OpenDb) /\ Len(dbs') <= MaxDbs
        /\ dbs'[Len(dbs) + 1] = [file |-> <<p, name>>, open |-> TRUE, in_transaction |-> FALSE,
                                 txn |-> FALSE, pending |-> {}]
        /\ \A j \in Ids : dbs'[j] = dbs[j]
        /\ Ids' = Ids \cup {Len(dbs) + 1} /\ Len(dbs) + 1 \notin Ids
        /\ \A j \in Handles : dbs[j].file # <<p, name>>
        /\ UNCHANGED <<stmts, blocks, disk, leaked, states, nextWrite, ended>>
      BY <1>1, OpenFacts
  <2> QED BY <2>1
<1>3. TypeOK'
    BY <1>1, <1>2 DEF TypeOK
<1>4. Handles' = Handles \cup {n}
    BY <1>2 DEF Handles
<1>5. \A k \in 1..Len(blocks) : blocks[k].db \in Ids
    BY <1>1 DEF BlocksHaveTheirDb
<1>6. BlockOn(n)' = {} /\ \A id \in Ids : BlockOn(id)' = BlockOn(id)
    BY <1>2, <1>5 DEF BlockOn
<1>7. FlagsMatchBlocks'
    BY <1>1, <1>2, <1>6 DEF FlagsMatchBlocks
<1>8. StatementsHaveTheirDb'
    BY <1>1, <1>2, <1>4 DEF StatementsHaveTheirDb
<1>10. OneHandlePerFile'
  <2>1. \A id \in Handles : id # n /\ dbs'[id] = dbs[id]
      BY <1>2 DEF Handles
  <2> QED BY <1>1, <1>2, <1>4, <2>1 DEF OneHandlePerFile
<1>11. BlocksHaveTheirDb'
    BY <1>1, <1>2 DEF BlocksHaveTheirDb
<1> QED BY <1>3, <1>7, <1>8, <1>10, <1>11 DEF IInv, Consistent

LEMMA PrepareConsistent ==
    ASSUME IInv, NEW id \in 1..MaxDbs, Prepare(id)
    PROVE  IInv'
<1>1. TypeOK /\ StatementsHaveTheirDb
    BY DEF IInv, Consistent
<1>2. stmts \in Seq(OpenStmt) /\ Len(stmts) \in Nat /\ [db |-> id, live |-> TRUE] \in OpenStmt
    BY <1>1, Types DEF OpenStmt
<1>3. /\ stmts' = Append(stmts, [db |-> id, live |-> TRUE]) /\ Len(stmts) < MaxStmts
      /\ id \in Handles /\ UNCHANGED <<dbs, blocks, disk, leaked, states, nextWrite, ended>>
    BY DEF Prepare
<1>4. /\ stmts' \in Seq(OpenStmt) /\ Len(stmts') = Len(stmts) + 1
      /\ stmts'[Len(stmts) + 1].db = id /\ \A s \in 1..Len(stmts) : stmts'[s] = stmts[s]
    BY <1>2, <1>3, OneMore
<1>5. Len(stmts') <= MaxStmts
    BY <1>2, <1>3, <1>4, DatabaseConstants
<1>6. TypeOK'
    BY <1>1, <1>3, <1>4, <1>5 DEF TypeOK
<1>7. \A s \in 1..Len(stmts) : stmts[s].live => stmts[s].db \in Handles
    BY <1>1 DEF StatementsHaveTheirDb
<1>8. \A s \in 1..Len(stmts') : s \in 1..Len(stmts) \/ s = Len(stmts) + 1
    BY <1>2, <1>4
<1>9. \A s \in 1..Len(stmts') : stmts'[s].live => stmts'[s].db \in Handles
    BY <1>3, <1>4, <1>7, <1>8
<1> QED BY <1>3, <1>6, <1>9, KeptBooks

LEMMA CloseStmtConsistent ==
    ASSUME IInv, NEW s \in 1..MaxStmts, CloseStmt(s)
    PROVE  IInv'
<1>1. TypeOK /\ StatementsHaveTheirDb
    BY DEF IInv, Consistent
<1> DEFINE st == [stmts[s] EXCEPT !.live = FALSE]
<1>2. s \in 1..Len(stmts) /\ UNCHANGED <<dbs, blocks, disk, leaked, states, nextWrite, ended>>
    BY DEF CloseStmt
<1>3. stmts \in Seq(OpenStmt) /\ stmts[s] \in OpenStmt /\ Len(stmts) <= MaxStmts
    BY <1>1, <1>2, Types
<1>4. st \in OpenStmt /\ ~st.live
    BY <1>3 DEF OpenStmt
<1>5. stmts' = [stmts EXCEPT ![s] = st]
    BY <1>3 DEF CloseStmt, OpenStmt
<1> HIDE DEF st
<1>6. /\ stmts' \in Seq(OpenStmt) /\ Len(stmts') = Len(stmts) /\ stmts'[s] = st
      /\ \A j \in 1..Len(stmts) : j # s => stmts'[j] = stmts[j]
    BY <1>2, <1>3, <1>4, <1>5, OneChanged
<1>7. TypeOK'
    BY <1>1, <1>2, <1>3, <1>6 DEF TypeOK
<1>8. \A j \in 1..Len(stmts') : stmts'[j].live => stmts'[j].db \in Handles
    BY <1>1, <1>4, <1>6 DEF StatementsHaveTheirDb
<1> QED BY <1>2, <1>7, <1>8, KeptBooks

LEMMA CloseAllConsistent ==
    ASSUME IInv, NEW ids \in SUBSET Handles, CloseAll(ids),
           UNCHANGED <<blocks, disk, states, nextWrite, ended>>
    PROVE  IInv'
<1>1. TypeOK /\ FlagsMatchBlocks /\ StatementsHaveTheirDb /\ OneHandlePerFile /\ BlocksHaveTheirDb
    BY DEF IInv, Consistent
<1>2. /\ dbs' \in Seq(OpenDb) /\ Len(dbs') = Len(dbs)
      /\ \A id \in Ids : id \notin ids => dbs'[id] = dbs[id]
      /\ stmts' \in Seq(OpenStmt) /\ Len(stmts') = Len(stmts)
      /\ \A s \in 1..Len(stmts) :
           stmts'[s].db = stmts[s].db /\ (stmts'[s].live <=> stmts[s].live /\ stmts[s].db \notin ids)
      /\ leaked' = leaked
    BY <1>1, CloseAllFacts
<1>3. \A id \in ids : dbs'[id] = [dbs[id] EXCEPT !.open = FALSE, !.in_transaction = FALSE,
                                                 !.txn = FALSE, !.pending = {}]
    BY <1>1, CloseAllFacts DEF Handles
<1>4. \A id \in Ids : /\ dbs'[id].file = dbs[id].file
                      /\ dbs'[id].open <=> dbs[id].open /\ id \notin ids
                      /\ dbs'[id].in_transaction <=> dbs[id].in_transaction /\ id \notin ids
  <2> SUFFICES ASSUME NEW id \in Ids
               PROVE  /\ dbs'[id].file = dbs[id].file
                      /\ dbs'[id].open <=> dbs[id].open /\ id \notin ids
                      /\ dbs'[id].in_transaction <=> dbs[id].in_transaction /\ id \notin ids
      OBVIOUS
  <2>1. dbs[id] \in OpenDb
      BY <1>1, Types
  <2>2. CASE id \in ids
      BY <1>3, <2>1, <2>2 DEF OpenDb
  <2>3. CASE id \notin ids
      BY <1>2, <2>3
  <2> QED BY <2>2, <2>3
<1>5. TypeOK'
    BY <1>1, <1>2 DEF TypeOK
<1>6. Ids' = Ids /\ Handles' = Handles \ ids
    BY <1>2, <1>4 DEF Ids, Handles
<1>7. \A id \in Ids : BlockOn(id)' = BlockOn(id)
    BY DEF BlockOn
<1>8. FlagsMatchBlocks'
    BY <1>1, <1>4, <1>6, <1>7 DEF FlagsMatchBlocks
<1>9. StatementsHaveTheirDb'
    BY <1>1, <1>2, <1>6 DEF StatementsHaveTheirDb
<1>10. OneHandlePerFile'
    BY <1>1, <1>4, <1>6 DEF OneHandlePerFile, Handles
<1>11. BlocksHaveTheirDb'
    BY <1>1, <1>4, <1>6 DEF BlocksHaveTheirDb
<1> QED BY <1>5, <1>8, <1>9, <1>10, <1>11 DEF IInv, Consistent

LEMMA ShutdownConsistent == ASSUME IInv, Shutdown PROVE IInv'
<1>1. /\ dbs' = <<>> /\ stmts' = <<>> /\ blocks' = <<>> /\ states < MaxStates /\ states' = states + 1
      /\ UNCHANGED <<disk, leaked, nextWrite, ended>>
    BY DEF Shutdown
<1>2. TypeOK /\ leaked = {}
    BY DEF IInv, Consistent, StatementsHaveTheirDb
<1>3. Len(dbs') = 0 /\ Len(stmts') = 0 /\ Len(blocks') = 0
    BY <1>1
<1>4. TypeOK'
  <2>1. dbs' \in Seq(OpenDb) /\ stmts' \in Seq(OpenStmt) /\ blocks' \in Seq(Block)
      BY <1>1
  <2>2. 0 <= MaxDbs /\ 0 <= MaxStmts /\ 0 <= MaxDepth
      BY DatabaseConstants
  <2>3. states' \in 1..MaxStates
      BY <1>1, <1>2, DatabaseConstants DEF TypeOK
  <2> QED BY <1>1, <1>2, <1>3, <2>1, <2>2, <2>3 DEF TypeOK
<1>5. FlagsMatchBlocks' /\ StatementsHaveTheirDb' /\ OneHandlePerFile' /\ BlocksHaveTheirDb'
    BY <1>1, <1>2, <1>3 DEF FlagsMatchBlocks, StatementsHaveTheirDb, OneHandlePerFile, BlocksHaveTheirDb,
                            Handles, Ids
<1> QED BY <1>4, <1>5 DEF IInv, Consistent

LEMMA WriteConsistent == ASSUME IInv, NEW id \in 1..MaxDbs, Write(id) PROVE IInv'
<1>1. TypeOK /\ StatementsHaveTheirDb
    BY DEF IInv, Consistent
<1>2. /\ id \in Ids /\ nextWrite \in Writes /\ nextWrite' = nextWrite + 1
      /\ dbs' \in Seq(OpenDb) /\ Len(dbs') = Len(dbs)
      /\ \A j \in Ids : j # id => dbs'[j] = dbs[j]
      /\ UNCHANGED <<stmts, leaked, states, ended>>
      /\ Note(id, nextWrite)
    BY <1>1, WriteFacts
<1>3. \/ dbs'[id] = [dbs[id] EXCEPT !.pending = @ \cup {nextWrite}] /\ disk' = disk
      \/ dbs' = dbs /\ disk' = [disk EXCEPT ![dbs[id].file] = @ \cup {nextWrite}]
    BY <1>1, WriteFacts
<1>4. dbs[id] \in OpenDb
    BY <1>1, <1>2, Types
<1>5. disk' \in [Files -> SUBSET Writes]
    BY <1>1, <1>2, <1>3, <1>4 DEF TypeOK, OpenDb
<1>6. /\ dbs'[id].open = dbs[id].open /\ dbs'[id].file = dbs[id].file
      /\ dbs'[id].in_transaction = dbs[id].in_transaction
    BY <1>3, <1>4 DEF OpenDb
<1>7. /\ blocks' \in Seq(Block) /\ Len(blocks') = Len(blocks)
      /\ \A k \in 1..Len(blocks) :
           /\ blocks[k].db = id => blocks'[k] = [blocks[k] EXCEPT !.wrote = @ \cup {nextWrite}]
           /\ blocks[k].db # id => blocks'[k] = blocks[k]
    BY <1>1, <1>2, NoteFacts
<1>8. \A k \in 1..Len(blocks) : blocks[k] \in Block
    BY <1>1, Types
<1>9. \A k \in 1..Len(blocks) : blocks'[k].db = blocks[k].db /\ blocks'[k].file = blocks[k].file
    BY <1>7, <1>8 DEF Block
<1>10. nextWrite' \in 1..MaxWrites + 1
    BY <1>2, DatabaseConstants DEF Writes
<1>11. TypeOK'
    BY <1>1, <1>2, <1>5, <1>7, <1>10 DEF TypeOK
<1>12. \A s \in 1..Len(stmts') : stmts'[s].live => stmts'[s].db \in Handles
    BY <1>1, <1>2 DEF StatementsHaveTheirDb
<1> QED BY <1>2, <1>6, <1>7, <1>9, <1>11, <1>12, KeptBooks

\* SQLite's transaction of one database ends or begins, and the blocks stay.
LEMMA TxnConsistent ==
    ASSUME IInv, NEW id \in Ids,
           dbs' \in Seq(OpenDb), Len(dbs') = Len(dbs), \A j \in Ids : j # id => dbs'[j] = dbs[j],
           dbs'[id].open = dbs[id].open, dbs'[id].file = dbs[id].file,
           dbs'[id].in_transaction = dbs[id].in_transaction,
           disk' \in [Files -> SUBSET Writes],
           blocks' \in Seq(Block), Len(blocks') = Len(blocks),
           \A k \in 1..Len(blocks) : blocks'[k].db = blocks[k].db /\ blocks'[k].file = blocks[k].file,
           UNCHANGED <<stmts, leaked, states, nextWrite, ended>>
    PROVE  IInv'
<1>1. TypeOK /\ StatementsHaveTheirDb
    BY DEF IInv, Consistent
<1>2. TypeOK'
    BY <1>1 DEF TypeOK
<1>3. \A s \in 1..Len(stmts') : stmts'[s].live => stmts'[s].db \in Handles
    BY <1>1 DEF StatementsHaveTheirDb
<1> QED BY <1>2, <1>3, KeptBooks

LEMMA CommittedType == ASSUME TypeOK, NEW id \in Ids PROVE Committed(id) \in [Files -> SUBSET Writes]
<1>1. dbs[id] \in OpenDb
    BY Types
<1> QED BY <1>1 DEF Committed, TypeOK, OpenDb

LEMMA InterruptConsistent == ASSUME IInv, NEW id \in 1..MaxDbs, Interrupt(id) PROVE IInv'
<1>1. TypeOK /\ id \in Ids /\ dbs' = Ended(id) /\ Upset(id)
    BY DEF IInv, Consistent, Interrupt, Handles
<1>2. dbs[id] \in OpenDb /\ \A k \in 1..Len(blocks) : blocks[k] \in Block
    BY <1>1, Types
<1>3. /\ dbs' \in Seq(OpenDb) /\ Len(dbs') = Len(dbs) /\ \A j \in Ids : j # id => dbs'[j] = dbs[j]
      /\ dbs'[id] = [dbs[id] EXCEPT !.txn = FALSE, !.pending = {}]
    BY <1>1, EndedFacts
<1>4. /\ blocks' \in Seq(Block) /\ Len(blocks') = Len(blocks)
      /\ \A k \in 1..Len(blocks) : blocks'[k].db = blocks[k].db /\ blocks'[k].file = blocks[k].file
    BY <1>1, <1>2, UpsetFacts DEF Block
<1>5. /\ dbs'[id].open = dbs[id].open /\ dbs'[id].file = dbs[id].file
      /\ dbs'[id].in_transaction = dbs[id].in_transaction
    BY <1>2, <1>3 DEF OpenDb
<1>6. disk' \in [Files -> SUBSET Writes] /\ UNCHANGED <<stmts, leaked, states, nextWrite, ended>>
    BY <1>1 DEF Interrupt, TypeOK
<1> QED BY <1>1, <1>3, <1>4, <1>5, <1>6, TxnConsistent

LEMMA BeginByHandConsistent == ASSUME IInv, NEW id \in 1..MaxDbs, BeginByHand(id) PROVE IInv'
<1>1. TypeOK
    BY DEF IInv, Consistent
<1>2. /\ id \in Ids /\ dbs' \in Seq(OpenDb) /\ Len(dbs') = Len(dbs)
      /\ dbs'[id] = [dbs[id] EXCEPT !.txn = TRUE]
      /\ \A j \in Ids : j # id => dbs'[j] = dbs[j]
      /\ UNCHANGED <<stmts, blocks, disk, leaked, states, nextWrite, ended>>
    BY <1>1, BeginByHandFacts
<1>3. dbs[id] \in OpenDb
    BY <1>1, <1>2, Types
<1>4. /\ dbs'[id].open = dbs[id].open /\ dbs'[id].file = dbs[id].file
      /\ dbs'[id].in_transaction = dbs[id].in_transaction
    BY <1>2, <1>3 DEF OpenDb
<1>5. disk' \in [Files -> SUBSET Writes] /\ blocks' \in Seq(Block)
    BY <1>1, <1>2 DEF TypeOK
<1> QED BY <1>2, <1>4, <1>5, TxnConsistent

LEMMA EndByHandConsistent ==
    ASSUME IInv, NEW id \in 1..MaxDbs, NEW commit \in BOOLEAN, EndByHand(id, commit)
    PROVE  IInv'
<1>1. TypeOK /\ id \in Ids /\ dbs' = Ended(id) /\ UNCHANGED <<stmts, blocks, leaked, states, nextWrite, ended>>
    BY DEF IInv, Consistent, EndByHand, Handles
<1>2. dbs[id] \in OpenDb
    BY <1>1, Types
<1>3. /\ dbs' \in Seq(OpenDb) /\ Len(dbs') = Len(dbs) /\ \A j \in Ids : j # id => dbs'[j] = dbs[j]
      /\ dbs'[id] = [dbs[id] EXCEPT !.txn = FALSE, !.pending = {}]
    BY <1>1, EndedFacts
<1>4. /\ dbs'[id].open = dbs[id].open /\ dbs'[id].file = dbs[id].file
      /\ dbs'[id].in_transaction = dbs[id].in_transaction
    BY <1>2, <1>3 DEF OpenDb
<1>5. disk' \in [Files -> SUBSET Writes] /\ blocks' \in Seq(Block)
    BY <1>1, CommittedType DEF EndByHand, TypeOK
<1> QED BY <1>1, <1>3, <1>4, <1>5, TxnConsistent

LEMMA BeginConsistent == ASSUME IInv, NEW id \in 1..MaxDbs, Begin(id) PROVE IInv'
<1> PICK n : n = Len(blocks) + 1
    OBVIOUS
<1>1. TypeOK /\ FlagsMatchBlocks /\ StatementsHaveTheirDb /\ OneHandlePerFile /\ BlocksHaveTheirDb
    BY DEF IInv, Consistent
<1>2. /\ id \in Ids /\ dbs[id].open /\ ~dbs[id].in_transaction
      /\ dbs' \in Seq(OpenDb) /\ Len(dbs') = Len(dbs)
      /\ dbs'[id] = [dbs[id] EXCEPT !.txn = TRUE, !.in_transaction = TRUE]
      /\ \A j \in Ids : j # id => dbs'[j] = dbs[j]
      /\ UNCHANGED <<stmts, disk, leaked, states, nextWrite, ended>>
    BY <1>1, BeginFacts
<1>3. /\ blocks' \in Seq(Block) /\ Len(blocks') = n /\ Len(blocks') <= MaxDepth
      /\ blocks'[n].db = id /\ blocks'[n].file = dbs[id].file
      /\ \A k \in 1..Len(blocks) : blocks'[k] = blocks[k]
  <2>1. /\ blocks' \in Seq(Block) /\ Len(blocks') = Len(blocks) + 1 /\ Len(blocks') <= MaxDepth
        /\ blocks'[Len(blocks) + 1] = [db |-> id, file |-> dbs[id].file, wrote |-> {}, upset |-> FALSE]
        /\ \A k \in 1..Len(blocks) : blocks'[k] = blocks[k]
      BY <1>1, BeginFacts
  <2> QED BY <2>1
<1>4. TypeOK'
    BY <1>1, <1>2, <1>3 DEF TypeOK
<1>5. dbs[id] \in OpenDb /\ Len(blocks) \in Nat
    BY <1>1, <1>2, Types
<1>6. dbs'[id].open /\ dbs'[id].in_transaction /\ dbs'[id].file = dbs[id].file
    BY <1>2, <1>5 DEF OpenDb
<1>7. /\ \A k \in 1..Len(blocks') : k \in 1..Len(blocks) \/ k = n
      /\ \A k \in 1..Len(blocks) : k \in 1..Len(blocks')
      /\ n \in 1..Len(blocks')
    BY <1>3, <1>5
<1>8. Ids' = Ids /\ Handles' = Handles
    BY <1>2, <1>6 DEF Ids, Handles
<1>9. BlockOn(id) = {} /\ n \in BlockOn(id)'
  <2>1. BlockOn(id) = {}
      BY <1>1, <1>2 DEF FlagsMatchBlocks
  <2>2. n \in BlockOn(id)'
      BY <1>3, <1>7 DEF BlockOn
  <2> QED BY <2>1, <2>2
<1>10. \A j \in Ids : j # id => BlockOn(j)' = BlockOn(j)
    BY <1>3, <1>7 DEF BlockOn
<1>11. \A k \in 1..Len(blocks) : blocks[k].db # id
    BY <1>9 DEF BlockOn
<1>12. FlagsMatchBlocks'
  <2>1. \A j \in Ids : dbs'[j].in_transaction <=> dbs'[j].open /\ BlockOn(j)' # {}
      BY <1>1, <1>2, <1>6, <1>9, <1>10 DEF FlagsMatchBlocks
  <2>2. ASSUME NEW i \in 1..Len(blocks'), NEW j \in 1..Len(blocks'), blocks'[i].db = blocks'[j].db
        PROVE  i = j
    <3>1. CASE i \in 1..Len(blocks) /\ j \in 1..Len(blocks)
        BY <1>1, <1>3, <2>2, <3>1 DEF FlagsMatchBlocks
    <3>2. CASE i = n /\ j \in 1..Len(blocks)
        BY <1>3, <1>11, <2>2, <3>2
    <3>3. CASE i \in 1..Len(blocks) /\ j = n
        BY <1>3, <1>11, <2>2, <3>3
    <3> QED BY <1>7, <3>1, <3>2, <3>3
  <2> QED BY <1>8, <2>1, <2>2 DEF FlagsMatchBlocks
<1>13. StatementsHaveTheirDb'
    BY <1>1, <1>2, <1>8 DEF StatementsHaveTheirDb
<1>14. OneHandlePerFile'
  <2>1. \A j \in Ids : dbs'[j].file = dbs[j].file
      BY <1>2, <1>6
  <2> QED BY <1>1, <1>8, <2>1 DEF OneHandlePerFile, Handles
<1>15. BlocksHaveTheirDb'
  <2>1. \A j \in Ids : dbs'[j].file = dbs[j].file
      BY <1>2, <1>6
  <2>2. ASSUME NEW k \in 1..Len(blocks')
        PROVE  blocks'[k].db \in Ids /\ blocks'[k].file = dbs'[blocks'[k].db].file
      BY <1>1, <1>2, <1>3, <1>6, <1>7, <2>1 DEF BlocksHaveTheirDb
  <2> QED BY <1>8, <2>2 DEF BlocksHaveTheirDb
<1> QED BY <1>4, <1>12, <1>13, <1>14, <1>15 DEF IInv, Consistent

\* A block goes, with or without SQLite's transaction.
LEMMA LeaveConsistent ==
    ASSUME IInv, blocks # <<>>, NEW base \in {Ended(Top.db), dbs}, dbs' = Unflagged(base),
           disk' \in [Files -> SUBSET Writes],
           NEW result \in {"ok", "error", "closed"}, Leave(result)
    PROVE  IInv'
<1> DEFINE n == Len(blocks)
<1>1. TypeOK /\ FlagsMatchBlocks /\ StatementsHaveTheirDb /\ OneHandlePerFile /\ BlocksHaveTheirDb
    BY DEF IInv, Consistent
<1>2. Top.db \in Ids /\ n \in 1..n /\ Top = blocks[n] /\ dbs[Top.db] \in OpenDb
    BY <1>1, Innermost, Types DEF Top
<1>3. /\ dbs' \in Seq(OpenDb) /\ Len(dbs') = Len(dbs)
      /\ \A j \in Ids : j # Top.db => dbs'[j] = dbs[j]
      /\ \/ dbs'[Top.db] = [dbs[Top.db] EXCEPT !.in_transaction = FALSE]
         \/ dbs'[Top.db] = [dbs[Top.db] EXCEPT !.in_transaction = FALSE, !.txn = FALSE, !.pending = {}]
    BY BlockEndsFacts
<1>4. dbs'[Top.db].open = dbs[Top.db].open /\ dbs'[Top.db].file = dbs[Top.db].file
      /\ dbs'[Top.db].in_transaction = FALSE
    BY <1>2, <1>3 DEF OpenDb
<1>5. /\ blocks' \in Seq(Block) /\ Len(blocks') = n - 1
      /\ \A j \in 1..Len(blocks') : j \in 1..n /\ j # n /\ blocks'[j] = blocks[j]
      /\ \A j \in 1..n : j # n => j \in 1..Len(blocks')
      /\ ended' \subseteq [file : Files, wrote : SUBSET Writes, result : {"ok", "error", "closed"}]
      /\ UNCHANGED <<stmts, leaked, states, nextWrite>>
    BY LeaveFacts
<1>6. n \in Nat /\ n <= MaxDepth
    BY <1>1, Types
<1>7. Len(blocks') <= MaxDepth
    BY <1>5, <1>6, DatabaseConstants
<1>8. TypeOK'
    BY <1>1, <1>3, <1>5, <1>7 DEF TypeOK
<1> HIDE DEF n
<1>9. Ids' = Ids /\ Handles' = Handles
    BY <1>3, <1>4 DEF Ids, Handles
<1>10. \A j, k \in 1..n : blocks[j].db = blocks[k].db => j = k
    BY <1>1 DEF FlagsMatchBlocks, n
<1>11. \A id \in Ids : id = Top.db => BlockOn(id)' = {}
    BY <1>2, <1>5, <1>10 DEF BlockOn
<1>12. \A id \in Ids : id # Top.db => BlockOn(id)' = BlockOn(id)
    BY <1>2, <1>5 DEF BlockOn, n
<1>13. FlagsMatchBlocks'
  <2>1. \A id \in Ids : dbs'[id].in_transaction <=> dbs'[id].open /\ BlockOn(id)' # {}
    <3> SUFFICES ASSUME NEW id \in Ids
                 PROVE  dbs'[id].in_transaction <=> dbs'[id].open /\ BlockOn(id)' # {}
        OBVIOUS
    <3>1. CASE id = Top.db
        BY <1>4, <1>11, <3>1
    <3>2. CASE id # Top.db
        BY <1>1, <1>3, <1>12, <3>2 DEF FlagsMatchBlocks
    <3> QED BY <3>1, <3>2
  <2>2. \A i, j \in 1..Len(blocks') : blocks'[i].db = blocks'[j].db => i = j
      BY <1>5, <1>10
  <2> QED BY <1>9, <2>1, <2>2 DEF FlagsMatchBlocks
<1>14. StatementsHaveTheirDb'
    BY <1>1, <1>5, <1>9 DEF StatementsHaveTheirDb
<1>15. OneHandlePerFile'
    BY <1>1, <1>3, <1>4, <1>9 DEF OneHandlePerFile, Handles
<1>16. BlocksHaveTheirDb'
  <2>1. dbs'[Top.db].file = dbs[Top.db].file /\ \A j \in Ids : j # Top.db => dbs'[j] = dbs[j]
      BY <1>3, <1>4
  <2>2. \A j \in Ids : dbs'[j].file = dbs[j].file
      BY <2>1
  <2>3. ASSUME NEW k \in 1..Len(blocks')
        PROVE  blocks'[k].db \in Ids /\ blocks'[k].file = dbs'[blocks'[k].db].file
    <3>1. k \in 1..Len(blocks) /\ blocks'[k] = blocks[k]
        BY <1>5 DEF n
    <3>2. blocks[k].db \in Ids /\ blocks[k].file = dbs[blocks[k].db].file
        BY <1>1, <3>1 DEF BlocksHaveTheirDb
    <3> QED BY <2>2, <3>1, <3>2
  <2> QED BY <1>9, <2>3 DEF BlocksHaveTheirDb
<1> QED BY <1>8, <1>13, <1>14, <1>15, <1>16 DEF IInv, Consistent

\* The three ways for a block to end, in one.
LEMMA BlockEnds ==
    ASSUME IInv, Raises \/ Returns
    PROVE  /\ blocks # <<>>
           /\ \/ Leave("error") /\ dbs' = Unflagged(Ended(Top.db)) /\ disk' = disk
              \/ Leave("closed") /\ dbs' = Unflagged(dbs) /\ disk' = disk /\ ~dbs[Top.db].open
              \/ /\ Leave("ok") /\ dbs' = Unflagged(Ended(Top.db)) /\ disk' = Committed(Top.db)
                 /\ dbs[Top.db].txn /\ Respects
BY DEF Raises, Returns

LEMMA BlockEndsConsistent == ASSUME IInv, Raises \/ Returns PROVE IInv'
<1>1. blocks # <<>> /\ Top.db \in Ids
    BY BlockEnds, Innermost
<1>2. TypeOK
    BY DEF IInv, Consistent
<1>3. disk' \in [Files -> SUBSET Writes]
    BY <1>1, <1>2, BlockEnds, CommittedType DEF TypeOK
<1>4. CASE Leave("error") /\ dbs' = Unflagged(Ended(Top.db))
    BY <1>1, <1>3, <1>4, LeaveConsistent
<1>5. CASE Leave("closed") /\ dbs' = Unflagged(dbs)
    BY <1>1, <1>3, <1>5, LeaveConsistent
<1>6. CASE Leave("ok") /\ dbs' = Unflagged(Ended(Top.db))
    BY <1>1, <1>3, <1>6, LeaveConsistent
<1> QED BY <1>4, <1>5, <1>6, BlockEnds

LEMMA RunWrites ==
    ASSUME IInv, NEW s \in 1..MaxStmts, Run(s)
    PROVE  stmts[s].db \in 1..MaxDbs /\ Write(stmts[s].db)
<1>1. TypeOK /\ s \in 1..Len(stmts) /\ Write(stmts[s].db)
    BY DEF Run, IInv, Consistent
<1> QED BY <1>1, Types DEF OpenStmt

LEMMA StepConsistent == IInv /\ [Next]_vars => IInv'
<1> SUFFICES ASSUME IInv, [Next]_vars PROVE IInv'
    OBVIOUS
<1>1. ASSUME NEW p \in Plugins, NEW name \in Names, Open(p, name) PROVE IInv'
    BY <1>1, OpenConsistent
<1>2. ASSUME NEW id \in 1..MaxDbs, Prepare(id) PROVE IInv'
    BY <1>2, PrepareConsistent
<1>3. ASSUME NEW id \in 1..MaxDbs, Close(id) PROVE IInv'
    BY <1>3, CloseAllConsistent DEF Close
<1>4. ASSUME NEW id \in 1..MaxDbs, Write(id) PROVE IInv'
    BY <1>4, WriteConsistent
<1>5. ASSUME NEW id \in 1..MaxDbs, Interrupt(id) PROVE IInv'
    BY <1>5, InterruptConsistent
<1>6. ASSUME NEW id \in 1..MaxDbs, BeginByHand(id) PROVE IInv'
    BY <1>6, BeginByHandConsistent
<1>7. ASSUME NEW id \in 1..MaxDbs, Begin(id) PROVE IInv'
    BY <1>7, BeginConsistent
<1>8. ASSUME NEW id \in 1..MaxDbs, NEW commit \in BOOLEAN, EndByHand(id, commit) PROVE IInv'
    BY <1>8, EndByHandConsistent
<1>9. ASSUME NEW s \in 1..MaxStmts, CloseStmt(s) PROVE IInv'
    BY <1>9, CloseStmtConsistent
<1>10. ASSUME NEW s \in 1..MaxStmts, Run(s) PROVE IInv'
    BY <1>10, RunWrites, WriteConsistent
<1>11. ASSUME NEW p \in Plugins, RemovePlugin(p) PROVE IInv'
    BY <1>11, CloseAllConsistent DEF RemovePlugin
<1>12. CASE Shutdown
    BY <1>12, ShutdownConsistent
<1>13. CASE Raises \/ Returns
    BY <1>13, BlockEndsConsistent
<1>14. CASE UNCHANGED vars
  <2>1. UNCHANGED <<dbs, stmts, blocks, disk, leaked, states, nextWrite, ended>>
      BY <1>14 DEF vars
  <2>2. TypeOK /\ StatementsHaveTheirDb
      BY DEF IInv, Consistent
  <2>3. TypeOK'
      BY <2>1, <2>2 DEF TypeOK
  <2>4. \A s \in 1..Len(stmts') : stmts'[s].live => stmts'[s].db \in Handles
      BY <2>1, <2>2 DEF StatementsHaveTheirDb
  <2> QED BY <2>1, <2>3, <2>4, KeptBooks
<1> QED BY <1>1, <1>2, <1>3, <1>4, <1>5, <1>6, <1>7, <1>8, <1>9, <1>10, <1>11, <1>12, <1>13, <1>14 DEF Next

\* Between any two steps the variables have their types, the flags are those of the
\* blocks on the stack, a live statement has its database, and no file is open twice.
THEOREM ConsistentAlways == Spec => []Consistent
<1>1. IInv => Consistent
    BY DEF IInv
<1> QED BY <1>1, InitHolds, StepConsistent, PTL DEF Spec

-----------------------------------------------------------------------------
(* BlockIsAtomic: where the writes of a block are                          *)

\* No write comes into a transaction: databases are closed, blocks end.
Shrinks ==
    /\ \A id \in Ids' :
          \/ dbs'[id].pending = {}
          \/ (id \in Ids /\ dbs'[id].pending \subseteq dbs[id].pending)
    /\ \A id \in Ids' : TxnInOrder(id)'

\* A database puts what is in its transaction into its file.
Commits(id) ==
    /\ id \in Ids
    /\ Ids' = Ids
    /\ disk' = Committed(id)
    /\ dbs'[id].pending = {}
    /\ \A j \in Ids : j # id => dbs'[j].pending = dbs[j].pending
    /\ \A j \in Ids : TxnInOrder(j)'

LEMMA WritesShrink ==
    ASSUME WritesInOrder, Shrinks, UNCHANGED <<disk, nextWrite>>
    PROVE  WritesInOrder'
<1>1. Past' = Past
    BY DEF Past
<1>2. \A f \in Files : disk'[f] \subseteq Past'
    BY <1>1 DEF WritesInOrder
<1>3. ASSUME NEW id \in Ids'
      PROVE  /\ dbs'[id].pending \subseteq Past'
             /\ \A f \in Files : dbs'[id].pending \cap disk'[f] = {}
    BY <1>1 DEF WritesInOrder, Shrinks
<1>4. ASSUME NEW i \in Ids', NEW j \in Ids', i # j
      PROVE  dbs'[i].pending \cap dbs'[j].pending = {}
  <2>1. CASE dbs'[i].pending = {} \/ dbs'[j].pending = {}
      BY <2>1
  <2>2. CASE i \in Ids /\ j \in Ids /\ dbs'[i].pending \subseteq dbs[i].pending
                                    /\ dbs'[j].pending \subseteq dbs[j].pending
      BY <1>4, <2>2 DEF WritesInOrder
  <2> QED BY <2>1, <2>2 DEF Shrinks
<1> QED BY <1>2, <1>3, <1>4 DEF WritesInOrder, Shrinks

LEMMA SettledShrink ==
    ASSUME Shrinks, UNCHANGED <<disk, nextWrite>>, NEW b, Settled(b)
    PROVE  Settled(b)'
<1>1. Past' = Past
    BY DEF Past
<1>2. (\A id \in Ids : b.wrote \cap dbs[id].pending = {}) =>
          \A id \in Ids' : b.wrote \cap dbs'[id].pending = {}
    BY DEF Shrinks
<1> QED BY <1>1, <1>2 DEF Settled

LEMMA HeldShrink ==
    ASSUME WritesInOrder, Shrinks, UNCHANGED <<disk, nextWrite>>,
           NEW k \in 1..Len(blocks), Held(k), blocks[k].db \in Ids,
           blocks'[k].db = blocks[k].db, blocks'[k].file = blocks[k].file, blocks'[k].wrote = blocks[k].wrote,
           \/ /\ Intact(k)' /\ Intact(k) /\ dbs'[blocks[k].db].txn
              /\ dbs'[blocks[k].db].pending = dbs[blocks[k].db].pending
           \/ ~Intact(k)' /\ ~Intact(k)
           \/ ~Intact(k)' /\ (blocks[k].db \in Ids' => dbs'[blocks[k].db].pending = {})
    PROVE  Held(k)'
<1>1. blocks'[k].wrote \subseteq Past' /\ blocks'[k].wrote \cap disk'[blocks'[k].file] = {}
    BY DEF Held, Past
<1>2. CASE /\ Intact(k)' /\ Intact(k) /\ dbs'[blocks[k].db].txn
           /\ dbs'[blocks[k].db].pending = dbs[blocks[k].db].pending
    BY <1>1, <1>2 DEF Held
<1>3. CASE ~Intact(k)' /\ ~Intact(k)
  <2>1. \A id \in Ids' : blocks[k].wrote \cap dbs'[id].pending = {}
      BY <1>3 DEF Held, Shrinks
  <2> QED BY <1>1, <1>3, <2>1 DEF Held
<1>4. CASE ~Intact(k)' /\ Intact(k) /\ (blocks[k].db \in Ids' => dbs'[blocks[k].db].pending = {})
  <2>1. blocks[k].wrote \subseteq dbs[blocks[k].db].pending
      BY <1>4 DEF Held
  <2>2. \A id \in Ids : id # blocks[k].db => dbs[blocks[k].db].pending \cap dbs[id].pending = {}
      BY DEF WritesInOrder
  <2>3. ASSUME NEW id \in Ids' PROVE blocks[k].wrote \cap dbs'[id].pending = {}
    <3>1. CASE dbs'[id].pending = {}
        BY <3>1
    <3>2. CASE id \in Ids /\ id # blocks[k].db /\ dbs'[id].pending \subseteq dbs[id].pending
        BY <2>1, <2>2, <3>2
    <3> QED BY <1>4, <3>1, <3>2 DEF Shrinks
  <2> QED BY <1>1, <1>4, <2>3 DEF Held
<1> QED BY <1>2, <1>3, <1>4

\* What a block that is not of this database wrote is not in its transaction.
LEMMA HeldElsewhere ==
    ASSUME WritesInOrder, NEW k \in 1..Len(blocks), Held(k), blocks[k].db \in Ids,
           NEW id \in Ids, blocks[k].db # id \/ ~Intact(k)
    PROVE  blocks[k].wrote \cap dbs[id].pending = {}
<1>1. CASE ~Intact(k)
    BY <1>1 DEF Held
<1>2. CASE Intact(k)
  <2>1. blocks[k].wrote \subseteq dbs[blocks[k].db].pending
      BY <1>2 DEF Held
  <2>2. dbs[blocks[k].db].pending \cap dbs[id].pending = {}
      BY <1>2 DEF WritesInOrder
  <2> QED BY <2>1, <2>2
<1> QED BY <1>1, <1>2

LEMMA CommittedFacts ==
    ASSUME TypeOK, NEW id \in Ids
    PROVE  /\ dbs[id].file \in Files
           /\ Committed(id)[dbs[id].file] = disk[dbs[id].file] \cup dbs[id].pending
           /\ \A f \in Files : f # dbs[id].file => Committed(id)[f] = disk[f]
<1>1. dbs[id].file \in Files
    BY Types DEF OpenDb
<1>2. disk = [f \in Files |-> disk[f]]
    BY DEF TypeOK
<1> QED BY <1>1, <1>2 DEF Committed

LEMMA WritesCommit ==
    ASSUME TypeOK, WritesInOrder, NEW id \in Ids, Commits(id), UNCHANGED nextWrite
    PROVE  WritesInOrder'
<1>1. Past' = Past /\ Ids' = Ids
    BY DEF Past, Commits
<1>2. \A f \in Files : /\ disk[f] \subseteq disk'[f]
                       /\ disk'[f] \subseteq disk[f] \cup dbs[id].pending
    BY CommittedFacts DEF Commits
<1>3. \A f \in Files : disk'[f] \subseteq Past'
    BY <1>1, <1>2 DEF WritesInOrder
<1>4. ASSUME NEW j \in Ids
      PROVE  /\ dbs'[j].pending \subseteq Past'
             /\ \A f \in Files : dbs'[j].pending \cap disk'[f] = {}
  <2>1. CASE j = id
      BY <2>1 DEF Commits
  <2>2. CASE j # id
    <3>1. dbs'[j].pending = dbs[j].pending /\ dbs[j].pending \cap dbs[id].pending = {}
        BY <2>2 DEF Commits, WritesInOrder
    <3>2. dbs[j].pending \subseteq Past /\ \A f \in Files : dbs[j].pending \cap disk[f] = {}
        BY DEF WritesInOrder
    <3> QED BY <1>1, <1>2, <3>1, <3>2
  <2> QED BY <2>1, <2>2
<1>5. \A i, j \in Ids : i # j => dbs'[i].pending \cap dbs'[j].pending = {}
    BY DEF Commits, WritesInOrder
<1> QED BY <1>1, <1>3, <1>4, <1>5 DEF WritesInOrder, Commits

LEMMA SettledCommit ==
    ASSUME TypeOK, NEW id \in Ids, Commits(id), UNCHANGED nextWrite, NEW b, b.file \in Files, Settled(b)
    PROVE  Settled(b)'
<1>1. Past' = Past /\ Ids' = Ids
    BY DEF Past, Commits
<1>2. /\ disk[b.file] \subseteq disk'[b.file]
      /\ disk'[b.file] \subseteq disk[b.file] \cup dbs[id].pending
    BY CommittedFacts DEF Commits
<1>3. (\A j \in Ids : b.wrote \cap dbs[j].pending = {}) =>
          /\ \A j \in Ids : b.wrote \cap dbs'[j].pending = {}
          /\ b.wrote \cap dbs[id].pending = {}
    BY DEF Commits
<1> QED BY <1>1, <1>2, <1>3 DEF Settled

\* A block of another database.
LEMMA HeldCommit ==
    ASSUME TypeOK, WritesInOrder, NEW id \in Ids, Commits(id), UNCHANGED nextWrite,
           NEW k \in 1..Len(blocks), Held(k), blocks[k].db \in Ids, blocks[k].db # id,
           blocks'[k] = blocks[k], blocks[k].file \in Files, dbs'[blocks[k].db] = dbs[blocks[k].db]
    PROVE  Held(k)'
<1>1. Past' = Past /\ Ids' = Ids
    BY DEF Past, Commits
<1>2. disk'[blocks[k].file] \subseteq disk[blocks[k].file] \cup dbs[id].pending
    BY CommittedFacts DEF Commits
<1>3. blocks[k].wrote \cap dbs[id].pending = {}
    BY HeldElsewhere
<1>4. blocks'[k].wrote \cap disk'[blocks'[k].file] = {}
    BY <1>2, <1>3 DEF Held
<1>5. Intact(k)' <=> Intact(k)
    BY DEF Intact
<1>6. (\A j \in Ids : blocks[k].wrote \cap dbs[j].pending = {}) =>
          \A j \in Ids : blocks[k].wrote \cap dbs'[j].pending = {}
    BY DEF Commits
<1> QED BY <1>1, <1>4, <1>5, <1>6 DEF Held

-----------------------------------------------------------------------------
(* BlockIsAtomic, one action at a time                                     *)

LEMMA Facts ==
    ASSUME AInv
    PROVE  /\ StopsAtAbort /\ TypeOK /\ WritesInOrder /\ FlagsMatchBlocks
           /\ \A k \in 1..Len(blocks) : /\ Held(k) /\ blocks[k] \in Block
                                        /\ blocks[k].db \in Ids /\ blocks[k].file = dbs[blocks[k].db].file
                                        /\ blocks[k].file \in Files
           /\ \A b \in ended : Settled(b) /\ b.file \in Files
           /\ \A id \in Ids : TxnInOrder(id) /\ dbs[id] \in OpenDb
<1>1. TypeOK /\ FlagsMatchBlocks /\ BlocksHaveTheirDb /\ WritesInOrder /\ StopsAtAbort
    BY DEF AInv, IInv, Consistent
<1>2. \A k \in 1..Len(blocks) : blocks[k] \in Block /\ blocks[k].file \in Files
    BY <1>1, Types DEF Block
<1>3. \A b \in ended : b.file \in Files
    BY <1>1 DEF TypeOK
<1> QED BY <1>1, <1>2, <1>3, Types DEF AInv, BlocksInOrder, EndedInOrder, BlocksHaveTheirDb, WritesInOrder

LEMMA InitInOrder == StopsAtAbort /\ Init => AInv
<1> SUFFICES ASSUME StopsAtAbort, Init PROVE AInv
    OBVIOUS
<1>1. /\ Len(dbs) = 0 /\ Len(blocks) = 0 /\ ended = {}
      /\ \A f \in Files : disk[f] = {}
    BY DEF Init
<1>2. WritesInOrder
    BY <1>1 DEF WritesInOrder, Ids
<1> QED BY <1>1, <1>2, InitHolds DEF AInv, BlocksInOrder, EndedInOrder

\* A step that leaves the blocks on the stack where they are, and brings no write
\* into a transaction.
LEMMA QuietStep ==
    ASSUME AInv, IInv', Shrinks, UNCHANGED <<blocks, disk, nextWrite, ended>>, Ids \subseteq Ids',
           \A k \in 1..Len(blocks) :
               \/ dbs'[blocks[k].db] = dbs[blocks[k].db]
               \/ ~dbs'[blocks[k].db].open /\ dbs'[blocks[k].db].pending = {}
    PROVE  AInv'
<1>1. WritesInOrder'
    BY Facts, WritesShrink
<1>2. \A b \in ended : Settled(b)'
    BY Facts, SettledShrink
<1>3. ASSUME NEW k \in 1..Len(blocks) PROVE Held(k)'
  <2>1. Held(k) /\ blocks[k].db \in Ids /\ WritesInOrder
      BY Facts
  <2>2. CASE dbs'[blocks[k].db] = dbs[blocks[k].db]
    <3>1. Intact(k)' <=> Intact(k)
        BY <2>2 DEF Intact
    <3>2. Intact(k) => dbs'[blocks[k].db].txn
        BY <2>1, <2>2 DEF Held
    <3> QED BY <2>1, <2>2, <3>1, <3>2, HeldShrink
  <2>3. CASE ~dbs'[blocks[k].db].open /\ dbs'[blocks[k].db].pending = {}
    <3>1. ~Intact(k)'
        BY <2>3 DEF Intact
    <3> QED BY <2>1, <2>3, <3>1, HeldShrink
  <2> QED BY <2>2, <2>3
<1>4. BlocksInOrder' /\ EndedInOrder'
    BY <1>2, <1>3 DEF BlocksInOrder, EndedInOrder
<1> QED BY <1>1, <1>4 DEF AInv

LEMMA OpenInOrder ==
    ASSUME AInv, NEW p \in Plugins, NEW name \in Names, Open(p, name)
    PROVE  AInv'
<1> PICK n : n = Len(dbs) + 1
    OBVIOUS
<1>1. /\ dbs'[n].open /\ ~dbs'[n].txn /\ dbs'[n].pending = {}
      /\ \A j \in Ids : dbs'[j] = dbs[j]
      /\ Ids' = Ids \cup {n}
      /\ UNCHANGED <<blocks, disk, nextWrite, ended>>
  <2>1. /\ dbs'[Len(dbs) + 1] = [file |-> <<p, name>>, open |-> TRUE, in_transaction |-> FALSE,
                                 txn |-> FALSE, pending |-> {}]
        /\ \A j \in Ids : dbs'[j] = dbs[j]
        /\ Ids' = Ids \cup {Len(dbs) + 1}
        /\ UNCHANGED <<blocks, disk, nextWrite, ended>>
      BY Facts, OpenFacts
  <2> QED BY <2>1
<1>2. Shrinks
    BY <1>1, Facts DEF Shrinks, TxnInOrder
<1>3. \A k \in 1..Len(blocks) : dbs'[blocks[k].db] = dbs[blocks[k].db]
    BY <1>1, Facts
<1>4. IInv'
    BY OpenConsistent DEF AInv
<1> QED BY <1>1, <1>2, <1>3, <1>4, QuietStep

LEMMA StmtsInOrder ==
    ASSUME AInv, IInv', UNCHANGED <<dbs, blocks, disk, nextWrite, ended>>
    PROVE  AInv'
<1>1. Ids' = Ids
    BY DEF Ids
<1>2. Shrinks
    BY <1>1, Facts DEF Shrinks, TxnInOrder
<1> QED BY <1>1, <1>2, QuietStep

LEMMA CloseAllInOrder ==
    ASSUME AInv, NEW ids \in SUBSET Handles, CloseAll(ids),
           UNCHANGED <<blocks, disk, states, nextWrite, ended>>
    PROVE  AInv'
<1>1. /\ Len(dbs') = Len(dbs)
      /\ \A id \in Ids : id \notin ids => dbs'[id] = dbs[id]
    BY Facts, CloseAllFacts
<1>2. ASSUME NEW id \in ids
      PROVE  ~dbs'[id].open /\ ~dbs'[id].txn /\ dbs'[id].pending = {}
  <2>1. id \in Ids /\ dbs[id] \in OpenDb
      BY Facts DEF Handles
  <2>2. dbs'[id] = [dbs[id] EXCEPT !.open = FALSE, !.in_transaction = FALSE, !.txn = FALSE, !.pending = {}]
      BY <2>1, Facts, CloseAllFacts
  <2> QED BY <2>1, <2>2 DEF OpenDb
<1>3. Ids' = Ids
    BY <1>1 DEF Ids
<1>4. Shrinks
  <2> SUFFICES ASSUME NEW id \in Ids
               PROVE  /\ dbs'[id].pending = {} \/ dbs'[id].pending \subseteq dbs[id].pending
                      /\ TxnInOrder(id)'
      BY <1>3 DEF Shrinks
  <2>1. CASE id \in ids
      BY <1>2, <2>1 DEF TxnInOrder
  <2>2. CASE id \notin ids
      BY <1>1, <2>2, Facts DEF TxnInOrder
  <2> QED BY <2>1, <2>2
<1>5. \A k \in 1..Len(blocks) : \/ dbs'[blocks[k].db] = dbs[blocks[k].db]
                                \/ ~dbs'[blocks[k].db].open /\ dbs'[blocks[k].db].pending = {}
    BY <1>1, <1>2, Facts
<1>6. IInv'
    BY CloseAllConsistent DEF AInv
<1> QED BY <1>3, <1>4, <1>5, <1>6, QuietStep

LEMMA ShutdownInOrder == ASSUME AInv, Shutdown PROVE AInv'
<1>1. Len(dbs') = 0 /\ Len(blocks') = 0 /\ UNCHANGED <<disk, nextWrite, ended>>
    BY DEF Shutdown
<1>2. Ids' = {}
    BY <1>1 DEF Ids
<1>3. Shrinks
    BY <1>2 DEF Shrinks
<1>4. WritesInOrder' /\ \A b \in ended : Settled(b)'
    BY <1>1, <1>3, Facts, WritesShrink, SettledShrink
<1>5. BlocksInOrder' /\ EndedInOrder'
    BY <1>1, <1>4 DEF BlocksInOrder, EndedInOrder
<1>6. IInv'
    BY ShutdownConsistent DEF AInv
<1> QED BY <1>4, <1>5, <1>6 DEF AInv

LEMMA BeginByHandInOrder == ASSUME AInv, NEW id \in 1..MaxDbs, BeginByHand(id) PROVE AInv'
<1>1. /\ id \in Ids /\ dbs[id].open /\ ~dbs[id].txn /\ BlockOn(id) = {} /\ Len(dbs') = Len(dbs)
      /\ dbs'[id] = [dbs[id] EXCEPT !.txn = TRUE]
      /\ \A j \in Ids : j # id => dbs'[j] = dbs[j]
      /\ UNCHANGED <<stmts, blocks, disk, leaked, states, nextWrite, ended>>
    BY Facts, BeginByHandFacts
<1>2. Ids' = Ids /\ dbs'[id].open /\ dbs'[id].txn /\ dbs'[id].pending = dbs[id].pending
    BY <1>1, Facts DEF Ids, OpenDb
<1>3. Shrinks
    BY <1>1, <1>2, Facts DEF Shrinks, TxnInOrder
<1>4. \A k \in 1..Len(blocks) : dbs'[blocks[k].db] = dbs[blocks[k].db]
    BY <1>1, Facts DEF BlockOn
<1>5. IInv'
    BY BeginByHandConsistent DEF AInv
<1> QED BY <1>1, <1>2, <1>3, <1>4, <1>5, QuietStep

LEMMA InterruptInOrder == ASSUME AInv, NEW id \in 1..MaxDbs, Interrupt(id) PROVE AInv'
<1>1. /\ id \in Ids /\ dbs' = Ended(id) /\ Upset(id) /\ Len(dbs') = Len(dbs)
      /\ \A j \in Ids : j # id => dbs'[j] = dbs[j]
      /\ UNCHANGED <<disk, nextWrite, ended>>
    BY Facts, EndedFacts DEF Interrupt, Handles
<1>2. ~dbs'[id].txn /\ dbs'[id].pending = {}
  <2>1. dbs'[id] = [dbs[id] EXCEPT !.txn = FALSE, !.pending = {}] /\ dbs[id] \in OpenDb
      BY <1>1, Facts, EndedFacts
  <2> QED BY <2>1 DEF OpenDb
<1>3. Ids' = Ids
    BY <1>1 DEF Ids
<1>4. Shrinks
    BY <1>1, <1>2, <1>3, Facts DEF Shrinks, TxnInOrder
<1>5. /\ Len(blocks') = Len(blocks)
      /\ \A k \in 1..Len(blocks) :
           /\ blocks[k].db = id => blocks'[k] = [blocks[k] EXCEPT !.upset = TRUE]
           /\ blocks[k].db # id => blocks'[k] = blocks[k]
    BY <1>1, Facts, UpsetFacts
<1>6. WritesInOrder' /\ \A b \in ended : Settled(b)'
    BY <1>1, <1>4, Facts, WritesShrink, SettledShrink
<1>7. ASSUME NEW k \in 1..Len(blocks) PROVE Held(k)'
  <2>1. Held(k) /\ blocks[k].db \in Ids /\ WritesInOrder /\ blocks[k] \in Block
      BY Facts
  <2>2. CASE blocks[k].db = id
    <3>1. /\ blocks'[k].db = blocks[k].db /\ blocks'[k].file = blocks[k].file
          /\ blocks'[k].wrote = blocks[k].wrote /\ blocks'[k].upset
        BY <1>5, <2>1, <2>2 DEF Block
    <3>2. ~Intact(k)'
        BY <3>1 DEF Intact
    <3> QED BY <1>1, <1>2, <1>4, <2>1, <2>2, <3>1, <3>2, HeldShrink
  <2>3. CASE blocks[k].db # id
    <3>1. blocks'[k] = blocks[k] /\ dbs'[blocks[k].db] = dbs[blocks[k].db]
        BY <1>1, <1>5, <2>1, <2>3
    <3>2. Intact(k)' <=> Intact(k)
        BY <3>1 DEF Intact
    <3>3. Intact(k) => dbs'[blocks[k].db].txn
        BY <2>1, <3>1 DEF Held
    <3> QED BY <1>1, <1>4, <2>1, <3>1, <3>2, <3>3, HeldShrink
  <2> QED BY <2>2, <2>3
<1>8. BlocksInOrder' /\ EndedInOrder'
    BY <1>1, <1>5, <1>6, <1>7 DEF BlocksInOrder, EndedInOrder
<1>9. IInv'
    BY InterruptConsistent DEF AInv
<1> QED BY <1>6, <1>8, <1>9 DEF AInv

LEMMA EndByHandInOrder ==
    ASSUME AInv, NEW id \in 1..MaxDbs, NEW commit \in BOOLEAN, EndByHand(id, commit)
    PROVE  AInv'
<1>1. /\ id \in Ids /\ BlockOn(id) = {} /\ dbs' = Ended(id) /\ Len(dbs') = Len(dbs)
      /\ \A j \in Ids : j # id => dbs'[j] = dbs[j]
      /\ UNCHANGED <<blocks, nextWrite, ended>>
      /\ disk' = Committed(id) \/ disk' = disk
    BY Facts, EndedFacts DEF EndByHand, Handles
<1>2. ~dbs'[id].txn /\ dbs'[id].pending = {}
  <2>1. dbs'[id] = [dbs[id] EXCEPT !.txn = FALSE, !.pending = {}] /\ dbs[id] \in OpenDb
      BY <1>1, Facts, EndedFacts
  <2> QED BY <2>1 DEF OpenDb
<1>3. Ids' = Ids /\ \A j \in Ids : TxnInOrder(j)'
    BY <1>1, <1>2, Facts DEF Ids, TxnInOrder
<1>4. \A k \in 1..Len(blocks) : blocks[k].db # id /\ dbs'[blocks[k].db] = dbs[blocks[k].db]
    BY <1>1, Facts DEF BlockOn
<1>5. IInv'
    BY EndByHandConsistent DEF AInv
<1>6. CASE disk' = disk
  <2>1. Shrinks
      BY <1>1, <1>2, <1>3 DEF Shrinks
  <2> QED BY <1>1, <1>3, <1>4, <1>5, <1>6, <2>1, QuietStep
<1>7. CASE disk' = Committed(id)
  <2>1. Commits(id)
      BY <1>1, <1>2, <1>3, <1>7 DEF Commits
  <2>2. WritesInOrder' /\ \A b \in ended : Settled(b)'
      BY <1>1, <2>1, Facts, WritesCommit, SettledCommit
  <2>3. \A k \in 1..Len(blocks) : Held(k)'
      BY <1>1, <1>4, <2>1, Facts, HeldCommit
  <2>4. BlocksInOrder' /\ EndedInOrder'
      BY <1>1, <2>2, <2>3 DEF BlocksInOrder, EndedInOrder
  <2> QED BY <1>5, <2>2, <2>4 DEF AInv
<1> QED BY <1>1, <1>6, <1>7

LEMMA BeginInOrder == ASSUME AInv, NEW id \in 1..MaxDbs, Begin(id) PROVE AInv'
<1> PICK n : n = Len(blocks) + 1
    OBVIOUS
<1>1. /\ id \in Ids /\ dbs[id].open /\ ~dbs[id].in_transaction /\ ~dbs[id].txn /\ Len(dbs') = Len(dbs)
      /\ dbs'[id] = [dbs[id] EXCEPT !.txn = TRUE, !.in_transaction = TRUE]
      /\ \A j \in Ids : j # id => dbs'[j] = dbs[j]
      /\ UNCHANGED <<disk, nextWrite, ended>>
    BY Facts, BeginFacts
<1>2. /\ Len(blocks') = n
      /\ blocks'[n].db = id /\ blocks'[n].wrote = {} /\ ~blocks'[n].upset
      /\ \A k \in 1..Len(blocks) : blocks'[k] = blocks[k]
  <2>1. /\ Len(blocks') = Len(blocks) + 1
        /\ blocks'[Len(blocks) + 1] = [db |-> id, file |-> dbs[id].file, wrote |-> {}, upset |-> FALSE]
        /\ \A k \in 1..Len(blocks) : blocks'[k] = blocks[k]
      BY Facts, BeginFacts
  <2> QED BY <2>1
<1>3. Len(blocks) \in Nat
    BY Facts, Types
<1>4. /\ \A k \in 1..Len(blocks') : k \in 1..Len(blocks) \/ k = n
    BY <1>2, <1>3
<1>5. dbs'[id].open /\ dbs'[id].txn /\ dbs'[id].pending = dbs[id].pending
    BY <1>1, Facts DEF OpenDb
<1>6. Ids' = Ids
    BY <1>1 DEF Ids
<1>7. Shrinks
    BY <1>1, <1>5, <1>6, Facts DEF Shrinks, TxnInOrder
<1>8. WritesInOrder' /\ \A b \in ended : Settled(b)'
    BY <1>1, <1>7, Facts, WritesShrink, SettledShrink
<1>9. BlockOn(id) = {}
    BY <1>1, Facts DEF FlagsMatchBlocks
<1>10. ASSUME NEW k \in 1..Len(blocks) PROVE Held(k)'
  <2>1. Held(k) /\ blocks[k].db \in Ids /\ WritesInOrder /\ blocks[k].db # id
      BY <1>9, Facts DEF BlockOn
  <2>2. blocks'[k] = blocks[k] /\ dbs'[blocks[k].db] = dbs[blocks[k].db]
      BY <1>1, <1>2, <2>1
  <2>3. Intact(k)' <=> Intact(k)
      BY <2>2 DEF Intact
  <2>4. Intact(k) => dbs'[blocks[k].db].txn
      BY <2>1, <2>2 DEF Held
  <2> QED BY <1>1, <1>7, <2>1, <2>2, <2>3, <2>4, HeldShrink
<1>11. Held(n)'
    BY <1>2, <1>5 DEF Held, Intact
<1>12. BlocksInOrder' /\ EndedInOrder'
    BY <1>1, <1>4, <1>8, <1>10, <1>11 DEF BlocksInOrder, EndedInOrder
<1>13. IInv'
    BY BeginConsistent DEF AInv
<1> QED BY <1>8, <1>12, <1>13 DEF AInv

\* A write is in no place yet.
LEMMA Fresh ==
    ASSUME AInv, nextWrite \in Writes
    PROVE  /\ nextWrite \notin Past /\ Past \subseteq 1..nextWrite
           /\ \A f \in Files : nextWrite \notin disk[f]
           /\ \A id \in Ids : nextWrite \notin dbs[id].pending
           /\ \A k \in 1..Len(blocks) : nextWrite \notin blocks[k].wrote
           /\ \A b \in ended : nextWrite \notin b.wrote
<1>1. nextWrite \notin Past /\ Past \subseteq 1..nextWrite
    BY DEF Past, Writes
<1>2. WritesInOrder
    BY Facts
<1>3. \A k \in 1..Len(blocks) : blocks[k].wrote \subseteq Past
    BY Facts DEF Held
<1>4. \A b \in ended : b.wrote \subseteq Past
    BY Facts DEF Settled
<1> QED BY <1>1, <1>2, <1>3, <1>4 DEF WritesInOrder

LEMMA WriteInOrder == ASSUME AInv, NEW id \in 1..MaxDbs, Write(id) PROVE AInv'
<1> PICK w : w = nextWrite
    OBVIOUS
<1>1. /\ id \in Ids /\ dbs[id].open /\ w \in Writes /\ nextWrite' = w + 1
      /\ Len(dbs') = Len(dbs)
      /\ \A j \in Ids : j # id => dbs'[j] = dbs[j]
      /\ ended' = ended /\ Note(id, w) /\ Respects
    BY Facts, WriteFacts DEF Write
<1>2. /\ Len(blocks') = Len(blocks)
      /\ \A k \in 1..Len(blocks) :
           /\ blocks[k].db = id => blocks'[k] = [blocks[k] EXCEPT !.wrote = @ \cup {w}]
           /\ blocks[k].db # id => blocks'[k] = blocks[k]
    BY <1>1, Facts, NoteFacts
<1>3. /\ w \notin Past
      /\ \A f \in Files : w \notin disk[f]
      /\ \A j \in Ids : w \notin dbs[j].pending
      /\ \A k \in 1..Len(blocks) : w \notin blocks[k].wrote
      /\ \A b \in ended : w \notin b.wrote
    BY <1>1, Fresh
<1>4. Past' = Past \cup {w} /\ Ids' = Ids
    BY <1>1 DEF Past, Ids, Writes
<1>5. dbs[id] \in OpenDb /\ WritesInOrder
    BY <1>1, Facts
<1>6. IInv'
    BY WriteConsistent DEF AInv
<1>7. ASSUME NEW k \in 1..Len(blocks), blocks[k].db = id PROVE Intact(k) /\ dbs[id].txn
  <2>1. ~blocks[k].upset
      BY <1>1, Facts DEF Respects
  <2>2. Intact(k) /\ Held(k)
      BY <1>1, <1>7, <2>1, Facts DEF Intact
  <2> QED BY <1>7, <2>2 DEF Held
<1>8. CASE dbs[id].txn
  <2>1. dbs'[id] = [dbs[id] EXCEPT !.pending = @ \cup {nextWrite}] /\ disk' = disk
      BY <1>8, Facts, WriteFacts
  <2>2. dbs'[id].pending = dbs[id].pending \cup {w} /\ dbs'[id].txn /\ dbs'[id].open
      BY <1>1, <1>5, <1>8, <2>1 DEF OpenDb
  <2>3. \A j \in Ids : dbs'[j].pending \ {w} = dbs[j].pending /\ (w \in dbs'[j].pending <=> j = id)
      BY <1>1, <1>3, <2>2
  <2>4. WritesInOrder'
    <3>1. \A f \in Files : disk'[f] \subseteq Past'
        BY <1>4, <1>5, <2>1 DEF WritesInOrder
    <3>2. \A j \in Ids : TxnInOrder(j)'
        BY <1>1, <2>2, Facts DEF TxnInOrder
    <3>3. ASSUME NEW j \in Ids
          PROVE  dbs'[j].pending \subseteq Past' /\ \A f \in Files : dbs'[j].pending \cap disk'[f] = {}
      <4>1. dbs[j].pending \subseteq Past /\ \A f \in Files : dbs[j].pending \cap disk[f] = {}
          BY <1>5 DEF WritesInOrder
      <4> QED BY <1>3, <1>4, <2>1, <2>3, <4>1
    <3>4. ASSUME NEW i \in Ids, NEW j \in Ids, i # j
          PROVE  dbs'[i].pending \cap dbs'[j].pending = {}
      <4>1. dbs[i].pending \cap dbs[j].pending = {}
          BY <1>5, <3>4 DEF WritesInOrder
      <4> QED BY <2>3, <3>4, <4>1
    <3> QED BY <1>4, <3>1, <3>2, <3>3, <3>4 DEF WritesInOrder
  <2>5. ASSUME NEW b \in ended PROVE Settled(b)'
    <3>1. Settled(b) /\ w \notin b.wrote
        BY <1>3, Facts
    <3>2. (\A j \in Ids : b.wrote \cap dbs[j].pending = {}) => \A j \in Ids : b.wrote \cap dbs'[j].pending = {}
        BY <2>3, <3>1
    <3> QED BY <1>4, <2>1, <3>1, <3>2 DEF Settled
  <2>6. ASSUME NEW k \in 1..Len(blocks) PROVE Held(k)'
    <3>1. Held(k) /\ blocks[k] \in Block /\ blocks[k].db \in Ids /\ w \notin blocks[k].wrote
          /\ blocks[k].file \in Files
        BY <1>3, Facts
    <3>2. CASE blocks[k].db = id
      <4>1. /\ blocks'[k].db = id /\ blocks'[k].file = blocks[k].file
            /\ blocks'[k].wrote = blocks[k].wrote \cup {w} /\ blocks'[k].upset = blocks[k].upset
          BY <1>2, <3>1, <3>2 DEF Block
      <4>2. Intact(k) /\ Intact(k)'
          BY <1>7, <2>2, <3>2, <4>1 DEF Intact
      <4>3. blocks[k].wrote \subseteq dbs[id].pending
          BY <3>1, <3>2, <4>2 DEF Held
      <4>4. blocks'[k].wrote \cap disk'[blocks'[k].file] = {}
          BY <1>3, <2>1, <3>1, <4>1 DEF Held
      <4>5. blocks'[k].wrote \subseteq Past'
          BY <1>4, <3>1, <4>1 DEF Held
      <4> QED BY <2>2, <4>1, <4>2, <4>3, <4>4, <4>5 DEF Held
    <3>3. CASE blocks[k].db # id
      <4>1. blocks'[k] = blocks[k] /\ dbs'[blocks[k].db] = dbs[blocks[k].db]
          BY <1>1, <1>2, <3>1, <3>3
      <4>2. Intact(k)' <=> Intact(k)
          BY <4>1 DEF Intact
      <4>3. (\A j \in Ids : blocks[k].wrote \cap dbs[j].pending = {}) =>
                \A j \in Ids : blocks[k].wrote \cap dbs'[j].pending = {}
          BY <2>3, <3>1
      <4> QED BY <1>4, <2>1, <3>1, <4>1, <4>2, <4>3 DEF Held
    <3> QED BY <3>2, <3>3
  <2>7. BlocksInOrder' /\ EndedInOrder'
      BY <1>1, <1>2, <2>5, <2>6 DEF BlocksInOrder, EndedInOrder
  <2> QED BY <1>6, <2>4, <2>7 DEF AInv
<1>9. CASE ~dbs[id].txn
  <2>1. dbs' = dbs /\ disk' = [disk EXCEPT ![dbs[id].file] = @ \cup {w}]
      BY <1>9, Facts, WriteFacts
  <2>2. \A k \in 1..Len(blocks) : blocks'[k] = blocks[k]
      BY <1>2, <1>7, <1>9
  <2>3. \A f \in Files : disk[f] \subseteq disk'[f] /\ disk'[f] \subseteq disk[f] \cup {w}
    <3>1. disk = [f \in Files |-> disk[f]]
        BY Facts DEF TypeOK
    <3> QED BY <2>1, <3>1
  <2>4. WritesInOrder'
    <3>1. \A f \in Files : disk'[f] \subseteq Past'
        BY <1>4, <1>5, <2>3 DEF WritesInOrder
    <3>2. \A j \in Ids : TxnInOrder(j)'
        BY <2>1, Facts DEF TxnInOrder
    <3>3. ASSUME NEW j \in Ids
          PROVE  dbs'[j].pending \subseteq Past' /\ \A f \in Files : dbs'[j].pending \cap disk'[f] = {}
      <4>1. dbs[j].pending \subseteq Past /\ \A f \in Files : dbs[j].pending \cap disk[f] = {}
          BY <1>5 DEF WritesInOrder
      <4> QED BY <1>3, <1>4, <2>1, <2>3, <4>1
    <3> QED BY <1>4, <1>5, <2>1, <3>1, <3>2, <3>3 DEF WritesInOrder
  <2>5. ASSUME NEW b \in ended PROVE Settled(b)'
    <3>1. Settled(b) /\ w \notin b.wrote /\ b.file \in Files
        BY <1>3, Facts
    <3>2. disk[b.file] \subseteq disk'[b.file] /\ disk'[b.file] \subseteq disk[b.file] \cup {w}
        BY <2>3, <3>1
    <3> QED BY <1>4, <2>1, <3>1, <3>2 DEF Settled
  <2>6. ASSUME NEW k \in 1..Len(blocks) PROVE Held(k)'
    <3>1. Held(k) /\ w \notin blocks[k].wrote /\ blocks[k].file \in Files
        BY <1>3, Facts
    <3>2. disk'[blocks[k].file] \subseteq disk[blocks[k].file] \cup {w}
        BY <2>3, <3>1
    <3>3. Intact(k)' <=> Intact(k)
        BY <2>1, <2>2 DEF Intact
    <3> QED BY <1>4, <2>1, <2>2, <3>1, <3>2, <3>3 DEF Held
  <2>7. BlocksInOrder' /\ EndedInOrder'
      BY <1>1, <1>2, <2>5, <2>6 DEF BlocksInOrder, EndedInOrder
  <2> QED BY <1>6, <2>4, <2>7 DEF AInv
<1> QED BY <1>8, <1>9

LEMMA LeaveInOrder == ASSUME AInv, Raises \/ Returns PROVE AInv'
<1> PICK id \in Ids : id = Top.db
    BY BlockEnds, Innermost DEF AInv
<1> PICK n \in 1..Len(blocks) : n = Len(blocks)
    BY BlockEnds, Innermost DEF AInv
<1>1. IInv /\ IInv' /\ blocks # <<>> /\ Top = blocks[n]
    BY BlockEnds, BlockEndsConsistent DEF AInv, Top
<1>2. blocks[n].db = id /\ Held(n) /\ blocks[n].file \in Files /\ blocks[n].file = dbs[id].file /\ WritesInOrder
    BY <1>1, Facts
<1>3. \A k \in 1..Len(blocks) : k # n => blocks[k].db # id
    BY <1>2, Facts DEF FlagsMatchBlocks
<1> PICK block \in Block : block = blocks[n]
    BY Facts
<1> DEFINE Gone(result) == [file |-> block.file, wrote |-> block.wrote, result |-> result]
<1>4. ASSUME NEW result \in {"ok", "error", "closed"}, Leave(result)
      PROVE  /\ \A k \in 1..Len(blocks') : k \in 1..Len(blocks) /\ k # n /\ blocks'[k] = blocks[k]
             /\ ended' \subseteq ended \cup {Gone(result)}
             /\ UNCHANGED nextWrite
    BY <1>1, <1>4, LeaveFacts
<1>5. /\ Len(dbs') = Len(dbs)
      /\ \A j \in Ids : j # id => dbs'[j] = dbs[j]
    BY <1>1, BlockEnds, BlockEndsFacts
<1>6. Ids' = Ids
    BY <1>5 DEF Ids
<1>7. dbs[id] \in OpenDb /\ TxnInOrder(id)
    BY Facts
<1>8. CASE Leave("ok") /\ dbs' = Unflagged(Ended(Top.db)) /\ disk' = Committed(Top.db) /\ dbs[Top.db].txn /\ Respects
  <2>1. dbs'[id] = [dbs[id] EXCEPT !.in_transaction = FALSE, !.txn = FALSE, !.pending = {}]
      BY <1>1, <1>8, BlockEndsFacts
  <2>2. ~dbs'[id].txn /\ dbs'[id].pending = {}
      BY <1>7, <2>1 DEF OpenDb
  <2>3. Commits(id)
      BY <1>5, <1>6, <1>8, <2>2, Facts DEF Commits, TxnInOrder
  <2>4. WritesInOrder' /\ \A b \in ended : Settled(b)'
      BY <1>4, <1>8, <2>3, Facts, WritesCommit, SettledCommit
  <2>5. ASSUME NEW k \in 1..Len(blocks') PROVE Held(k)'
    <3>1. k \in 1..Len(blocks) /\ blocks'[k] = blocks[k] /\ blocks[k].db # id /\ UNCHANGED nextWrite
        BY <1>3, <1>4, <1>8
    <3>2. dbs'[blocks[k].db] = dbs[blocks[k].db]
        BY <1>5, <3>1, Facts
    <3> QED BY <2>3, <3>1, <3>2, Facts, HeldCommit
  <2>6. Settled(Gone("ok"))'
    <3>1. Intact(n)
        BY <1>2, <1>7, <1>8, Facts DEF Intact, TxnInOrder, Respects
    <3>2. blocks[n].wrote \subseteq dbs[id].pending /\ blocks[n].wrote \subseteq Past
        BY <1>2, <3>1 DEF Held
    <3>3. blocks[n].wrote \subseteq disk'[blocks[n].file]
        BY <1>2, <1>8, <3>2, Facts, CommittedFacts
    <3>4. Past' = Past
        BY <1>4, <1>8 DEF Past
    <3> QED BY <3>2, <3>3, <3>4 DEF Settled
  <2>7. BlocksInOrder' /\ EndedInOrder'
      BY <1>4, <1>8, <2>4, <2>5, <2>6 DEF BlocksInOrder, EndedInOrder
  <2> QED BY <1>1, <2>4, <2>7, Facts DEF AInv
<1>9. ASSUME NEW result \in {"error", "closed"}, Leave(result), disk' = disk,
             dbs'[id].pending = {}, ~dbs'[id].txn
      PROVE  AInv'
  <2>1. Shrinks
      BY <1>5, <1>6, <1>9, Facts DEF Shrinks, TxnInOrder
  <2>2. UNCHANGED nextWrite
      BY <1>4, <1>9
  <2>3. WritesInOrder' /\ \A b \in ended : Settled(b)'
      BY <1>9, <2>1, <2>2, Facts, WritesShrink, SettledShrink
  <2>4. ASSUME NEW k \in 1..Len(blocks') PROVE Held(k)'
    <3>1. k \in 1..Len(blocks) /\ blocks'[k] = blocks[k] /\ blocks[k].db # id
        BY <1>3, <1>4, <1>9
    <3>2. dbs'[blocks[k].db] = dbs[blocks[k].db] /\ blocks[k].db \in Ids /\ Held(k)
        BY <1>5, <3>1, Facts
    <3>3. Intact(k)' <=> Intact(k)
        BY <3>1, <3>2 DEF Intact
    <3>4. Intact(k) => dbs'[blocks[k].db].txn
        BY <3>2 DEF Held
    <3> QED BY <1>2, <1>9, <2>1, <2>2, <3>1, <3>2, <3>3, <3>4, HeldShrink
  <2>5. Settled(Gone(result))'
    <3>1. ASSUME NEW j \in Ids PROVE blocks[n].wrote \cap dbs'[j].pending = {}
      <4>1. CASE j = id
          BY <1>9, <4>1
      <4>2. CASE j # id
        <5>1. blocks[n].wrote \cap dbs[j].pending = {}
            BY <1>2, <4>2, HeldElsewhere
        <5> QED BY <1>5, <4>2, <5>1
      <4> QED BY <4>1, <4>2
    <3>2. blocks[n].wrote \subseteq Past' /\ blocks[n].wrote \cap disk'[blocks[n].file] = {}
        BY <1>2, <1>9, <2>2 DEF Held, Past
    <3> QED BY <1>6, <1>9, <3>1, <3>2 DEF Settled
  <2>6. BlocksInOrder' /\ EndedInOrder'
      BY <1>4, <1>9, <2>3, <2>4, <2>5 DEF BlocksInOrder, EndedInOrder
  <2> QED BY <1>1, <2>3, <2>6, Facts DEF AInv
<1>10. CASE Leave("error") /\ dbs' = Unflagged(Ended(Top.db)) /\ disk' = disk
  <2>1. dbs'[id] = [dbs[id] EXCEPT !.in_transaction = FALSE, !.txn = FALSE, !.pending = {}]
      BY <1>1, <1>10, BlockEndsFacts
  <2>2. ~dbs'[id].txn /\ dbs'[id].pending = {}
      BY <1>7, <2>1 DEF OpenDb
  <2> QED BY <1>9, <1>10, <2>2
<1>11. CASE Leave("closed") /\ dbs' = Unflagged(dbs) /\ disk' = disk /\ ~dbs[Top.db].open
  <2>1. dbs'[id] = [dbs[id] EXCEPT !.in_transaction = FALSE]
      BY <1>1, <1>11, BlockEndsFacts
  <2>2. ~dbs'[id].txn /\ dbs'[id].pending = {}
      BY <1>7, <1>11, <2>1 DEF OpenDb, TxnInOrder
  <2> QED BY <1>9, <1>11, <2>2
<1> QED BY <1>1, <1>8, <1>10, <1>11, BlockEnds

LEMMA StepInOrder == AInv /\ [Next]_vars => AInv'
<1> SUFFICES ASSUME AInv, [Next]_vars PROVE AInv'
    OBVIOUS
<1>1. IInv /\ IInv'
    BY StepConsistent DEF AInv
<1>2. ASSUME NEW p \in Plugins, NEW name \in Names, Open(p, name) PROVE AInv'
    BY <1>2, OpenInOrder
<1>3. ASSUME NEW id \in 1..MaxDbs, Prepare(id) PROVE AInv'
    BY <1>1, <1>3, StmtsInOrder DEF Prepare
<1>4. ASSUME NEW id \in 1..MaxDbs, Close(id) PROVE AInv'
    BY <1>4, CloseAllInOrder DEF Close
<1>5. ASSUME NEW id \in 1..MaxDbs, Write(id) PROVE AInv'
    BY <1>5, WriteInOrder
<1>6. ASSUME NEW id \in 1..MaxDbs, Interrupt(id) PROVE AInv'
    BY <1>6, InterruptInOrder
<1>7. ASSUME NEW id \in 1..MaxDbs, BeginByHand(id) PROVE AInv'
    BY <1>7, BeginByHandInOrder
<1>8. ASSUME NEW id \in 1..MaxDbs, Begin(id) PROVE AInv'
    BY <1>8, BeginInOrder
<1>9. ASSUME NEW id \in 1..MaxDbs, NEW commit \in BOOLEAN, EndByHand(id, commit) PROVE AInv'
    BY <1>9, EndByHandInOrder
<1>10. ASSUME NEW s \in 1..MaxStmts, CloseStmt(s) PROVE AInv'
    BY <1>1, <1>10, StmtsInOrder DEF CloseStmt
<1>11. ASSUME NEW s \in 1..MaxStmts, Run(s) PROVE AInv'
    BY <1>1, <1>11, RunWrites, WriteInOrder
<1>12. ASSUME NEW p \in Plugins, RemovePlugin(p) PROVE AInv'
    BY <1>12, CloseAllInOrder DEF RemovePlugin
<1>13. CASE Shutdown
    BY <1>13, ShutdownInOrder
<1>14. CASE Raises \/ Returns
    BY <1>14, LeaveInOrder
<1>15. CASE UNCHANGED vars
    BY <1>1, <1>15, StmtsInOrder DEF vars
<1> QED BY <1>2, <1>3, <1>4, <1>5, <1>6, <1>7, <1>8, <1>9, <1>10, <1>11, <1>12, <1>13, <1>14, <1>15 DEF Next

\* What db:transaction promises of a block: all of it or nothing, all of it when the
\* call returned and nothing when it failed, if a callback whose transaction SQLite
\* took away fails.
THEOREM BlockIsAtomicAlways == ASSUME StopsAtAbort PROVE Spec => []BlockIsAtomic
<1>1. Init => AInv
    BY InitInOrder
<1>2. AInv => BlockIsAtomic
  <2> SUFFICES ASSUME AInv, NEW b \in ended
               PROVE  /\ b.wrote \subseteq disk[b.file] \/ b.wrote \cap disk[b.file] = {}
                      /\ b.result = "ok" => b.wrote \subseteq disk[b.file]
                      /\ b.result = "error" => b.wrote \cap disk[b.file] = {}
      BY DEF BlockIsAtomic
  <2> QED BY Facts DEF Settled
<1> QED BY <1>1, <1>2, StepInOrder, PTL DEF Spec
=============================================================================
