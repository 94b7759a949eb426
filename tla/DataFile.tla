------------------------------- MODULE DataFile -------------------------------
(***************************************************************************)
(* Saving a table to a file, and loading it (scripts/lib/datafile.lua).    *)
(*                                                                         *)
(* save writes <name>.lua.tmp, drops <name>.lua.bak, puts the live file    *)
(* aside as .bak and moves .tmp into its place.  The process may die       *)
(* between any two of these steps, and most of their results are not       *)
(* looked at.  load looks at the live file alone.                          *)
(*                                                                         *)
(* The files are the operating system's: io.open with "w" cuts a file, a   *)
(* write may fail as the disk is full, os.rename replaces its target       *)
(* (POSIX) or fails.  A file that was cut does not load: its text ends     *)
(* before the table does, or does not return one.                          *)
(***************************************************************************)
EXTENDS Integers

CONSTANTS Missing, Cut, \* no file, and a file that was not written to its end
          NoTable,      \* nothing to save
          Tables        \* what is saved

VARIABLES
    file,   \* the live file
    tmp,    \* <name>.lua.tmp
    bak,    \* <name>.lua.bak
    step,   \* where save is
    saving, \* history: the table that save was called with last
    good,   \* history: the table of the last save that said true
    full,   \* history: a write has failed
    exposed \* history: a save that nothing protected, begun without the live file of
            \* an earlier one or with a .bak that could be neither dropped nor replaced

files == <<file, tmp, bak>>
dataVars == <<file, tmp, bak, step, saving, good, full, exposed>>

ASSUME DataConstants ==
    /\ Missing # Cut
    /\ {Missing, Cut, NoTable} \cap Tables = {}

OnDisk == Tables \cup {Missing, Cut}

Saving == step # "idle"

\* load_from: what to do without a file, or with one that is broken, is the
\* caller's to say.
Loads(fallback, broken) ==
    CASE file = Missing -> fallback
      [] file = Cut     -> broken
      [] OTHER          -> file

-----------------------------------------------------------------------------
\* save_to, up to io.open of the new file, which cuts what was there.
SaveBegins(table) ==
    /\ ~Saving
    /\ saving' = table
    /\ tmp' = Cut
    /\ step' = "write"
    /\ exposed' = (exposed \/ (file = Missing /\ good # NoTable))
    /\ UNCHANGED <<file, bak, good, full>>

\* Results of write and close are not looked at.
Write ==
    /\ step = "write"
    /\ step' = "drop"
    /\ \/ tmp' = saving /\ UNCHANGED full
       \/ tmp' = Cut /\ full' = TRUE
    /\ UNCHANGED <<file, bak, saving, good, exposed>>

\* The removal may fail, too.
DropBackup ==
    /\ step = "drop"
    /\ bak' \in {Missing, bak}
    /\ step' = "aside"
    /\ UNCHANGED <<file, tmp, saving, good, full, exposed>>

\* (mutant) The live file is removed, not put aside.
AsideRemoved == Missing

Aside == file

\* The live file becomes the backup; a rename that fails is not noticed.
PutAside ==
    /\ step = "aside"
    /\ step' = "move"
    /\ \/ file # Missing /\ bak' = Aside /\ file' = Missing /\ UNCHANGED exposed
       \/ /\ exposed' = (exposed \/ (file # Missing /\ bak # Missing))
          /\ UNCHANGED <<file, bak>>
    /\ UNCHANGED <<tmp, saving, good, full>>

\* The new file takes its place: save says true.
Move ==
    /\ step = "move"
    /\ file' = tmp
    /\ tmp' = Missing
    /\ good' = saving
    /\ step' = "idle"
    /\ UNCHANGED <<bak, saving, full, exposed>>

\* It does not, and the old one is put back if that is possible: save says false.
MoveFails ==
    /\ step = "move"
    /\ \/ bak # Missing /\ file' = bak /\ bak' = Missing
       \/ UNCHANGED <<file, bak>>
    /\ step' = "idle"
    /\ UNCHANGED <<tmp, saving, good, full, exposed>>

SaveGoesOn == Write \/ DropBackup \/ PutAside \/ Move \/ MoveFails

\* The process dies; what the disk has stays.
Dies ==
    /\ step' = "idle"
    /\ UNCHANGED <<file, tmp, bak, saving, good, full, exposed>>

DataInit ==
    /\ file = Missing /\ tmp = Missing /\ bak = Missing
    /\ step = "idle"
    /\ saving = NoTable /\ good = NoTable
    /\ full = FALSE /\ exposed = FALSE

-----------------------------------------------------------------------------
(* Correctness                                                             *)

\* The variables have their types.
DataTypeOK ==
    /\ file \in OnDisk /\ tmp \in OnDisk /\ bak \in OnDisk
    /\ step \in {"idle", "write", "drop", "aside", "move"}
    /\ saving \in Tables \cup {NoTable} /\ good \in Tables \cup {NoTable}
    /\ Saving => saving \in Tables
    /\ full \in BOOLEAN /\ exposed \in BOOLEAN

\* Wherever save is interrupted, and whichever rename fails, the live file is the
\* table saved last or the one being saved, whole; or it is not there and both are
\* whole beside it.  Excepted are a full disk, which save does not see, and the
\* saves that `exposed' names: one that drops the .bak when nobody has put such a
\* file back, and one that puts an old .bak back over a file it could not move.
SaveLosesNothing ==
    \/ full \/ exposed
    \/ file \in {saving, good} \ {NoTable}
    \/ file = Missing /\ good = NoTable
    \/ file = Missing /\ bak = good /\ tmp = saving

\* What the comment at save_to promises of a crash: the list is never taken with
\* it.  It does not hold between the two renames, as load does not look at .bak.
LoadsAfterCrash == file = Missing => good = NoTable
=============================================================================
