------------------------------ MODULE Listing ------------------------------
(***************************************************************************)
(* Which files take part in a transfer: filter rules decide about names    *)
(* (FilterRun), which are cleaned, made safe, expanded and entered         *)
(* (Paths); both ends keep lists of the files (FileLists), in memory of    *)
(* their own and tables over them (both in Tables), and notes of what      *)
(* to delete at the end (DelayDelete).  A behaviour is about one of these. *)
(***************************************************************************)
EXTENDS FilterRun, Paths, FileLists, DelayDelete, Tables

NamesVars == <<vars, pvars>>

NoFilters ==
  /\ setup = [max_delete |-> -1] /\ phase = "error" /\ side = FALSE /\ cwd = <<>>
  /\ w = [st |-> NewProcess, filt |-> <<>>] /\ fs = {} /\ stats = [deleted |-> 0, skipped |-> FALSE]

NamesInit == (Init /\ PathsIdle) \/ (NoFilters /\ PathsInit)
NamesNext == (Next /\ UNCHANGED pvars) \/ (PathsNext /\ UNCHANGED vars)
-----------------------------------------------------------------------------
ListVars == <<flistVars, pool, dd, tab>>

NoLists ==
  /\ opt = CHOOSE o \in ListSetups : TRUE
  /\ snd = [Start EXCEPT !.mode = "fatal"]
  /\ rcv = [lists |-> <<>>, dirs |-> <<>>, io_error |-> {}, bad |-> FALSE, todo |-> {}, deleted |-> {}]
  /\ gone = {} /\ faults = MaxFaults

ListInit ==
  \/ FlistInit /\ PoolIdle /\ DelayIdle /\ TablesIdle
  \/ NoLists /\ PoolInit /\ DelayIdle /\ TablesIdle
  \/ NoLists /\ PoolIdle /\ DelayInit /\ TablesIdle
  \/ NoLists /\ PoolIdle /\ DelayIdle /\ TablesInit

ListNext ==
  \/ FlistNext /\ UNCHANGED <<pool, dd, tab>>
  \/ PoolNext /\ UNCHANGED <<flistVars, dd, tab>>
  \/ DelayNext /\ UNCHANGED <<flistVars, pool, tab>>
  \/ TablesNext /\ UNCHANGED <<flistVars, pool, dd>>
-----------------------------------------------------------------------------
NoNames == NoFilters /\ PathsIdle
NothingListed == NoLists /\ PoolIdle /\ DelayIdle /\ TablesIdle

ListingInit == (NamesInit /\ NothingListed) \/ (NoNames /\ ListInit)
ListingNext == (NamesNext /\ UNCHANGED ListVars) \/ (ListNext /\ UNCHANGED NamesVars)
ListingSpec == ListingInit /\ [][ListingNext]_<<NamesVars, ListVars>>

\* The containers of the lists lose, repeat and overlap nothing: memory pool,
\* notes of delayed deletions, hash table, bit bag, queue and growing list;
\* and the search for a similar name finds the closest.
ContainersSound ==
  /\ PoolMemoryApart /\ PoolReturned /\ DelayedAllDeleted
  /\ HashKeepsAll /\ BitsInOrder /\ QueueKeepsOrder /\ ItemsFit
  /\ DistanceIsEdits /\ BasisIsClosest
=============================================================================
