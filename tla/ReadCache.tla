------------------------------ MODULE ReadCache ------------------------------
(***************************************************************************)
(* The read cache in front of the tables (utils/db/cache.go, database.go): *)
(* the result of a query is kept for a lifetime, and every ExecContext     *)
(* that succeeds throws all results away.  Filling is two steps, the       *)
(* SELECT and the storing of its rows, and other goroutines and processes  *)
(* act between them.  One goroutine, the update router, reads with a       *)
(* lifetime; every goroutine clears.                                       *)
(*                                                                         *)
(* A result is the version of what the query reads: whitelist and          *)
(* responses are written by the operators' tools alone, which only insert  *)
(* and update, so versions grow, and 0 is no row at all.                   *)
(***************************************************************************)
EXTENDS Naturals

CONSTANTS
  Keys,       \* the cached queries, with their arguments
  RowKeys,    \* those read by QueryRowContext, which keeps no miss
  Lifetime,   \* clock units until an entry is past its until
  NoEntry, NoRead,
  MaxChanges  \* bound: version of a query

ASSUME CacheAssumption ==
  /\ RowKeys \subseteq Keys /\ Lifetime \in Nat /\ MaxChanges \in Nat
  /\ NoEntry \notin [value : Nat, age : Nat, late : BOOLEAN]
  /\ NoRead \notin [key : Keys, value : Nat, late : BOOLEAN]

VARIABLES
  table,   \* version of each query's result in the database
  entry,   \* the cache
  reading, \* the read between its SELECT and its storing
  \* Observers
  served,    \* what the last read of each query returned
  clearedAt  \* version of each query when the cache was last cleared

cacheVars == <<table, entry, reading, served, clearedAt>>

Absent == 0

\* late: the cache was cleared since the SELECT.
Entries == [value : Nat, age : 0 .. Lifetime + 1, late : BOOLEAN]
Reads == [key : Keys, value : Nat, late : BOOLEAN]

CacheTypeOK ==
  /\ table \in [Keys -> Nat]
  /\ entry \in [Keys -> Entries \cup {NoEntry}]
  /\ reading \in Reads \cup {NoRead}
  /\ served \in [Keys -> Nat]
  /\ clearedAt \in [Keys -> Nat]

CacheInit ==
  /\ table = [k \in Keys |-> Absent]
  /\ entry = [k \in Keys |-> NoEntry]
  /\ reading = NoRead
  /\ served = [k \in Keys |-> Absent]
  /\ clearedAt = [k \in Keys |-> Absent]

-----------------------------------------------------------------------------
(* A read                                                                  *)

\* getRows and getRow without the test of until.
UsableForever(k) == entry[k] # NoEntry

\* time.Now() is not after until.
Usable(k) == entry[k] # NoEntry /\ entry[k].age <= Lifetime

Hit(k) ==
  /\ reading = NoRead /\ Usable(k)
  /\ served' = [served EXCEPT ![k] = entry[k].value]
  /\ UNCHANGED <<table, entry, reading, clearedAt>>

Select(k) ==
  /\ reading = NoRead /\ ~Usable(k)
  /\ reading' = [key |-> k, value |-> table[k], late |-> FALSE]
  /\ UNCHANGED <<table, entry, served, clearedAt>>

\* A cache that keeps misses like any other result.
KeepsMisses(k, v) == TRUE

\* QueryRowContext does not store a miss: the row may be inserted moments later.
Keeps(k, v) == k \in RowKeys => v # Absent

NewEntry == [value |-> reading.value, age |-> 0, late |-> reading.late]

\* A store that renews the time of a present entry and keeps its rows.
StoreRenewing ==
  /\ reading # NoRead
  /\ entry' = IF entry[reading.key] # NoEntry
              THEN [entry EXCEPT ![reading.key].age = 0]
              ELSE IF Keeps(reading.key, reading.value)
              THEN [entry EXCEPT ![reading.key] = NewEntry] ELSE entry
  /\ served' = [served EXCEPT ![reading.key] = reading.value]
  /\ reading' = NoRead
  /\ UNCHANGED <<table, clearedAt>>

\* setRows, setRowOK: whatever is there is overwritten.
Store ==
  /\ reading # NoRead
  /\ entry' = IF Keeps(reading.key, reading.value)
              THEN [entry EXCEPT ![reading.key] = NewEntry] ELSE entry
  /\ served' = [served EXCEPT ![reading.key] = reading.value]
  /\ reading' = NoRead
  /\ UNCHANGED <<table, clearedAt>>

ReadFails ==
  /\ reading # NoRead /\ reading' = NoRead
  /\ UNCHANGED <<table, entry, served, clearedAt>>

-----------------------------------------------------------------------------
(* Everybody else                                                          *)

\* invalidate, for the rows of one key only.
ClearSome ==
  /\ entry' = [k \in Keys |-> IF k \in RowKeys THEN NoEntry ELSE entry[k]]
  /\ reading' = IF reading = NoRead THEN NoRead ELSE [reading EXCEPT !.late = TRUE]
  /\ clearedAt' = table
  /\ UNCHANGED <<table, served>>

\* An ExecContext that returned no error, of any goroutine and on any table.
Clear ==
  /\ entry' = [k \in Keys |-> NoEntry]
  /\ reading' = IF reading = NoRead THEN NoRead ELSE [reading EXCEPT !.late = TRUE]
  /\ clearedAt' = table
  /\ UNCHANGED <<table, served>>

\* An operator's tool writes what a query reads; this process does not notice.
Change(k) ==
  /\ table[k] < MaxChanges
  /\ table' = [table EXCEPT ![k] = @ + 1]
  /\ UNCHANGED <<entry, reading, served, clearedAt>>

\* Time passes for every entry.
Pass ==
  /\ entry' = [k \in Keys |->
                 IF entry[k] # NoEntry /\ entry[k].age <= Lifetime
                 THEN [entry[k] EXCEPT !.age = @ + 1] ELSE entry[k]]
  /\ UNCHANGED <<table, reading, served, clearedAt>>

CacheNext ==
  \/ \E k \in Keys : Hit(k) \/ Select(k) \/ Change(k)
  \/ Store \/ ReadFails \/ Clear \/ Pass

CacheSpec == CacheInit /\ [][CacheNext]_cacheVars

-----------------------------------------------------------------------------
(* Properties                                                              *)

\* "invalidation on Exec" (database.go:17), as far as it goes: an entry older than the last
\* clearing was read before it and stored after it.
OnlyLateFillsAreStale ==
  \A k \in Keys : entry[k] # NoEntry /\ ~entry[k].late => entry[k].value >= clearedAt[k]

\* With one reader, reads of a query never go back to an older result.
ReadsMoveForward == [][\A k \in Keys : served'[k] >= served[k]]_cacheVars

\* Even a late fill goes: once the tools are done, only current results are served.
OldResultsGo == <>[](\A k \in Keys : Usable(k) => entry[k].value = table[k])

-----------------------------------------------------------------------------
(* The inductive invariant                                                 *)

\* Reads and entries are no older than what was served last, and no newer than the table.
Ordered ==
  /\ \A k \in Keys : served[k] <= table[k] /\ clearedAt[k] <= table[k]
  /\ \A k \in Keys : entry[k] # NoEntry =>
       entry[k].value = served[k]
  /\ reading # NoRead =>
       /\ served[reading.key] <= reading.value /\ reading.value <= table[reading.key]
       /\ ~reading.late => clearedAt[reading.key] <= reading.value

CacheInv == CacheTypeOK /\ Ordered /\ OnlyLateFillsAreStale

=============================================================================
