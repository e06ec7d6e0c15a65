------------------------------- MODULE TableRows -------------------------------
(***************************************************************************)
(* The numbering of rows in a table with an integer primary key.           *)
(***************************************************************************)
EXTENDS Integers, FiniteSetsExt

CONSTANT None

VARIABLE sqlite  \* whether DATABASE_URL names an SQLite database

Ids(rows) == {row.id : row \in rows}

\* SQLite, the default of DATABASE_URL, gives a new row the id after the largest in
\* the table: the id of a newest row that was deleted is given again.  Other
\* databases count on from the last id they have given.
NewId(rows, last) == IF sqlite THEN Max({0} \cup Ids(rows)) + 1 ELSE last + 1
================================================================================
