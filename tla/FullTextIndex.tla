---------------------------- MODULE FullTextIndex ----------------------------
(***************************************************************************)
(* CreateFullTextIndex and DropFullTextIndex (utils/dbutil/fulltext.go),   *)
(* called by several processes for one table of one database: each asks    *)
(* whether the index is there and then sends its statement, and nothing    *)
(* holds the table in between.                                             *)
(*                                                                         *)
(* gorm and the database are external.  A statement is carried out or      *)
(* refused as a whole; the connection may be lost before the statement     *)
(* arrives, or before its answer does.  HasIndex of gorm has no error to   *)
(* return: a question that fails is answered "no".  "refused" is a name    *)
(* that is taken or is not there, or a creator without columns; any other  *)
(* error, of the connection or of MySQL, is "lost" here.                   *)
(*                                                                         *)
(* An operator Name_Fault is Name with a fault that code like this could   *)
(* have; none is part of the specification.                                *)
(***************************************************************************)
CONSTANTS
    Processes,
    Columns

VARIABLES
    index,      \* the columns of fts_search_index; none: there is no index
    pc,
    job,        \* "create" or "drop"
    columns,    \* what a creator asks for
    misled,     \* the question of HasIndex failed
    result,     \* the error that is returned
    was         \* history: what the index has been since the call began

local == <<pc, job, columns, misled, result>>
vars  == <<index, local, was>>

State(i) == IF i = {} THEN "absent" ELSE "present"

TypeOK ==
    /\ index \in SUBSET Columns
    /\ pc \in [Processes -> {"idle", "check", "exec", "returned"}]
    /\ job \in [Processes -> {"none", "create", "drop"}]
    /\ columns \in [Processes -> SUBSET Columns]
    /\ misled \in [Processes -> BOOLEAN]
    /\ result \in [Processes -> {"none", "nil", "refused", "lost"}]
    /\ was \in [Processes -> SUBSET {"absent", "present"}]
    /\ \A p \in Processes : pc[p] = "returned" <=> result[p] # "none"

Init ==
    /\ index \in SUBSET Columns
    /\ pc = [p \in Processes |-> "idle"]
    /\ job = [p \in Processes |-> "none"]
    /\ columns = [p \in Processes |-> {}]
    /\ misled = [p \in Processes |-> FALSE]
    /\ result = [p \in Processes |-> "none"]
    /\ was = [p \in Processes |-> {}]

-----------------------------------------------------------------------------

\* A process that has had its answer may call again.
Call_StaleResult(p, what, cols) ==
    /\ pc[p] \in {"idle", "returned"}
    /\ pc' = [pc EXCEPT ![p] = "check"]
    /\ job' = [job EXCEPT ![p] = what]
    /\ columns' = [columns EXCEPT ![p] = cols]
    /\ was' = [was EXCEPT ![p] = {State(index)}]
    /\ UNCHANGED <<index, misled, result>>

Call(p, what, cols) ==
    /\ pc[p] \in {"idle", "returned"}
    /\ pc' = [pc EXCEPT ![p] = "check"]
    /\ job' = [job EXCEPT ![p] = what]
    /\ columns' = [columns EXCEPT ![p] = cols]
    /\ misled' = [misled EXCEPT ![p] = FALSE]
    /\ result' = [result EXCEPT ![p] = "none"]
    /\ was' = [was EXCEPT ![p] = {State(index)}]
    /\ UNCHANGED index

Return(p, err) ==
    /\ pc' = [pc EXCEPT ![p] = "returned"]
    /\ result' = [result EXCEPT ![p] = err]
    /\ UNCHANGED <<job, columns>>

\* HasIndex: the name decides, and not the columns.
HasIndex(failed) == ~failed /\ index # {}

\* There is nothing left to do.
Satisfied_Inverted(what, found) == IF what = "create" THEN ~found ELSE found
Satisfied_Never(what, found) == FALSE
Satisfied(what, found) == IF what = "create" THEN found ELSE ~found

Check(p) ==
    /\ pc[p] = "check"
    /\ \E failed \in BOOLEAN :
          /\ misled' = [misled EXCEPT ![p] = failed]
          /\ IF Satisfied(job[p], HasIndex(failed))
                THEN Return(p, "nil")
                ELSE /\ pc' = [pc EXCEPT ![p] = "exec"]
                     /\ UNCHANGED <<job, columns, result>>
    /\ UNCHANGED <<index, was>>

\* The database takes CREATE FULLTEXT INDEX for at least one column and a name
\* that is free, and DROP INDEX for a name that is not.
Accepts(p) ==
    IF job[p] = "create" THEN index = {} /\ columns[p] # {}
                         ELSE index # {}

\* The statement takes effect: everyone who is waiting lives through it.
Execute(p) ==
    /\ index' = IF job[p] = "create" THEN columns[p] ELSE {}
    /\ was' = [q \in Processes |-> IF pc[q] \in {"check", "exec"}
                                      THEN was[q] \cup {State(index')} ELSE was[q]]

Exec(p) ==
    /\ pc[p] = "exec"
    /\ \/ Accepts(p) /\ Execute(p) /\ \E err \in {"nil", "lost"} : Return(p, err)
       \/ ~Accepts(p) /\ Return(p, "refused") /\ UNCHANGED <<index, was>>
       \/ Return(p, "lost") /\ UNCHANGED <<index, was>>
    /\ UNCHANGED misled

CreateFullTextIndex(p) == \E cols \in SUBSET Columns : Call(p, "create", cols)
DropFullTextIndex(p) == Call(p, "drop", {})

Next ==
    \E p \in Processes :
        CreateFullTextIndex(p) \/ DropFullTextIndex(p) \/ Check(p) \/ Exec(p)

Spec == Init /\ [][Next]_vars

-----------------------------------------------------------------------------
(* What must hold.                                                         *)

Nil(p, what) == job[p] = what /\ result[p] = "nil"
Refused(p, what) == job[p] = what /\ result[p] = "refused"

\* An answer without an error is true, whoever else was at work: the index was
\* there, or was gone, at some moment of the call.  Only a drop that could not
\* ask reports success of an index that nothing has touched
\* (fulltext.go:28-30): a creator goes on to its statement and is told.
NilIsTrue ==
    \A p \in Processes :
        /\ Nil(p, "create") => "present" \in was[p]
        /\ Nil(p, "drop") => "absent" \in was[p] \/ misled[p]

\* A statement that is refused for the name although it asked first was
\* overtaken: somebody created, or dropped, the index in between.  For a creator
\* the index was there then, over whatever columns and perhaps not any more.
RefusalsHaveACause ==
    \A p \in Processes :
        /\ Refused(p, "create") => \/ columns[p] = {}
                                   \/ "present" \in was[p] /\ misled[p]
                                   \/ was[p] = {"absent", "present"}
        /\ Refused(p, "drop") => was[p] = {"absent", "present"}
=============================================================================
