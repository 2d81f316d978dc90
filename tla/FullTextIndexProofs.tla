------------------------ MODULE FullTextIndexProofs ------------------------
(***************************************************************************)
(* Proofs about FullTextIndex, for any processes and columns.              *)
(***************************************************************************)
EXTENDS FullTextIndex, TLAPS

\* Whoever has called wants one thing or the other.
HasJob == \A p \in Processes : pc[p] # "idle" => job[p] \in {"create", "drop"}

\* What the index is now is in the history of everyone who waits.
NowIsKnown ==
    \A p \in Processes : pc[p] \in {"check", "exec"} => State(index) \in was[p]

\* A statement is sent because the question was answered "no" to a creator, or
\* "yes" to a dropper, and "no" is all that a question that failed can say.
SentForAReason ==
    \A p \in Processes : pc[p] = "exec" =>
        /\ job[p] = "create" => "absent" \in was[p] \/ misled[p]
        /\ job[p] = "drop" => "present" \in was[p]

IInv ==
    /\ TypeOK
    /\ HasJob
    /\ NowIsKnown
    /\ SentForAReason
    /\ NilIsTrue
    /\ RefusalsHaveACause

-----------------------------------------------------------------------------
(* The invariant is inductive.                                             *)

LEMMA IInvInit == Init => IInv
  BY DEF Init, IInv, TypeOK, HasJob, NowIsKnown, SentForAReason, NilIsTrue,
         RefusalsHaveACause, Nil, Refused

\* A call begins: nothing of the one before is left.
LEMMA CallKeeps ==
  ASSUME IInv, NEW p \in Processes, NEW what \in {"create", "drop"},
         NEW cols \in SUBSET Columns, Call(p, what, cols)
  PROVE  IInv'
  <1> USE DEF IInv, Call
  <1>1. TypeOK'
    BY DEF TypeOK, State
  <1>2. HasJob' /\ NowIsKnown' /\ SentForAReason'
    BY DEF TypeOK, HasJob, NowIsKnown, SentForAReason, State
  <1>3. NilIsTrue' /\ RefusalsHaveACause'
    BY DEF TypeOK, NilIsTrue, RefusalsHaveACause, Nil, Refused
  <1>4. QED
    BY <1>1, <1>2, <1>3

\* The question, and a call that ends with its answer.
LEMMA CheckKeeps ==
  ASSUME IInv, NEW p \in Processes, Check(p)
  PROVE  IInv'
  <1> USE DEF IInv, Check, Return
  <1>1. TypeOK'
    BY DEF TypeOK
  <1>2. HasJob' /\ NowIsKnown'
    BY DEF TypeOK, HasJob, NowIsKnown
  <1>3. SentForAReason'
    BY DEF TypeOK, SentForAReason, NowIsKnown, State, HasIndex, Satisfied
  <1>4. NilIsTrue'
    BY DEF TypeOK, NilIsTrue, HasJob, NowIsKnown, State, Nil, HasIndex, Satisfied
  <1>5. RefusalsHaveACause'
    BY DEF TypeOK, RefusalsHaveACause, Refused
  <1>6. QED
    BY <1>1, <1>2, <1>3, <1>4, <1>5

\* The statement.  Histories only grow, and what the statement made of the
\* index is in the history of everyone who waits.
LEMMA ExecKeeps ==
  ASSUME IInv, NEW p \in Processes, Exec(p)
  PROVE  IInv'
  <1> USE DEF IInv
  <1>1. pc[p] = "exec" /\ pc' = [pc EXCEPT ![p] = "returned"]
        /\ UNCHANGED <<job, columns, misled>>
    BY DEF Exec, Return
  <1>2. CASE Accepts(p) /\ Execute(p) /\ \E err \in {"nil", "lost"} : Return(p, err)
    <2>1. index' \in SUBSET Columns
      BY <1>2 DEF Execute, TypeOK
    <2>2. was' \in [Processes -> SUBSET {"absent", "present"}]
      BY <1>2 DEF Execute, TypeOK, State
    <2>3. TypeOK'
      <3>1. PICK err \in {"nil", "lost"} : Return(p, err)
        BY <1>2
      <3>2. result' = [result EXCEPT ![p] = err]
        BY <3>1 DEF Return
      <3>3. result' \in [Processes -> {"none", "nil", "refused", "lost"}]
        BY <3>2 DEF TypeOK
      <3>4. pc' \in [Processes -> {"idle", "check", "exec", "returned"}]
        BY <1>1 DEF TypeOK
      <3>5. \A q \in Processes : pc'[q] = "returned" <=> result'[q] # "none"
        BY <1>1, <3>2 DEF TypeOK
      <3>6. QED
        BY <1>1, <2>1, <2>2, <3>3, <3>4, <3>5 DEF TypeOK
    <2>4. \A q \in Processes :
             /\ was[q] \subseteq was'[q]
             /\ pc[q] \in {"check", "exec"} => State(index)' \in was'[q]
             /\ pc[q] \notin {"check", "exec"} => was'[q] = was[q]
      BY <1>2 DEF Execute, TypeOK, State
    <2>5. HasJob' /\ NowIsKnown' /\ SentForAReason'
      BY <1>1, <2>4 DEF HasJob, NowIsKnown, SentForAReason, TypeOK
    <2>6. State(index)' = IF job[p] = "create" THEN "present" ELSE "absent"
      BY <1>2 DEF Accepts, Execute, State
    <2>7. NilIsTrue'
      BY <1>1, <1>2, <2>4, <2>6 DEF Return, NilIsTrue, Nil, TypeOK
    <2>8. \A q \in Processes : result'[q] = "refused" =>
             q # p /\ result[q] = "refused" /\ was'[q] = was[q]
      BY <1>1, <1>2, <2>4 DEF Return, TypeOK
    <2>9. RefusalsHaveACause'
      BY <1>1, <2>8 DEF RefusalsHaveACause, Refused
    <2>10. QED
      BY <2>3, <2>5, <2>7, <2>9
  <1>3. CASE ~Accepts(p) /\ Return(p, "refused") /\ UNCHANGED <<index, was>>
    <2>1. TypeOK' /\ HasJob' /\ NowIsKnown' /\ SentForAReason' /\ NilIsTrue'
      BY <1>1, <1>3 DEF Return, TypeOK, HasJob, NowIsKnown, SentForAReason,
                        NilIsTrue, Nil, State
    <2>2. job[p] = "create" =>
             \/ columns[p] = {}
             \/ "present" \in was[p] /\ misled[p]
             \/ was[p] = {"absent", "present"}
      BY <1>1, <1>3 DEF Accepts, NowIsKnown, SentForAReason, State, TypeOK
    <2>3. job[p] = "drop" => was[p] = {"absent", "present"}
      BY <1>1, <1>3 DEF Accepts, NowIsKnown, SentForAReason, State, TypeOK
    <2>4. RefusalsHaveACause'
      BY <1>1, <1>3, <2>2, <2>3 DEF Return, RefusalsHaveACause, Refused, TypeOK
    <2>5. QED
      BY <2>1, <2>4
  <1>4. CASE Return(p, "lost") /\ UNCHANGED <<index, was>>
    BY <1>1, <1>4 DEF Return, TypeOK, HasJob, NowIsKnown, SentForAReason,
                      NilIsTrue, RefusalsHaveACause, Nil, Refused, State
  <1>5. QED
    BY <1>2, <1>3, <1>4 DEF Exec

LEMMA IInvStep == IInv /\ [Next]_vars => IInv'
  <1> SUFFICES ASSUME IInv, [Next]_vars
               PROVE  IInv'
    OBVIOUS
  <1>1. ASSUME NEW p \in Processes, CreateFullTextIndex(p)
        PROVE  IInv'
    BY <1>1, CallKeeps DEF CreateFullTextIndex
  <1>2. ASSUME NEW p \in Processes, DropFullTextIndex(p)
        PROVE  IInv'
    BY <1>2, CallKeeps DEF DropFullTextIndex
  <1>3. CASE UNCHANGED vars
    BY <1>3 DEF vars, local, IInv, TypeOK, HasJob, NowIsKnown, SentForAReason,
                NilIsTrue, RefusalsHaveACause, Nil, Refused, State
  <1>4. QED
    BY <1>1, <1>2, <1>3, CheckKeeps, ExecKeeps DEF Next

LEMMA Invariance == Spec => []IInv
  <1>1. QED
    BY IInvInit, IInvStep, PTL DEF Spec

-----------------------------------------------------------------------------
(* What follows from the invariant.                                        *)

\* Every variable of FullTextIndex stays in the set of values the code gives it.
THEOREM TypeCorrect == Spec => []TypeOK
  <1>1. IInv => TypeOK
    BY DEF IInv
  <1>2. QED
    BY <1>1, Invariance, PTL

\* CreateFullTextIndex and DropFullTextIndex return nil only if the index was
\* there, or was gone, at some moment of the call, whoever else was at work.
THEOREM SuccessIsTrue == Spec => []NilIsTrue
  <1>1. IInv => NilIsTrue
    BY DEF IInv
  <1>2. QED
    BY <1>1, Invariance, PTL

\* A statement that is refused was overtaken by another process, or was sent
\* after a question that failed, or names no columns.
THEOREM RefusalsAreRaces == Spec => []RefusalsHaveACause
  <1>1. IInv => RefusalsHaveACause
    BY DEF IInv
  <1>2. QED
    BY <1>1, Invariance, PTL
=============================================================================
