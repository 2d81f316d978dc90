------------------------------ MODULE ConnPool ------------------------------
(***************************************************************************)
(* open and openGorm of pkg/conn/conn.go: what the sizes of                *)
(* DbPoolSettings, unsigned in the settings and signed for database/sql,   *)
(* make of the limits of the pool.                                         *)
(*                                                                         *)
(* database/sql.DB is external: an open limit of 0 is none, two idle       *)
(* connections are kept by default, and the idle limit never exceeds the   *)
(* open one.                                                               *)
(*                                                                         *)
(* Configured_Fault is Configured with a fault that code like this could   *)
(* have.                                                                   *)
(***************************************************************************)
EXTENDS Integers

CONSTANT W    \* the width of uint and int

ASSUME WidthAssumption == W \in Nat \ {0, 1}

Sizes == 0 .. 2^W - 1
Limits == [idle : Nat, open : Nat]

\* int(u)
Signed(u) == IF u < 2^(W - 1) THEN u ELSE u - 2^W

NewPool == [idle |-> 2, open |-> 0]

Capped(idle, open) == IF open > 0 /\ idle > open THEN open ELSE idle

SetMaxIdleConns(pool, n) ==
    [pool EXCEPT !.idle = Capped(IF n > 0 THEN n ELSE 0, pool.open)]

SetMaxOpenConns(pool, n) ==
    LET open == IF n > 0 THEN n ELSE 0
    IN  [idle |-> Capped(pool.idle, open), open |-> open]

\* opt.ConnPool is not nil; a size of 0 leaves the default alone.
Configured_ZeroToo(idle, open) ==
    SetMaxOpenConns(SetMaxIdleConns(NewPool, Signed(idle)), Signed(open))
Configured(idle, open) ==
    LET withIdle == IF idle # 0 THEN SetMaxIdleConns(NewPool, Signed(idle)) ELSE NewPool
    IN  IF open # 0 THEN SetMaxOpenConns(withIdle, Signed(open)) ELSE withIdle

-----------------------------------------------------------------------------

Min2(a, b) == IF a < b THEN a ELSE b

\* What the caller gets for the sizes asked for: exactly those limits, as far
\* as the open limit allows idle connections, and the default for a size that
\* is 0.  A size that int cannot hold turns over: an open limit so large is no
\* limit, as good as asked, but an idle limit so large keeps no connection.
LimitsAreAsAsked(idle, open) ==
    LET pool      == Configured(idle, open)
        holds(u)  == u < 2^(W - 1)
        openLimit == IF holds(open) THEN open ELSE 0
        idleLimit == IF idle = 0 THEN 2 ELSE IF holds(idle) THEN idle ELSE 0
    IN  /\ pool \in Limits
        /\ pool.open = openLimit
        /\ pool.idle = IF openLimit = 0 THEN idleLimit ELSE Min2(idleLimit, openLimit)
=============================================================================
