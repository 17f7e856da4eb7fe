--------------------------- MODULE MCTurnLifecycle ---------------------------
(***************************************************************************)
(* Small instances of TurnLifecycle.  A budget says which operations the   *)
(* clients, the other agents and the circuit breaker perform, and how      *)
(* often.                                                                  *)
(***************************************************************************)
EXTENDS TurnLifecycle, TLC

NoOperations == [op \in Operations |-> 0]

\* Turns started, steered, replaced and interrupted; or one turn that the client
\* steers and interrupts while the breaker aborts it and items are injected.
ClientBudgets ==
    {[NoOperations EXCEPT !["start"] = 1, !["steer"] = 1, !["shell"] = 1,
                          !["compact"] = 1, !["interrupt"] = 1],
     [NoOperations EXCEPT !["start"] = 1, !["steer"] = 1, !["inject"] = 1,
                          !["interrupt"] = 1, !["break"] = 1]}

\* Input from every side, and nobody aborts or replaces a turn.
InputBudgets ==
    {[NoOperations EXCEPT !["startIfIdle"] = 1, !["steer"] = 1, !["mail"] = 2,
                          !["inject"] = 1]}

StartAndMailBudgets ==
    {[NoOperations EXCEPT !["start"] = 2, !["mail"] = 1]}

StartAndBreakBudgets ==
    {[NoOperations EXCEPT !["start"] = 2, !["break"] = 1]}

InterruptAndMailBudgets ==
    {[NoOperations EXCEPT !["start"] = 1, !["interrupt"] = 1, !["mail"] = 1]}
=============================================================================
