----------------------------- MODULE NodeHealth -----------------------------
(***************************************************************************)
(* How outcomes become a health flag: the functions of                     *)
(* packages/registry/src/store/memory.ts that both node stores share.  An  *)
(* outcome is TRUE for a success; a window holds them oldest first.        *)
(***************************************************************************)
EXTENDS Naturals, Sequences, FiniteSets

CONSTANTS
    HealthWindow,   \* HEALTH_WINDOW_SIZE
    UnhealthyAfter  \* UNHEALTHY_CONSECUTIVE_FAILURES

(* The current failure streak: the failures at the end of the window.       *)
consecutiveFailures(window) ==
    Cardinality({i \in 1 .. Len(window) : \A j \in i .. Len(window) : ~window[j]})

(* The health flag of deriveHealth, for a window that is not empty.         *)
deriveHealth(window) == consecutiveFailures(window) < UnhealthyAfter

=============================================================================
