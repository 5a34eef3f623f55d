--------------------------- MODULE MCAdminConsole ---------------------------
(***************************************************************************)
(* The console for TLC: one tab in which everything is done, a second that *)
(* signs in, looks at the pages and signs out.  Saving takes 1.5 seconds   *)
(* and a message 3, so that no more than two wait to be hidden.            *)
(***************************************************************************)
EXTENDS AdminConsole, TLC

CONSTANTS tab1, tab2

MCBounds == tab1 :> [rows |-> 4, hides |-> 2, logouts |-> 2]
         @@ tab2 :> [rows |-> 3, hides |-> 0, logouts |-> 1]
=============================================================================
