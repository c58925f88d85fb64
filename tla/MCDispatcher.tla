---------------------------- MODULE MCDispatcher ----------------------------
(***************************************************************************)
(* Model-checking instance of Dispatcher.  Three plugins in GetPlugins     *)
(* order a, b, c: a and b enabled and subscribed to both events, c         *)
(* disabled and subscribed to the PRE event, so that a dispatch can call   *)
(* two guests and skip a third.  The guest results cover an error, a       *)
(* handled write, a silent result, and cancelling with and without        *)
(* handling or writing.                                                    *)
(***************************************************************************)
EXTENDS Dispatcher

CONSTANTS a, b, c, pre, post, d1, d2

MCOrder       == <<a, b, c>>
MCEnabled     == {a, b}
MCSubscribes  == (a :> {pre, post}) @@ (b :> {pre, post}) @@ (c :> {pre})
MCCancellable == {pre}
\* load bounds: c may be loaded again after an Unload; every plugin, or none
MCLoadsReloadC == (a :> 1) @@ (b :> 1) @@ (c :> 2)
MCLoadsTwice   == [p \in {a, b, c} |-> 2]
MCLoadsOnce    == [p \in {a, b, c} |-> 1]

Err == [err |-> TRUE, handled |-> FALSE, cancel |-> FALSE, writes |-> FALSE]
OK(h, x, w) == [err |-> FALSE, handled |-> h, cancel |-> x, writes |-> w]
MCOutcomes ==
  {Err, OK(TRUE, FALSE, TRUE), OK(FALSE, FALSE, FALSE),
   OK(TRUE, TRUE, FALSE), OK(FALSE, TRUE, TRUE)}
\* two dispatching goroutines, with fewer guest results
MCOutcomesSmall == {Err, OK(TRUE, FALSE, TRUE), OK(TRUE, TRUE, FALSE)}
=============================================================================
