-------------------------- MODULE ActionLifecycle --------------------------
(***************************************************************************)
(* What plan_executor promises to the actions of a plan: the order of the  *)
(* virtual calls one of them can see (goap_action.h, the runtime hooks).   *)
(*                                                                         *)
(* At most one action is open, from an on_start that answered true to the  *)
(* on_end or on_interrupt that closes it; on_tick reaches only the open    *)
(* action.  An executor that failed, or lost its world, may drop the open  *)
(* action without a word: it is the only way an action is left unclosed.   *)
(***************************************************************************)
EXTENDS Sequences

CONSTANTS Action, NoAction

VARIABLES open,     \* the open action, or NoAction
          mode,     \* "running", "failed" or "stopped"
          calls     \* the calls of the last operation of the executor

lifecycleVars == <<open, mode, calls>>

Mode == {"running", "failed", "stopped"}

Init == open = NoAction /\ mode = "stopped" /\ calls = <<>>

\* Nothing is called and the open action stays open: the executor fails
\* between two actions or on a missing world, or is asked for nothing.
Quiet ==
    /\ calls' = <<>> /\ open' = open
    /\ mode' # mode /\ open # NoAction => mode' = "failed"

\* A plan is adopted or dropped while no action is open.
Change == open = NoAction /\ open' = NoAction /\ calls' = <<>> /\ mode' \in Mode

Start(a) ==
    /\ mode = "running" /\ open = NoAction
    /\ \/ calls' = <<<<"on_start_true", a>>>> /\ open' = a /\ mode' = mode
       \/ calls' = <<<<"on_start_false", a>>>> /\ open' = open /\ mode' = "failed"

Work(a) ==
    /\ mode = "running" /\ open = a /\ open' = a
    /\ \/ calls' = <<<<"on_tick_Running", a>>>> /\ mode' = mode
       \/ calls' = <<<<"on_tick_Failed", a>>>> /\ mode' = "failed"

Finish(a) ==
    /\ mode = "running" /\ open = a /\ open' = NoAction
    /\ calls' = <<<<"on_tick_Succeeded", a>>, <<"on_end", a>>>>
    /\ mode' \in {"running", "stopped"}

\* The open action failed and another plan takes over at once.
Replace(a) ==
    /\ mode = "running" /\ open = a /\ open' = NoAction
    /\ calls' = <<<<"on_tick_Failed", a>>, <<"on_interrupt", a>>>>
    /\ mode' = mode

Interrupt(a) ==
    /\ open = a /\ open' = NoAction /\ mode' \in Mode
    /\ calls' = <<<<"on_interrupt", a>>>>

\* A plan is set on a failed executor.
Abandon ==
    /\ mode = "failed" /\ open # NoAction /\ open' = NoAction
    /\ calls' = <<>> /\ mode' \in {"running", "failed"}

Next ==
    \/ Quiet \/ Change \/ Abandon
    \/ \E a \in Action : Start(a) \/ Work(a) \/ Finish(a) \/ Replace(a) \/ Interrupt(a)

Spec == Init /\ [][Next]_lifecycleVars
=============================================================================
