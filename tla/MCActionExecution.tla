-------------------------- MODULE MCActionExecution --------------------------
(* A control, and a twin that comes and goes in front of it.                *)
EXTENDS ActionExecution

MCRows == {<<"first">>, <<"twin", "first">>}

Ask(kind, policy, path, count) ==
    [kind |-> kind, policy |-> policy, path |-> path, count |-> count]

\* Path 0 names the only control, path 1 the first of two, path 2 the second.
MCRequests ==
    {Ask("invoke", "Never", 2, 0), Ask("right_click", "Never", 0, 2),
     Ask("set_value", "Never", 0, 1), Ask("focus_window", "Always", 1, 0),
     Ask("panel_probe", "OnFailure", 1, 0), Ask("read", "Never", 1, 0),
     Ask("bundle", "Never", 1, 0), Ask("ocr", "Never", 1, 0)}

\* Sessions are alike: the one with the first request may as well be session 1.
FirstIsFirst == made = 0 /\ made' = 1 => calls'[1] # None

=============================================================================
