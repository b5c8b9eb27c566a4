------------------------------ MODULE MCWaitFor ------------------------------
(***************************************************************************)
(* WaitFor on a desktop with a form that is closed, opened again under a   *)
(* new id, and joined by a dialog; elements move between them, and one of  *)
(* the forms has two elements with one id.                                 *)
(***************************************************************************)
EXTENDS WaitFor

Loc(fingerprint, path) == [window_fingerprint |-> fingerprint, path |-> path]

El(id, locator, depth, visible, focused, fallback) ==
    [element_id |-> id, locator |-> locator, depth |-> depth, visible |-> visible,
     enabled |-> visible, focused |-> focused, fallback |-> fallback]

Win(id, title, class, nodes) ==
    [window_id |-> id, title |-> title, pid |-> 7, process_name |-> "1cv8",
     class_name |-> class, sized |-> TRUE, nodes |-> nodes]

Form ==
    Win("w1", "Form", "V8Window",
        <<El("root", Loc("f", "/"), 0, TRUE, FALSE, FALSE),
          El("pane", Loc("f", "/pane"), 1, TRUE, FALSE, TRUE),
          El("edit", Loc("f", "/pane/edit"), 2, TRUE, FALSE, FALSE),
          El("ok", Loc("f", "/ok"), 1, FALSE, FALSE, TRUE)>>)

\* A button was inserted before the one it is taken for, and the focus has moved.
Inserted ==
    Win("w1", "Form", "V8Window",
        <<El("root", Loc("f", "/"), 0, TRUE, FALSE, FALSE),
          El("ok", Loc("f", "/new"), 1, TRUE, FALSE, FALSE),
          El("pane", Loc("f", "/pane"), 1, TRUE, FALSE, TRUE),
          El("edit", Loc("f", "/pane/edit"), 2, TRUE, TRUE, FALSE),
          El("ok", Loc("f", "/ok"), 1, FALSE, FALSE, TRUE)>>)

\* The same form, opened again: other ids, the same locators.
Reopened ==
    Win("w2", "Form", "V8Window",
        <<El("root2", Loc("f", "/"), 0, TRUE, FALSE, FALSE),
          El("ok2", Loc("f", "/ok"), 1, TRUE, TRUE, FALSE)>>)

Dialog ==
    Win("w3", "Dialog", "#32770", <<El("ok3", Loc("d", "/"), 0, TRUE, FALSE, TRUE)>>)

MCSnapshots == {<<Form>>, <<Inserted>>, <<Reopened>>, <<Dialog, Form>>}

AnyWindow == [window_id |-> None, title |-> None, pid |-> None, process_name |-> None,
              class_name |-> None]

MCTargets ==
    {[kind |-> "Desktop"],
     [kind |-> "Window", locator |-> AnyWindow],
     [kind |-> "Window", locator |-> [AnyWindow EXCEPT !.title = "Form"]],
     [kind |-> "Window", locator |-> [AnyWindow EXCEPT !.window_id = "w1", !.title = "Other"]],
     [kind |-> "Element", element_id |-> None, locator |-> Loc("f", "/ok")],
     [kind |-> "Element", element_id |-> "pane", locator |-> None],
     [kind |-> "Region", window_id |-> None]}

\* Every target with a short deadline; windows and elements whose focus
\* comes and goes with a longer one, with and without a stability window.
MCRequests ==
    [target : MCTargets, condition : {"Exists", "Gone"}, timeout : {1}, stable_for : {1},
     attach : {"OnFailure"}]
    \cup
    [target : {t \in MCTargets : t.kind \in {"Window", "Element"}},
     condition : {"Focused"}, timeout : {2}, stable_for : {0, 1},
     attach : {"Never"}]

=============================================================================
