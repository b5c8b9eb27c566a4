-------------------------- MODULE MCWindowsObserver --------------------------
(* A form that is retitled, relabelled, reordered, gains a control and is    *)
(* read while its focus moves, and a dialog that comes and goes.            *)
EXTENDS WindowsObserver, WindowIdentity

Raw(ctype, class, auto, name, handle, focused, children) ==
    [ctype |-> ctype, class |-> class, auto |-> auto, name |-> name, handle |-> handle,
     bounds |-> 1, focused |-> focused, children |-> children]

\* The edit field has a handle of its own.
Field(focused) == Raw("Edit", "v8edit", "field", "field", 11, focused, << >>)
Button(name, auto, focused) == Raw("Button", "button", auto, name, None, focused, << >>)

Form(title, children) ==
    [pid |-> 5, process_name |-> "app", title |-> title,
     root |-> Raw("Window", "v8form", None, "root", 1, FALSE, children)]

Ok(focused) == Button("go", "ok", focused)
Cancel == Button("stop", "cancel", FALSE)
Plain == Form("form", <<Field(TRUE), Ok(FALSE), Cancel>>)
Torn == Form("form", <<Field(TRUE), Ok(TRUE), Cancel>>)
Grown == Form("form", <<Button("ask", "help", FALSE), Ok(FALSE), Cancel, Field(TRUE)>>)
Reordered == Form("designer",
                  <<Button("run", "ok", TRUE), Button("halt", "cancel", FALSE), Field(FALSE)>>)

Dialog == [pid |-> 6, process_name |-> "app", title |-> "form",
           root |-> Raw("Window", "plain", "dialog", "form", 2, FALSE, << >>)]

MCSurfaces(h) == IF h = 1 THEN {Plain, Reordered, Grown, Torn} ELSE {Dialog}

MCDesktops == {<<Plain, None>>, <<Grown, Dialog>>}

MCHints(text) ==
    CASE text = "designer" -> {"configurator"}
      [] text = "v8form"   -> {"v8", "v8class"}
      [] text = "v8edit"   -> {"v8", "v8class"}
      [] OTHER -> {}

\* Fingerprints differ in their handle (third), their title (fifth) and their kind.
MCHash(f) ==
    100 * f[3] + 10 * (IF f[5] = "designer" THEN 1 ELSE 0) + (IF f[1] = "uia" THEN 1 ELSE 2)

Profile(attached, filter, domain) == [attached |-> attached, filter |-> filter, domain |-> domain]

MCProfiles == {
    Profile(FALSE, {}, "Generic"),
    Profile(TRUE, {[AnyFilter EXCEPT !.window_id = 101]}, "Generic"),
    Profile(FALSE, {[AnyFilter EXCEPT !.title = "form"]}, "OnecEnterpriseUi"),
    Profile(TRUE, {}, "OnecConfigurator") }

\* Every capture of every surface and of the controls in it, and what keeping
\* the ids of one window in a capture of another with its handle gives.
MCCaptures ==
    UNION {UNION {
        {Captured(h, open, backend) : backend \in Backends}
          \cup {Captured(n.handle, AsWindow(open, n), backend) :
                  n \in {n \in RawNodes(open.root) : n.handle \notin {None, h}}, backend \in Backends} :
        open \in MCSurfaces(h)} : h \in Handles}

RECURSIVE Stabilized(_)
Stabilized(windows) ==
    LET pairs == {p \in windows \X windows :
                    window_matches_hwnd(p[1], window_native_handle(p[2]))}
        more  == windows \cup {stabilize_window(p[1], p[2]) : p \in pairs}
    IN  IF more = windows THEN windows ELSE Stabilized(more)

MCWindows == Stabilized(MCCaptures)

=============================================================================
