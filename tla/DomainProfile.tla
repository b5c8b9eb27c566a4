----------------------------- MODULE DomainProfile -----------------------------
(***************************************************************************)
(* What a session sees of the observed desktop (vmui-platform-windows,     *)
(* project_windows): the window filter of its profile, the domain profiles *)
(* for 1C applications, and the annotations they add to every node.        *)
(*                                                                         *)
(* Names, titles and classes are abstract texts; Hints(text) is the set of *)
(* things the code looks for in a text.  A node's properties are its attr. *)
(***************************************************************************)
EXTENDS UiTree, FiniteSets

CONSTANT Hints(_)    \* which of HintKinds a text contains

\* A 1C word, a configurator word, a designer word, a word for metadata; a
\* class that contains "v8", one that starts with it.
HintKinds == {"1c", "configurator", "designer", "metadata", "v8", "v8class"}

Domains == {"Generic", "OnecEnterpriseUi", "OnecConfigurator"}

FilterFields == {"window_id", "title", "pid", "process_name", "class_name"}

text_has_any(text, kinds) == text # NoElement /\ Hints(text) \cap kinds # {}

RECURSIVE NodesOf(_)
NodesOf(node) == {node} \cup UNION {NodesOf(node.children[i]) : i \in DOMAIN node.children}

tree_has_v8_surface(root) == \E n \in NodesOf(root) : text_has_any(n.attr.class, {"v8class"})

tree_has_profile_hint(root) ==
    \E n \in NodesOf(root) : text_has_any(n.attr.name, {"designer"})
                                \/ text_has_any(n.attr.class, {"designer"})

looks_like_onec_window(window) ==
    \/ text_has_any(window.title, {"1c", "configurator"})
    \/ text_has_any(window.root.attr.name, {"1c", "configurator"})
    \/ text_has_any(window.root.attr.class, {"v8class"})

looks_like_configurator_window(window) ==
    \/ text_has_any(window.title, {"configurator"})
    \/ text_has_any(window.root.attr.name, {"configurator"})
    \/ tree_has_profile_hint(window.root)

\* The process names of 1C clients are among the 1C words here.
matches_domain_profile(window, domain) ==
    \/ domain = "Generic"
    \/ /\ \/ text_has_any(window.process_name, {"1c"})
          \/ looks_like_onec_window(window)
          \/ tree_has_v8_surface(window.root)
       /\ looks_like_configurator_window(window) <=> domain = "OnecConfigurator"

\* Every field of the filter that is given; no filter admits everything.
matches_window_filter(window, filter) ==
    /\ filter.window_id # NoElement    => window.id = filter.window_id
    /\ filter.title # NoElement        => window.title = filter.title
    /\ filter.pid # NoElement          => window.pid = filter.pid
    /\ filter.process_name # NoElement => window.process_name = filter.process_name
    /\ filter.class_name # NoElement   => window.root.attr.class = filter.class_name

AnyFilter == [field \in FilterFields |-> NoElement]

-----------------------------------------------------------------------------
(* Annotations.                                                            *)

fallback_reason_for_node(attr) ==
    IF attr.backend # "Uia" THEN "fallback_backend"
    ELSE IF /\ text_has_any(attr.class, {"v8"})
            /\ attr.name = NoElement /\ attr.auto = NoElement
            /\ attr.ctype \in {"Custom", "Pane", "Window"}
      THEN "weak_semantic_metadata"
    ELSE NoElement        \* a UIA node always has confidence 1.0

onec_profile_for_node(attr, window_profile) ==
    LET v8 == text_has_any(attr.class, {"v8"})
        configurator == window_profile = "configurator_window"
    IN CASE attr.ctype = "Tree" /\ text_has_any(attr.name, {"metadata"}) -> "configurator_metadata_tree"
         [] attr.ctype = "Edit" /\ v8 /\ configurator    -> "configurator_text_editor"
         [] attr.ctype = "Edit" /\ v8 /\ ~configurator   -> "ordinary_form_text_input"
         [] attr.ctype = "Pane" /\ v8                    -> "ordinary_form_surface"
         [] attr.ctype = "Custom" /\ v8                  -> "opaque_onec_surface"
         [] attr.ctype = "Window" /\ v8 /\ configurator  -> "configurator_root"
         [] attr.ctype = "Window" /\ v8 /\ ~configurator -> "ordinary_form_root"
         [] OTHER -> NoElement

RECURSIVE annotate_onec_node(_, _, _)
annotate_onec_node(node, mode, window_profile) ==
    [node EXCEPT
        !.attr.notes = [mode |-> mode, window_profile |-> window_profile,
                        profile |-> onec_profile_for_node(node.attr, window_profile),
                        fallback |-> fallback_reason_for_node(node.attr)],
        !.children = [i \in DOMAIN @ |-> annotate_onec_node(@[i], mode, window_profile)]]

annotate_domain_window(window, domain) ==
    IF domain = "Generic" THEN window
    ELSE [window EXCEPT !.root =
             annotate_onec_node(@, domain, IF looks_like_configurator_window(window)
                                             THEN "configurator_window"
                                             ELSE "ordinary_form_window")]

-----------------------------------------------------------------------------
(* project_windows, of one window.  profile: [attached, filter (a set of   *)
(* at most one), domain].                                                  *)

\* An attached session without a filter is shown nothing.
is_projected(profile, window) ==
    /\ profile.attached => profile.filter # {}
    /\ \A filter \in profile.filter : matches_window_filter(window, filter)
    /\ matches_domain_profile(window, profile.domain)

projected(profile, window) == annotate_domain_window(window, profile.domain)

=============================================================================
