SPECIFICATION FairSpec
CONSTANTS
  NoElement = NoElement
  None = NoElement
  NoSnapshot = NoSnapshot
  Hints <- MCHints
  Hash <- MCHash
  MaxDepth = 4
  Windows <- MCWindows
  RawTree <- RawNodes
  Capture <- Captured
  KeepIds <- stabilize_window
  TreeNodes <- NodesOf
  Shown <- BareWindow
  HasAmbiguity <- AmbiguousWindow
  Visible <- is_projected
  Annotated <- projected
  NoFocus = NoElement
  InTree <- Has
  BelowRoot <- HasBelow
  WithChild <- add_to_tree
  WithoutNode <- remove_node_from_children
  WithNode <- replace_node_in_tree
  WithAttr <- change_property
  WithoutFocus <- clear_focus
  WithFocus <- set_focus
  FocusOf <- focused_element_id
  Handles = {1, 2}
  Surfaces <- MCSurfaces
  Desktops <- MCDesktops
  Profiles <- MCProfiles
  MaxChanges = 2
  MaxFaults = 1
INVARIANTS
  TypeOK
  DaemonFollows
  NothingForgotten
  IdsKeptUnlessInserted
PROPERTIES
  EventuallyShown
CHECK_DEADLOCK FALSE
