------------------------------- MODULE MCCommands -------------------------------
EXTENDS Commands

File(d, n, w) == [dir |-> d, name |-> n, of |-> w]
MCLeft == {File("state", "wezsesh.log", "wezsesh"), File("state", "state.json", "wezsesh"),
           File("trust", "hash", "wezsesh"), File("runtime", ".sock", "wezsesh"), File("req", ".json", "wezsesh"),
           File("workspace", ".wezsesh.json", "wezsesh"), File("workspace", ".json", "resurrect"),
           File("req", ".tmp", "wezsesh"), File("workspace", ".wezsesh.sidecar.lock", "wezsesh")}
\* The snapshot of a workspace that is called x.wezsesh.
MCNamedLikeSidecar == MCLeft \cup {File("workspace", ".wezsesh.json", "resurrect")}
MCHook(create, restore) == [on_create |-> create, on_restore |-> restore]
MCShapes == {MCHook("c", "none"), MCHook("c", "c")}
MCPane(w, n, f) == [workspace |-> w, window |-> n, fields |-> f]
MCPaneOf == <<MCPane("a", 1, <<0, 0, 0, 8>>), MCPane("b", 1, <<4, 0, 0, 8>>), MCPane("b", 2, <<0, 6, 0, 0>>)>>
MCNames == {<<1>>, <<1, 2>>}
MCInvalid == {<<9>>}
=============================================================================
