---------------------------- MODULE MCConfigPanel ----------------------------
EXTENDS ConfigPanel
CONSTANTS a, b
MCTables == {<<>>, <<a, b>>}
MCServices == (a :> {"stream", "net", "host", "ntp"} @@ b :> {"stream", "image", "osd"})
MCInexact == (a :> {"stream"} @@ b :> {"osd"})
=============================================================================
