----------------------------- MODULE MCLuaEngine -----------------------------
EXTENDS LuaEngine

CONSTANT A

\* Two plugins that name one state.
Plugins == <<A, A>>
=============================================================================
