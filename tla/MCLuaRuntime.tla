----------------------------- MODULE MCLuaRuntime -----------------------------
EXTENDS LuaRuntime

\* A timer whose event has two handlers, and onInit with one.
HandlersOfPlugin ==
    [e \in {"timer", "onInit", "onFileChanged"} |->
        IF e = "timer" THEN <<"f", "g">> ELSE IF e = "onInit" THEN <<"onInit">> ELSE << >>]

StrategiesOfPlugin == [e \in {"timer"} |-> {"BestEffort", "Precise"}]

FilesOfPlugin == <<"main">>
=============================================================================
