------------------------------- MODULE MCScript --------------------------------
(* Instances of Script: loops over i and j, which may depend on i and x.      *)
EXTENDS ScriptMeaning

LoopsAndLets ==
    {For("i", Lit(2)), For("j", Ref("i")), EndFor, Let("x", Ref("i")), Run("x"), Run("j"),
     OneLiner("j", Lit(2), Run("j")), OneLiner("j", Ref("x"), Let("x", Ref("j"))), Include}
SetAndRun == <<Let("x", Lit(2)), Run("x")>>
================================================================================
