----------------------------- MODULE MCModules -----------------------------
(* Instances of Modules for TLC.                                           *)
EXTENDS Modules

MCModuleOrder == <<"a", "b">>
Bind(ns, name, kind, linkage) ==
  [ns |-> ns, name |-> name, kind |-> kind, linkage |-> linkage]
MCDefinitions ==
  {Bind("", "std_f", "fn", "extern"), Bind("std", "f", "macro", "extern"),
   Bind("std", "i", "fn", "intern")}
MCHeaders ==
  [x |-> [tag |-> "x", defs |-> <<Bind("", "v", "var", "extern"),
                                  Bind("", "w", "fn", "extern_weak")>>]]
MCAsks == [a |-> {{}}, b |-> {{<<"std_f">>}}]
MCBegins == [k \in {<<"std_f", "std">>} |-> "f"]
MCOptions == {[static |-> {}, all |-> FALSE, removeMacros |-> FALSE],
              [static |-> {"b"}, all |-> FALSE, removeMacros |-> TRUE]}
=============================================================================
