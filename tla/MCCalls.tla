------------------------------ MODULE MCCalls ------------------------------
(* Instances of Calls for TLC.                                             *)
EXTENDS Calls

Value(n, type) == [kind |-> "value", n |-> n, type |-> type]
List(head, args) == [kind |-> "list", head |-> head, args |-> args]
Proc(kind, params, expansion) ==
  [kind |-> kind, params |-> params, result |-> "int", cto |-> FALSE,
   expansion |-> expansion]
MCProcs ==
  [f      |-> {Proc("fn", <<"int">>, [kind |-> "none"]), Proc("fn", <<"int", "int">>, [kind |-> "none"])},
   g      |-> {[Proc("fn", <<"int">>, [kind |-> "none"]) EXCEPT !.cto = TRUE],
               Proc("fn", <<PDNode>>, [kind |-> "none"])},
   m      |-> {Proc("macro", <<PDNode, PDNode>>, [kind |-> "first"]),
               Proc("macro", <<"int", PDNode>>, List("f", <<[kind |-> "variable", type |-> "int"]>>))},
   u      |-> {Proc("macro", <<PDNode>>, [kind |-> "first"])},
   r      |-> {Proc("macro", <<PDNode>>, [kind |-> "report"]), Proc("fn", <<"int">>, [kind |-> "none"])},
   nothing |-> {Proc("macro", <<>>, [kind |-> "null"])},
   c      |-> {Proc("extern_c", <<"char">>, [kind |-> "none"])},
   deref  |-> {Proc("fn", <<"struct">>, [kind |-> "none"])},
   invoke |-> {Proc("fn", <<"struct", "int">>, [kind |-> "none"])}]
MCCoreForms == [deref |-> [params |-> <<"int">>, result |-> "int"],
                sum |-> [params |-> <<"int", "int">>, result |-> "int"]]
MCVariables == [p |-> "fnptr", o |-> "struct", q |-> "other"]
MCPointed == [params |-> <<"int">>, result |-> "int"]

Leaves(n) == {Value(n, "int"), Value(n, "other"), [kind |-> "unknown"],
              [kind |-> "include"], List("nothing", <<>>)}
Few(n) == {Value(n, "int"), [kind |-> "unknown"], List("nothing", <<>>)}
Heads1 == {"f", "g", "u", "r", "c", "deref", "p", "o", "q", "destroy", "z"}
Heads2 == {"f", "m", "sum", "o"}
Inner(n) ==
  Leaves(n) \cup {List(h, <<a>>) : h \in {"f", "r", "c", "deref", "o"}, a \in Leaves(n)}
            \cup {List(h, <<a, b>>) : h \in {"m", "sum"}, a \in Few(n), b \in Few(n + 1)}
MCForms ==
  {List(h, <<a>>) : h \in Heads1, a \in Inner(1)}
    \cup {List(h, <<a, b>>) : h \in Heads2, a \in Inner(1), b \in Few(3)}

(* The forms that are met when these are parsed, and the values in each:   *)
(* they are numbered from left to right.                                   *)
PartsOf(form) ==
  IF form.kind # "list" THEN {}
  ELSE {form.args[k] : k \in 1 .. Len(form.args)}
         \cup IF form.head \in DOMAIN MCVariables THEN {Invoke(form.head, form.args)} ELSE {}
RECURSIVE AllOf(_), NumbersOf(_)
AllOf(forms) ==
  LET parts == UNION {PartsOf(form) : form \in forms} \ forms
  IN  IF parts = {} THEN forms ELSE AllOf(forms \cup parts)
NumbersOf(form) ==
  IF form.kind = "value" THEN {form.n}
  ELSE UNION {NumbersOf(part) : part \in PartsOf(form)}
MCAllForms ==
  AllOf(MCForms \cup {List("f", <<[kind |-> "variable", type |-> "int"]>>)})
ASSUME Numbered(MCAllForms, [form \in MCAllForms |-> NumbersOf(form)])
=============================================================================
