------------------------------ MODULE MCLLMPass ------------------------------
(* Two ingests of two small files: "a.py" with a nested function and a     *)
(* caller of one bound and three unbound calls, before and after a third   *)
(* function appears; and a walk over a blank file, two files of the same   *)
(* content and files that exceed the one cap, or the other.                *)
EXTENDS LLMPass

Fn(id, name, file, first, last, calls) ==
    [id |-> id, type |-> "function", name |-> name, file |-> file,
     first |-> first, last |-> last, calls |-> calls]

main == Fn(1, "main", "a", 1, 9, {3})
inner == Fn(2, "inner", "a", 4, 6, {})
helper == Fn(3, "helper", "b", 1, 2, {})
late == Fn(4, "late", "b", 4, 5, {})
class == [Fn(5, "Box", "b", 6, 9, {}) EXCEPT !.type = "class"]

CallOf(line, callee, method) == [file |-> "/x/a", line |-> line, callee |-> callee, method |-> method]
bound == CallOf(2, "mod.helper", "helper")
unknown == CallOf(3, "go", "go")
nested == CallOf(5, "helper", "helper")
again == CallOf(8, "go", "go")
outside == CallOf(12, "go", "go")

MCInputs == {[artifacts |-> <<main, inner, helper>>, calls |-> <<bound, unknown, again, outside>>],
             [artifacts |-> <<main, inner, helper, late, class>>, calls |-> <<unknown, nested>>]}
MCEndsWith == {<<"/x/a", "a">>}
MCAnswers == {[target |-> 3, confidence |-> c] : c \in {1, 2, 3}}
             \cup {[target |-> 9, confidence |-> 3]}

Source(file, content, tokens) ==
    [file |-> file, suffix |-> "go", content |-> content, tokens |-> tokens, blank |-> FALSE]
MCWalks == {<<[Source("e", "empty", 1) EXCEPT !.blank = TRUE],
              Source("f", "text", 1), Source("g", "text", 1), Source("h", "more", 2)>>,
            <<Source("i", "long", 3), Source("h", "more", 2), Source("f", "text", 1)>>}
Rec(kind, line, end) == [kind |-> kind, line |-> line, end |-> end]
MCPayloads == {{Rec("symbol", 2, 1), Rec("symbol", 0, None), Rec("endpoint", 3, 4)}}
=============================================================================
