------------------------------ MODULE MCDiffer ------------------------------
(***************************************************************************)
(* Instance of the differ: files of up to three statements.  A statement   *)
(* is a name, a number or a call of a function with one or two arguments;  *)
(* kinds "name" and "label" have one normalised kind.                      *)
(***************************************************************************)
EXTENDS Verifier

Node(kind, field, text, kids) ==
  [kind |-> kind, field |-> field, text |-> text, kids |-> kids]
Name(x) == Node("name", "none", x, << >>)
Label(x) == Node("label", "none", x, << >>)
Call(space, f, x) ==
  Node("call", "none", space, <<Node("name", "function", f, << >>),
                                Node("name", "argument", x, << >>)>>)
Block(kids) == Node("block", "none", "", kids)
File(space, kids) == Node("file", "none", space, kids)

MCNormalized == [k \in {"name", "label", "call", "block", "file"} |->
                   IF k = "label" THEN "name" ELSE k]

Pair(b, a, u) == [before |-> b, after |-> a, universal |-> u]
SeqsUpTo(S, n) == UNION {[1 .. k -> S] : k \in 0 .. n}

Calls == {Call("", "x", "x"), Call("", "x", "y"), Call(" ", "x", "y")}


\* Flat files: names that move, repeat, appear and vanish.
Flat == {File("", k) : k \in SeqsUpTo({Name("x"), Name("y"), Label("x"), Label("y")}, 3)}
\* Calls beside names, and one block of statements.
Nested == {File("", k) : k \in SeqsUpTo(Calls \cup {Name("x")}, 2)}
            \cup {File("", <<Block(k), l>>) : k \in SeqsUpTo(Calls, 2), l \in Calls \cup {Name("x")}}
\* Files without a grammar: tokens are part of their shape.
Lines == {File("", k) : k \in SeqsUpTo({Call("", "x", "x"), Call("", "x", "y")}, 2)}
\* More equal shapes than are scanned, and what a parse refuses.
Names(texts) == File("", [i \in DOMAIN texts |-> Name(texts[i])])
Refused == {File("", <<Node("error", "none", "", << >>)>>),
            Block(<<Name("x")>>),
            File("", <<Block(<<Block(<<Call("", "x", "x")>>)>>)>>)}

MCSources == {Pair(b, a, FALSE) : b \in Flat, a \in Flat}
               \cup {Pair(b, a, FALSE) : b \in Nested, a \in Nested}
               \cup {Pair(b, a, TRUE) : b \in Lines, a \in Lines}
               \cup {Pair(Names(<<"p", "q", "r", "s", "t">>),
                          Names(<<"u", "v", "w", "z">>), FALSE)}
               \cup {Pair(File(" ", <<Name("x")>>), r, FALSE) :
                       r \in Refused \cup {File("", <<Name("x")>>)}}

CONSTANTS EditedOnce, EditedTwice   \* bounds: nodes of the reports to edit

MCNext == \/ Produce \/ Verify \/ Recheck
          \/ /\ Len(before) + Len(after) <= IF edits = 0 THEN EditedOnce ELSE EditedTwice
             /\ Receive
MCSpec == DifferInit /\ [][MCNext]_allVars
=============================================================================
