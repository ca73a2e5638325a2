----------------------------- MODULE TraceTree -----------------------------
(***************************************************************************)
(* The trace tree of maple (maple/TraceTree.cc) as a value: what the       *)
(* handlers asked of the packets seen so far, with a flow at the end of    *)
(* every explored path.                                                    *)
(*                                                                         *)
(* A trace is the sequence of calls on the Tracer that one run of the      *)
(* handlers makes.  The pointers of the C++ nodes are weak: a flow counts  *)
(* as long as it is in `live`.                                             *)
(***************************************************************************)
EXTENDS Oxm, Sequences, SequencesExt

CONSTANTS NoFlow,    \* the null pointer that lookup returns
          Miss       \* the flow of the table-miss rule, used as barrier

Unexplored == [node |-> "unexplored"]

FlowNode(f) == [node |-> "flow", flow |-> f]

TestNode(need, pos, neg) ==
    [node |-> "test", need |-> need, positive |-> pos, negative |-> neg]

LoadNode(mask, cases) == [node |-> "load", mask |-> mask, cases |-> cases]

----------------------------------------------------------------------------
(* Lookup *)

RECURSIVE Lookup(_, _, _)
Lookup(t, pkt, live) ==
    CASE t.node = "unexplored" -> NoFlow
      [] t.node = "flow" -> IF t.flow \in live THEN t.flow ELSE NoFlow
      [] t.node = "test" ->
            Lookup(IF Agree(pkt, t.need) THEN t.positive ELSE t.negative, pkt, live)
      [] t.node = "load" ->
            LET value == Load(pkt, t.mask)
            IN  IF value \in DOMAIN t.cases
                THEN Lookup(t.cases[value], pkt, live)
                ELSE NoFlow

----------------------------------------------------------------------------
(* TracerImpl: load, test and finish.  The calls of a trace walk down the  *)
(* tree and extend it where it is unexplored.  A call that does not fit    *)
(* the node throws inconsistent_trace and leaves the rest as it is.        *)

Fits(t, call) ==
    \/ t.node = "unexplored"
    \/ /\ call.op = "load"
       /\ t.node = "load"
       /\ t.mask = DOMAIN call.data
    \/ /\ call.op = "test"
       /\ t.node = "test"
       /\ t.need = call.need

\* The node that a call continues at, before the call extends the tree.
Child(t, call) ==
    CASE t.node = "unexplored" -> Unexplored
      [] t.node = "load" ->
            IF call.data \in DOMAIN t.cases THEN t.cases[call.data] ELSE Unexplored
      [] t.node = "test" -> IF call.ret THEN t.positive ELSE t.negative

\* Node t with the child that the call continues at replaced by c.
WithChild(t, call, c) ==
    CASE call.op = "load" ->
            LoadNode(DOMAIN call.data,
                     (call.data :> c) @@ IF t.node = "load" THEN t.cases ELSE <<>>)
      [] call.op = "test" ->
            LET other == IF t.node = "unexplored" THEN Unexplored
                         ELSE IF call.ret THEN t.negative ELSE t.positive
            IN  IF call.ret THEN TestNode(call.need, c, other)
                            ELSE TestNode(call.need, other, c)

\* finish is not called for a disposable flow (leaf = NoFlow).
RECURSIVE Augment(_, _, _)
Augment(t, trace, leaf) ==
    IF trace = <<>>
    THEN IF leaf # NoFlow /\ t.node \in {"unexplored", "flow"} THEN FlowNode(leaf) ELSE t
    ELSE IF Fits(t, Head(trace))
         THEN WithChild(t, Head(trace),
                        Augment(Child(t, Head(trace)), Tail(trace), leaf))
         ELSE t

RECURSIVE Consistent(_, _, _)
Consistent(t, trace, leaf) ==
    IF trace = <<>>
    THEN leaf = NoFlow \/ t.node \in {"unexplored", "flow"}
    ELSE /\ Fits(t, Head(trace))
         /\ Consistent(Child(t, Head(trace)), Tail(trace), leaf)

----------------------------------------------------------------------------
(* Compiler.  The visitor has a match that it changes on the way down and  *)
(* restores on the way up, and calls install with growing priorities: the  *)
(* priority of a call is its index in `rules`.                             *)

InstallCall(c, f) == [c EXCEPT !.rules = Append(@, [match |-> c.match, flow |-> f])]

RECURSIVE Visit(_, _, _)
\* Mutant: the rules of the positive branch get the lower priorities.
VisitPositiveFirst(c, t, live) ==
    CASE t.node = "unexplored" -> c
      [] t.node = "flow" -> IF t.flow \in live THEN InstallCall(c, t.flow) ELSE c
      [] t.node = "test" ->
            LET p == Visit([c EXCEPT !.match = Modify(@, t.need)], t.positive, live)
                b == InstallCall(p, Miss)
            IN  Visit([b EXCEPT !.match = Erase(@, DOMAIN t.need)], t.negative, live)
      [] t.node = "load" ->
            LET Record(acc, value) ==
                    LET v == Visit([acc EXCEPT !.match = Modify(@, value)],
                                   t.cases[value], live)
                    IN  [v EXCEPT !.match = Erase(@, t.mask)]
            IN  FoldLeft(Record, c, SetToSeq(DOMAIN t.cases))

Visit(c, t, live) ==
    CASE t.node = "unexplored" -> c
      [] t.node = "flow" -> IF t.flow \in live THEN InstallCall(c, t.flow) ELSE c
      [] t.node = "test" ->
            LET n == Visit(c, t.negative, live)
                b == InstallCall([n EXCEPT !.match = Modify(@, t.need)], Miss)
                p == Visit(b, t.positive, live)
            IN  [p EXCEPT !.match = Erase(@, DOMAIN t.need)]
      [] t.node = "load" ->
            LET Record(acc, value) ==
                    LET v == Visit([acc EXCEPT !.match = Modify(@, value)],
                                   t.cases[value], live)
                    IN  [v EXCEPT !.match = Erase(@, t.mask)]
            IN  FoldLeft(Record, c, SetToSeq(DOMAIN t.cases))

Compile(t, live) == Visit([match |-> <<>>, rules |-> <<>>], t, live).rules

\* The flow whose rule a table with these rules would apply to a packet.
Applied(rules, pkt) ==
    LET hits == {i \in DOMAIN rules : Matches(rules[i].match, pkt)}
    IN  IF hits = {} THEN NoFlow ELSE rules[CHOOSE i \in hits : \A j \in hits : j <= i].flow

============================================================================
