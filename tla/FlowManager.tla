---------------------------- MODULE FlowManager ----------------------------
(***************************************************************************)
(* FlowManager.cc: the rules that were found on the switches, as operators *)
(* on fm = [rules, last_id].  A flow is the values that equalflows         *)
(* compares; Rule objects are never freed.  The rules are changed by one   *)
(* thread, with events in between: a change is a sequence of steps.        *)
(***************************************************************************)
EXTENDS Events, FiniteSets

NoRules(dpids) == [rules |-> [d \in dpids |-> <<>>], last_id |-> 0]

RuleObject(rule) == <<"rule", rule.id>>
RuleObjects(rules) == [i \in DOMAIN rules |-> RuleObject(rules[i])]

\* The step that leaves these rules to a switch
SetRules(dpid, rules) == [op |-> "rules", dpid |-> dpid, rules |-> rules]

Deletions(rules, hash) == [i \in DOMAIN rules |-> Addition("Delete", RuleObject(rules[i]), hash)]

\* addEvent for each rule that has been pushed back
Additions(dpid, kept, added, hash) ==
    FlattenSeq([i \in DOMAIN added |-> <<SetRules(dpid, kept \o SubSeq(added, 1, i)),
                                         Addition("Add", RuleObject(added[i]), hash)>>])

\* cleanSwitchRules, called by onSwitchDown
CleanSwitchRules(fm, hash, dpid) == Append(Deletions(fm.rules[dpid], hash), SetRules(dpid, <<>>))

\* The elements of s at the positions I, in order
At(s, I) == [k \in 1 .. Cardinality(I) |-> s[CHOOSE i \in I : Cardinality({j \in I : j <= i}) = k]]

Count(s, x) == Cardinality({j \in DOMAIN s : s[j] = x})
Nth(s, i) == Cardinality({j \in 1 .. i : s[j] = s[i]})

\* Mutant: a flow that has its rule stays in the list of new flows.
UpdateSwitchRulesNoErase(fm, hash, dpid, flows) ==
    LET rules == fm.rules[dpid]
        keep == {i \in DOMAIN rules : Count(flows, rules[i].flow) > 0}
        added == [i \in DOMAIN flows |-> [id |-> fm.last_id + i, flow |-> flows[i]]]
    IN  [last_id |-> fm.last_id + Len(added),
         steps |-> Deletions(At(rules, DOMAIN rules \ keep), hash) \o <<SetRules(dpid, At(rules, keep))>>
                     \o Additions(dpid, At(rules, keep), added, hash)]

\* updateSwitchRules: a rule takes the first equal flow out of the answer or is
\* removed; each flow that is left becomes a rule.  So the n-th rule of a flow
\* stays if the answer has it n times.
UpdateSwitchRules(fm, hash, dpid, flows) ==
    LET rules == fm.rules[dpid]
        old == [i \in DOMAIN rules |-> rules[i].flow]
        keep == {i \in DOMAIN old : Nth(old, i) <= Count(flows, old[i])}
        left == At(flows, {j \in DOMAIN flows : Nth(flows, j) > Count(old, flows[j])})
        added == [i \in DOMAIN left |-> [id |-> fm.last_id + i, flow |-> left[i]]]
    IN  [last_id |-> fm.last_id + Len(added),
         steps |-> Deletions(At(rules, DOMAIN rules \ keep), hash) \o <<SetRules(dpid, At(rules, keep))>>
                     \o Additions(dpid, At(rules, keep), added, hash)]

\* deleteRule on the switch (external): OFPFC_DELETE takes every flow with the
\* cookie whose match is at least as specific, whatever its priority.
DeletedBy(flow, table) ==
    {f \in table : f.cookie = flow.cookie /\ flow.match \subseteq f.match}
=============================================================================
