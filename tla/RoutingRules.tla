---------------------------- MODULE RoutingRules ----------------------------
(***************************************************************************)
(* engine/routing_rules.py, the Advanced page that edits the rules, and    *)
(* the choice of a destination and of an action at the end of a download.  *)
(* A rule looks for its pattern in the name or in a tracker; the patterns  *)
(* a torrent's name and trackers contain stand for the strings.            *)
(***************************************************************************)
EXTENDS Naturals, FiniteSets, SequencesExt

CONSTANTS
    Names,      \* of rules
    Patterns    \* a rule may also be saved with an empty one

Blank == "blank"
Rule == [name : Names, pattern : Patterns \cup {Blank}, field : {"name", "tracker"}]

VARIABLES
    rules,      \* RoutingRuleStore._rules, and its file: every edit is written at once
    loaded      \* the stores RSS and the watch folder read when they were built

vars == <<rules, loaded>>

Init == rules = <<>> /\ loaded = <<>>

RuleNames(rs) == {rs[i].name : i \in DOMAIN rs}

(* The elements of s at the positions in I, in their order: the k-th comes *)
(* from the position up to which there are k.                              *)
Kept(s, I) ==
    [k \in 1 .. Cardinality(I) |-> s[CHOOSE i \in I : Cardinality({j \in I : j <= i}) = k]]

(* save_rule: a rule edited keeps its rank.                                *)
SaveRule(rule) ==
    /\ rules' = IF rule.name \in RuleNames(rules)
                THEN [i \in DOMAIN rules |-> IF rules[i].name = rule.name THEN rule ELSE rules[i]]
                ELSE Append(rules, rule)
    /\ UNCHANGED loaded

Delete(name) ==
    /\ rules' = Kept(rules, {i \in DOMAIN rules : rules[i].name # name})
    /\ UNCHANGED loaded

\* mutant: a rule the page did not list is dropped
Unlisted_Dropped(names) == <<>>

Unlisted(names) == Kept(rules, {i \in DOMAIN rules : rules[i].name \notin Range(names)})

(* reorder: `names' is what the page showed, deleted or newer rules apart. *)
Reorder(names) ==
    LET known == Kept(names, {i \in DOMAIN names : names[i] \in RuleNames(rules)})
        byName(n) == rules[CHOOSE i \in DOMAIN rules : rules[i].name = n]
    IN  /\ rules' = [i \in DOMAIN known |-> byName(known[i])] \o Unlisted(names)
        /\ UNCHANGED loaded

Restart == loaded' = rules /\ UNCHANGED rules

Next ==
    \/ \E rule \in Rule : SaveRule(rule)
    \/ \E name \in Names : Delete(name)
    \/ \E set \in SUBSET Names : \E names \in SetToSeqs(set) : Reorder(names)
    \/ Restart

Spec == Init /\ [][Next]_vars

----------------------------------------------------------------------------
Matches(rule, name, trackers) ==
    rule.pattern \in IF rule.field = "name" THEN name ELSE trackers

\* 0 stands for no rule
FindMatchingRule(rs, name, trackers) ==
    SelectInSeq(rs, LAMBDA r : r.pattern # Blank /\ Matches(r, name, trackers))

----------------------------------------------------------------------------
TypeOK == Range(rules) \cup Range(loaded) \subseteq Rule

(* Rules keep apart, and no reordering, with whatever list, loses one.     *)
NamesUnique == Len(rules) = Cardinality(RuleNames(rules))
NoRuleLost ==
    [][(\E set \in SUBSET Names : \E names \in SetToSeqs(set) : Reorder(names))
        => RuleNames(rules') = RuleNames(rules)]_vars

(* The rule chosen matches, an empty pattern never does, and no rule ahead *)
(* of it matches.                                                          *)
FirstMatchWins ==
    \A name, trackers \in SUBSET Patterns :
        LET m == FindMatchingRule(rules, name, trackers)
            hit == {i \in DOMAIN rules : rules[i].pattern \in Patterns
                                         /\ Matches(rules[i], name, trackers)}
        IN  IF hit = {} THEN m = 0 ELSE m \in hit /\ \A i \in hit : m <= i
=============================================================================
