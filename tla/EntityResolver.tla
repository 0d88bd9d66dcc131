---------------------------- MODULE EntityResolver ----------------------------
(***************************************************************************)
(* app/discovery/entity_resolver.py for one entity: which object supplies   *)
(* its names and codes, the tables built from it, and the tiers that map    *)
(* what a user typed to a stored value.                                     *)
(*                                                                         *)
(* The string functions are constants: Norm stands for normalise, Core for  *)
(* core_form, CodeLike for looks_like_code, Ratio for SequenceMatcher's     *)
(* ratio of two core forms in percent, and Kin for core forms that share a  *)
(* token of three letters or more.                                          *)
(***************************************************************************)
EXTENDS ResultRows

CONSTANTS
  Norm, Core,     \* functions on texts
  CodeLike,       \* set of texts
  Ratio,          \* Ratio[a, b], a number of percent
  Kin,            \* set of pairs of core forms
  Threshold,      \* _FUZZY_THRESHOLD, in percent
  ClearLead,      \* 8: how far a clear winner leads
  IncludeFacts,   \* entity_index_include_facts
  Override        \* object named by entity_index_sources, or Nothing

Kinds == {"name", "code"}

-----------------------------------------------------------------------------
(* The index *)

Allowed == {"dim"} \cup IF IncludeFacts THEN {"fact"} ELSE {}

\* The key of the sort: dimensions, then tables, then facts, then by name.
RankKey(objects, o, order) ==
  <<IF objects[o].category = "dim" THEN 0 ELSE 1,
    IF objects[o].kind = "table" THEN 0 ELSE 1,
    IF objects[o].category = "fact" THEN 0 ELSE 1,
    order[o]>>

KeyLess(a, b) ==
  \E i \in 1..4 : a[i] < b[i] /\ \A j \in 1..(i - 1) : a[j] = b[j]

\* An override that is there and has the name column wins over detection.
OverrideHolds(objects) ==
  Override # Nothing /\ Override \in DOMAIN objects /\ "name" \in objects[Override].columns

Detected(objects) ==
  {o \in DOMAIN objects : objects[o].category \in Allowed /\ Kinds \subseteq objects[o].columns}

\* The object the entity's values are read from, if any.
SourceOf(objects, order) ==
  IF OverrideHolds(objects) THEN Override
  ELSE IF Detected(objects) = {} THEN Nothing
  ELSE CHOOSE o \in Detected(objects) :
         \A p \in Detected(objects) \ {o} :
           KeyLess(RankKey(objects, o, order), RankKey(objects, p, order))

\* SELECT DISTINCT code, name, in the order the database yields them; an
\* override without a code column gives the name as the code.
Pairs(object) ==
  LET codeOf(r) == IF "code" \in object.columns THEN r["code"] ELSE r["name"]
      named == Where(object.rows, {r \in ToSet(object.rows) : r["name"] # Null})
  IN [i \in DOMAIN named |-> [code |-> codeOf(named[i]), name |-> named[i]["name"]]]

\* build_entity_index: the pairs kept, or no table for the entity when there is
\* no source, the source fails or it has no names.
EntityTable(objects, order) ==
  LET o == SourceOf(objects, order)
  IN IF o = Nothing THEN <<>>
     ELSE IF objects[o].broken THEN <<>>
     ELSE Pairs(objects[o])

Names(table) == {table[i].name : i \in DOMAIN table}
Codes(table) == {table[i].code : i \in DOMAIN table} \ {Null}

\* name_by_code: setdefault, so the first name under a code's form stays.
NamesByCode(table, form) ==
  LET hits == {i \in DOMAIN table : table[i].code # Null /\ Norm[table[i].code] = form}
  IN IF hits = {} THEN {}
     ELSE {table[CHOOSE i \in hits : \A j \in hits : i <= j].name}

CodesByName(table, form) ==
  {table[i].code : i \in {j \in DOMAIN table : Norm[table[j].name] = form}} \ {Null}

NamesByNorm(table, form) == {n \in Names(table) : Norm[n] = form}
NamesByCore(table, form) == {n \in Names(table) : Core[n] = form}

-----------------------------------------------------------------------------
(* Resolution *)

Outcome(status, value, candidates) ==
  [status |-> status, value |-> value, candidates |-> candidates]

\* Mutant: of several matches one is taken.
AnyOf(names) == Outcome("resolved", CHOOSE n \in names : TRUE, {})

\* A single match is taken, several are put to the user (the first five of
\* them).
OneOrAsk(names) ==
  IF Cardinality(names) = 1 THEN Outcome("resolved", CHOOSE n \in names : TRUE, {})
  ELSE Outcome("ambiguous", Nothing, names)

\* _fuzzy: names close enough, or the best of them if it leads clearly.
Fuzzy(table, core) ==
  LET near == {n \in Names(table) : /\ <<core, Core[n]>> \in Kin
                                    /\ Ratio[core, Core[n]] >= Threshold}
      leads(n) == \A m \in near \ {n} : Ratio[core, Core[n]] - Ratio[core, Core[m]] > ClearLead
  IN IF \E n \in near : leads(n) THEN {CHOOSE n \in near : leads(n)} ELSE near

\* EntityIndex.resolve, tier by tier.
Resolve(table, column, text) ==
  LET norm == Norm[text]
      core == Core[text]
  IN CASE column \notin Kinds \/ table = <<>> -> Outcome("no_index", text, {})
       [] column = "name" /\ text \in Names(table) -> Outcome("exact", text, {})
       [] column = "code" /\ text \in Codes(table) -> Outcome("exact", text, {})
       [] column = "name" /\ text \notin Names(table) /\ text \in CodeLike
            /\ NamesByCode(table, norm) # {} ->
            Outcome("resolved", CHOOSE n \in NamesByCode(table, norm) : TRUE, {})
       [] column = "code" /\ table # <<>> /\ text \notin Codes(table) ->
            IF CodesByName(table, norm) = {} THEN Outcome("unknown", Nothing, {})
            ELSE OneOrAsk(CodesByName(table, norm))
       [] OTHER ->
            IF NamesByNorm(table, norm) # {} THEN OneOrAsk(NamesByNorm(table, norm))
            ELSE IF NamesByCore(table, core) # {} THEN OneOrAsk(NamesByCore(table, core))
            ELSE IF Fuzzy(table, core) = {} THEN Outcome("unknown", Nothing, {})
            ELSE OneOrAsk(Fuzzy(table, core))
=============================================================================
