--------------------------- MODULE MCBuilderTodos ---------------------------
(* The instance of BuilderTodos that TLC checks: a body and the legs under *)
(* it.  The plans of the language model create a template or not, leave    *)
(* out or only declare instances, and delete nothing, the template, or an  *)
(* instance of their own or of the other family; they come in each of the  *)
(* shapes that Python knows, and in some that it refuses.                  *)
EXTENDS BuilderTodos

CONSTANTS body, leg

MCFamilies == {body, leg}
MCCount == [f \in MCFamilies |-> IF f = leg THEN 2 ELSE 1]
MCParent == [f \in MCFamilies |-> IF f = leg THEN body ELSE NoFamily]

Other(f) == IF f = leg THEN body ELSE leg

Duplicates(t, f, S) ==
  SelectSeq([i \in 1 .. MCCount[f] |-> Do("duplicate", t, Instance(f, i))],
            LAMBDA a : a.to \in S)

Deletions(t, f) ==
  {<<>>} \cup {<<Do("delete", o, NoObject)>> : o \in {t, Instance(f, 1), Instance(Other(f), 1)}}

OnePart(t, f, creates, S, declared, deletes) ==
  [status |-> "ready",
   parts |-> <<[source |-> t, names |-> declared,
                actions |-> creates \o Duplicates(t, f, S) \o deletes]>>]

Given(f) ==
  UNION {{OnePart(t, f, creates, S, declared, deletes) :
            creates \in {<<>>, <<Do("create", t, NoObject)>>},
            S \in SUBSET {Instance(f, i) : i \in 1 .. MCCount[f]},
            declared \in {{}, {Instance(f, MCCount[f])}},
            deletes \in Deletions(t, f)} : t \in {Template(f), Instance(f, 1)}}

(* A second part that cannot be executed to its end.                       *)
TwoParts(f) ==
  [status |-> "done",
   parts |-> <<[source |-> Template(f), names |-> {},
                actions |-> <<Do("create", Template(f), NoObject)>>],
               [source |-> Namesake(f), names |-> {Instance(f, 1)},
                steps |-> <<Do("move", Instance(f, 1), NoObject)>>]>>]

(* The other shapes, with the last instance made, claimed, or neither.     *)
Create(f) == Do("create", Template(f), NoObject)
Copy(f) == Do("duplicate", Template(f), Instance(f, MCCount[f]))
Shapes(f) ==
  {[inner |-> [build_actions |-> <<Create(f), Do("color", Template(f), NoObject)>>]],
   [status |-> "ready", parts |-> <<Create(f), Copy(f)>>],
   [action_sequence |-> <<Copy(f)>>, action_type |-> Create(f)],
   [action_type |-> Create(f), inferred |-> {Instance(f, MCCount[f])}, status |-> ""],
   [command |-> Create(f), dependencies |-> <<Copy(f)>>, status |-> "done"],
   [primitive_type |-> "cube", family |-> f, count |-> 1, status |-> "pending"],
   [primitive_type |-> "cube", source |-> Instance(f, 1), scale |-> "planned",
    family |-> f, count |-> MCCount[f]]}

(* Without parts, with an unknown action or status, and not executable.    *)
Poor(f) ==
  {[status |-> "ready"],
   [status |-> "ready", parts |-> <<Create(f), Do("bend", Template(f), NoObject)>>],
   [status |-> "pending", actions |-> <<Create(f)>>],
   [text |-> "none"], [status |-> "blocked"], [status |-> "needs_revision"]}

Placements(f) ==
  {[placement_rule |-> "centred", family |-> f, count |-> MCCount[f]],
   [placement_rule |-> "centred", instances |-> <<Instance(f, 1)>>, parent |-> Namesake(f)],
   [assembly_actions |-> <<Do("show", Instance(f, 1), NoObject)>>],
   [command |-> Do("place", Instance(f, 1), NoObject)]}

MCBuildPayloads ==
  [f \in MCFamilies |-> Given(f) \cup {TwoParts(f)} \cup Shapes(f) \cup Placements(f) \cup Poor(f)]
MCPlacePayloads == [f \in MCFamilies |-> Placements(f) \cup Poor(f)]
MCLeftovers == {Instance(body, 1), Instance(leg, 1), Template(leg)}
=============================================================================
