---------------------------- MODULE ActionPlans ----------------------------
(***************************************************************************)
(* What Python makes of a language model's answers to a todo of the        *)
(* Builder.  The first is a Markdown operation: parse_builder_intent       *)
(* (core/builder_intent.py) looks for an operation and a target in it.     *)
(* From one that is understood the model extracts a JSON object, which     *)
(* parse_agent_action_plan (core/action_plan.py) brings from the many      *)
(* shapes models use into one: parts, or steps, with lists of actions.     *)
(*                                                                         *)
(* An object is a function from its keys to their values; an answer that is*)
(* no JSON object counts as one without any key that the code looks for.   *)
(* The aliases of a key are one key, and the names in an answer are the    *)
(* names of the scene: spelling, escapes and numbers are left out.         *)
(***************************************************************************)
EXTENDS Integers, Sequences

CONSTANT NoObject

(* A name in the scene: instance i of f is f_0i, number 0 is f_source, and *)
(* number -1 is the name of the family itself.                             *)
Template(f) == <<f, 0>>
Namesake(f) == <<f, -1>>
Instance(f, i) == <<f, i>>

(* An action: move is to any place, place to the planned one.  The         *)
(* parameter "to" is the other object of two of them.                      *)
Do(op, o, to) == [op |-> op, object |-> o, to |-> to]

(* BUILD_ACTIONS, ASSEMBLY_ACTIONS and OPTIONAL_METADATA_ACTIONS.          *)
BuildOps == {"create", "scale", "duplicate", "delete", "move", "show", "rotate"}
AssemblyOps == {"show", "move", "place", "rotate", "parent", "scale"}
MetadataOps == {"color"}

-----------------------------------------------------------------------------
(* The Markdown answer.                                                    *)

Intents == {"create", "place", "material"}

(* What its first section of an operation says, whether the text has a     *)
(* heading "## Operation" or "## Intent", a target, parameters, and whether*)
(* it echoes the call of the builder with all that call needs.             *)
Answers == [said : Intents \cup {"other", "nothing"}, heading : BOOLEAN,
            target : BOOLEAN, parameters : BOOLEAN, echo : BOOLEAN]

EchoedCall(a) == a.said = "nothing" /\ ~a.target /\ ~a.parameters /\ a.echo

Understood(a) == EchoedCall(a) \/ (a.said \in Intents /\ a.target)

(* Python's own actions take the place of an answer that says nothing.     *)
Ignored(a) == ~Understood(a) /\ a.said = "nothing" /\ ~a.heading

Reading(a) ==
  IF Understood(a) THEN "understood" ELSE IF Ignored(a) THEN "ignored" ELSE "refused"
Readings == {Reading(a) : a \in Answers}

-----------------------------------------------------------------------------
(* Parts and steps.                                                        *)

Has(d, key) == key \in DOMAIN d
With(d, key, value) == [k \in DOMAIN d \cup {key} |-> IF k = key THEN value ELSE d[k]]
Default(d, key, value) == IF Has(d, key) THEN d ELSE With(d, key, value)

(* source_object_name and instance_names where an item does not give them. *)
FirstCreated(acts) ==
  LET created == SelectSeq(acts, LAMBDA a : a.op = "create")
  IN  IF created = <<>> THEN NoObject ELSE created[1].object
DuplicatedBy(acts) == {acts[k].to : k \in {j \in DOMAIN acts : acts[j].op = "duplicate"}}

Filled(item) ==
  LET acts == IF Has(item, "actions") THEN item.actions
              ELSE IF Has(item, "steps") THEN item.steps ELSE <<>>
  IN  [source |-> IF Has(item, "source") THEN item.source ELSE FirstCreated(acts),
       names |-> IF Has(item, "names") THEN item.names ELSE DuplicatedBy(acts),
       actions |-> acts]

(* A list of nothing but actions, the empty list too, is one item.         *)
Items(list) ==
  IF \A k \in DOMAIN list : Has(list[k], "op") THEN <<[actions |-> list]>>
  ELSE [k \in DOMAIN list |-> Filled(list[k])]

-----------------------------------------------------------------------------
(* The shapes of the object, in the order in which the code looks for them.*)

Unwrapped(d) == IF Has(d, "inner") THEN d.inner ELSE d

Renamed(d, old, new) ==
  IF Has(d, old) /\ ~Has(d, new) THEN Default(With(d, new, Items(d[old])), "status", "ready")
  ELSE d

Sequenced(d) ==
  IF ~Has(d, "action_sequence") \/ Has(d, "actions") THEN d
  ELSE With(d, "actions",
            (IF Has(d, "action_type") THEN <<d.action_type>>
             ELSE IF Has(d, "command") THEN <<d.command>> ELSE <<>>) \o d.action_sequence)

Numbered(d) == [i \in 1 .. d.count |-> Instance(d.family, i)]

(* placement_rule: every instance is shown, moved, and put under a parent. *)
PlacementActions(d) ==
  LET objects == IF Has(d, "instances") THEN d.instances ELSE Numbered(d)
      each(o) == <<Do("show", o, NoObject), Do("move", o, NoObject)>>
                   \o (IF Has(d, "parent") THEN <<Do("parent", o, d.parent)>> ELSE <<>>)
      width == IF Has(d, "parent") THEN 3 ELSE 2
  IN  [k \in 1 .. width * Len(objects) |->
         each(objects[((k - 1) \div width) + 1])[((k - 1) % width) + 1]]

FromPlacement(d) ==
  IF Has(d, "placement_rule") /\ ~Has(d, "actions") /\ ~Has(d, "steps")
  THEN Default(With(d, "steps", Items(<<With(d, "actions", PlacementActions(d))>>)),
               "status", "ready")
  ELSE d

(* primitive_type: a template is made, duplicated and deleted.             *)
PrimitiveActions(d) ==
  LET t == IF Has(d, "source") THEN d.source ELSE Template(d.family)
  IN  <<Do("create", t, NoObject)>>
        \o (IF Has(d, "scale") THEN <<Do("scale", t, NoObject)>> ELSE <<>>)
        \o [i \in 1 .. d.count |-> Do("duplicate", t, Numbered(d)[i])]
        \o <<Do("delete", t, NoObject)>>

FromPrimitive(d) ==
  IF Has(d, "primitive_type") /\ ~Has(d, "actions") /\ ~Has(d, "parts") /\ ~Has(d, "steps")
  THEN LET parts == With(d, "parts", Items(<<With(d, "actions", PrimitiveActions(d))>>))
       IN  IF Has(d, "status") /\ d.status \in {"", "pending"}
           THEN With(parts, "status", "ready") ELSE Default(parts, "status", "ready")
  ELSE d

(* One action, with others that depend on it; they may name the instances. *)
Following(d) == IF Has(d, "dependencies") THEN d.dependencies ELSE <<>>

FromAction(d) ==
  IF Has(d, "action_type") /\ ~Has(d, "actions") /\ ~Has(d, "parts") /\ ~Has(d, "steps")
  THEN LET named == IF Has(d, "inferred") THEN With(d, "names", d.inferred) ELSE d
           ready == IF Has(d, "status") /\ d.status = "" THEN With(named, "status", "ready")
                    ELSE Default(named, "status", "ready")
       IN  With(ready, "actions", <<d.action_type>> \o Following(d))
  ELSE d

FromCommand(d) ==
  IF Has(d, "command") /\ ~Has(d, "actions")
  THEN Default(With(d, "actions", <<d.command>> \o Following(d)), "status", "ready")
  ELSE d

(* A bare list of actions goes to the parts or to the steps.               *)
FromActions(d, list) ==
  IF Has(d, "actions") /\ ~Has(d, "parts") /\ ~Has(d, "steps")
  THEN Default(With(d, list, Items(<<d>>)), "status", "ready")
  ELSE d

Shaped(d, list) ==
  FromActions(FromCommand(FromAction(FromPrimitive(FromPlacement(Sequenced(
    Renamed(Renamed(Unwrapped(d), "build_actions", "parts"), "assembly_actions", "steps")))))),
    list)

-----------------------------------------------------------------------------
(* The plan.                                                               *)

Refused == [status |-> "error", parts |-> <<>>, steps |-> <<>>]

(* Metadata actions are dropped, any other unknown action is an error.     *)
Kept(items, ops) ==
  [k \in DOMAIN items |->
     [items[k] EXCEPT !.actions = SelectSeq(@, LAMBDA a : a.op \notin MetadataOps \ ops)]]
Supported(items, ops) ==
  \A k \in DOMAIN items : \A j \in DOMAIN items[k].actions : items[k].actions[j].op \in ops

StatusOf(d) ==
  IF ~Has(d, "status") THEN "" ELSE IF d.status = "done" THEN "ready" ELSE d.status

(* parse_agent_action_plan: list is "parts" for a build, "steps" for a     *)
(* placement.                                                              *)
Parsed(payload, list, ops) ==
  LET d == Shaped(payload, list)
      parts == Kept(Items(IF Has(d, "parts") THEN d.parts ELSE <<>>), ops)
      steps == Kept(Items(IF Has(d, "steps") THEN d.steps ELSE <<>>), ops)
  IN  CASE StatusOf(d) \in {"blocked", "needs_revision"} ->
             [status |-> StatusOf(d), parts |-> parts, steps |-> steps]
        [] StatusOf(d) = "ready" /\ Supported(parts, ops) /\ Supported(steps, ops) ->
             [status |-> "ready", parts |-> parts, steps |-> steps]
        [] OTHER -> Refused

(* The extraction is tried twice; of the first answer only its error is    *)
(* kept, as a question for the second.                                     *)
Tries(results) ==
  (results \ {Refused})
    \cup {[r EXCEPT !.status = "failed"] : r \in results \cap {Refused}}
=============================================================================
