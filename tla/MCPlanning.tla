----------------------------- MODULE MCPlanning -----------------------------
(***************************************************************************)
(* The instance of Planning that TLC checks.  Called with a design the     *)
(* phases go over two names, one of them the other with a number.  Called  *)
(* directly the plan phase meets: no families at all, a chain whose        *)
(* contract is complete, two families without attachment points or only    *)
(* with the parent's, a parent nobody defines with a grandchild under the  *)
(* orphan, a cycle, a name that reads like a helper, and a family the      *)
(* specification does not have.                                            *)
(***************************************************************************)
EXTENDS Planning

MCOrder == <<"arm", "arm1", "base", "hand", "socket">>
MCHelperNames == {"socket"}
MCBaseOf == [f \in {MCOrder[i] : i \in DOMAIN MCOrder} |-> IF f = "arm1" THEN "arm" ELSE f]
MCDesigns == {{"arm", "arm1"}}

Job(parent, spec, points) ==
  [families |-> DOMAIN parent, parent |-> parent, spec |-> spec, points |-> points,
   helpers |-> DOMAIN parent \cap MCHelperNames,
   base |-> [f \in DOMAIN parent |-> MCBaseOf[f]]]

Chain == [base |-> NoFamily, arm |-> "base", hand |-> "arm"]
Orphan == [base |-> "ghost", arm |-> "base"]
Cycle == [base |-> "arm", arm |-> "base"]
Two == [base |-> NoFamily, arm |-> "base"]

MCJobs ==
  { NoJob,
    Job(Chain, DOMAIN Chain, DOMAIN Chain),
    Job(Two, {"base", "arm"}, {}),
    Job(Two, {"base", "arm"}, {"base"}),
    Job(Orphan, {"base", "arm"}, {"base", "arm"}),
    Job(Cycle, {"base", "arm"}, {"base", "arm"}),
    Job([base |-> NoFamily, socket |-> "base"], {"base", "socket"}, {"base", "socket"}),
    Job(Two, {"base"}, {"base", "arm"}) }
=============================================================================
