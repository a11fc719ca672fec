-------------------------- MODULE MCSubstitutions --------------------------
(***************************************************************************)
(* Substitutions and Membership on small instances.  A behaviour is one of *)
(* a single part: what both depend on (who is here, who has a class) each  *)
(* has in its own variables.  Substitutions stays in an initial state      *)
(* while Membership moves; the variables of Membership are None, or empty, *)
(* while it does not.                                                      *)
(***************************************************************************)
EXTENDS Substitutions, TLC

CONSTANTS Parts, i1, i2, l1, l2, t1, t2, k1, v1, h1, h2, c1, a1, b1,
          Teachers, Students, Drivers, Principals, Sections, Classes, ClassOf, Roles, Groups

\* A role is no other call, a principal is neither teacher nor driver, and a section has one class.
ASSUME RolesAssumption == Roles \cap {"none", "leave", "return", "create", "update", "slot", "two", "one", "oneforced",
                                     "drive", "ride", "riders", "mark", "dropsection", "dropclass"} = {}
ASSUME PeopleAssumption == Principals \cap (Teachers \cup Drivers) = {}
ASSUME ClassAssumption ==
    /\ ClassOf \in [Sections -> Classes]
    /\ \A g \in Groups : g.sections \subseteq Sections /\ g.vehicle \in BOOLEAN

VARIABLES part,
          group, user, sections, classes, place, lastPlace, assigned, slot, periods,
          vehicle, shift, driver, riders, shiftRiders, recorded, request

\* Two colleagues for one teacher, one colleague for two, both without leaves;
\* a leave with two colleagues; a leave and a departure; two leaves.
TwoAsked == [staff |-> 1..3, teaches |-> {2}, subs |-> {i1, i2}, leaves |-> {}]
OneAsked == [staff |-> 1..3, teaches |-> {2, 3}, subs |-> {i1, i2}, leaves |-> {}]
OnLeave == [staff |-> {2, 4, 5}, teaches |-> {4}, subs |-> {i1, i2}, leaves |-> {l1}]
Leaving == [staff |-> 1..2, teaches |-> {1}, subs |-> {i1, i2}, leaves |-> {l1}]
TwoLeaves == [staff |-> 4..5, teaches |-> {4}, subs |-> {i1}, leaves |-> {l1, l2}]
All == {TwoAsked, OneAsked, OnLeave, Leaving, TwoLeaves}
JustTwoAsked == {TwoAsked}

\* Two teachers and one section; one teacher and two; a student, a driver and a bus; two principals.
Staffed(people, at, bus) == [people |-> people, sections |-> at, vehicle |-> bus]
FourGroups == {Staffed({t1, t2}, {a1}, FALSE), Staffed({t1}, {a1, b1}, FALSE),
               Staffed({k1, v1}, {a1}, TRUE), Staffed({h1, h2}, {}, FALSE)}
OneClass == [s \in {a1, b1} |-> c1]

Member == INSTANCE Membership WITH call <- request
member == <<group, user, sections, classes, place, lastPlace, assigned, slot, periods,
            vehicle, shift, driver, riders, shiftRiders, recorded, request>>

NoMember ==
    /\ group = None /\ user = None /\ sections = None /\ classes = None /\ place = None /\ lastPlace = None
    /\ assigned = None /\ slot = None /\ periods = None /\ vehicle = None /\ shift = None /\ driver = None
    /\ riders = None /\ shiftRiders = None /\ recorded = {} /\ request = None

SchoolInit ==
    /\ part \in Parts
    /\ Init /\ (part # "substitutions" => staff = TwoAsked.staff /\ teaches = TwoAsked.teaches)
    /\ IF part = "membership" THEN Member!Init ELSE NoMember

SchoolNext ==
    \/ part = "substitutions" /\ Next /\ UNCHANGED <<part, member>>
    \/ part = "membership" /\ Member!Next /\ UNCHANGED <<part, vars>>

SchoolSpec == SchoolInit /\ [][SchoolNext]_<<part, vars, member>>

Symmetry == Permutations(Calls) \cup Permutations(SubIds) \cup Permutations(LeaveIds)

\* The tables, the calls and the locks of both parts keep to their types.
TypesOK == TypeOK /\ (part = "membership" => Member!TypeOK)

\* Places fit the people who have them, and what is recorded about people outlives their places.
PlacesHold == [](part = "membership" => Member!PlacesHold) /\ Member!RecordsSurvive
LeftHasNoPlace == part = "membership" => Member!LeftHasNoPlace
=============================================================================
