------------------------------- MODULE Admission -------------------------------
(***************************************************************************)
(* What the admission webhooks do to a Component and to an                 *)
(* ApplicationConfiguration that lists it: a mutating webhook replaces the *)
(* name of a definition by the kind it stands for, a validating webhook    *)
(* lets the object pass or denies it.  Both look at the cluster as it is   *)
(* at the time of the request.                                             *)
(***************************************************************************)
EXTENDS Integers, Sequences, SequencesExt

CONSTANTS
    TraitKinds,     \* kinds of traits, each with a TraitDefinition of its own
    RevisionKinds,  \* those whose definition has revisionEnabled
    Unappliable,    \* those whose appliesToWorkloads leaves this kind of workload out
    WorkloadKind,   \* the kind of the component's workload
    TraitNames,     \* names users give to traits
    NoName,         \* a trait without metadata.name
    Data            \* contents of workloads and traits

ASSUME KindsAssumption ==
    /\ RevisionKinds \subseteq TraitKinds
    /\ Unappliable \subseteq TraitKinds
    /\ WorkloadKind \notin TraitKinds
    /\ NoName \notin TraitNames

\* The spec of a Component: whether its workload is written with its group, version and kind or
\* by the name of a definition, has a name, and has that name set by a parameter.
Content == [form : {"gvk", "type"}, data : Data, named : BOOLEAN,
            nameParam : {"no", "optional", "required"}]

\* A trait is written by kind, by kind with "properties" in place of a spec, or by the name of a
\* definition, which the mutating webhook replaces by the kind and a label.
Trait == [form : {"gvk", "properties", "type", "labelled"}, kind : TraitKinds,
          name : TraitNames \cup {NoName}, data : Data]

\* The entry of a component: componentName set?, the number of revisionName (0: not set), a
\* value for the parameter that sets the workload's name?, and the traits.
Entry == [component : BOOLEAN, pin : Nat, value : BOOLEAN, traits : Seq(Trait)]

Traits(e) == ToSet(e.traits)

-------------------------------------------------------------------------------
(* The mutating webhooks; defined is the set of kinds that have a definition *)

MutateComponent(c) == IF c.form = "type" THEN [c EXCEPT !.form = "gvk"] ELSE c
MutateComponentErr(c, defined) == c.form = "type" /\ WorkloadKind \notin defined

mutateTrait(t) == IF t.form = "type" THEN [t EXCEPT !.form = "labelled"] ELSE t
Mutate(e) == [e EXCEPT !.traits = [i \in DOMAIN @ |-> mutateTrait(@[i])]]
MutateErr(e, defined) == \E t \in Traits(e) : t.form = "type" /\ t.kind \notin defined

-------------------------------------------------------------------------------
(* The validating webhooks; c is the content the entry refers to *)

ValidateComponentObject(c) == c.form = "gvk"

\* isRevisionEnabled: one of the traits has a definition that asks for revisions.
RevisionEnabled(e, defined) == \E t \in Traits(e) : t.kind \in RevisionKinds \cap defined

\* Mutant: the parameters are not checked.
NoCheckParams(c, e) == TRUE

\* checkParams: no value is given for a parameter that sets the name.
checkParams(c, e) == ~(c.nameParam # "no" /\ e.value)

\* PrepareForValidation fails without a definition of the workload or of a trait.
PrepareForValidation(e, defined) ==
    /\ WorkloadKind \in defined
    /\ \A t \in Traits(e) : t.kind \in defined

ValidateTraitObject(e) == \A t \in Traits(e) : t.form \in {"gvk", "labelled"}
ValidateRevisionName(e) == ~(e.component /\ e.pin # 0)
ValidateWorkloadNameForVersioning(c, e, defined) ==
    RevisionEnabled(e, defined) => checkParams(c, e) /\ ~c.named
ValidateTraitAppliableToWorkload(e) == \A t \in Traits(e) : t.kind \notin Unappliable

Valid(c, e, defined) ==
    /\ PrepareForValidation(e, defined)
    /\ ValidateTraitObject(e)
    /\ ValidateRevisionName(e)
    /\ ValidateWorkloadNameForVersioning(c, e, defined)
    /\ ValidateTraitAppliableToWorkload(e)
===============================================================================
