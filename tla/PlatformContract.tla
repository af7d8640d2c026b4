-------------------------- MODULE PlatformContract --------------------------
(***************************************************************************)
(* The validator of PlatformObject implementations (api/common/validation) *)
(* run on implementations that keep the contract and on ones that do not.  *)
(*                                                                         *)
(* An object is [status, setConditions, setReleases, phase, conditions,    *)
(* releases].  status says what GetStatus returns: a "pointer", a "copy",  *)
(* or "nil".  A setter may "store" the list, "drop" it, "append" it to     *)
(* what is there, "merge" it by type, keep only its "first" entry, store   *)
(* it "inPlace" (in the array of the old list); GetReleaseStatus returns   *)
(* nil if setReleases is "nil".                                            *)
(***************************************************************************)
EXTENDS Naturals, SequencesExt

\* What a setter leaves in the object.
After(style, old, new) ==
    CASE style \in {"store", "inPlace"} -> new
      [] style \in {"drop", "nil"} -> old
      [] style = "append" -> old \o new
      [] style = "merge" -> old \o SetToSeq(ToSet(new) \ ToSet(old))
      [] style = "first" -> IF new = <<>> THEN new ELSE <<Head(new)>>

\* What a list read before shows after a new one was set: its array may have
\* been written to.  A slice has no spare capacity.
Seen(style, old, new) ==
    IF style = "inPlace" /\ Len(new) <= Len(old)
    THEN new \o SubSeq(old, Len(new) + 1, Len(old)) ELSE old

\* Mutant: what was there is not put back.
RoundTripNoRestore(style, old, new) == After(style, old, new)

\* SetX(new), a read, and the deferred SetX(original).
RoundTrip(style, old, new) ==
    After(style, After(style, old, new), Seen(style, old, new))

Probe == <<"validation">>
Mandatory == <<"Ready", "ProvisioningSucceeded">>

\* checkGetStatus.
CheckGetStatus(obj) == obj.status # "nil"

\* checkConditionsRoundTrip: one condition, and its type is compared.
CheckConditionsRoundTrip(obj) == After(obj.setConditions, obj.conditions, Probe) = Probe

\* checkMandatoryConditionTypes: the number, and that both are among them.
CheckMandatoryConditionTypes(obj) ==
    LET got == After(obj.setConditions, obj.conditions, Mandatory)
    IN  Len(got) = Len(Mandatory) /\ ToSet(Mandatory) \subseteq ToSet(got)

CheckReleaseStatusRoundTrip(obj) ==
    obj.setReleases # "nil" /\ After(obj.setReleases, obj.releases, Probe) = Probe

\* checkPhaseValues: both phases are written to what GetStatus returned.
CheckPhaseValues(obj) ==
    CASE obj.status = "pointer" -> TRUE
      [] obj.status = "copy" -> \A p \in {"Ready", "NotReady"} : obj.phase = p
      [] OTHER -> FALSE

\* Validate runs all the checks one after the other; each leaves the object
\* as RoundTrip does.
AfterConditions(obj) ==
    [obj EXCEPT !.conditions = RoundTrip(obj.setConditions, @, Probe)]
AfterMandatory(obj) ==
    [obj EXCEPT !.conditions = RoundTrip(obj.setConditions, @, Mandatory)]
AfterReleases(obj) ==
    IF obj.setReleases = "nil" THEN obj
    ELSE [obj EXCEPT !.releases = RoundTrip(obj.setReleases, @, Probe)]

Validated(obj) == AfterReleases(AfterMandatory(AfterConditions(obj)))
Accepted(obj) ==
    /\ CheckGetStatus(obj)
    /\ CheckConditionsRoundTrip(obj)
    /\ CheckMandatoryConditionTypes(AfterConditions(obj))
    /\ CheckReleaseStatusRoundTrip(obj)
    /\ CheckPhaseValues(obj)

-----------------------------------------------------------------------------

\* GetX(SetX(l)) is l, whatever was there.
Keeps(style, lists) == \A old, new \in lists : After(style, old, new) = new

\* Setters of releases that do not keep them and that one release does not
\* tell from those that do.
PassesUnnoticed(obj) ==
    obj.setReleases = "first" \/ (obj.setReleases = "append" /\ obj.releases = <<>>)

\* The verdict, whatever the object holds: accepted are the implementations
\* that keep the contract, phases written through GetStatus and every list of
\* conditions and releases kept; and, because releases are tried with a
\* single one (validate.go:195), those whose setter keeps only the first, or
\* appends when there are none yet.  No other.
VerdictIsExact(obj, lists) ==
    Accepted(obj) <=>
        /\ obj.status = "pointer" /\ Keeps(obj.setConditions, lists)
        /\ Keeps(obj.setReleases, lists) \/ PassesUnnoticed(obj)

\* When an accepted object is left as it was, which the comments promise of
\* all ("doesn't leave side effects", validate.go:94, :131, :192): setters
\* that store do that.  One that writes into the array the validator still
\* holds restores only an empty list, or what already began like the probe;
\* one that keeps the first release, a list of at most one; one that
\* appends, never.
TraceIsExact(obj) ==
    Accepted(obj) =>
        (Validated(obj) = obj <=>
            /\ obj.setConditions = "inPlace" =>
                  obj.conditions = <<>> \/ IsPrefix(Mandatory, obj.conditions)
            /\ obj.setReleases = "inPlace" => obj.releases = <<>>
            /\ obj.setReleases = "first" => Len(obj.releases) <= 1
            /\ obj.setReleases # "append")
=============================================================================
