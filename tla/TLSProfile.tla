----------------------------- MODULE TLSProfile -----------------------------
(***************************************************************************)
(* How framework/tls turns the TLS profile of an OpenShift cluster into    *)
(* settings, for flags of operands (profile.go) and for the servers of the *)
(* manager (config.go): leniently, with Intermediate in place of what it   *)
(* cannot use, or strictly, with an error.                                 *)
(*                                                                         *)
(* A profile is [type, custom]; a spec is [min, ciphers, groups].  Cipher  *)
(* names are told apart by what Go can do with them: suites of TLS 1.2 and *)
(* before, suites of TLS 1.3, RC4, and names it does not know.             *)
(***************************************************************************)
EXTENDS Naturals

NoSpec == [min |-> "none", ciphers |-> {}, groups |-> {}]
TLSError == [min |-> "error", ciphers |-> {}, groups |-> {}]

\* configv1.TLSProfiles.
TLSProfiles ==
    [Old          |-> [min |-> "1.0", ciphers |-> {"tls12", "tls13", "rc4"}, groups |-> {}],
     Intermediate |-> [min |-> "1.2", ciphers |-> {"tls12", "tls13"}, groups |-> {}],
     Modern       |-> [min |-> "1.3", ciphers |-> {"tls13"}, groups |-> {}]]
Intermediate == TLSProfiles["Intermediate"]

KnownTLSVersions == {"1.0", "1.1", "1.2", "1.3"}
IsVersionSupported(v) == v \in {"1.2", "1.3"}

\* strictProfileSpec; commonTLS.GetTLSProfileSpec fails for the same ones.
StrictProfileSpec(p) ==
    IF p.type = "" THEN Intermediate
    ELSE IF p.type = "Custom" THEN IF p.custom = NoSpec THEN TLSError ELSE p.custom
    ELSE IF p.type \in DOMAIN TLSProfiles THEN TLSProfiles[p.type]
    ELSE TLSError

\* ProfileSpecFromSecurityProfile.
LenientProfileSpec(p) ==
    IF StrictProfileSpec(p) = TLSError THEN Intermediate ELSE StrictProfileSpec(p)

\* cipherSuitesForMinVersion: what Go lets a server choose.
CipherSuitesForMinVersion(ciphers, min) ==
    {c \in ciphers : c = "tls12" \/ (c = "tls13" /\ min = "1.3")}

MinVersionFromSpec(spec) ==
    IF spec.min \in KnownTLSVersions THEN spec.min ELSE Intermediate.min

CipherSuitesFromSpec(spec) ==
    LET usable == CipherSuitesForMinVersion(spec.ciphers, spec.min)
    IN  IF usable # {} THEN usable
        ELSE CipherSuitesForMinVersion(Intermediate.ciphers, Intermediate.min)

\* CurvePreferencesFromSpec fails if it cannot use any of the groups.
CurvesUsable(spec) == spec.groups = {} \/ "curve" \in spec.groups
CurvePreferences(spec) == spec.groups \intersect {"curve"}

\* The spec both lenient functions go on with: a version below 1.2 takes
\* the whole profile with it.
Floored(p) ==
    LET spec == LenientProfileSpec(p)
    IN  IF IsVersionSupported(spec.min) THEN spec ELSE Intermediate

\* FromProfile: curve preferences it cannot use do not matter.
FromProfile(p) ==
    [min |-> MinVersionFromSpec(Floored(p)), ciphers |-> CipherSuitesFromSpec(Floored(p)),
     groups |-> {}]

FromProfileWithCurvePreferences(p) ==
    IF ~CurvesUsable(Floored(p)) THEN TLSError
    ELSE [FromProfile(p) EXCEPT !.groups = CurvePreferences(Floored(p))]

ValidStrictTLSProfile(spec) ==
    /\ spec.min \in KnownTLSVersions
    /\ spec.min # "1.3" => CipherSuitesForMinVersion(spec.ciphers, spec.min) # {}
    /\ CurvesUsable(spec)

\* Mutant: versions below 1.2 are raised.
FromProfileStrictFloored(p) ==
    LET spec == StrictProfileSpec(p)
    IN  IF spec = TLSError \/ ~ValidStrictTLSProfile(spec) THEN TLSError
        ELSE [min |-> IF IsVersionSupported(spec.min) THEN spec.min ELSE Intermediate.min,
              ciphers |-> CipherSuitesForMinVersion(spec.ciphers, spec.min),
              groups |-> CurvePreferences(spec)]

\* FromProfileStrict, with or without curve preferences.
FromProfileStrict(p) ==
    LET spec == StrictProfileSpec(p)
    IN  IF spec = TLSError \/ ~ValidStrictTLSProfile(spec) THEN TLSError
        ELSE [min |-> MinVersionFromSpec(spec),
              ciphers |-> CipherSuitesForMinVersion(spec.ciphers, spec.min),
              groups |-> CurvePreferences(spec)]

\* filterTLS13CipherSuites and filterRC4CipherSuites.
FilterTLS13(ciphers) == ciphers \ {"tls13"}
FilterRC4(ciphers) == ciphers \ {"rc4"}

\* ConfigFromProfileWithError: the library skips names it does not know, and
\* from TLS 1.3 on it leaves the suites unset ({}), which are then Go's own.
ConfigFromProfile(spec) ==
    LET min == MinVersionFromSpec(spec)
        usable == FilterRC4(FilterTLS13(spec.ciphers)) \ {"unknown"}
    IN  [min |-> min, ciphers |-> IF min = "1.3" THEN {} ELSE usable,
         groups |-> CurvePreferences(spec)]

ConfigFromProfileStrict(spec) ==
    IF ValidStrictTLSProfile(spec) THEN ConfigFromProfile(spec) ELSE TLSError

\* An unknown policy counts as strict.
ShouldHonorClusterTLSProfile(adherence) == adherence \notin {"NoOpinion", "Legacy"}

\* FromAPIServerWithAdherence: failed is what Get returns instead of an
\* object, "" if it returns one.
FromAPIServerWithAdherence(failed, p, adherence) ==
    IF failed \notin {"", "notFound", "noMatch"} THEN TLSError
    ELSE IF failed # "" \/ ~ShouldHonorClusterTLSProfile(adherence)
    THEN FromProfile([type |-> "", custom |-> NoSpec])
    ELSE FromProfileStrict(p)

\* isTransientAPIError, by the kind of failure: what may be a certificate
\* that is not trusted is not transient.
IsTransientAPIError(failed) ==
    failed \in {"timeout", "unavailable", "throttled", "dial", "proxyDial", "dns", "eof"}

-----------------------------------------------------------------------------

\* What is not strict never goes below TLS 1.2 and never offers RC4 or no
\* suite at all, whatever the cluster's profile says (profile.go:214).
LenientIsNeverWeak(p) ==
    LET s == FromProfile(p)
    IN  /\ IsVersionSupported(s.min)
        /\ s.ciphers # {} /\ s.ciphers \subseteq {"tls12", "tls13"}

\* What is strict is the cluster's own profile or an error, never a weaker
\* or another one (profile.go:325).
StrictIsTheCluster(p) ==
    LET s == FromProfileStrict(p)
    IN  s # TLSError =>
            /\ s.min = StrictProfileSpec(p).min
            /\ s.ciphers \subseteq StrictProfileSpec(p).ciphers \ {"rc4", "unknown"}
            /\ s.min # "1.3" => s.ciphers # {}

\* Settings as a server of the manager can have them: the suites of TLS 1.3
\* cannot be chosen, only those of the versions before.
OfServers(settings) ==
    [settings EXCEPT !.ciphers = IF settings.min = "1.3" THEN {} ELSE @]

\* The manager's servers and the operands, which get the same profile along
\* two paths, refuse the same profiles and end up with the same version, the
\* same curves and, below TLS 1.3, the same suites.  With TLS 1.3 operands
\* get the profile's suites as flags, the servers have Go's (config.go:25).
FlagsAgreeWithConfig(p) ==
    LET spec == StrictProfileSpec(p)
    IN  spec # TLSError => OfServers(FromProfileStrict(p)) = ConfigFromProfileStrict(spec)
=============================================================================
